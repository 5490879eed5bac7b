----------------------------- MODULE TextBuffers -----------------------------
(***************************************************************************)
(* Text handed over in UTF-16 buffers (utf16.rs).  Of a text only its      *)
(* length in code units matters here, of a buffer its size in code units;  *)
(* NullPointer is a buffer the application does not give.                  *)
(***************************************************************************)
EXTENDS Integers

NullPointer == -9

\* A text argument: the units before its terminator when the length is any
\* negative one (taken for SQL_NTS), else as many units as the length says.
\* A scan that meets no terminator within MaxScan units is HY090.
NotTerminated == -1
utf16_to_string(terminator, length, MaxScan) ==
  IF length >= 0 THEN [state |-> "00000", units |-> length]
  ELSE IF terminator = NotTerminated \/ terminator >= MaxScan THEN [state |-> "HY090", units |-> 0]
  ELSE [state |-> "00000", units |-> terminator]

\* A fault: the room for the terminator is not reserved.
WriteUnterminated(units, buffer) ==
  [ret |-> IF buffer # NullPointer /\ (buffer <= 0 \/ buffer < units) THEN "SUCCESS_WITH_INFO"
           ELSE "SUCCESS",
   copied |-> IF buffer <= 0 THEN 0 ELSE IF units < buffer THEN units ELSE buffer,
   reported |-> units]

\* Without a buffer only the length is told.  A buffer of no room holds not
\* even the terminator: nothing is written, and the text counts as truncated.
write_utf16(units, buffer) ==
  LET room == buffer - 1
  IN  [ret |-> IF buffer = NullPointer \/ (buffer > 0 /\ units <= room) THEN "SUCCESS"
               ELSE "SUCCESS_WITH_INFO",
       copied |-> IF buffer <= 0 THEN 0 ELSE IF units < room THEN units ELSE room,
       reported |-> units]

\* The bytes of buffers counted in bytes (SQLGetInfo, SQLGetDiagField): half
\* as many units, an odd byte left over.
write_bytes(units, bytes) ==
  [write_utf16(units, IF bytes = NullPointer THEN bytes ELSE bytes \div 2) EXCEPT !.reported = @ * 2]

\* note_truncation: what a truncation leaves in the diagnostics.
note_truncation(written) == IF written.ret = "SUCCESS_WITH_INFO" THEN <<"01004">> ELSE <<>>
=============================================================================
