------------------------------ MODULE Retrieval ------------------------------
(***************************************************************************)
(* How a row reaches the application: the bound-column loop of SQLFetch,   *)
(* and SQLGetData, which returns a long value in parts and remembers how   *)
(* far it has got (fetch.rs, the writers of column_value.rs).  A value is  *)
(* what the writers ask of it: the length of its character, wide and       *)
(* binary forms, of its whole digits, and how a fixed-width C type takes   *)
(* it; Conversions says what that type then holds.                         *)
(***************************************************************************)
EXTENDS Integers, Sequences, FiniteSets, FiniteSetsExt, ListedStates

CONSTANTS
  ColumnCount,  \* of the result set
  Rows,         \* rows the backend may yield: a value per column
  Bindings,     \* what the ARD may hold: a binding or Unbound per column
  Requests      \* what SQLGetData is called with: column, C type, buffer length,
                \* and whether there is an indicator

VARIABLES
  open,      \* cursor_open
  row,       \* the row the backend's cursor is on
  pending,   \* the backend holds a value warning nobody took
  bound,     \* the ARD records SQLFetch reads
  position,  \* get_data_cursor
  memory,    \* what the last fetch left in each bound buffer
  report,    \* and in the rows-fetched and row-status buffers
  given,     \* history: what the parts of one column have amounted to
  last       \* the last call, its answer and its diagnostic records

vars == <<open, row, pending, bound, position, memory, report, given, last>>

Column == 1 .. ColumnCount
Unbound == [c |-> "none"]
NoRow == <<>>
NoPosition == [column |-> 0]
NoCache == [c |-> "none"]
Nothing == [column |-> 0]
Untouched == [c \in Column |-> "untouched"]
Unreported == [rows |-> -1, status |-> "untouched"]

\* The C types a value can be written as, apart from SQL_C_DEFAULT.
CType == {"char", "wchar", "binary", "fixed"}

\* A ColumnValue; the text of a number has at least its whole digits.
ColumnValue ==
  [kind : {"text", "bytes", "number", "interval", "datetime", "guid", "null", "failing"},
   chars : Nat, wide : Nat, bytes : Nat, whole : Nat, natural : CType, width : Nat,
   fixed : {"00000", "01S07", "07006", "22003", "22007", "22015", "22018"}, warns : BOOLEAN]
HasWholeDigits(v) ==
  v.kind \in {"number", "interval"} => v.whole <= v.chars /\ v.whole <= v.wide

Binding == [c : CType \cup {"default"}, size : Int, pointer : BOOLEAN, indicator : BOOLEAN]

ASSUME ColumnsAssumption == ColumnCount \in Nat \ {0}
ASSUME RowsAssumption == /\ Rows \subseteq [Column -> ColumnValue]
                         /\ \A r \in Rows, c \in Column : HasWholeDigits(r[c])
ASSUME BindingsAssumption == Bindings \subseteq [Column -> Binding \cup {Unbound}]
ASSUME RequestsAssumption ==
  Requests \subseteq Nat \X (CType \cup {"default", "unknown"}) \X Int \X BOOLEAN

Init ==
  /\ open = FALSE /\ row = NoRow /\ pending = FALSE
  /\ bound \in Bindings
  /\ position = NoPosition /\ given = Nothing
  /\ memory = Untouched /\ report = Unreported
  /\ last = [op |-> "none", column |-> 0, ret |-> "SUCCESS", diagnostics |-> <<>>]

-----------------------------------------------------------------------------
(***************************************************************************)
(* The writers.  01S07 is raised as an error, after the value is written.  *)
(***************************************************************************)
UnitSize(c) == IF c = "wchar" THEN 2 ELSE 1
Outcome(state, delivered, chunkable) ==
  [state |-> state, delivered |-> delivered, chunkable |-> chunkable]
Stops(write) == write.state \notin {"00000", "01004"}
Return(state) ==
  CASE state = "00000" -> "SUCCESS"
    [] state \in {"01004", "01S07"} -> "SUCCESS_WITH_INFO"
    [] OTHER -> "ERROR"

\* SQL_C_DEFAULT takes the C type of the value, fixed-width or wide.
TargetOf(v, c) == IF c = "default" THEN v.natural ELSE c
Length(v, c) ==
  CASE TargetOf(v, c) = "char" -> v.chars
    [] TargetOf(v, c) = "wchar" -> v.wide
    [] TargetOf(v, c) = "binary" -> v.bytes
    [] OTHER -> 0

\* write_wchar_units, write_char_bytes, write_binary: a character part keeps
\* room for its terminator, a buffer without room for one gets nothing.
Capacity(c, size) ==
  IF c = "binary" THEN size ELSE (size \div UnitSize(c)) - 1
\* A fault: the terminator is forgotten when the remainder is compared.
WriteUnitsShort(total, c, buffer, offset) ==
  LET remaining == IF total > offset THEN total - offset ELSE 0
      copied == Min({remaining, Capacity(c, buffer.size)})
  IN IF ~buffer.pointer THEN Outcome("00000", 0, TRUE)
     ELSE IF buffer.size < UnitSize(c) THEN Outcome("01004", 0, TRUE)
     ELSE Outcome(IF copied + 1 < remaining THEN "01004" ELSE "00000", copied, TRUE)
WriteUnits(total, c, buffer, offset) ==
  LET remaining == IF total > offset THEN total - offset ELSE 0
      copied == Min({remaining, Capacity(c, buffer.size)})
  IN IF ~buffer.pointer THEN Outcome("00000", 0, TRUE)
     ELSE IF buffer.size < UnitSize(c) THEN Outcome("01004", 0, TRUE)
     ELSE Outcome(IF copied < remaining THEN "01004" ELSE "00000", copied, TRUE)

\* check_whole_digits_fit: asked of the whole value, whatever the offset.
WholeDigitsCut(v, c, buffer) ==
  /\ v.kind \in {"number", "interval"} /\ buffer.pointer /\ buffer.size >= UnitSize(c)
  /\ buffer.size < (v.whole + 1) * UnitSize(c)

WriteNamed(v, c, buffer, offset) ==
  CASE c \in {"char", "wchar"} ->
         IF WholeDigitsCut(v, c, buffer) THEN Outcome("22003", 0, FALSE)
         ELSE WriteUnits(Length(v, c), c, buffer, offset)
    [] c = "binary" ->
         IF v.kind = "interval" /\ buffer.pointer /\ buffer.size < v.bytes
         THEN Outcome("22003", 0, FALSE)
         ELSE WriteUnits(v.bytes, c, buffer, offset)
    [] c = "fixed" -> Outcome(v.fixed, 0, FALSE)

\* write_column_value_at.  Only SQL_C_DEFAULT asks a fixed-width buffer's size.
WriteColumnValueAt(v, c, buffer, offset) ==
  CASE v.kind = "null" -> Outcome("00000", 0, FALSE)
    [] v.kind # "null" /\ c = "default" /\ v.natural = "fixed"
         /\ buffer.size > 0 /\ buffer.size < v.width -> Outcome("07006", 0, FALSE)
    [] OTHER -> WriteNamed(v, TargetOf(v, c), buffer, offset)

-----------------------------------------------------------------------------
Answer(op, column, state, warnings) ==
  last' = [op |-> op, column |-> column,
           ret |-> IF state = "00000" /\ warnings > 0 THEN "SUCCESS_WITH_INFO" ELSE Return(state),
           diagnostics |-> (IF state = "00000" THEN <<>> ELSE <<state>>)
                             \o [i \in 1 .. warnings |-> "01S07"]]
AnswerNoData(op, column) ==
  last' = [op |-> op, column |-> column, ret |-> "NO_DATA", diagnostics |-> <<>>]

\* SQLBindCol; Descriptors says what the records may hold.  Bound: not while
\* there is a row, which only the next fetch could tell.
BindColumns(b) ==
  /\ b # bound /\ row = NoRow
  /\ bound' = b
  /\ Answer("BindCol", 0, "00000", 0)
  /\ UNCHANGED <<open, row, pending, position, memory, report, given>>

\* SQLExecDirectW of a query, then SQLCloseCursor.
ExecDirect ==
  /\ ~open
  /\ open' = TRUE /\ row' = NoRow /\ position' = NoPosition /\ given' = Nothing
  /\ pending' = FALSE
  /\ Answer("ExecDirect", 0, "00000", 0)
  /\ UNCHANGED <<bound, memory, report>>
CloseCursor ==
  /\ open
  /\ open' = FALSE /\ row' = NoRow /\ position' = NoPosition /\ given' = Nothing
  /\ pending' = FALSE
  /\ Answer("CloseCursor", 0, "00000", 0)
  /\ UNCHANGED <<bound, memory, report>>

(***************************************************************************)
(* fetch_with_report.  The bound columns are read in their order, up to    *)
(* the first that raises an error: those after it, the row count and the   *)
(* row status are not written, even when the error is only a warning.      *)
(***************************************************************************)
IsBound(c) == bound[c] # Unbound
\* What the loop does to column c of row r.
ReadBound(r, c) ==
  LET b == bound[c]
  IN IF r[c].kind = "failing" THEN Outcome("HY000", 0, FALSE)
     ELSE IF r[c].kind = "null" /\ ~b.indicator THEN Outcome("22002", 0, FALSE)
     ELSE WriteColumnValueAt(r[c], b.c, b, 0)
Left(write) ==
  CASE write.state \in {"00000", "01S07"} -> "whole"
    [] write.state = "01004" -> "part"
    [] OTHER -> "untouched"

\* The columns whose reading took a warning from the backend; that of the
\* column that stopped the loop stays there.
WarningsTaken(r, reached, stop) ==
  {c \in reached : c < stop /\ (r[c].warns \/ (pending /\ c = Min(reached)))}
FetchRow(op, r) ==
  LET stopped == {c \in Column : IsBound(c) /\ Stops(ReadBound(r, c))}
      stop == IF stopped = {} THEN ColumnCount + 1 ELSE Min(stopped)
      reached == {c \in Column : IsBound(c) /\ c <= stop}
      taken == WarningsTaken(r, reached, stop)
      truncated == \E c \in reached : ReadBound(r, c).state = "01004"
  IN /\ row' = r
     /\ memory' = [c \in Column |-> IF c \in reached THEN Left(ReadBound(r, c))
                                    ELSE "untouched"]
     /\ IF stopped = {}
        THEN /\ report' = [rows |-> 1, status |-> IF truncated \/ taken # {}
                                                  THEN "SUCCESS_WITH_INFO" ELSE "SUCCESS"]
             /\ Answer(op, 0, IF truncated THEN "01004" ELSE "00000",
                       Cardinality(taken))
        ELSE /\ report' = Unreported
             /\ Answer(op, stop, ReadBound(r, stop).state, 0)
     /\ pending' = IF stopped = {} THEN pending /\ reached = {}
                   ELSE r[stop].warns \/ (pending /\ stop = Min(reached))

FetchWithReport(op) ==
  \/ /\ ~open
     /\ memory' = Untouched /\ report' = Unreported
     /\ \E state \in {"HY010", "24000"} : Answer(op, 0, state, 0)
     /\ UNCHANGED <<open, row, pending, bound, position, given>>
  \/ /\ open
     /\ position' = NoPosition /\ given' = Nothing
     /\ \/ \E r \in Rows : FetchRow(op, r)
        \/ /\ row' = NoRow /\ memory' = Untouched
           /\ report' = [rows |-> 0, status |-> "untouched"]
           /\ AnswerNoData(op, 0)
           /\ UNCHANGED pending
        \/ /\ row' = NoRow /\ memory' = Untouched /\ report' = Unreported
           /\ Answer(op, 0, "HY000", 0)
           /\ UNCHANGED pending
     /\ UNCHANGED <<open, bound>>

\* SQLFetch reports to the buffers of the statement attributes, as SQLFetchScroll
\* does; SQLExtendedFetch to the ones it is given.  Both know only the next row.
Fetch == FetchWithReport("Fetch")
FetchElsewhere(op) ==
  /\ memory' = Untouched /\ report' = Unreported
  /\ Answer(op, 0, "HY106", 0)
  /\ UNCHANGED <<open, row, pending, bound, position, given>>
FetchScroll == FetchWithReport("FetchScroll") \/ FetchElsewhere("FetchScroll")
ExtendedFetch == FetchWithReport("ExtendedFetch") \/ FetchElsewhere("ExtendedFetch")

-----------------------------------------------------------------------------
(***************************************************************************)
(* sql_get_data.                                                           *)
(***************************************************************************)
\* A fault: the position is kept whatever column is asked for.
ResumeAnywhere(column) ==
  IF position # NoPosition THEN position
  ELSE [column |-> column, delivered |-> 0, done |-> FALSE, cached |-> NoCache]
\* The position is kept for the column it was left on.
ResumeAt(column) ==
  IF position.column = column THEN position
  ELSE [column |-> column, delivered |-> 0, done |-> FALSE, cached |-> NoCache]

\* cacheable_chunk_source: text as text and bytes as bytes, not what is rendered.
Cacheable(v, c) ==
  \/ v.kind = "text" /\ c \in {"char", "wchar"}
  \/ v.kind = "bytes" /\ c = "binary"
IsDone(write) == ~write.chunkable \/ write.state # "01004"

BadArgument(column, c, size) ==
  CASE ~open -> "24000"
    [] open /\ (column = 0 \/ column > ColumnCount) -> "07009"
    [] open /\ column \in Column /\ size < 0 -> "HY090"
    [] open /\ column \in Column /\ size >= 0 /\ c = "unknown" -> "HY003"
    [] OTHER -> "00000"

\* History: the units a part delivers, and how its column was begun.
Parts(at, delivered) == [i \in 1 .. delivered |-> at.delivered + i]
Continued(column) == given.column = column
GiveParts(column, c, at, v, delivered, warned) ==
  given' = IF Continued(column)
           THEN [given EXCEPT !.units = @ \o Parts(at, delivered), !.warned = @ \/ warned,
                              !.c = IF @ = c THEN c ELSE "mixed", !.value = v]
           ELSE [column |-> column, c |-> c, units |-> Parts(at, delivered),
                 warned |-> warned, value |-> v]

\* A later part of a value an earlier call converted: the backend is not asked.
GetCachedPart(column, c, at, buffer) ==
  LET v == at.cached.value
      write == WriteUnits(Length(v, c), c, buffer, at.delivered)
  IN /\ position' = [at EXCEPT !.delivered = @ + write.delivered, !.done = IsDone(write)]
     /\ GiveParts(column, c, at, v, write.delivered, FALSE)
     /\ Answer("GetData", column, write.state, 0)
     /\ UNCHANGED pending

\* Whatever fails, and 01S07 with it, leaves no position behind.
LosePosition(column, state) ==
  /\ position' = NoPosition /\ given' = Nothing
  /\ Answer("GetData", column, state, 0)

\* The backend has no value to give before the first row and after the last.
Failing == [kind |-> "failing", warns |-> FALSE]
GetValue(column, c, at, buffer) ==
  LET v == IF row = NoRow THEN Failing ELSE row[column]
      write == WriteColumnValueAt(v, c, buffer, at.delivered)
      warned == v.warns \/ pending
  IN \/ /\ v.kind = "failing"
        /\ LosePosition(column, "HY000")
        /\ UNCHANGED pending
     \/ /\ v.kind = "null" /\ ~buffer.indicator
        /\ LosePosition(column, "22002")
        /\ pending' = warned
     \/ /\ v.kind # "failing" /\ (v.kind = "null" => buffer.indicator) /\ Stops(write)
        /\ LosePosition(column, write.state)
        /\ pending' = warned
     \/ /\ v.kind # "failing" /\ (v.kind = "null" => buffer.indicator) /\ ~Stops(write)
        /\ position' = [column |-> column, delivered |-> at.delivered + write.delivered,
                        done |-> IsDone(write),
                        cached |-> IF Cacheable(v, c) THEN [c |-> c, value |-> v]
                                   ELSE at.cached]
        /\ GiveParts(column, c, at, v, write.delivered, warned)
        /\ Answer("GetData", column, write.state, IF warned THEN 1 ELSE 0)
        /\ pending' = FALSE

GetData(column, c, size, indicator) ==
  LET at == ResumeAt(column)
      buffer == [size |-> size, pointer |-> TRUE, indicator |-> indicator]
  IN /\ \/ /\ BadArgument(column, c, size) # "00000"
           /\ Answer("GetData", column, BadArgument(column, c, size), 0)
           /\ UNCHANGED <<position, given, pending>>
        \/ /\ BadArgument(column, c, size) = "00000"
           /\ \/ /\ at.done
                 /\ position' = at
                 /\ AnswerNoData("GetData", column)
                 /\ UNCHANGED <<given, pending>>
              \/ ~at.done /\ at.cached.c = c /\ GetCachedPart(column, c, at, buffer)
              \/ ~at.done /\ at.cached.c # c /\ GetValue(column, c, at, buffer)
     /\ UNCHANGED <<open, row, bound, memory, report>>

Next ==
  \/ \E b \in Bindings : BindColumns(b)
  \/ ExecDirect
  \/ CloseCursor
  \/ Fetch
  \/ FetchScroll
  \/ ExtendedFetch
  \/ \E q \in Requests : GetData(q[1], q[2], q[3], q[4])

Spec == Init /\ [][Next]_vars

-----------------------------------------------------------------------------
Records == {last.diagnostics[i] : i \in DOMAIN last.diagnostics}
Cache == [c : CType, value : ColumnValue]
Position == [column : Column, delivered : Nat, done : BOOLEAN, cached : Cache \cup {NoCache}]
Given == [column : Column, c : CType \cup {"default", "mixed"}, units : Seq(Nat),
          warned : BOOLEAN, value : ColumnValue]
TypeOK ==
  /\ open \in BOOLEAN /\ row \in Rows \cup {NoRow} /\ pending \in BOOLEAN
  /\ bound \in Bindings
  /\ position \in Position \cup {NoPosition} /\ given \in Given \cup {Nothing}

Reading == given # Nothing /\ given.c # "mixed"

WholeDigitsKept ==
  given.value.kind \in {"number", "interval"}
    /\ TargetOf(given.value, given.c) \in {"char", "wchar"} =>
      Len(given.units) = 0 \/ Len(given.units) >= given.value.whole

\* The parts SQLGetData returns of a column, put one after the other, are the
\* beginning of the value the current row has there: no unit twice, none left
\* out, none of another column or of an earlier row.  Digits of a number's
\* whole part, or of an interval's, are never what truncation cuts: the first
\* part has them all, or the call fails and delivers nothing.
PartsAssemble ==
  Reading => /\ given.units = [i \in 1 .. Len(given.units) |-> i]
             /\ row # NoRow /\ given.value = row[given.column]
             /\ WholeDigitsKept

\* The application has all of the value.
HasAll == given.value.kind = "null" \/ Len(given.units) = Length(given.value, given.c)

\* The return tells what the application has, and its records are the warnings
\* or the error it stands for, of SQLSTATEs the specification lists for the
\* function.  SQL_NO_DATA ends a column that was read, to its last unit, and
\* SQL_SUCCESS hides no loss: every bound column of the row, or what was left of
\* the column SQLGetData reads, arrived, and what the backend warned of was told
\* with a part of it.
ReturnTellsWhatArrived ==
  /\ last.op # "none" => Records \subseteq Listed(last.op)
  /\ last.ret \in {"SUCCESS", "NO_DATA"} <=> Records = {}
  /\ last.ret = "SUCCESS_WITH_INFO" <=> Records # {} /\ Records \subseteq {"01004", "01S07"}
  /\ last.op = "GetData" /\ last.ret = "NO_DATA" =>
       given.column = last.column /\ (Reading => HasAll)
  /\ last.op \in {"Fetch", "FetchScroll", "ExtendedFetch"} /\ last.ret = "SUCCESS" =>
       /\ report = [rows |-> 1, status |-> "SUCCESS"]
       /\ \A c \in Column : IsBound(c) => memory[c] = "whole" /\ ~row[c].warns
  /\ last.op = "GetData" /\ last.ret = "SUCCESS" /\ Reading =>
       HasAll /\ (given.value.warns => given.warned)
=============================================================================
