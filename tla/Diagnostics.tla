----------------------------- MODULE Diagnostics -----------------------------
(***************************************************************************)
(* The diagnostic queue of a handle: what panic_safe leaves in it when a   *)
(* call fails, and how SQLGetDiagRec and SQLGetDiagField read it.  A record*)
(* is its SQLSTATE; every message is MessageUnits code units long.         *)
(***************************************************************************)
EXTENDS Sequences, TextBuffers

MessageUnits == 3

Success == "SUCCESS"
Info == "SUCCESS_WITH_INFO"
Error == "ERROR"
NoData == "NO_DATA"
Ended(ret) == [ret |-> ret]

\* OdbcError::sql_return.
Warning == {"01004", "01S07"}
sql_return(state) == IF state \in Warning THEN Info ELSE Error

\* panic_safe: the records of a call are those its body pushed and, when it
\* ends in an error, that error's.  A panic counts for a general error.
Panicked == "HY000"
Posted(queue, pushed, error) == queue \o pushed \o (IF error = "00000" THEN <<>> ELSE <<error>>)
ReturnOf(ret, error) == IF error = "00000" THEN ret ELSE sql_return(error)

-----------------------------------------------------------------------------
\* SQLGetDiagRec, whose own failures leave no record.
GetDiagRec(queue, rec, buffer) ==
  IF rec <= 0 \/ (buffer < 0 /\ buffer # NullPointer) THEN Ended(Error)
  ELSE IF rec > Len(queue) THEN Ended(NoData)
  ELSE LET written == write_utf16(MessageUnits, buffer)
       IN  [ret |-> written.ret, state |-> queue[rec], written |-> written]

StatementHeader == {"RowCount", "CursorRowCount", "DynamicFunction", "DynamicFunctionCode"}
TextField == {"SqlState", "MessageText", "ClassOrigin", "SubclassOrigin", "ConnectionName", "ServerName"}
NumberField == {"Native", "ColumnNumber", "RowNumber"}
DiagField == {"Number", "ReturnCode", "Unknown"} \cup StatementHeader \cup TextField \cup NumberField

class_origin(state) ==
  IF state \in {"IM001", "IM002", "IM017", "IM018"} THEN "ODBC 3.0" ELSE "ISO 9075"
subclass_origin(state) ==
  IF state \in {"01S00", "01S01", "01S02", "01S06", "01S07", "07S01", "08S01", "21S01", "21S02",
                "25S01", "25S02", "25S03", "42S01", "42S02", "42S11", "42S12", "42S21", "42S22",
                "HY095", "HY097", "HY098", "HY099", "HY100", "HY101", "HY105", "HY107", "HY109",
                "HY110", "HY111", "HYT00", "HYT01", "IM001", "IM002", "IM003", "IM004", "IM005",
                "IM006", "IM007", "IM008", "IM010", "IM011", "IM012"}
  THEN "ODBC 3.0" ELSE "ISO 9075"

\* write_diag_string_checked.
WriteDiagString(value, units, buffer) ==
  IF buffer < 0 /\ buffer # NullPointer THEN Ended(Error)
  ELSE LET written == write_bytes(units, buffer)
       IN  [ret |-> written.ret, value |-> value, written |-> written]

RecordField(state, field, buffer) ==
  CASE field = "SqlState" -> WriteDiagString(state, 5, buffer)
    [] field = "MessageText" -> WriteDiagString("message", MessageUnits, buffer)
    [] field = "ClassOrigin" -> WriteDiagString(class_origin(state), 8, buffer)
    [] field = "SubclassOrigin" -> WriteDiagString(subclass_origin(state), 8, buffer)
    [] field \in {"ConnectionName", "ServerName"} -> WriteDiagString("", 0, buffer)
    [] field = "Native" -> [ret |-> Success, value |-> 0]
    [] field \in NumberField \ {"Native"} -> [ret |-> Success, value |-> -1]
    [] OTHER -> Ended(NoData)

\* rows is what SQLRowCount answers, for a handle that is a statement.
HeaderField(field, rows, buffer) ==
  CASE field = "RowCount" -> [ret |-> Success, value |-> rows]
    [] field \in {"CursorRowCount", "DynamicFunctionCode"} -> [ret |-> Success, value |-> 0]
    [] field = "DynamicFunction" -> WriteDiagString("", 0, buffer)

GetDiagField(queue, is_statement, rows, rec, field, buffer) ==
  CASE field = "Number" -> [ret |-> Success, value |-> Len(queue)]
    [] field = "ReturnCode" -> [ret |-> Success, value |-> 0]
    [] field \in StatementHeader -> IF is_statement THEN HeaderField(field, rows, buffer) ELSE Ended(Error)
    [] OTHER -> IF rec <= 0 THEN Ended(Error) ELSE IF rec > Len(queue) THEN Ended(NoData)
                ELSE RecordField(queue[rec], field, buffer)

=============================================================================
