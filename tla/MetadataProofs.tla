---------------------------- MODULE MetadataProofs ----------------------------
(***************************************************************************)
(* Proofs about what a data source tells of itself, for any data sources,  *)
(* objects, types, calls, texts, collation, buffers and set of functions:  *)
(* the diagnostics are those of the last call, a catalog function answers  *)
(* exactly the objects its arguments denote, in the documented order, an   *)
(* answer agrees with every other on the same matter, a text told fits its *)
(* buffer, and SQLNativeSql keeps every parameter marker of a text, and    *)
(* leaves a text without escapes as it is.                                 *)
(* The parts are: the records each call leaves; plain answers; the shapes  *)
(* of information and its group; the widths of the result sets; the three  *)
(* forms of SQLGetFunctions; recursion along a scan, on which the          *)
(* translation of escapes rests; reading a text token by token, which      *)
(* counts its markers and is what a translation leaves unchanged; the      *)
(* invariant; and, for the answers of catalog functions, the order of      *)
(* values and of rows, and the sort; the columns and the sort keys; the    *)
(* rows; identifiers with their metacharacters escaped; what arguments     *)
(* denote; and the calls.                                                  *)
(***************************************************************************)
EXTENDS Metadata, FiniteSetTheorems, SequenceTheorems, WellFoundedInduction, TLAPS

\* The functions that leave diagnostics, the states listed for any of them, and
\* queues of such.
Caller == CatalogFunction \cup
  {"GetTypeInfo", "Fetch", "CloseCursor", "MoreResults", "RowCount", "BulkOperations", "SetPos",
   "SetStmtAttr", "NumResultCols", "DescribeCol", "ColAttribute", "GetInfo", "GetFunctions", "NativeSql"}
State == UNION {Listed(f) : f \in Caller}
Queues == [Handle -> Seq(State)]

\* A set of numbers that is not empty has a least one, and Least is it.
LEMMA LeastElement ==
  ASSUME NEW T, T \subseteq Nat, T # {}
  PROVE  \E x \in T : \A y \in T : x <= y
<1>. DEFINE Below == OpToRel(<, Nat)
<1>1. \E x \in T : \A y \in T : ~ (<<y, x>> \in Below)
  BY NatLessThanWellFounded, WFMin, Zenon
<1>2. \A x, y \in Nat : <<y, x>> \in Below <=> y < x
  BY DEF OpToRel
<1>. HIDE DEF Below
<1>3. \A x, y \in Nat : ~ (y < x) <=> x <= y
  OBVIOUS
<1>. QED  BY <1>1, <1>2, <1>3, Zenon

LEMMA LeastIsLeast ==
  ASSUME NEW T, T \subseteq Nat, T # {}
  PROVE  Least(T) \in T /\ \A y \in T : Least(T) <= y
BY LeastElement DEF Least

\* What a call pushes and the error it ends in make records that tell of it.
Fair(f, pushed, error, ret) ==
  /\ pushed \in Seq({"01004"})
  /\ pushed # <<>> => "01004" \in Listed(f)
  /\ error # NoError => error \in Listed(f)
  /\ error = NoError => \/ ret \in {Success, NoData} /\ pushed = <<>>
                        \/ ret = Info /\ pushed # <<>>

\* A call that ends fairly leaves what SQLGetDiagRec and SQLGetDiagField shall tell.
LEMMA RecordsTold ==
  ASSUME NEW f, NEW h \in Handle, NEW pushed, NEW error, NEW ret, NEW told,
         f \in Caller, queue \in Queues, Fair(f, pushed, error, ret),
         Answers(f, h, pushed, error, ret, told),
         told.f \notin {"GetDiagRec", "GetDiagField"}
  PROVE  DiagnosticsTellLastCall' /\ queue' \in Queues
<1>. DEFINE records == pushed \o (IF error = NoError THEN <<>> ELSE <<error>>)
<1>1. Listed(f) \subseteq State
  BY DEF State
<1>2. pushed \in Seq(Listed(f)) /\ pushed \in Seq({"01004"})
  BY DEF Fair
<1>3. /\ records \in Seq(Listed(f))
      /\ error = NoError => records = pushed
      /\ error # NoError => /\ Len(records) = Len(pushed) + 1
                            /\ records[Len(pushed) + 1] = error
                            /\ \A i \in 1..Len(pushed) : records[i] = "01004"
  BY <1>2 DEF Fair
<1>4. queue' = [queue EXCEPT ![h] = records]
  <2>1. Posted(Cleared(queue[h]), pushed, error) = records
    BY <1>2 DEF Posted, Cleared, NoError
  <2>. QED  BY <2>1 DEF Answers
<1>. HIDE DEF records
<1>5. queue'[h] = records
  BY <1>4 DEF Queues
<1>6. queue' \in Queues
  <2>1. records \in Seq(State)
    BY <1>1, <1>3
  <2>. QED  BY <1>4, <2>1 DEF Queues
<1>7. /\ ended'.handle = h /\ ended'.f = f
      /\ ended'.returned = IF error = NoError THEN ret ELSE IF error \in Warning THEN Info ELSE Error
  BY DEF Answers, ReturnOf, sql_return, NoError
<1>8. answer'.f \notin {"GetDiagRec", "GetDiagField"}
  BY DEF Answers
<1>9. {records[i] : i \in DOMAIN records} \subseteq Listed(f)
  BY <1>3
<1>10. ended'.returned \in {Success, NoData} => records = <<>>
  BY <1>3, <1>7 DEF Fair, Success, NoData, Info, Error
<1>11. ended'.returned = Info => records # <<>> /\ {records[i] : i \in DOMAIN records} \subseteq Warning
  <2>1. CASE error = NoError
    BY <1>2, <1>3, <1>7, <2>1 DEF Fair, Success, NoData, Info, Error, Warning
  <2>2. CASE error # NoError
    BY <1>2, <1>3, <1>7, <2>2 DEF Fair, Success, NoData, Info, Error, Warning
  <2>. QED  BY <2>1, <2>2
<1>12. ended'.returned = Error => /\ records # <<>> /\ Last(records) \notin Warning
                                  /\ \A i \in 1..Len(records) - 1 : records[i] \in Warning
  <2>. SUFFICES ASSUME ended'.returned = Error
                PROVE  /\ records # <<>> /\ Last(records) \notin Warning
                       /\ \A i \in 1..Len(records) - 1 : records[i] \in Warning
    OBVIOUS
  <2>1. error # NoError /\ error \notin Warning
    BY <1>7 DEF Fair, Success, NoData, Info, Error
  <2>2. Last(records) = error /\ records # <<>>
    BY <1>2, <1>3, <2>1 DEF Last
  <2>. QED  BY <1>2, <1>3, <2>1, <2>2 DEF Warning
<1>. QED  BY <1>5, <1>6, <1>7, <1>8, <1>9, <1>10, <1>11, <1>12 DEF DiagnosticsTellLastCall

\* What every call leaves as it should be, whatever it is.
RecordsRight == DiagnosticsTellLastCall /\ queue \in Queues

\* A call is refused for one of its checks or not at all.
LEMMA RefusalIsOne ==
  ASSUME NEW S, NEW checks \in Seq(S)
  PROVE  Refusal(checks) = NoError \/ \E i \in DOMAIN checks : Refusal(checks) = checks[i] /\ checks[i] # NoError
<1>. DEFINE failed == {i \in DOMAIN checks : checks[i] # NoError}
<1>1. CASE failed = {}
  BY <1>1 DEF Refusal
<1>2. CASE failed # {}
  <2>1. failed \subseteq Nat
    OBVIOUS
  <2>. HIDE DEF failed
  <2>2. Least(failed) \in failed
    BY <1>2, <2>1, LeastIsLeast
  <2>3. Refusal(checks) = checks[Least(failed)]
    BY <1>2 DEF Refusal, failed
  <2>. QED  BY <2>2, <2>3 DEF failed
<1>. QED  BY <1>1, <1>2

\* What core itself refuses a catalog call for.
CoreStates == {"24000", "HY090", "HY009", NoError}
LEMMA ChecksRefuse ==
  ASSUME NEW c
  PROVE  /\ Refusal(ParametersFirst(c)) \in CoreStates
         /\ Refusal(CursorFirst(c)) \in CoreStates
         /\ Refusal(NameChecked(c)) \in CoreStates
         /\ Refusal(<<InvalidCursor, check_null_table_name(c), Unreadable(c),
                      check_metadata_id_null_catalog(c)>>) \in CoreStates
<1>1. /\ Unreadable(c) \in CoreStates /\ InvalidCursor \in CoreStates
      /\ check_null_table_name(c) \in CoreStates /\ check_metadata_id_null_catalog(c) \in CoreStates
  BY DEF Unreadable, InvalidCursor, check_null_table_name, check_metadata_id_null_catalog, CoreStates, NoError
<1>2. ASSUME NEW checks \in Seq(CoreStates)  PROVE Refusal(checks) \in CoreStates
  <2>1. \A i \in DOMAIN checks : checks[i] \in CoreStates
    OBVIOUS
  <2>. QED  BY <2>1, RefusalIsOne DEF CoreStates
<1>3. ParametersFirst(c) \in Seq(CoreStates)
  BY <1>1 DEF ParametersFirst
<1>4. CursorFirst(c) \in Seq(CoreStates)
  BY <1>1 DEF CursorFirst
<1>5. NameChecked(c) \in Seq(CoreStates)
  BY <1>1 DEF NameChecked
<1>6. <<InvalidCursor, check_null_table_name(c), Unreadable(c), check_metadata_id_null_catalog(c)>>
        \in Seq(CoreStates)
  BY <1>1
<1>. QED  BY <1>2, <1>3, <1>4, <1>5, <1>6

\* The states listed for a catalog function hold all it can end with.
LEMMA CatalogListed ==
  ASSUME NEW f \in CatalogFunction
  PROVE  {"24000", "HY090", "HY009", "HYC00", "HYT00", "HY008", "08S01", "HY000"} \subseteq Listed(f)
<1>1. f \in {"Tables", "Columns", "PrimaryKeys", "ForeignKeys", "Procedures", "ColumnPrivileges",
              "TablePrivileges", "ProcedureColumns", "Statistics", "SpecialColumns"}
  BY DEF CatalogFunction, Arguments
<1>2. "HY000" \in Always \ Unlisted(f)
  BY DEF Always, Unlisted
<1>3. Listed(f) = (Always \ Unlisted(f)) \cup CatalogStates(f)
  BY <1>1 DEF Listed
<1>4. {"24000", "HY090", "HY009", "HYC00", "HYT00", "HY008", "08S01"} \subseteq CatalogStates(f)
  BY DEF CatalogStates, CommonCatalogStates, Sequence, Asynchronous
<1>. QED  BY <1>2, <1>3, <1>4

\* What the failure of a backend becomes.
LEMMA FailureIsOne ==
  ASSUME NEW c, NEW outcome \in Outcome
  PROVE  Failure(c, outcome) \in {NoError, "HYC00", "HYT00", "HY008", "08S01", "HY000"}
BY DEF Failure, Outcome, Panicked

\* The catalog functions leave their diagnostics as they should.
LEMMA AnsweringTells ==
  ASSUME RecordsRight, NEW c, c.f \in CatalogFunction, NEW outcome \in Outcome, NEW checks, NEW keys,
         Refusal(checks) \in CoreStates, Answering(c, outcome, checks, keys)
  PROVE  RecordsRight'
<1>. DEFINE error == IF Refusal(checks) # NoError THEN Refusal(checks)
                     ELSE IF AsksBackend(c) THEN Failure(c, outcome) ELSE NoError
            told == [f |-> c.f, call |-> c, rows |-> sort_rows(Answered(c, outcome), keys, source.nulls),
                     listed |-> AsksBackend(c) /\ outcome # "unimplemented"]
<1>1. Answers(c.f, "stmt", <<>>, error, Success, told)
  BY DEF Answering
<1>2. error = NoError \/ error \in Listed(c.f)
  BY CatalogListed, FailureIsOne DEF CoreStates
<1>3. told.f \notin {"GetDiagRec", "GetDiagField"} /\ c.f \in Caller
  BY DEF CatalogFunction, Arguments, Caller
<1>. HIDE DEF error, told
<1>4. Fair(c.f, <<>>, error, Success)
  BY <1>2 DEF Fair
<1>. QED  BY <1>1, <1>3, <1>4, RecordsTold DEF RecordsRight, Handle

LEMMA CatalogTells ==
  ASSUME RecordsRight, NEW c, NEW outcome \in Outcome,
         \/ sql_tables_w(c, outcome) \/ sql_columns_w(c, outcome) \/ sql_primary_keys_w(c, outcome)
         \/ sql_foreign_keys_w(c, outcome) \/ sql_statistics_w(c, outcome) \/ sql_special_columns_w(c, outcome)
         \/ sql_procedures_w(c, outcome) \/ sql_procedure_columns_w(c, outcome)
         \/ sql_column_privileges_w(c, outcome) \/ sql_table_privileges_w(c, outcome)
  PROVE  RecordsRight'
<1>1. c.f \in CatalogFunction
  BY DEF sql_tables_w, sql_columns_w, sql_primary_keys_w, sql_foreign_keys_w, sql_statistics_w,
         sql_special_columns_w, sql_procedures_w, sql_procedure_columns_w, sql_column_privileges_w,
         sql_table_privileges_w, CatalogFunction, Arguments
<1>2. \E checks, keys : Refusal(checks) \in CoreStates /\ Answering(c, outcome, checks, keys)
  BY ChecksRefuse, Zenon
     DEF sql_tables_w, sql_columns_w, sql_primary_keys_w, sql_foreign_keys_w, sql_statistics_w,
         sql_special_columns_w, sql_procedures_w, sql_procedure_columns_w, sql_column_privileges_w,
         sql_table_privileges_w
<1>. QED  BY <1>1, <1>2, AnsweringTells

\* The states listed for the functions on a statement, and on a connection.
LEMMA StatementListed ==
  /\ "24000" \in Listed("GetTypeInfo") /\ "24000" \in Listed("CloseCursor")
  /\ {"01004", "01S07", "22003"} \subseteq Listed("Fetch")
  /\ {"HYC00", "HY092"} \subseteq Listed("BulkOperations") \cap Listed("SetPos")
  /\ "HY010" \in Listed("NumResultCols")
  /\ {"01004", "07005", "07009"} \subseteq Listed("DescribeCol")
  /\ {"01004", "07005", "07009", "HYC00", "HY091"} \subseteq Listed("ColAttribute")
<1>1. "24000" \in Listed("GetTypeInfo")
  BY DEF Listed, GetTypeInfoStates, CommonCatalogStates
<1>2. "24000" \in Listed("CloseCursor")
  BY DEF Listed, ResultStates
<1>3. {"01004", "01S07", "22003"} \subseteq Listed("Fetch")
  <2>1. Listed("Fetch") = (Always \ Unlisted("Fetch")) \cup FetchStates("Fetch")
    BY DEF Listed
  <2>. QED  BY <2>1 DEF FetchStates, ReadingStates
<1>4. {"HYC00", "HY092"} \subseteq Listed("BulkOperations") \cap Listed("SetPos")
  <2>1. /\ Listed("BulkOperations") = (Always \ Unlisted("BulkOperations")) \cup BulkStates
        /\ Listed("SetPos") = (Always \ Unlisted("SetPos")) \cup SetPosStates
    BY DEF Listed
  <2>. QED  BY <2>1 DEF BulkStates, SetPosStates
<1>5. /\ Listed("NumResultCols") = (Always \ Unlisted("NumResultCols")) \cup DescriptionStates("NumResultCols")
      /\ Listed("DescribeCol") = (Always \ Unlisted("DescribeCol")) \cup DescriptionStates("DescribeCol")
      /\ Listed("ColAttribute") = (Always \ Unlisted("ColAttribute")) \cup DescriptionStates("ColAttribute")
  BY DEF Listed
<1>. QED  BY <1>1, <1>2, <1>3, <1>4, <1>5 DEF DescriptionStates, Sequence

LEMMA ConnectionListed ==
  /\ "01004" \in Listed("GetInfo")
  /\ {"01004", "08003", "HY009", "HY090", "HY000"} \subseteq Listed("NativeSql")
<1>1. Listed("GetInfo") = (Always \ Unlisted("GetInfo")) \cup GetInfoStates
  BY DEF Listed
<1>2. Listed("NativeSql") = (Always \ Unlisted("NativeSql")) \cup NativeSqlStates
  BY DEF Listed
<1>3. Unlisted("NativeSql") = {}
  BY DEF Unlisted
<1>. QED  BY <1>1, <1>2, <1>3 DEF GetInfoStates, NativeSqlStates, Always

\* The functions below are among those that leave diagnostics.
LEMMA Callers ==
  /\ {"GetTypeInfo", "Fetch", "CloseCursor", "MoreResults", "RowCount", "BulkOperations", "SetPos",
      "SetStmtAttr", "NumResultCols", "DescribeCol", "ColAttribute", "GetInfo", "GetFunctions",
      "NativeSql"} \subseteq Caller
  /\ "conn" \in Handle /\ "stmt" \in Handle
BY DEF Caller, Handle

\* A call that pushes nothing and ends well or in an error that is listed.
LEMMA QuietIsFair ==
  ASSUME NEW f, NEW error, NEW ret, ret \in {Success, NoData}, error = NoError \/ error \in Listed(f)
  PROVE  Fair(f, <<>>, error, ret)
BY DEF Fair

\* A call that tells a text ends fairly: 01004 with SQL_SUCCESS_WITH_INFO only.
LEMMA ToldIsFair ==
  ASSUME NEW f, NEW units, NEW buffer, NEW bytes, "01004" \in Listed(f)
  PROVE  LET text == Told(units, buffer, bytes)
         IN  /\ Fair(f, note_truncation(text), NoError, text.ret)
             /\ text.ret \in {Success, Info}
             /\ text.ret = Info => note_truncation(text) = <<"01004">>
             /\ text.ret # Info => note_truncation(text) = <<>>
<1>. DEFINE text == Told(units, buffer, bytes)
<1>1. text.ret \in {Success, Info}
  BY DEF Told, write_bytes, write_utf16, Success, Info
<1>2. /\ text.ret = Info => note_truncation(text) = <<"01004">>
      /\ text.ret # Info => note_truncation(text) = <<>>
  BY DEF note_truncation, Info
<1>. HIDE DEF text
<1>3. <<"01004">> \in Seq({"01004"}) /\ <<>> \in Seq({"01004"}) /\ <<"01004">> # <<>>
  OBVIOUS
<1>4. Fair(f, note_truncation(text), NoError, text.ret)
  <2>1. CASE text.ret = Info
    BY <1>2, <1>3, <2>1 DEF Fair
  <2>2. CASE text.ret = Success
    BY <1>2, <1>3, <2>2 DEF Fair, Success, Info
  <2>. QED  BY <1>1, <2>1, <2>2
<1>. QED  BY <1>1, <1>2, <1>4 DEF text

\* Call by call, what is left in the diagnostics is what shall be told: of
\* SQLGetTypeInfo, of the calls on a cursor, and of the descriptions.
LEMMA GetTypeInfoTells ==
  ASSUME RecordsRight, NEW data_type, NEW outcome, GetTypeInfo(data_type, outcome)
  PROVE  RecordsRight'
<1>1. PICK told : told.f = "GetTypeInfo" /\ Answers("GetTypeInfo", "stmt", <<>>, InvalidCursor, Success, told)
  BY DEF GetTypeInfo
<1>2. Fair("GetTypeInfo", <<>>, InvalidCursor, Success)
  BY StatementListed, QuietIsFair DEF InvalidCursor
<1>. QED  BY <1>1, <1>2, Callers, RecordsTold DEF RecordsRight

LEMMA FetchTells ==
  ASSUME RecordsRight, NEW pushed \in {<<>>, <<"01004">>, <<"01004", "01004">>},
         NEW error \in {NoError, "01S07", "22003"}, Fetch(pushed, error)
  PROVE  RecordsRight'
<1>. DEFINE ret == IF statement.rows = 0 THEN NoData ELSE IF pushed = <<>> THEN Success ELSE Info
<1>1. Answers("Fetch", "stmt", pushed, error, ret, [f |-> "Fetch"])
  BY DEF Fetch
<1>2. Fair("Fetch", pushed, error, ret)
  <2>1. pushed \in Seq({"01004"})
    <3>1. <<>> \in Seq({"01004"}) /\ <<"01004">> \in Seq({"01004"}) /\ <<"01004", "01004">> \in Seq({"01004"})
      OBVIOUS
    <3>. QED  BY <3>1
  <2>2. statement.rows = 0 => pushed = <<>> /\ error = NoError
    BY DEF Fetch
  <2>. QED  BY <2>1, <2>2, StatementListed DEF Fair
<1>. QED  BY <1>1, <1>2, Callers, RecordsTold DEF RecordsRight

LEMMA PlainTells ==
  ASSUME RecordsRight, CloseCursor \/ MoreResults \/ SQLRowCount \/ SQLNumResultCols \/ \E value : SetMetadataId(value)
  PROVE  RecordsRight'
<1>1. CASE CloseCursor
  <2>1. Fair("CloseCursor", <<>>, IF cursor_open THEN NoError ELSE "24000", Success)
    BY StatementListed, QuietIsFair
  <2>. QED  BY <1>1, <2>1, Callers, RecordsTold DEF CloseCursor, RecordsRight
<1>2. CASE MoreResults
  <2>1. Fair("MoreResults", <<>>, NoError, NoData)
    BY QuietIsFair
  <2>. QED  BY <1>2, <2>1, Callers, RecordsTold DEF MoreResults, RecordsRight
<1>3. CASE SQLRowCount
  <2>1. Fair("RowCount", <<>>, NoError, Success)
    BY QuietIsFair
  <2>. QED  BY <1>3, <2>1, Callers, RecordsTold DEF SQLRowCount, RecordsRight
<1>4. CASE SQLNumResultCols
  <2>1. Fair("NumResultCols", <<>>, IF cursor_open THEN NoError ELSE "HY010", Success)
    BY StatementListed, QuietIsFair
  <2>. QED  BY <1>4, <2>1, Callers, RecordsTold DEF SQLNumResultCols, RecordsRight
<1>5. CASE \E value : SetMetadataId(value)
  <2>1. Fair("SetStmtAttr", <<>>, NoError, Success)
    BY QuietIsFair
  <2>. QED  BY <1>5, <2>1, Callers, RecordsTold DEF SetMetadataId, RecordsRight
<1>. QED  BY <1>1, <1>2, <1>3, <1>4, <1>5

LEMMA PositionedTells ==
  ASSUME RecordsRight, NEW operation, NEW lock_type, BulkOperations(operation) \/ SetPos(operation, lock_type)
  PROVE  RecordsRight'
<1>1. CASE BulkOperations(operation)
  <2>1. Fair("BulkOperations", <<>>, IF operation \in BulkOperation THEN "HYC00" ELSE "HY092", Success)
    BY StatementListed, QuietIsFair
  <2>. QED  BY <1>1, <2>1, Callers, RecordsTold DEF BulkOperations, NoAnswer, RecordsRight
<1>2. CASE SetPos(operation, lock_type)
  <2>1. Fair("SetPos", <<>>, IF operation \in Operation /\ lock_type \in LockType THEN "HYC00" ELSE "HY092",
             Success)
    BY StatementListed, QuietIsFair
  <2>. QED  BY <1>2, <2>1, Callers, RecordsTold DEF SetPos, NoAnswer, RecordsRight
<1>. QED  BY <1>1, <1>2

\* A column is refused for want of a result set or as none of its columns.
LEMMA NoSuchColumnIsOne ==
  ASSUME NEW k
  PROVE  NoSuchColumn(k) \in {NoError, "07005", "07009"}
BY DEF NoSuchColumn

LEMMA DescribeColTells ==
  ASSUME RecordsRight, NEW k, NEW buffer, DescribeCol(k, buffer)
  PROVE  RecordsRight'
<1>. DEFINE error == NoSuchColumn(k)
            name == Told(Len(Column(k).name), buffer, FALSE)
<1>1. CASE error # NoError
  <2>1. Answers("DescribeCol", "stmt", <<>>, error, Success, NoAnswer)
    BY <1>1 DEF DescribeCol
  <2>2. Fair("DescribeCol", <<>>, error, Success)
    BY NoSuchColumnIsOne, StatementListed, QuietIsFair
  <2>. QED  BY <2>1, <2>2, Callers, RecordsTold DEF NoAnswer, RecordsRight
<1>2. CASE error = NoError
  <2>1. PICK told : told.f = "DescribeCol"
                    /\ Answers("DescribeCol", "stmt", note_truncation(name), NoError, name.ret, told)
    BY <1>2 DEF DescribeCol
  <2>2. Fair("DescribeCol", note_truncation(name), NoError, name.ret)
    BY ToldIsFair, StatementListed
  <2>. QED  BY <2>1, <2>2, Callers, RecordsTold DEF RecordsRight
<1>. QED  BY <1>1, <1>2

LEMMA ColAttributeTells ==
  ASSUME RecordsRight, NEW k, NEW field, NEW buffer, ColAttribute(k, field, buffer)
  PROVE  RecordsRight'
<1>. DEFINE error == CASE field = "Odbc2" -> "HYC00"
                       [] field = "unknown" -> "HY091"
                       [] field = "Count" -> NoError
                       [] OTHER -> NoSuchColumn(k)
            text == Told(Len(ColumnString(Column(k), field)), buffer, TRUE)
<1>1. error \in {NoError, "07005", "07009", "HYC00", "HY091"}
  BY NoSuchColumnIsOne
<1>2. \/ error # NoError /\ Answers("ColAttribute", "stmt", <<>>, error, Success, NoAnswer)
      \/ error = NoError /\ \E told : /\ told.f = "ColAttribute"
                                      /\ Answers("ColAttribute", "stmt", <<>>, error, Success, told)
      \/ error = NoError /\ \E told : /\ told.f = "ColAttribute"
                                      /\ Answers("ColAttribute", "stmt", note_truncation(text), error, text.ret,
                                                 told)
  BY DEF ColAttribute
<1>. HIDE DEF error, text
<1>3. CASE error # NoError
  <2>1. Fair("ColAttribute", <<>>, error, Success)
    BY <1>1, StatementListed, QuietIsFair
  <2>. QED  BY <1>2, <1>3, <2>1, Callers, RecordsTold DEF NoAnswer, RecordsRight
<1>4. CASE error = NoError
  <2>1. Fair("ColAttribute", <<>>, error, Success) /\ Fair("ColAttribute", note_truncation(text), NoError, text.ret)
    BY <1>4, ToldIsFair, StatementListed, QuietIsFair DEF text
  <2>. QED  BY <1>2, <1>4, <2>1, Callers, RecordsTold DEF RecordsRight
<1>. QED  BY <1>3, <1>4

\* The same of the calls on the connection.
LEMMA GetInfoTells ==
  ASSUME RecordsRight, NEW t, NEW own, NEW buffer, GetInfo(t, own, buffer)
  PROVE  RecordsRight'
<1>. DEFINE text == Told(Units(InfoOf(t, own)), buffer, TRUE)
<1>1. \/ \E told : /\ told.f = "GetInfo"
                   /\ Answers("GetInfo", "conn", note_truncation(text), NoError, text.ret, told)
      \/ \E told : told.f = "GetInfo" /\ Answers("GetInfo", "conn", <<>>, NoError, Success, told)
  BY DEF GetInfo
<1>2. Fair("GetInfo", note_truncation(text), NoError, text.ret) /\ Fair("GetInfo", <<>>, NoError, Success)
  BY ToldIsFair, QuietIsFair, ConnectionListed
<1>. HIDE DEF text
<1>. QED  BY <1>1, <1>2, Callers, RecordsTold DEF RecordsRight

LEMMA GetFunctionsTells ==
  ASSUME RecordsRight, NEW id, GetFunctions(id)
  PROVE  RecordsRight'
<1>1. PICK told : told.f = "GetFunctions" /\ Answers("GetFunctions", "conn", <<>>, NoError, Success, told)
  BY DEF GetFunctions
<1>2. Fair("GetFunctions", <<>>, NoError, Success)
  BY QuietIsFair
<1>. QED  BY <1>1, <1>2, Callers, RecordsTold DEF RecordsRight

\* What SQLNativeSql leaves in the diagnostics, whatever it translates to.
LEMMA NativeSqlEnds ==
  ASSUME NEW given, NEW length, NEW terminator, NEW buffer, NativeSql(given, length, terminator, buffer)
  PROVE  \E error, pushed, ret, told :
           /\ told.f \in {"none", "NativeSql"}
           /\ error \in {NoError, "08003", "HY009", "HY090", "HY000"}
           /\ \/ pushed = <<>> /\ ret = Success
              \/ error = NoError /\ pushed = <<"01004">> /\ ret = Info
           /\ Answers("NativeSql", "conn", pushed, error, ret, told)
<1>. DEFINE read == utf16_to_string(terminator, length, MaxScan)
            sql == SubSeq(given, 1, read.units)
            native == translate_escapes(sql, Dialect)
            error == IF ~open THEN "08003"
                     ELSE IF given = Null THEN "HY009"
                     ELSE IF length < 0 /\ length # SQL_NTS THEN "HY090"
                     ELSE IF buffer < 0 /\ buffer # NullPointer THEN "HY090"
                     ELSE IF read.state # NoError THEN read.state
                     ELSE IF ~Ok(native) THEN "HY000" ELSE NoError
            units == Len(native.text)
            truncated == buffer # NullPointer /\ buffer <= units /\ (buffer > 0 \/ units > 0)
            ret == IF truncated THEN Info ELSE Success
            text ==
              [units |-> units, buffer |-> buffer, bytes |-> FALSE, ret |-> ret,
               copied |-> IF buffer <= 0 THEN 0 ELSE IF truncated THEN buffer - 1 ELSE units,
               reported |-> units]
            told == [f |-> "NativeSql", sql |-> sql, native |-> native.text, text |-> text]
<1>1. IF error # NoError THEN Answers("NativeSql", "conn", <<>>, error, Success, NoAnswer)
      ELSE Answers("NativeSql", "conn", IF truncated THEN <<"01004">> ELSE <<>>, NoError, ret, told)
  BY Zenon DEF NativeSql
<1>2. read.state \in {NoError, "HY090"}
  BY DEF utf16_to_string, NoError
<1>. HIDE DEF read, native
<1>3. error \in {NoError, "08003", "HY009", "HY090", "HY000"}
  <2>. DEFINE b1 == ~open
              b2 == given = Null
              b3 == length < 0 /\ length # SQL_NTS
              b4 == buffer < 0 /\ buffer # NullPointer
              b5 == read.state # NoError
              b6 == ~Ok(native)
  <2>. QED  BY <1>2, Zenon
<1>. HIDE DEF error
<1>4. told.f = "NativeSql" /\ NoAnswer.f = "none"
  BY DEF NoAnswer
<1>. HIDE DEF told, truncated
<1>. DEFINE Ends(e, p, r, a) == /\ a.f \in {"none", "NativeSql"}
                                /\ e \in {NoError, "08003", "HY009", "HY090", "HY000"}
                                /\ \/ p = <<>> /\ r = Success
                                   \/ e = NoError /\ p = <<"01004">> /\ r = Info
                                /\ Answers("NativeSql", "conn", p, e, r, a)
<1>5. CASE error # NoError
  <2>1. Ends(error, <<>>, Success, NoAnswer)
    BY <1>1, <1>3, <1>4, <1>5
  <2>. QED  BY <2>1
<1>6. CASE error = NoError /\ truncated
  <2>1. Ends(error, <<"01004">>, Info, told)
    BY <1>1, <1>3, <1>4, <1>6
  <2>. QED  BY <2>1
<1>7. CASE error = NoError /\ ~truncated
  <2>1. Ends(error, <<>>, Success, told)
    BY <1>1, <1>3, <1>4, <1>7
  <2>. QED  BY <2>1
<1>. QED  BY <1>5, <1>6, <1>7

LEMMA NativeSqlTells ==
  ASSUME RecordsRight, NEW given, NEW length, NEW terminator, NEW buffer,
         NativeSql(given, length, terminator, buffer)
  PROVE  RecordsRight'
<1>1. PICK error, pushed, ret, told :
           /\ told.f \in {"none", "NativeSql"}
           /\ error \in {NoError, "08003", "HY009", "HY090", "HY000"}
           /\ \/ pushed = <<>> /\ ret = Success
              \/ error = NoError /\ pushed = <<"01004">> /\ ret = Info
           /\ Answers("NativeSql", "conn", pushed, error, ret, told)
  BY NativeSqlEnds
<1>2. <<>> \in Seq({"01004"}) /\ <<"01004">> \in Seq({"01004"}) /\ <<"01004">> # <<>>
  OBVIOUS
<1>3. Fair("NativeSql", pushed, error, ret)
  BY <1>1, <1>2, ConnectionListed DEF Fair
<1>4. told.f \notin {"GetDiagRec", "GetDiagField"}
  BY <1>1
<1>. QED  BY <1>1, <1>3, <1>4, Callers, RecordsTold DEF RecordsRight

\* A record is told as it is, and NO_DATA only past the last.
LEMMA GetDiagRecTells ==
  ASSUME queue \in Queues, NEW h \in Handle, NEW rec \in Nat, NEW buffer \in Buffers
  PROVE  LET got == GetDiagRec(queue[h], rec, buffer)
         IN  /\ (got.ret \in {Success, Info} <=> rec \in DOMAIN queue[h] /\ buffer # -1)
             /\ got.ret \in {Success, Info} => got.state = queue[h][rec]
             /\ got.ret = NoData => rec > Len(queue[h])
<1>. DEFINE got == GetDiagRec(queue[h], rec, buffer)
<1>1. queue[h] \in Seq(State)
  BY DEF Queues
<1>2. buffer \in Int /\ (buffer < 0 /\ buffer # NullPointer <=> buffer = -1)
  BY MetadataAssumption DEF NullPointer
<1>3. CASE rec = 0 \/ buffer = -1
  <2>1. got = Ended(Error)
    BY <1>2, <1>3 DEF GetDiagRec
  <2>. QED  BY <1>1, <1>2, <1>3, <2>1 DEF Ended, Error, Success, Info, NoData
<1>4. CASE rec # 0 /\ buffer # -1 /\ rec > Len(queue[h])
  <2>1. got = Ended(NoData)
    BY <1>1, <1>2, <1>4 DEF GetDiagRec
  <2>. QED  BY <1>1, <1>2, <1>4, <2>1 DEF Ended, Error, Success, Info, NoData
<1>5. CASE rec # 0 /\ buffer # -1 /\ rec <= Len(queue[h])
  <2>1. /\ got.ret = write_utf16(MessageUnits, buffer).ret /\ got.state = queue[h][rec]
    BY <1>1, <1>2, <1>5 DEF GetDiagRec
  <2>2. got.ret \in {Success, Info}
    BY <2>1 DEF write_utf16, Success, Info
  <2>. QED  BY <1>1, <1>2, <1>5, <2>1, <2>2 DEF Ended, Error, Success, Info, NoData
<1>. QED  BY <1>1, <1>3, <1>4, <1>5

\* The diagnostic functions tell the records and leave them.
LEMMA DiagRecTells ==
  ASSUME RecordsRight, NEW h \in Handle, NEW rec \in Nat, NEW buffer \in Buffers, SQLGetDiagRec(h, rec, buffer)
  PROVE  RecordsRight'
<1>. DEFINE got == GetDiagRec(queue[h], rec, buffer)
<1>1. /\ answer'.f = "GetDiagRec" /\ answer'.h = h /\ answer'.rec = rec /\ answer'.buffer = buffer
      /\ answer'.got = got
      /\ ended' = NoCall /\ queue' = queue
  BY DEF SQLGetDiagRec
<1>. HIDE DEF got
<1>2. /\ (got.ret \in {Success, Info} <=> rec \in DOMAIN queue[h] /\ buffer # -1)
      /\ got.ret \in {Success, Info} => got.state = queue[h][rec]
      /\ got.ret = NoData => rec > Len(queue[h])
  BY GetDiagRecTells DEF RecordsRight, got
<1>. QED  BY <1>1, <1>2 DEF RecordsRight, DiagnosticsTellLastCall

LEMMA DiagFieldTells ==
  ASSUME RecordsRight, NEW h \in Handle, NEW rec \in Nat, NEW field, NEW buffer, SQLGetDiagField(h, rec, field, buffer)
  PROVE  RecordsRight'
<1>. DEFINE got == GetDiagField(queue[h], h = "stmt", RowCount, rec, field, buffer)
<1>1. /\ answer'.f = "GetDiagField" /\ answer'.h = h /\ answer'.field = field /\ answer'.got = got
      /\ ended' = NoCall /\ queue' = queue
  BY DEF SQLGetDiagField
<1>2. field = "Number" => got = [ret |-> Success, value |-> Len(queue[h])]
  BY DEF GetDiagField, StatementHeader
<1>. HIDE DEF got
<1>3. field = "Number" => got.value = Len(queue[h])
  BY <1>2
<1>. QED  BY <1>1, <1>3 DEF RecordsRight, DiagnosticsTellLastCall

\* In every behaviour, whatever the data source, the calls and the buffers, the
\* diagnostics are those of the last call, each SQLSTATE listed for its function
\* (handles/diagnostics.rs, ffi/diag.rs, types/diagnostics_table.rs).
THEOREM RecordsAreRight == Spec => []RecordsRight
<1>1. Init => RecordsRight
  BY DEF Init, RecordsRight, DiagnosticsTellLastCall, Queues, NoAnswer
<1>2. RecordsRight /\ [Next]_vars => RecordsRight'
  <2>. SUFFICES ASSUME RecordsRight, [Next]_vars PROVE RecordsRight'
    OBVIOUS
  <2>1. CASE CatalogNext
    <3>1. CASE \E c \in (IF Fresh THEN Calls ELSE FewCalls), outcome \in Outcome :
                 \/ sql_tables_w(c, outcome)
                 \/ sql_columns_w(c, outcome)
                 \/ sql_primary_keys_w(c, outcome)
                 \/ sql_foreign_keys_w(c, outcome)
                 \/ sql_statistics_w(c, outcome)
                 \/ sql_special_columns_w(c, outcome)
                 \/ sql_procedures_w(c, outcome)
                 \/ sql_procedure_columns_w(c, outcome)
                 \/ sql_column_privileges_w(c, outcome)
                 \/ sql_table_privileges_w(c, outcome)
      BY <3>1, CatalogTells
    <3>2. CASE \E data_type \in {AllTypes} \cup {t.data_type : t \in Types}, outcome \in {"rows", "reversed"} :
                 GetTypeInfo(data_type, outcome)
      BY <3>2, GetTypeInfoTells
    <3>. QED  BY <2>1, <3>1, <3>2, Zenon DEF CatalogNext
  <2>2. CASE StatementNext
    <3>1. \/ \E pushed \in {<<>>, <<"01004">>, <<"01004", "01004">>}, error \in {NoError, "01S07", "22003"} :
               Fetch(pushed, error)
          \/ CloseCursor \/ MoreResults \/ SQLRowCount \/ SQLNumResultCols \/ \E value : SetMetadataId(value)
          \/ \E operation, lock_type : BulkOperations(operation) \/ SetPos(operation, lock_type)
          \/ \E k, buffer : DescribeCol(k, buffer)
          \/ \E k, field, buffer : ColAttribute(k, field, buffer)
      BY <2>2, Zenon DEF StatementNext
    <3>. QED  BY <3>1, FetchTells, PlainTells, PositionedTells, DescribeColTells, ColAttributeTells
  <2>3. CASE ConnectionNext
    <3>1. CASE \E t \in (IF Fresh THEN InfoType \cup RawType ELSE {"DriverName"}), own \in BOOLEAN :
                 GetInfo(t, own, 8)
      BY <3>1, GetInfoTells
    <3>2. CASE \E buffer \in Buffers : GetInfo("DriverName", FALSE, buffer)
      BY <3>2, GetInfoTells
    <3>3. CASE \E id \in (IF Fresh THEN {999, 2013} \cup {FunctionId[f] : f \in Function} ELSE {}) \cup {0} :
                 GetFunctions(id)
      BY <3>3, GetFunctionsTells
    <3>4. CASE \E text \in (IF Fresh THEN Texts ELSE FewTexts) : NativeSql(text, SQL_NTS, Len(text), 40)
      BY <3>4, NativeSqlTells
    <3>5. CASE \E text \in FewTexts \cup {Null}, buffer \in Buffers :
                 \E length \in {-5, SQL_NTS, Len(text)}, terminator \in {NotTerminated, Len(text)} :
                   NativeSql(text, length, terminator, buffer)
      BY <3>5, NativeSqlTells
    <3>. QED  BY <2>3, <3>1, <3>2, <3>3, <3>4, <3>5, Zenon DEF ConnectionNext
  <2>4. CASE \E h \in Handle, rec \in 0..3 : \E buffer \in Buffers : SQLGetDiagRec(h, rec, buffer)
    BY <2>4, DiagRecTells
  <2>5. CASE \E h \in Handle, rec \in 0..3 : \E field, buffer : SQLGetDiagField(h, rec, field, buffer)
    BY <2>5, DiagFieldTells
  <2>6. CASE Forget
    BY <2>6 DEF Forget, RecordsRight, DiagnosticsTellLastCall, NoAnswer
  <2>7. CASE UNCHANGED vars
    BY <2>7 DEF vars, RecordsRight, DiagnosticsTellLastCall
  <2>8. DiagnosticNext => \/ \E h \in Handle, rec \in 0..3 : \E buffer \in Buffers : SQLGetDiagRec(h, rec, buffer)
                          \/ \E h \in Handle, rec \in 0..3 : \E field, buffer : SQLGetDiagField(h, rec, field, buffer)
    BY Zenon DEF DiagnosticNext
  <2>. QED  BY <2>1, <2>2, <2>3, <2>4, <2>5, <2>6, <2>7, <2>8 DEF Next
<1>. QED  BY <1>1, <1>2, PTL DEF Spec

\* The connection and its statement: a result set is of a function whose
\* columns are described.
Typed == /\ source \in Sources /\ open \in BOOLEAN /\ metadata_id \in BOOLEAN
         /\ statement = NoStatement \/ statement.f \in DOMAIN Columns

\* An answer that tells neither a text nor what AnswersAgree is about.
Plain(a) == /\ {"kind", "text", "native"} \cap DOMAIN a = {}
            /\ a.f \notin {"GetFunctions", "NumResultCols", "ColAttribute", "GetDiagRec"}

\* A plain answer is right in what is stated of the others.
LEMMA PlainIsRight ==
  ASSUME Plain(answer)'
  PROVE  AnswersAgree' /\ TextFits'
BY DEF Plain, AnswersAgree, TextFits

\* What failed calls and the calls on a cursor answer is plain.
LEMMA PlainRecords ==
  /\ Plain(NoAnswer) /\ Plain([f |-> "failed"])
  /\ \A v : /\ Plain([f |-> "RowCount", value |-> v])
            /\ v \in {"Fetch", "CloseCursor", "MoreResults", "SetStmtAttr"} => Plain([f |-> v])
BY DEF Plain, NoAnswer

\* A call that tells what is plain has answered plainly.
LEMMA AnswersPlainly ==
  ASSUME NEW f, NEW h, NEW pushed, NEW error, NEW ret, NEW told, Plain(told),
         Answers(f, h, pushed, error, ret, told)
  PROVE  Plain(answer)'
BY PlainRecords DEF Answers

\* The columns of every catalog function are described.
LEMMA CatalogDescribed == CatalogFunction \subseteq DOMAIN Columns /\ "GetTypeInfo" \in DOMAIN Columns
BY DEF CatalogFunction, Arguments, Columns

\* The catalog functions and the calls on a cursor keep the types, and answer
\* plainly.
LEMMA CatalogPlain ==
  ASSUME Typed, NEW c, c.f \in CatalogFunction, NEW outcome \in Outcome, NEW checks, NEW keys,
         Answering(c, outcome, checks, keys)
  PROVE  Typed' /\ Plain(answer)'
<1>. DEFINE refusal == Refusal(checks)
            error == IF refusal # NoError THEN refusal
                     ELSE IF AsksBackend(c) THEN Failure(c, outcome) ELSE NoError
            rows == sort_rows(Answered(c, outcome), keys, source.nulls)
            told == [f |-> c.f, call |-> c, rows |-> rows,
                     listed |-> AsksBackend(c) /\ outcome # "unimplemented"]
<1>1. /\ Answers(c.f, "stmt", <<>>, error, Success, told)
      /\ statement' = IF error = NoError THEN [f |-> c.f, rows |-> Len(rows)] ELSE statement
      /\ UNCHANGED <<source, open, metadata_id>>
  BY DEF Answering
<1>2. Plain(told)
  <2>1. DOMAIN told = {"f", "call", "rows", "listed"} /\ told.f = c.f
    OBVIOUS
  <2>. HIDE DEF told
  <2>2. c.f \notin {"GetFunctions", "NumResultCols", "ColAttribute", "GetDiagRec"}
    BY DEF CatalogFunction, Arguments
  <2>. QED  BY <2>1, <2>2 DEF Plain
<1>. HIDE DEF told, rows, error
<1>3. Typed'
  <2>1. [f |-> c.f, rows |-> Len(rows)].f \in DOMAIN Columns
    BY CatalogDescribed
  <2>. QED  BY <1>1, <2>1 DEF Typed
<1>. QED  BY <1>1, <1>2, <1>3, AnswersPlainly

LEMMA StatementPlain ==
  ASSUME Typed, NEW data_type, NEW outcome, NEW pushed, NEW error, NEW operation, NEW lock_type, NEW value \in BOOLEAN,
         \/ GetTypeInfo(data_type, outcome) \/ Fetch(pushed, error) \/ CloseCursor \/ MoreResults
         \/ SQLRowCount \/ BulkOperations(operation) \/ SetPos(operation, lock_type) \/ SetMetadataId(value)
  PROVE  Typed' /\ Plain(answer)'
<1>1. CASE GetTypeInfo(data_type, outcome)
  <2>1. PICK rows :
          /\ Answers("GetTypeInfo", "stmt", <<>>, InvalidCursor, Success,
                     [f |-> "GetTypeInfo", data_type |-> data_type, rows |-> rows])
          /\ statement' = IF cursor_open THEN statement ELSE [f |-> "GetTypeInfo", rows |-> Len(rows)]
          /\ UNCHANGED <<source, open, metadata_id>>
    BY <1>1 DEF GetTypeInfo
  <2>2. Plain([f |-> "GetTypeInfo", data_type |-> data_type, rows |-> rows])
    BY DEF Plain
  <2>3. [f |-> "GetTypeInfo", rows |-> Len(rows)].f \in DOMAIN Columns
    BY CatalogDescribed
  <2>. QED  BY <2>1, <2>2, <2>3, AnswersPlainly DEF Typed
<1>2. CASE Fetch(pushed, error)
  BY <1>2, PlainRecords, AnswersPlainly DEF Fetch, Typed
<1>3. CASE CloseCursor
  BY <1>3, PlainRecords, AnswersPlainly DEF CloseCursor, Typed
<1>4. CASE MoreResults
  BY <1>4, PlainRecords, AnswersPlainly DEF MoreResults, Typed
<1>5. CASE SQLRowCount
  BY <1>5, PlainRecords, AnswersPlainly DEF SQLRowCount, Typed
<1>6. CASE BulkOperations(operation)
  BY <1>6, PlainRecords, AnswersPlainly DEF BulkOperations, Typed
<1>7. CASE SetPos(operation, lock_type)
  BY <1>7, PlainRecords, AnswersPlainly DEF SetPos, Typed
<1>8. CASE SetMetadataId(value)
  BY <1>8, PlainRecords, AnswersPlainly DEF SetMetadataId, Typed
<1>. QED  BY <1>1, <1>2, <1>3, <1>4, <1>5, <1>6, <1>7, <1>8

\* Text written for the application fits its buffer.
WrittenFits(text) ==
  LET room == IF text.bytes THEN text.buffer \div 2 ELSE text.buffer
      enough == text.reported + IF text.bytes THEN 2 ELSE 1
  IN  /\ text.copied = 0 \/ text.copied < room
      /\ text.ret = Info => text.buffer # NullPointer /\ (text.copied < text.units \/ room <= 0)
      /\ text.ret = Success => text.buffer = NullPointer \/ text.copied = text.units
      /\ text.units < IF text.bytes THEN enough \div 2 ELSE enough
      /\ text.reported <= IF text.bytes THEN text.units * 2 ELSE text.units

\* Whatever its length and the buffer, a text written fits it.
LEMMA ToldFits ==
  ASSUME NEW units \in Nat, NEW buffer \in Int, buffer = NullPointer \/ buffer >= -1, NEW bytes \in BOOLEAN
  PROVE  WrittenFits(Told(units, buffer, bytes))
<1>1. CASE bytes
  <2>. DEFINE room == IF buffer = NullPointer THEN buffer ELSE buffer \div 2
  <2>1. room \in Int /\ (room = NullPointer <=> buffer = NullPointer)
    BY DEF NullPointer
  <2>2. Told(units, buffer, bytes) =
          [units |-> units, buffer |-> buffer, bytes |-> TRUE,
           ret |-> write_utf16(units, room).ret, copied |-> write_utf16(units, room).copied,
           reported |-> units * 2]
    BY <1>1, Z3 DEF Told, write_bytes, write_utf16
  <2>3. (units * 2 + 2) \div 2 = units + 1
    OBVIOUS
  <2>4. buffer # NullPointer => room = buffer \div 2
    OBVIOUS
  <2>5. buffer = NullPointer => room < 0
    BY DEF NullPointer
  <2>. HIDE DEF room
  <2>. QED  BY <2>1, <2>2, <2>3, <2>4, <2>5 DEF WrittenFits, write_utf16, Success, Info
<1>2. CASE ~bytes
  BY <1>2 DEF Told, write_utf16, WrittenFits, NullPointer, Success, Info
<1>. QED  BY <1>1, <1>2

\* The types each layer answers, by the shape of its answer.
OfString == {"DriverOdbcVer", "DataSourceName", "ServerName", "UserName", "CollationSeq", "DriverName",
             "DriverVer", "XopenCliYear", "DescribeParameter", "LikeEscapeClause", "MultResultSets",
             "MaxRowSizeIncludesLong", "NeedLongDataLen", "SearchPatternEscape", "IdentifierQuoteChar",
             "CatalogTerm", "SchemaTerm", "CatalogNameSeparator", "CatalogName", "OuterJoins"}
             \cup YesNoHook \cup TextHook
OfU16 == {"CursorCommitBehaviour", "MaxCursorNameLen", "CatalogLocation", "NullCollation", "IdentifierCase",
          "TransactionCapable"} \cup IdentifierLength \cup ZeroU16 \cup U16Hook
OfU32 == {"CatalogUsage", "SchemaUsage", "TransactionIsolationProtocol", "DefaultTxnIsolation"}
           \cup ZeroU32 \cup FixedU32 \cup U32Hook
\* Each of them has the shape its group gives it.
LEMMA Shapes ==
  /\ \A t \in OfString : expected_kind(t) = "String"
  /\ \A t \in OfU16 : expected_kind(t) = "U16"
  /\ \A t \in OfU32 : expected_kind(t) = "U32"
<1>1. \A t \in OfString : expected_kind(t) = "String"
  BY DEF OfString, YesNoHook, TextHook, expected_kind, StringShaped
<1>2. \A t \in OfU16 : expected_kind(t) = "U16"
  BY DEF OfU16, IdentifierLength, ZeroU16, U16Hook, expected_kind, StringShaped, U16Shaped
<1>3. \A t \in OfU32 : expected_kind(t) = "U32"
  BY DEF OfU32, ZeroU32, FixedU32, U32Hook, expected_kind, StringShaped, U16Shaped
<1>. QED  BY <1>1, <1>2, <1>3

\* The answers a layer may give for t, with values of V.
Right(t, V) == {Nothing} \cup {v \in {<<"String", x>> : x \in V} : t \in OfString}
                 \cup {v \in {<<"U16", x>> : x \in V} : t \in OfU16}
                 \cup {v \in {<<"U32", x>> : x \in V} : t \in OfU32}
\* What is made of a value in the shape of t is right for t.
LEMMA RightOnes ==
  ASSUME NEW t, NEW V
  PROVE  /\ Nothing \in Right(t, V)
         /\ t \in OfString => \A x \in V : String(x) \in Right(t, V)
         /\ t \in OfU16 => \A x \in V : U16(x) \in Right(t, V)
         /\ t \in OfU32 => \A x \in V : U32(x) \in Right(t, V)
BY DEF Right, String, U16, U32

\* What the layers of the defaults say, with no connection and with one.
Said == {"03.80", "", "1995", "128", "MAX_CURSOR_NAME_LEN", "0", "q", "catalog", "schema", ".", "2", "8", "Y", "N"}
LEMMA WithoutConnectionRight ==
  ASSUME NEW s, NEW t
  PROVE  WithoutConnection(s, t) \in Right(t, Said \cup {t, s.commit})
<1>. DEFINE V == Said \cup {t, s.commit}
            R == Right(t, V)
<1>1. /\ Nothing \in R
      /\ t \in OfString => \A x \in V : String(x) \in R
      /\ t \in OfU16 => \A x \in V : U16(x) \in R
      /\ t \in OfU32 => \A x \in V : U32(x) \in R
  BY RightOnes
<1>2. /\ {t, s.commit} \subseteq V /\ {"03.80", "", "1995", "128", "MAX_CURSOR_NAME_LEN", "0"} \subseteq V
      /\ t \in OfString => Y(TRUE) \in R /\ Y(FALSE) \in R
  BY <1>1 DEF Said, Y, String
<1>. HIDE DEF V, R
<1>3. /\ "03.80" \in V /\ "" \in V /\ "1995" \in V /\ "128" \in V /\ "MAX_CURSOR_NAME_LEN" \in V
      /\ "0" \in V /\ t \in V /\ s.commit \in V
  BY <1>2
<1>4. /\ t \in {"DriverOdbcVer", "DataSourceName", "ServerName", "UserName", "CollationSeq", "DriverName",
                "DriverVer", "XopenCliYear", "DescribeParameter", "LikeEscapeClause", "MultResultSets",
                "MaxRowSizeIncludesLong", "NeedLongDataLen"} => t \in OfString
      /\ t \in {"CursorCommitBehaviour", "MaxCursorNameLen"} \cup IdentifierLength \cup ZeroU16 => t \in OfU16
      /\ t \in ZeroU32 \cup FixedU32 => t \in OfU32
  BY DEF OfString, OfU16, OfU32
<1>5. WithoutConnection(s, t) \in R
  BY <1>1, <1>2, <1>3, <1>4, ZenonT(60) DEF WithoutConnection
<1>. QED  BY <1>5 DEF R, V

LEMMA FromConnectionRight ==
  ASSUME NEW s, NEW t
  PROVE  FromConnection(s, t) \in Right(t, Said \cup {t, s.escape, s.nulls, s.case})
<1>. DEFINE V == Said \cup {t, s.escape, s.nulls, s.case}
            R == Right(t, V)
<1>1. /\ Nothing \in R
      /\ t \in OfString => \A x \in V : String(x) \in R
      /\ t \in OfU16 => \A x \in V : U16(x) \in R
      /\ t \in OfU32 => \A x \in V : U32(x) \in R
  BY RightOnes
<1>2. /\ {t, s.escape, s.nulls, s.case} \subseteq V
      /\ \A b : (IF b THEN "2" ELSE "0") \in V /\ (IF b THEN "8" ELSE "0") \in V
      /\ \A b : /\ (IF b THEN "catalog" ELSE "") \in V /\ (IF b THEN "schema" ELSE "") \in V
                /\ (IF b THEN "" ELSE "q") \in V /\ (IF b THEN "." ELSE "") \in V
      /\ t \in OfString => \A b : Y(b) \in R
  BY <1>1 DEF Said, Y, String
<1>. HIDE DEF V, R
<1>3. /\ t \in V /\ s.escape \in V /\ s.nulls \in V /\ s.case \in V /\ "0" \in V
  BY <1>2 DEF V, Said
<1>4. /\ t \in {"SearchPatternEscape", "IdentifierQuoteChar", "CatalogTerm", "SchemaTerm",
                  "CatalogNameSeparator", "CatalogName", "OuterJoins"} \cup YesNoHook \cup TextHook
         => t \in OfString
      /\ t \in {"CatalogLocation", "NullCollation", "IdentifierCase", "TransactionCapable"} \cup U16Hook
         => t \in OfU16
      /\ t \in {"CatalogUsage", "SchemaUsage", "TransactionIsolationProtocol", "DefaultTxnIsolation"}
                 \cup U32Hook => t \in OfU32
  BY DEF OfString, OfU16, OfU32
<1>5. FromConnection(s, t) \in R
  BY <1>1, <1>2, <1>3, <1>4, ZenonT(60) DEF FromConnection
<1>. QED  BY <1>5 DEF R, V

\* So every layer answers in the shape of the type that is asked for.
LEMMA LayersShaped ==
  ASSUME NEW s, NEW connected, NEW t
  PROVE  LET v == default_get_info(s, connected, t) IN v # Nothing => v[1] = expected_kind(t)
<1>. DEFINE v == default_get_info(s, connected, t)
<1>1. ASSUME NEW V, NEW w \in Right(t, V), w # Nothing  PROVE w[1] = expected_kind(t)
  BY <1>1, Shapes DEF Right
<1>2. v = Nothing \/ v = WithoutConnection(s, t) \/ v = FromConnection(s, t)
  BY DEF default_get_info
<1>. HIDE DEF v
<1>3. WithoutConnection(s, t) # Nothing => WithoutConnection(s, t)[1] = expected_kind(t)
  BY <1>1, WithoutConnectionRight, Zenon
<1>4. FromConnection(s, t) # Nothing => FromConnection(s, t)[1] = expected_kind(t)
  BY <1>1, FromConnectionRight, Zenon
<1>5. v # Nothing => v[1] = expected_kind(t)
  BY <1>2, <1>3, <1>4
<1>. QED  BY <1>5 DEF v

\* The same of the raw numbers, where a connected one always has its answer.
LEMMA CommonShaped ==
  ASSUME NEW s, NEW connected, NEW t
  PROVE  LET v == common_get_info_raw(s, connected, t)
         IN  /\ v # Nothing /\ t \in InfoType => v[1] = expected_kind(t)
             /\ v # Nothing /\ t \notin InfoType =>
                  v[1] = IF t \in RawString THEN "String" ELSE IF t \in RawU16 THEN "U16" ELSE "U32"
             /\ connected /\ t \in RawString \ {"DatabaseName"} => v # Nothing
<1>. DEFINE v == common_get_info_raw(s, connected, t)
            common == {"RowUpdates", "Procedures", "ProcedureTerm", "TableTerm", "MultipleActiveTxn", "Keywords"}
            V == {"0", "", "table", "N", "Y", t, s.rollback}
            R == {Nothing} \cup {w \in {<<"String", x>> : x \in V} : t \in common}
                   \cup {w \in {<<"U16", x>> : x \in V} :
                           t \in {"SqlFileUsage", "CursorRollbackBehavior", "SqlQuotedIdentifierCase"}}
<1>1. /\ Nothing \in R
      /\ t \in common => String("") \in R /\ String("table") \in R /\ Y(TRUE) \in R /\ Y(FALSE) \in R
                         /\ String(t) \in R
      /\ t \in {"SqlFileUsage", "CursorRollbackBehavior", "SqlQuotedIdentifierCase"} =>
           U16("0") \in R /\ U16(s.rollback) \in R /\ U16(t) \in R
  BY DEF String, U16, Y
<1>2. v \in R
  <2>. HIDE DEF R
  <2>. QED  BY <1>1, ZenonT(60) DEF common_get_info_raw
<1>3. connected /\ t \in RawString \ {"DatabaseName"} => v # Nothing
  <2>. SUFFICES ASSUME connected, t \in RawString \ {"DatabaseName"} PROVE v # Nothing
    OBVIOUS
  <2>1. \A x : String(x) # Nothing /\ Y(x) # Nothing
    BY DEF String, Y, Nothing
  <2>2. \/ t = "RowUpdates" \/ t = "Procedures" \/ t = "MultipleActiveTxn" \/ t = "Keywords"
        \/ t = "ProcedureTerm" \/ t = "TableTerm"
    BY DEF RawString
  <2>3. CASE t = "RowUpdates"
    <3>1. common_get_info_raw(s, connected, "RowUpdates") = Y(FALSE)
      BY DEF common_get_info_raw
    <3>. QED  BY <2>1, <2>3, <3>1
  <2>4. CASE t = "Procedures"
    <3>1. common_get_info_raw(s, connected, "Procedures") = Y(FALSE)
      BY DEF common_get_info_raw
    <3>. QED  BY <2>1, <2>4, <3>1
  <2>5. CASE t = "MultipleActiveTxn"
    <3>1. common_get_info_raw(s, connected, "MultipleActiveTxn") = Y(TRUE)
      BY DEF common_get_info_raw
    <3>. QED  BY <2>1, <2>5, <3>1
  <2>6. CASE t = "Keywords"
    <3>1. common_get_info_raw(s, connected, "Keywords") = String("Keywords")
      BY DEF common_get_info_raw
    <3>. QED  BY <2>1, <2>6, <3>1
  <2>7. CASE t = "ProcedureTerm"
    <3>1. common_get_info_raw(s, connected, "ProcedureTerm") = String("")
      BY DEF common_get_info_raw
    <3>. QED  BY <2>1, <2>7, <3>1
  <2>8. CASE t = "TableTerm"
    <3>1. common_get_info_raw(s, connected, "TableTerm") = String("table")
      BY DEF common_get_info_raw
    <3>. QED  BY <2>1, <2>8, <3>1
  <2>. QED  BY <2>2, <2>3, <2>4, <2>5, <2>6, <2>7, <2>8
<1>4. t \in common => t \notin InfoType /\ t \in RawString
  BY DEF InfoType, StringShaped, U16Shaped, U32Shaped, RawString
<1>5. "SqlFileUsage" \in U16Shaped /\ "SqlQuotedIdentifierCase" \in U16Shaped
      /\ "SqlFileUsage" \notin StringShaped /\ "SqlQuotedIdentifierCase" \notin StringShaped
      /\ "CursorRollbackBehavior" \notin InfoType /\ "CursorRollbackBehavior" \in RawU16
      /\ "CursorRollbackBehavior" \notin RawString
  BY DEF InfoType, StringShaped, U16Shaped, U32Shaped, RawString, RawU16
<1>6. v = Nothing \/ (t \in common /\ v[1] = "String")
      \/ (t \in {"SqlFileUsage", "CursorRollbackBehavior", "SqlQuotedIdentifierCase"} /\ v[1] = "U16")
  <2>1. \A x : <<"String", x>>[1] = "String" /\ <<"U16", x>>[1] = "U16"
    OBVIOUS
  <2>. HIDE DEF v, V, common
  <2>. QED  BY <1>2, <2>1
<1>. HIDE DEF v, R, common
<1>7. v # Nothing /\ t \in InfoType => v[1] = expected_kind(t)
  BY <1>4, <1>5, <1>6 DEF expected_kind
<1>8. v # Nothing /\ t \notin InfoType =>
        v[1] = IF t \in RawString THEN "String" ELSE IF t \in RawU16 THEN "U16" ELSE "U32"
  BY <1>4, <1>5, <1>6 DEF InfoType
<1>. QED  BY <1>3, <1>7, <1>8 DEF v

\* The kind an answer about t has; about a raw number only with a connection.
LEMMA InformationShaped ==
  ASSUME NEW s, NEW connected, NEW t \in InfoType \cup RawType, NEW own \in BOOLEAN
  PROVE  LET v == InfoAbout(s, connected, t, own)
         IN  /\ t \in InfoType => v[1] = expected_kind(t)
             /\ connected /\ t \notin InfoType =>
                  v[1] = IF t \in RawString THEN "String" ELSE IF t \in RawU16 THEN "U16" ELSE "U32"
<1>. DEFINE v == InfoAbout(s, connected, t, own)
            common == common_get_info_raw(s, connected, t)
            layered == default_get_info(s, connected, t)
            default == ShapedDefault(t)
            Shape == IF t \in InfoType THEN expected_kind(t)
                     ELSE IF t \in RawString THEN "String" ELSE IF t \in RawU16 THEN "U16" ELSE "U32"
<1>. SUFFICES t \in InfoType \/ connected => v[1] = Shape
  BY Zenon
<1>0. <<expected_kind(t), "own">> # Nothing
  BY DEF Nothing
<1>1. CASE t \in InfoType /\ own
  <2>1. v = <<expected_kind(t), "own">>
    BY <1>0, <1>1 DEF InfoAbout, info_type_or_default, Own
  <2>2. v[1] = expected_kind(t)
    BY <2>1
  <2>. HIDE DEF v
  <2>. QED  BY <1>1, <2>2
<1>2. CASE ~(t \in InfoType /\ own)
  <2>1. v = info_type_default_response(s, connected, s.catalog, Nothing, t)
    BY <1>2 DEF InfoAbout, info_type_or_default, Own, Nothing
  <2>2. /\ common # Nothing => common[1] = Shape
        /\ connected /\ t \in RawString \ {"DatabaseName"} => common # Nothing
        /\ t \in InfoType /\ layered # Nothing => layered[1] = Shape
    BY CommonShaped, LayersShaped
  <2>3. /\ U16(s.commit)[1] = "U16" /\ String(s.catalog)[1] = "String"
    BY DEF U16, String
  <2>4. /\ t = "CursorCommitBehaviour" => Shape = "U16"
        /\ t = "DatabaseName" => Shape = "String"
    BY DEF expected_kind, InfoType, StringShaped, U16Shaped, U32Shaped, RawString
  <2>5. t \in InfoType \/ t \notin RawString => default[1] = Shape
    <3>1. CASE t \in InfoType
      <4>1. t \notin Convert /\ t \notin RawU16
        BY <3>1 DEF InfoType, StringShaped, U16Shaped, U32Shaped, Convert, RawU16
      <4>2. default = IF expected_kind(t) = "String" THEN String("") ELSE <<expected_kind(t), "0">>
        BY <3>1, <4>1 DEF ShapedDefault
      <4>3. <<expected_kind(t), "0">>[1] = expected_kind(t) /\ String("")[1] = "String"
        BY DEF String
      <4>4. default[1] = expected_kind(t)
        BY <4>2, <4>3
      <4>. HIDE DEF default
      <4>. QED  BY <3>1, <4>4
    <3>2. CASE t \in RawType \ (InfoType \cup RawString)
      <4>1. CASE t \in Convert
        <5>1. t \notin RawU16
          BY <4>1 DEF Convert, RawU16
        <5>2. default = U32("4294967295")
          BY <3>2, <4>1, <5>1 DEF ShapedDefault
        <5>. QED  BY <3>2, <5>1, <5>2 DEF U32
      <4>2. CASE t \in RawU16
        <5>1. t \notin Convert
          BY <4>2 DEF Convert, RawU16
        <5>2. default = U16("0")
          BY <3>2, <4>2, <5>1 DEF ShapedDefault
        <5>. QED  BY <3>2, <4>2, <5>2 DEF U16
      <4>3. CASE t \notin RawU16 /\ t \notin Convert
        <5>1. default = U32("0")
          BY <3>2, <4>3 DEF ShapedDefault
        <5>. QED  BY <3>2, <4>3, <5>1 DEF U32
      <4>. QED  BY <4>1, <4>2, <4>3
    <3>3. t \in RawType \/ t \in InfoType
      OBVIOUS
    <3>. HIDE DEF default, Shape
    <3>. QED  BY <3>1, <3>2, <3>3
  <2>. DEFINE R == {w \in {U16(s.commit), String(s.catalog), common, layered, default} :
                      t \in InfoType \/ connected => w[1] = Shape}
  <2>6. /\ t = "CursorCommitBehaviour" => U16(s.commit) \in R
        /\ t = "DatabaseName" => String(s.catalog) \in R
        /\ common # Nothing => common \in R
        /\ t \in InfoType /\ layered # Nothing => layered \in R
        /\ t # "DatabaseName" /\ common = Nothing => default \in R
    <3>. HIDE DEF common, layered, default, Shape
    <3>. QED  BY <2>2, <2>3, <2>4, <2>5
  <2>7. info_type_default_response(s, connected, s.catalog, Nothing, t) \in R
    <3>. HIDE DEF R
    <3>. QED  BY <2>6, Zenon DEF info_type_default_response
  <2>. HIDE DEF v, Shape
  <2>. QED  BY <2>1, <2>7
<1>. QED  BY <1>1, <1>2

\* The types of info_group_consistent that default_get_info answers with a connection.
Grouped == {"CatalogName", "CatalogTerm", "SchemaTerm", "CatalogNameSeparator", "CatalogLocation", "CatalogUsage",
            "SchemaUsage", "TransactionCapable", "TransactionIsolationProtocol", "DefaultTxnIsolation"}
\* The types of the group consistency is asked of, left to the last layer.
LEMMA GroupedLater ==
  ASSUME NEW s, NEW connected, NEW t \in Grouped
  PROVE  /\ t \in InfoType /\ t \notin {"CursorCommitBehaviour", "DatabaseName"}
         /\ common_get_info_raw(s, connected, t) = Nothing
         /\ WithoutConnection(s, t) = Nothing
<1>1. t \in InfoType /\ t \notin {"CursorCommitBehaviour", "DatabaseName"}
  BY DEF Grouped, InfoType, StringShaped, U16Shaped, U32Shaped
<1>2. /\ t \notin {"SqlFileUsage", "CursorRollbackBehavior", "ProcedureTerm", "TableTerm",
                   "SqlQuotedIdentifierCase", "MultipleActiveTxn", "Keywords"}
      /\ t \notin {"RowUpdates", "Procedures"}
  BY DEF Grouped
<1>3. common_get_info_raw(s, connected, t) \in {Nothing}
  BY <1>2, Zenon DEF common_get_info_raw
<1>4. /\ t \notin {"DriverOdbcVer", "XopenCliYear", "CursorCommitBehaviour", "MaxCursorNameLen"}
      /\ t \notin {"DataSourceName", "ServerName", "UserName", "CollationSeq"}
      /\ t \notin {"DriverName", "DriverVer"}
      /\ t \notin {"DescribeParameter", "LikeEscapeClause"}
      /\ t \notin {"MultResultSets", "MaxRowSizeIncludesLong", "NeedLongDataLen"}
      /\ t \notin IdentifierLength /\ t \notin ZeroU16 /\ t \notin ZeroU32 /\ t \notin FixedU32
  BY DEF Grouped, IdentifierLength, ZeroU16, ZeroU32, FixedU32
<1>5. WithoutConnection(s, t) \in {Nothing}
  BY <1>4, Zenon DEF WithoutConnection
<1>. QED  BY <1>1, <1>3, <1>5

\* A connected driver answers them from what the data source declares.
LEMMA GroupedAnswers ==
  ASSUME NEW s, NEW connected, connected, NEW t \in Grouped, FromConnection(s, t) # Nothing
  PROVE  InfoAbout(s, connected, t, FALSE) = FromConnection(s, t)
<1>1. default_get_info(s, connected, t) = FromConnection(s, t)
  BY GroupedLater DEF default_get_info
<1>2. info_type_default_response(s, connected, s.catalog, Nothing, t) \in {FromConnection(s, t)}
  <2>1. t # "CursorCommitBehaviour" /\ t # "DatabaseName" /\ common_get_info_raw(s, connected, t) = Nothing
        /\ t \in InfoType
    BY GroupedLater
  <2>2. default_get_info(s, connected, t) # Nothing /\ default_get_info(s, connected, t) \in {FromConnection(s, t)}
    BY <1>1
  <2>. QED  BY <2>1, <2>2, Zenon DEF info_type_default_response
<1>. QED  BY <1>2 DEF InfoAbout, info_type_or_default

\* A value is an answer, and its second part what was to be said.
LEMMA SaidSomething ==
  \A x : String(x) # Nothing /\ U16(x) # Nothing /\ U32(x) # Nothing /\ Y(x) # Nothing
BY DEF String, U16, U32, Y, Nothing

LEMMA Seconds ==
  \A x : String(x)[2] = x /\ U16(x)[2] = x /\ U32(x)[2] = x
BY DEF String, U16, U32

\* The answers of that layer, by what the data source declares.
LEMMA DeclaredAnswers ==
  ASSUME NEW s
  PROVE  /\ FromConnection(s, "CatalogName") = Y(s.catalogs)
         /\ FromConnection(s, "CatalogTerm") = String(IF s.catalogs THEN "catalog" ELSE "")
         /\ FromConnection(s, "SchemaTerm") = String(IF s.schemas THEN "schema" ELSE "")
         /\ FromConnection(s, "CatalogNameSeparator") = String(IF s.catalogs THEN "." ELSE "")
         /\ ~s.catalogs => FromConnection(s, "CatalogLocation") = U16("0")
         /\ ~s.catalogs => FromConnection(s, "CatalogUsage") = U32("0")
         /\ ~s.schemas => FromConnection(s, "SchemaUsage") = U32("0")
         /\ FromConnection(s, "TransactionCapable") = U16(IF s.transactions THEN "2" ELSE "0")
         /\ FromConnection(s, "TransactionIsolationProtocol") = U32(IF s.transactions THEN "8" ELSE "0")
         /\ FromConnection(s, "DefaultTxnIsolation") = U32(IF s.transactions THEN "8" ELSE "0")
<1>. USE DEF FromConnection, YesNoHook, TextHook, U16Hook, U32Hook
<1>1. FromConnection(s, "CatalogName") = Y(s.catalogs)
  OBVIOUS
<1>2. FromConnection(s, "CatalogTerm") = String(IF s.catalogs THEN "catalog" ELSE "")
  OBVIOUS
<1>3. FromConnection(s, "SchemaTerm") = String(IF s.schemas THEN "schema" ELSE "")
  OBVIOUS
<1>4. FromConnection(s, "CatalogNameSeparator") = String(IF s.catalogs THEN "." ELSE "")
  OBVIOUS
<1>5. ~s.catalogs => FromConnection(s, "CatalogLocation") = U16("0")
  OBVIOUS
<1>6. ~s.catalogs => FromConnection(s, "CatalogUsage") = U32("0")
  OBVIOUS
<1>7. ~s.schemas => FromConnection(s, "SchemaUsage") = U32("0")
  OBVIOUS
<1>8. FromConnection(s, "TransactionCapable") = U16(IF s.transactions THEN "2" ELSE "0")
  OBVIOUS
<1>9. FromConnection(s, "TransactionIsolationProtocol") = U32(IF s.transactions THEN "8" ELSE "0")
  OBVIOUS
<1>10. FromConnection(s, "DefaultTxnIsolation") = U32(IF s.transactions THEN "8" ELSE "0")
  OBVIOUS
<1>. HIDE DEF FromConnection, YesNoHook, TextHook, U16Hook, U32Hook
<1>. QED  BY <1>1, <1>2, <1>3, <1>4, <1>5, <1>6, <1>7, <1>8, <1>9, <1>10

\* So they are consistent, whatever the data source declares.
LEMMA GroupAgrees ==
  ASSUME NEW s, NEW connected, connected
  PROVE  info_group_consistent([u \in InfoType \cup RawType |-> InfoAbout(s, connected, u, FALSE)])
<1>. DEFINE a == [u \in InfoType \cup RawType |-> InfoAbout(s, connected, u, FALSE)]
<1>1. Grouped \subseteq InfoType \cup RawType /\ {"Procedures", "ProcedureTerm"} \subseteq InfoType \cup RawType
  BY GroupedLater DEF RawType, RawString
<1>2. \A t \in Grouped : FromConnection(s, t) # Nothing => a[t] = FromConnection(s, t)
  BY <1>1, GroupedAnswers
<1>3. a["Procedures"] = Y(FALSE)
  <2>1. common_get_info_raw(s, connected, "Procedures") = Y(FALSE)
    BY DEF common_get_info_raw
  <2>2. common_get_info_raw(s, connected, "Procedures") # Nothing /\ "Procedures" \notin InfoType
        /\ common_get_info_raw(s, connected, "Procedures") \in {Y(FALSE)}
    BY <2>1, SaidSomething DEF InfoType, StringShaped, U16Shaped, U32Shaped
  <2>3. info_type_default_response(s, connected, s.catalog, Nothing, "Procedures") \in {Y(FALSE)}
    BY <2>2, Zenon DEF info_type_default_response
  <2>4. InfoAbout(s, connected, "Procedures", FALSE) = Y(FALSE)
    BY <2>2, <2>3 DEF InfoAbout, info_type_or_default
  <2>. QED  BY <1>1, <2>4
<1>. HIDE DEF a
<1>. USE DeclaredAnswers, SaidSomething DEF Grouped
<1>4. a["CatalogName"] = Y(s.catalogs)
  BY <1>2
<1>5. a["CatalogTerm"] = String(IF s.catalogs THEN "catalog" ELSE "")
  BY <1>2
<1>6. a["SchemaTerm"] = String(IF s.schemas THEN "schema" ELSE "")
  BY <1>2
<1>7. a["CatalogNameSeparator"] = String(IF s.catalogs THEN "." ELSE "")
  BY <1>2
<1>8. ~s.catalogs => a["CatalogLocation"] = U16("0")
  BY <1>2
<1>9. ~s.catalogs => a["CatalogUsage"] = U32("0")
  BY <1>2
<1>10. ~s.schemas => a["SchemaUsage"] = U32("0")
  BY <1>2
<1>11. a["TransactionCapable"] = U16(IF s.transactions THEN "2" ELSE "0")
  BY <1>2
<1>12. a["TransactionIsolationProtocol"] = U32(IF s.transactions THEN "8" ELSE "0")
  BY <1>2
<1>13. a["DefaultTxnIsolation"] = U32(IF s.transactions THEN "8" ELSE "0")
  BY <1>2
<1>. HIDE DeclaredAnswers, SaidSomething DEF Grouped
<1>14. a["CatalogName"][2] = (IF s.catalogs THEN "Y" ELSE "N")
  BY <1>4 DEF Y
<1>15. a["CatalogTerm"][2] = (IF s.catalogs THEN "catalog" ELSE "")
  BY <1>5, Seconds, Zenon
<1>16. a["SchemaTerm"][2] = (IF s.schemas THEN "schema" ELSE "")
  BY <1>6, Seconds, Zenon
<1>17. a["CatalogNameSeparator"][2] = (IF s.catalogs THEN "." ELSE "")
  BY <1>7, Seconds, Zenon
<1>18. ~s.catalogs => a["CatalogLocation"][2] = ("0")
  BY <1>8, Seconds, Zenon
<1>19. ~s.catalogs => a["CatalogUsage"][2] = ("0")
  BY <1>9, Seconds, Zenon
<1>20. ~s.schemas => a["SchemaUsage"][2] = ("0")
  BY <1>10, Seconds, Zenon
<1>21. a["TransactionCapable"][2] = (IF s.transactions THEN "2" ELSE "0")
  BY <1>11, Seconds, Zenon
<1>22. a["TransactionIsolationProtocol"][2] = (IF s.transactions THEN "8" ELSE "0")
  BY <1>12, Seconds, Zenon
<1>23. a["DefaultTxnIsolation"][2] = (IF s.transactions THEN "8" ELSE "0")
  BY <1>13, Seconds, Zenon
<1>24. a["Procedures"][2] = "N"
  BY <1>3 DEF Y
<1>25. info_group_consistent(a)
  BY <1>14, <1>15, <1>16, <1>17, <1>18, <1>19, <1>20, <1>21, <1>22, <1>23, <1>24 DEF info_group_consistent
<1>. QED  BY <1>25 DEF a

\* A row of n values; how long the parts are the rows are made of.
Row(s, n) == \E S : s \in Seq(S) /\ Len(s) = n
LEMMA RowsJoined ==
  ASSUME NEW s, NEW t, NEW m \in Nat, NEW n \in Nat, Row(s, m), Row(t, n)
  PROVE  Row(s \o t, m + n)
<1>1. PICK S : s \in Seq(S) /\ Len(s) = m
  BY DEF Row
<1>2. PICK T : t \in Seq(T) /\ Len(t) = n
  BY DEF Row
<1>3. s \in Seq(S \cup T) /\ t \in Seq(S \cup T)
  BY <1>1, <1>2
<1>4. s \o t \in Seq(S \cup T) /\ Len(s \o t) = m + n
  BY <1>1, <1>2, <1>3
<1>. QED  BY <1>4 DEF Row

LEMMA RowOf1 == \A a : Row(<<a>>, 1)
<1>. TAKE a
<1>1. <<a>> \in Seq({a}) /\ Len(<<a>>) = 1
  OBVIOUS
<1>. QED  BY <1>1 DEF Row
LEMMA RowOf2 == \A a, b : Row(<<a, b>>, 2)
<1>. TAKE a, b
<1>1. <<a, b>> \in Seq({a, b}) /\ Len(<<a, b>>) = 2
  OBVIOUS
<1>. QED  BY <1>1 DEF Row
LEMMA RowOf3 == \A a, b, c : Row(<<a, b, c>>, 3)
<1>. TAKE a, b, c
<1>1. <<a, b, c>> \in Seq({a, b, c}) /\ Len(<<a, b, c>>) = 3
  OBVIOUS
<1>. QED  BY <1>1 DEF Row
LEMMA RowOf4 == \A a, b, c, d : Row(<<a, b, c, d>>, 4)
<1>. TAKE a, b, c, d
<1>1. <<a, b, c, d>> \in Seq({a, b, c, d}) /\ Len(<<a, b, c, d>>) = 4
  OBVIOUS
<1>. QED  BY <1>1 DEF Row
LEMMA RowOf5 == \A a, b, c, d, e : Row(<<a, b, c, d, e>>, 5)
<1>. TAKE a, b, c, d, e
<1>1. <<a, b, c, d, e>> \in Seq({a, b, c, d, e}) /\ Len(<<a, b, c, d, e>>) = 5
  OBVIOUS
<1>. QED  BY <1>1 DEF Row
LEMMA RowOf7 == \A a, b, c, d, e, f, g : Row(<<a, b, c, d, e, f, g>>, 7)
<1>. TAKE a, b, c, d, e, f, g
<1>1. <<a, b, c, d, e, f, g>> \in Seq({a, b, c, d, e, f, g}) /\ Len(<<a, b, c, d, e, f, g>>) = 7
  OBVIOUS
<1>. QED  BY <1>1 DEF Row
LEMMA RowOf8 == \A a, b, c, d, e, f, g, h : Row(<<a, b, c, d, e, f, g, h>>, 8)
<1>. TAKE a, b, c, d, e, f, g, h
<1>1. <<a, b, c, d, e, f, g, h>> \in Seq({a, b, c, d, e, f, g, h}) /\ Len(<<a, b, c, d, e, f, g, h>>) = 8
  OBVIOUS
<1>. QED  BY <1>1 DEF Row
LEMMA RowOf10 == \A a, b, c, d, e, f, g, h, i, j : Row(<<a, b, c, d, e, f, g, h, i, j>>, 10)
<1>. TAKE a, b, c, d, e, f, g, h, i, j
<1>1. /\ <<a, b, c, d, e, f, g, h, i, j>> \in Seq({a, b, c, d, e, f, g, h, i, j})
      /\ Len(<<a, b, c, d, e, f, g, h, i, j>>) = 10
  OBVIOUS
<1>. QED  BY <1>1 DEF Row
LEMMA RowOf14 ==
  \A a, b, c, d, e, f, g, h, i, j, k, l, m, n : Row(<<a, b, c, d, e, f, g, h, i, j, k, l, m, n>>, 14)
<1>. TAKE a, b, c, d, e, f, g, h, i, j, k, l, m, n
<1>1. /\ <<a, b, c, d, e, f, g, h, i, j, k, l, m, n>> \in Seq({a, b, c, d, e, f, g, h, i, j, k, l, m, n})
      /\ Len(<<a, b, c, d, e, f, g, h, i, j, k, l, m, n>>) = 14
  OBVIOUS
<1>. QED  BY <1>1 DEF Row
LEMMA RowOf19 ==
  \A a, b, c, d, e, f, g, h, i, j, k, l, m, n, o, p, q, r, s :
    Row(<<a, b, c, d, e, f, g, h, i, j, k, l, m, n, o, p, q, r, s>>, 19)
<1>. TAKE a, b, c, d, e, f, g, h, i, j, k, l, m, n, o, p, q, r, s
<1>1. /\ <<a, b, c, d, e, f, g, h, i, j, k, l, m, n, o, p, q, r, s>> \in
             Seq({a, b, c, d, e, f, g, h, i, j, k, l, m, n, o, p, q, r, s})
      /\ Len(<<a, b, c, d, e, f, g, h, i, j, k, l, m, n, o, p, q, r, s>>) = 19
  OBVIOUS
<1>. QED  BY <1>1 DEF Row

\* The parts the described columns and the pushed values share.
LEMMA RowParts ==
  /\ Row(AboutAType, 14) /\ Row(TypeValues, 14)
  /\ \A a, b, c : Row(Object(a, b, c), 3) /\ Row(NamedRow(a, b, c), 3)
  /\ Row(ATable, 3) /\ Row(AProcedure, 3) /\ Row(TableValues, 3) /\ Row(ProcedureValues, 3)
  /\ Row(PkTableValues, 3) /\ Row(FkTableValues, 3) /\ Row(Granted, 4) /\ Row(GrantValues, 4)
<1>1. Row(AboutAType, 14)
  BY RowOf14 DEF AboutAType
<1>2. Row(TypeValues, 14)
  BY RowOf14 DEF TypeValues
<1>3. \A a, b, c : Row(Object(a, b, c), 3) /\ Row(NamedRow(a, b, c), 3)
  BY RowOf3 DEF Object, NamedRow
<1>4. Row(Granted, 4) /\ Row(GrantValues, 4)
  BY RowOf4 DEF Granted, GrantValues
<1>5. /\ Row(ATable, 3) /\ Row(AProcedure, 3) /\ Row(TableValues, 3) /\ Row(ProcedureValues, 3)
      /\ Row(PkTableValues, 3) /\ Row(FkTableValues, 3)
  BY <1>3 DEF ATable, AProcedure, TableValues, ProcedureValues, PkTableValues, FkTableValues
<1>. QED  BY <1>1, <1>2, <1>3, <1>4, <1>5

\* What is described and what is pushed have the same width, function by function.
LEMMA Widths ==
  /\ Row(TablesColumns, 5) /\ Row(TableRow, 5)
  /\ Row(ColumnsColumns, 18) /\ Row(ColumnRow, 18)
  /\ Row(PrimaryKeysColumns, 6) /\ Row(PrimaryKeyRow, 6)
  /\ Row(ForeignKeysColumns, 14) /\ Row(ForeignKeyRow, 14)
  /\ Row(statistics_columns, 13) /\ Row(StatisticsRow, 13)
  /\ Row(special_columns_columns, 8) /\ Row(SpecialColumnRow, 8)
  /\ Row(procedures_columns, 8) /\ Row(ProcedureRow, 8)
  /\ Row(procedure_columns_columns, 19) /\ Row(ProcedureColumnRow, 19)
  /\ Row(column_privileges_columns, 8) /\ Row(ColumnPrivilegeRow, 8)
  /\ Row(table_privileges_columns, 7) /\ Row(TablePrivilegeRow, 7)
  /\ Row(type_info_columns, 19) /\ Row(TypeInfoRow, 19)
<1>1. Row(TablesColumns, 5)
  BY RowOf5 DEF TablesColumns
<1>2. Row(TableRow, 5)
  BY RowOf5 DEF TableRow
<1>3. Row(ColumnsColumns, 18)
  BY RowParts, RowOf1, RowsJoined DEF ColumnsColumns
<1>4. Row(ColumnRow, 18)
  BY RowParts, RowOf1, RowsJoined DEF ColumnRow
<1>5. Row(PrimaryKeysColumns, 6)
  BY RowParts, RowOf3, RowsJoined DEF PrimaryKeysColumns
<1>6. Row(PrimaryKeyRow, 6)
  BY RowParts, RowOf3, RowsJoined DEF PrimaryKeyRow
<1>7. Row(ForeignKeysColumns, 14)
  BY RowParts, RowOf1, RowOf7, RowsJoined DEF ForeignKeysColumns
<1>8. Row(ForeignKeyRow, 14)
  BY RowParts, RowOf1, RowOf7, RowsJoined DEF ForeignKeyRow
<1>9. Row(statistics_columns, 13)
  BY RowParts, RowOf10, RowsJoined DEF statistics_columns
<1>10. Row(StatisticsRow, 13)
  BY RowParts, RowOf10, RowsJoined DEF StatisticsRow
<1>11. Row(special_columns_columns, 8)
  BY RowOf8 DEF special_columns_columns
<1>12. Row(SpecialColumnRow, 8)
  BY RowOf8 DEF SpecialColumnRow
<1>13. Row(procedures_columns, 8)
  BY RowParts, RowOf5, RowsJoined DEF procedures_columns
<1>14. Row(ProcedureRow, 8)
  BY RowParts, RowOf5, RowsJoined DEF ProcedureRow
<1>15. Row(procedure_columns_columns, 19)
  BY RowParts, RowOf2, RowsJoined DEF procedure_columns_columns
<1>16. Row(ProcedureColumnRow, 19)
  BY RowParts, RowOf2, RowsJoined DEF ProcedureColumnRow
<1>17. Row(column_privileges_columns, 8)
  BY RowParts, RowOf1, RowsJoined DEF column_privileges_columns
<1>18. Row(ColumnPrivilegeRow, 8)
  BY RowParts, RowOf1, RowsJoined DEF ColumnPrivilegeRow
<1>19. Row(table_privileges_columns, 7)
  BY RowParts, RowOf3, RowOf4, RowsJoined DEF table_privileges_columns
<1>20. Row(TablePrivilegeRow, 7)
  BY RowParts, RowOf3, RowOf4, RowsJoined DEF TablePrivilegeRow
<1>21. Row(type_info_columns, 19)
  BY RowOf19 DEF type_info_columns
<1>22. Row(TypeInfoRow, 19)
  BY RowOf19 DEF TypeInfoRow
<1>. QED  BY <1>1, <1>2, <1>3, <1>4, <1>5, <1>6, <1>7, <1>8, <1>9, <1>10, <1>11, <1>12, <1>13, <1>14,
             <1>15, <1>16, <1>17, <1>18, <1>19, <1>20, <1>21, <1>22

\* So SQLNumResultCols and SQL_DESC_COUNT tell the width of the rows.
LEMMA DescribedAlike ==
  ASSUME NEW f \in DOMAIN Columns
  PROVE  Len(Columns[f]) = Len(Values[f]) /\ Len(Columns[f]) \in Nat
<1>1. \E n \in Nat : Row(Columns[f], n) /\ Row(Values[f], n)
  <2>1. CASE f = "Tables"
    <3>1. Columns[f] = TablesColumns /\ Values[f] = TableRow
      BY <2>1 DEF Columns, Values
    <3>2. Row(TablesColumns, 5) /\ Row(TableRow, 5)
      BY Widths
    <3>. QED  BY <3>1, <3>2
  <2>2. CASE f = "Columns"
    <3>1. Columns[f] = ColumnsColumns /\ Values[f] = ColumnRow
      BY <2>2 DEF Columns, Values
    <3>2. Row(ColumnsColumns, 18) /\ Row(ColumnRow, 18)
      BY Widths
    <3>. QED  BY <3>1, <3>2
  <2>3. CASE f = "PrimaryKeys"
    <3>1. Columns[f] = PrimaryKeysColumns /\ Values[f] = PrimaryKeyRow
      BY <2>3 DEF Columns, Values
    <3>2. Row(PrimaryKeysColumns, 6) /\ Row(PrimaryKeyRow, 6)
      BY Widths
    <3>. QED  BY <3>1, <3>2
  <2>4. CASE f = "ForeignKeys"
    <3>1. Columns[f] = ForeignKeysColumns /\ Values[f] = ForeignKeyRow
      BY <2>4 DEF Columns, Values
    <3>2. Row(ForeignKeysColumns, 14) /\ Row(ForeignKeyRow, 14)
      BY Widths
    <3>. QED  BY <3>1, <3>2
  <2>5. CASE f = "Statistics"
    <3>1. Columns[f] = statistics_columns /\ Values[f] = StatisticsRow
      BY <2>5 DEF Columns, Values
    <3>2. Row(statistics_columns, 13) /\ Row(StatisticsRow, 13)
      BY Widths
    <3>. QED  BY <3>1, <3>2
  <2>6. CASE f = "SpecialColumns"
    <3>1. Columns[f] = special_columns_columns /\ Values[f] = SpecialColumnRow
      BY <2>6 DEF Columns, Values
    <3>2. Row(special_columns_columns, 8) /\ Row(SpecialColumnRow, 8)
      BY Widths
    <3>. QED  BY <3>1, <3>2
  <2>7. CASE f = "Procedures"
    <3>1. Columns[f] = procedures_columns /\ Values[f] = ProcedureRow
      BY <2>7 DEF Columns, Values
    <3>2. Row(procedures_columns, 8) /\ Row(ProcedureRow, 8)
      BY Widths
    <3>. QED  BY <3>1, <3>2
  <2>8. CASE f = "ProcedureColumns"
    <3>1. Columns[f] = procedure_columns_columns /\ Values[f] = ProcedureColumnRow
      BY <2>8 DEF Columns, Values
    <3>2. Row(procedure_columns_columns, 19) /\ Row(ProcedureColumnRow, 19)
      BY Widths
    <3>. QED  BY <3>1, <3>2
  <2>9. CASE f = "ColumnPrivileges"
    <3>1. Columns[f] = column_privileges_columns /\ Values[f] = ColumnPrivilegeRow
      BY <2>9 DEF Columns, Values
    <3>2. Row(column_privileges_columns, 8) /\ Row(ColumnPrivilegeRow, 8)
      BY Widths
    <3>. QED  BY <3>1, <3>2
  <2>10. CASE f = "TablePrivileges"
    <3>1. Columns[f] = table_privileges_columns /\ Values[f] = TablePrivilegeRow
      BY <2>10 DEF Columns, Values
    <3>2. Row(table_privileges_columns, 7) /\ Row(TablePrivilegeRow, 7)
      BY Widths
    <3>. QED  BY <3>1, <3>2
  <2>11. CASE f = "GetTypeInfo"
    <3>1. Columns[f] = type_info_columns /\ Values[f] = TypeInfoRow
      BY <2>11 DEF Columns, Values
    <3>2. Row(type_info_columns, 19) /\ Row(TypeInfoRow, 19)
      BY Widths
    <3>. QED  BY <3>1, <3>2
  <2>12. f \in {"Tables", "Columns", "PrimaryKeys", "ForeignKeys", "Statistics", "SpecialColumns",
              "Procedures", "ProcedureColumns", "ColumnPrivileges", "TablePrivileges", "GetTypeInfo"}
    BY DEF Columns
  <2>. QED  BY <2>1, <2>2, <2>3, <2>4, <2>5, <2>6, <2>7, <2>8, <2>9, <2>10, <2>11, <2>12
<1>. QED  BY <1>1 DEF Row

\* The identifiers of functions are numbers and each has its own.
LEMMA IdsAreNumbers ==
  ASSUME NEW f \in Function
  PROVE  /\ FunctionId[f] \in Nat
         /\ FunctionId[f] \notin {SQL_API_ODBC3_ALL_FUNCTIONS, SQL_API_ALL_FUNCTIONS}
BY DEF Function, FunctionId, SQL_API_ODBC3_ALL_FUNCTIONS, SQL_API_ALL_FUNCTIONS

LEMMA IdsDiffer ==
  ASSUME NEW f \in Function, NEW g \in Function, FunctionId[f] = FunctionId[g]
  PROVE  f = g
BY DEF Function, FunctionId

\* Two numbers with the same word and bit are the same.
LEMMA BitsDiffer ==
  ASSUME NEW a \in Nat, NEW b \in Nat, a \div 16 = b \div 16, (a % 16) = (b % 16)
  PROVE  a = b
OBVIOUS

\* Everything the sets of functions hold is a function.
LEMMA FunctionSets ==
  Functions \subseteq Function /\ DOMAIN MappedTo \subseteq Function
<1>1. DOMAIN MappedTo \subseteq Function
  BY DEF Function, FunctionId, MappedTo
<1>. QED  BY <1>1, MetadataAssumption DEF CORE_EXPORTED_FUNCTIONS

\* The bitmap, the array and the single answer tell of the same functions.
LEMMA BitmapTells ==
  ASSUME NEW f \in Function
  PROVE  (<<FunctionId[f] \div 16, FunctionId[f] % 16>> \in AllOdbc3(Functions)) <=> (f \in Functions)
<1>1. ASSUME f \in Functions
      PROVE  <<FunctionId[f] \div 16, FunctionId[f] % 16>> \in AllOdbc3(Functions)
  BY <1>1 DEF AllOdbc3
<1>2. ASSUME <<FunctionId[f] \div 16, FunctionId[f] % 16>> \in AllOdbc3(Functions)
      PROVE  f \in Functions
  <2>1. PICK g \in Functions :
          <<FunctionId[f] \div 16, FunctionId[f] % 16>> = <<FunctionId[g] \div 16, FunctionId[g] % 16>>
    BY <1>2 DEF AllOdbc3
  <2>2. FunctionId[f] \div 16 = FunctionId[g] \div 16 /\ (FunctionId[f] % 16) = (FunctionId[g] % 16)
    BY <2>1
  <2>3. g \in Function
    BY FunctionSets
  <2>4. \A e \in Function : FunctionId[e] \in Nat
    BY IdsAreNumbers
  <2>5. FunctionId[f] \in Nat /\ FunctionId[g] \in Nat
    BY <2>3, <2>4, Zenon
  <2>. QED  BY <2>2, <2>3, <2>5, BitsDiffer, IdsDiffer
<1>. QED  BY <1>1, <1>2

LEMMA ArrayTells ==
  ASSUME NEW f \in Function, FunctionId[f] < 100
  PROVE  (FunctionId[f] \in AllOdbc2(Functions))
           <=> (f \in Functions \/ (f \in DOMAIN MappedTo /\ MappedTo[f] \in Functions))
<1>1. ASSUME f \in Functions \/ (f \in DOMAIN MappedTo /\ MappedTo[f] \in Functions)
      PROVE  FunctionId[f] \in AllOdbc2(Functions)
  BY <1>1 DEF AllOdbc2
<1>2. ASSUME FunctionId[f] \in AllOdbc2(Functions)
      PROVE  f \in Functions \/ (f \in DOMAIN MappedTo /\ MappedTo[f] \in Functions)
  <2>1. PICK g : /\ FunctionId[g] = FunctionId[f]
                 /\ g \in Functions \/ (g \in DOMAIN MappedTo /\ MappedTo[g] \in Functions)
    BY <1>2 DEF AllOdbc2
  <2>2. g = f
    BY <2>1, FunctionSets, IdsDiffer
  <2>. QED  BY <2>1, <2>2
<1>. QED  BY <1>1, <1>2

LEMMA OneTells ==
  ASSUME NEW f \in Function
  PROVE  IsSupported(Functions, FunctionId[f]) <=> (f \in Functions)
<1>. DEFINE named == CHOOSE g \in Function : FunctionId[g] = FunctionId[f]
<1>1. named \in Function /\ FunctionId[named] = FunctionId[f]
  OBVIOUS
<1>2. named = f
  BY <1>1, IdsDiffer
<1>3. function_id_from_raw(FunctionId[f]) = named
  BY DEF function_id_from_raw
<1>. HIDE DEF named
<1>. QED  BY <1>2, <1>3 DEF IsSupported

\* SQLGetFunctions and SQLNumResultCols agree with the rest.
LEMMA GetFunctionsAgrees ==
  ASSUME Typed, NEW id, GetFunctions(id)
  PROVE  Typed' /\ AnswersAgree' /\ TextFits'
<1>. DEFINE told == CASE id = SQL_API_ODBC3_ALL_FUNCTIONS -> AllOdbc3(Functions)
                      [] id = SQL_API_ALL_FUNCTIONS -> AllOdbc2(Functions)
                      [] OTHER -> IsSupported(Functions, id)
<1>1. /\ answer' = [f |-> "GetFunctions", id |-> id, told |-> told]
      /\ UNCHANGED <<source, open, metadata_id, statement>>
  BY DEF GetFunctions, Answers, NoError
<1>2. Typed'
  BY <1>1 DEF Typed
<1>3. answer'.f = "GetFunctions" /\ answer'.id = id /\ DOMAIN answer' = {"f", "id", "told"}
  BY <1>1
<1>4. answer'.told = told
  BY <1>1, Zenon
<1>5. TextFits'
  BY <1>3 DEF TextFits
<1>6. SQL_API_ODBC3_ALL_FUNCTIONS # SQL_API_ALL_FUNCTIONS
  BY DEF SQL_API_ODBC3_ALL_FUNCTIONS, SQL_API_ALL_FUNCTIONS
<1>7. ASSUME NEW f \in Function
      PROVE  LET n == FunctionId[f]
             IN  CASE id = SQL_API_ODBC3_ALL_FUNCTIONS -> (<<n \div 16, n % 16>> \in told <=> f \in Functions)
                   [] id = SQL_API_ALL_FUNCTIONS /\ n < 100 ->
                        (n \in told <=> f \in Functions \/ (f \in DOMAIN MappedTo /\ MappedTo[f] \in Functions))
                   [] id = n -> (told <=> f \in Functions)
                   [] OTHER -> TRUE
  <2>. DEFINE n == FunctionId[f]
  <2>1. CASE id = SQL_API_ODBC3_ALL_FUNCTIONS
    <3>1. told = AllOdbc3(Functions)
      BY <2>1, <1>6
    <3>2. n # id
      BY <2>1, IdsAreNumbers
    <3>. HIDE DEF told, n
    <3>3. <<n \div 16, n % 16>> \in told <=> f \in Functions
      BY <3>1, BitmapTells DEF n
    <3>. QED  BY <2>1, <1>6, <3>2, <3>3, Zenon DEF n
  <2>2. CASE id = SQL_API_ALL_FUNCTIONS
    <3>1. told = AllOdbc2(Functions)
      BY <2>2, <1>6
    <3>2. n # id
      BY <2>2, IdsAreNumbers
    <3>. HIDE DEF told, n
    <3>3. n < 100 => (n \in told <=> f \in Functions \/ (f \in DOMAIN MappedTo /\ MappedTo[f] \in Functions))
      BY <3>1, ArrayTells DEF n
    <3>. QED  BY <2>2, <1>6, <3>2, <3>3, Zenon DEF n
  <2>3. CASE id # SQL_API_ODBC3_ALL_FUNCTIONS /\ id # SQL_API_ALL_FUNCTIONS
    <3>1. told <=> IsSupported(Functions, id)
      BY <2>3, Zenon
    <3>. HIDE DEF told, n
    <3>2. id = n => (told <=> f \in Functions)
      BY <3>1, OneTells, Zenon DEF n
    <3>. QED  BY <2>3, <3>2, Zenon DEF n
  <2>. QED  BY <2>1, <2>2, <2>3
<1>. HIDE DEF told
<1>8. AnswersAgree'
  <2>1. "kind" \notin DOMAIN answer' /\ answer'.f \notin {"NumResultCols", "ColAttribute"}
    BY <1>3
  <2>. QED  BY <2>1, <1>3, <1>4, <1>7, Zenon DEF AnswersAgree
<1>. QED  BY <1>2, <1>5, <1>8

LEMMA NumResultColsAgrees ==
  ASSUME Typed, SQLNumResultCols
  PROVE  Typed' /\ AnswersAgree' /\ TextFits'
<1>1. /\ Answers("NumResultCols", "stmt", <<>>, IF cursor_open THEN NoError ELSE "HY010", Success,
                 [f |-> "NumResultCols", value |-> ColumnCount])
      /\ UNCHANGED <<source, open, metadata_id, statement>>
  BY DEF SQLNumResultCols
<1>2. Typed'
  BY <1>1 DEF Typed
<1>3. CASE ~cursor_open
  BY <1>1, <1>2, <1>3, PlainRecords, PlainIsRight DEF Answers, NoError
<1>4. CASE cursor_open
  <2>1. answer' = [f |-> "NumResultCols", value |-> ColumnCount]
    BY <1>1, <1>4 DEF Answers, NoError
  <2>2. ColumnCount = Len(Values[statement.f]) /\ statement' = statement
    BY <1>1, <1>4, DescribedAlike DEF ColumnCount, cursor_open, Typed
  <2>3. cursor_open'
    BY <1>4, <2>2 DEF cursor_open
  <2>. QED  BY <1>2, <2>1, <2>2, <2>3 DEF AnswersAgree, TextFits
<1>. QED  BY <1>3, <1>4

\* A call that told a text, as it is known in the state it leaves.
LEMMA TextTold ==
  ASSUME NEW f, NEW h \in Handle, NEW units \in Nat, NEW buffer \in Int, NEW bytes \in BOOLEAN, NEW told,
         queue \in Queues, buffer = NullPointer \/ buffer >= -1,
         told.f = f, f # "GetDiagRec", "text" \in DOMAIN told, told.text = Told(units, buffer, bytes),
         Answers(f, h, note_truncation(Told(units, buffer, bytes)), NoError, Told(units, buffer, bytes).ret, told)
  PROVE  TextFits' /\ answer' = told
<1>. DEFINE text == Told(units, buffer, bytes)
            pushed == note_truncation(text)
<1>1. answer' = told
  BY DEF Answers, NoError
<1>2. WrittenFits(text)
  BY ToldFits
<1>3. text.units = units /\ text.bytes = bytes /\ text.buffer = buffer
  BY DEF Told
<1>. HIDE DEF text
<1>4. /\ text.ret = Info => pushed = <<"01004">>
      /\ text.ret # Info => pushed = <<>>
  BY DEF note_truncation, Info
<1>5. /\ ended'.handle = h
      /\ queue'[h] = Posted(Cleared(queue[h]), pushed, NoError)
  BY DEF Answers, Queues, text
<1>6. Posted(Cleared(queue[h]), pushed, NoError) = pushed
  BY <1>4 DEF Posted, Cleared, NoError
<1>7. text.ret = Info <=> queue'[ended'.handle] = <<"01004">>
  BY <1>4, <1>5, <1>6
<1>8. answer'.text = text /\ answer'.f # "GetDiagRec" /\ "text" \in DOMAIN answer'
  BY <1>1 DEF text
<1>9. TextFits'
  BY <1>2, <1>3, <1>7, <1>8 DEF TextFits, WrittenFits
<1>. QED  BY <1>1, <1>9

\* A column that is not refused is described, so its texts have a length.
LEMMA KnownColumn ==
  ASSUME Typed, NEW k, k \in {0, 1, ColumnCount, ColumnCount + 1}, NoSuchColumn(k) = NoError,
         NEW field \in {"Name", "TypeName", "LocalTypeName"}
  PROVE  Len(ColumnString(Column(k), field)) \in Nat
<1>1. cursor_open /\ ~(k = 0 \/ k > ColumnCount)
  BY Zenon DEF NoSuchColumn, NoError
<1>2. statement.f \in DOMAIN Columns
  BY <1>1 DEF Typed, cursor_open
<1>3. ColumnCount = Len(Columns[statement.f]) /\ Len(Columns[statement.f]) \in Nat
  BY <1>1, <1>2, DescribedAlike DEF ColumnCount
<1>4. k \in 1..Len(Columns[statement.f])
  BY <1>1, <1>3
<1>. QED  BY <1>2, <1>4, LengthAssumption DEF Column

\* The descriptions of columns agree, and fit.
LEMMA DescribeColAgrees ==
  ASSUME Typed, queue \in Queues, NEW k \in {0, 1, ColumnCount, ColumnCount + 1}, NEW buffer \in Buffers,
         DescribeCol(k, buffer)
  PROVE  Typed' /\ AnswersAgree' /\ TextFits'
<1>. DEFINE error == NoSuchColumn(k)
            name == Told(Len(Column(k).name), buffer, FALSE)
            size == ResolvePrecisionUlen(Column(k).precision)
            told == [f |-> "DescribeCol", column |-> k, size |-> size, text |-> name]
<1>1. /\ IF error # NoError THEN Answers("DescribeCol", "stmt", <<>>, error, Success, NoAnswer)
         ELSE Answers("DescribeCol", "stmt", note_truncation(name), error, name.ret, told)
      /\ UNCHANGED <<source, open, metadata_id, statement>>
  BY DEF DescribeCol
<1>2. Typed'
  BY <1>1 DEF Typed
<1>3. CASE error # NoError
  BY <1>1, <1>2, <1>3, PlainRecords, PlainIsRight, AnswersPlainly
<1>4. CASE error = NoError
  <2>1. Len(Column(k).name) \in Nat
    <3>1. ColumnString(Column(k), "Name") = Column(k).name
      BY DEF ColumnString
    <3>. QED  BY <1>4, <3>1, KnownColumn
  <2>2. /\ told.f = "DescribeCol" /\ told.text = name
        /\ DOMAIN told = {"f", "column", "size", "text"}
    OBVIOUS
  <2>3. buffer \in Int /\ (buffer = NullPointer \/ buffer >= -1)
    BY MetadataAssumption
  <2>4. Answers("DescribeCol", "stmt", note_truncation(name), NoError, name.ret, told)
    BY <1>1, <1>4
  <2>. HIDE DEF told
  <2>5. TextFits' /\ answer' = told
    BY <2>1, <2>2, <2>3, <2>4, TextTold, Callers
  <2>6. AnswersAgree'
    BY <2>2, <2>5 DEF AnswersAgree
  <2>. QED  BY <1>2, <2>5, <2>6
<1>. QED  BY <1>3, <1>4

LEMMA ColAttributeAgrees ==
  ASSUME Typed, queue \in Queues, NEW k \in {0, 1, ColumnCount, ColumnCount + 1}, NEW field \in Identifier,
         ColAttribute(k, field, 40)
  PROVE  Typed' /\ AnswersAgree' /\ TextFits'
<1>. DEFINE error == CASE field = "Odbc2" -> "HYC00"
                       [] field = "unknown" -> "HY091"
                       [] field = "Count" -> NoError
                       [] OTHER -> NoSuchColumn(k)
            text == Told(Len(ColumnString(Column(k), field)), 40, TRUE)
            told == [f |-> "ColAttribute", column |-> k, field |-> field, text |-> text]
            value == IF field = "Count" THEN ColumnCount ELSE ColumnAttribute(Column(k), ColumnCount, field)
            number == [f |-> "ColAttribute", column |-> k, field |-> field, value |-> value]
<1>1. /\ IF error # NoError THEN Answers("ColAttribute", "stmt", <<>>, error, Success, NoAnswer)
         ELSE IF field \in StringAttribute
         THEN Answers("ColAttribute", "stmt", note_truncation(text), error, text.ret, told)
         ELSE Answers("ColAttribute", "stmt", <<>>, error, Success, number)
      /\ UNCHANGED <<source, open, metadata_id, statement>>
  BY DEF ColAttribute
<1>2. Typed'
  BY <1>1 DEF Typed
<1>3. CASE error # NoError
  <2>. HIDE DEF error
  <2>. QED  BY <1>1, <1>2, <1>3, PlainRecords, PlainIsRight, AnswersPlainly
<1>4. CASE error = NoError /\ field \in StringAttribute
  <2>1. field \in {"Name", "TypeName", "LocalTypeName"}
    BY <1>4 DEF Identifier, StringAttribute
  <2>2. NoSuchColumn(k) = NoError
    BY <1>4, <2>1
  <2>3. Len(ColumnString(Column(k), field)) \in Nat
    BY <2>1, <2>2, KnownColumn
  <2>4. /\ told.f = "ColAttribute" /\ told.text = text /\ told.field = field
        /\ DOMAIN told = {"f", "column", "field", "text"}
    OBVIOUS
  <2>5. Answers("ColAttribute", "stmt", note_truncation(text), NoError, text.ret, told)
    <3>. HIDE DEF error
    <3>. QED  BY <1>1, <1>4
  <2>. HIDE DEF told
  <2>6. TextFits' /\ answer' = told
    <3>1. 40 \in Int /\ 40 >= -1 /\ TRUE \in BOOLEAN
      OBVIOUS
    <3>. QED  BY <2>3, <2>4, <2>5, <3>1, TextTold, Callers
  <2>7. AnswersAgree'
    BY <2>1, <2>4, <2>6 DEF AnswersAgree
  <2>. QED  BY <1>2, <2>6, <2>7
<1>5. CASE error = NoError /\ field \notin StringAttribute
  <2>1. Answers("ColAttribute", "stmt", <<>>, NoError, Success, number)
    <3>. HIDE DEF error
    <3>. QED  BY <1>1, <1>5
  <2>2. /\ number.f = "ColAttribute" /\ number.field = field /\ number.value = value
        /\ DOMAIN number = {"f", "column", "field", "value"}
    OBVIOUS
  <2>. HIDE DEF number
  <2>3. answer' = number
    BY <2>1 DEF Answers, NoError
  <2>4. TextFits'
    BY <2>2, <2>3 DEF TextFits
  <2>5. field = "Count" => value = IF cursor_open THEN Len(Values[statement.f]) ELSE 0
    BY DescribedAlike DEF ColumnCount, cursor_open, Typed
  <2>6. (cursor_open)' = cursor_open /\ statement' = statement
    BY <1>1 DEF cursor_open
  <2>. HIDE DEF value
  <2>7. AnswersAgree'
    BY <2>2, <2>3, <2>5, <2>6 DEF AnswersAgree
  <2>. QED  BY <1>2, <2>4, <2>7
<1>. QED  BY <1>3, <1>4, <1>5

\* A recursion upward: f[i] is step[i] of f[prev[i]], below i.  A scan: f[i] is
\* step[i] of f[next[i]], above i and not beyond the end.
Recursion(n, S, base, prev, step) ==
  /\ n \in Nat /\ base \in S
  /\ prev \in [1..n -> Nat] /\ \A i \in 1..n : prev[i] < i
  /\ step \in [1..n -> [S -> S]]
ScanOf(n, S, base, next, step) ==
  /\ n \in Nat /\ base \in S
  /\ next \in [1..n -> Nat] /\ \A i \in 1..n : i < next[i] /\ next[i] <= n + 1
  /\ step \in [1..n -> [S -> S]]

\* An upward recursion has a function that solves it, extended one by one.
LEMMA UpwardRecursion ==
  ASSUME NEW n, NEW S, NEW base, NEW prev, NEW step, Recursion(n, S, base, prev, step)
  PROVE  \E f \in [0..n -> S] : f[0] = base /\ \A i \in 1..n : f[i] = step[i][f[prev[i]]]
<1>. DEFINE Up(m, f) == f \in [0..m -> S] /\ f[0] = base /\ \A i \in 1..m : f[i] = step[i][f[prev[i]]]
            Bad == {m \in 0..n : ~ \E f : Up(m, f)}
<1>. /\ n \in Nat /\ base \in S
     /\ prev \in [1..n -> Nat] /\ \A i \in 1..n : prev[i] < i
     /\ step \in [1..n -> [S -> S]]
  BY DEF Recursion
<1>1. CASE Bad = {}
  <2>1. n \in 0..n
    OBVIOUS
  <2>2. \E f : Up(n, f)
    <3>. HIDE DEF Up
    <3>. QED  BY <1>1, <2>1
  <2>. QED  BY <2>2
<1>2. CASE Bad # {}
  <2>1. PICK m \in Bad : \A k \in Bad : m <= k
    <3>1. Bad \subseteq Nat
      <4>. HIDE DEF Up
      <4>. QED  OBVIOUS
    <3>. HIDE DEF Bad
    <3>. QED  BY <1>2, <3>1, LeastElement
  <2>2. m \in 0..n /\ ~ \E f : Up(m, f)
    <3>. HIDE DEF Up
    <3>. QED  BY <2>1
  <2>3. Up(0, [i \in 0..0 |-> base])
    OBVIOUS
  <2>4. m # 0
    <3>. HIDE DEF Up
    <3>. QED  BY <2>2, <2>3
  <2>5. PICK f : Up(m - 1, f)
    <3>1. m - 1 \in 0..n /\ ~ (m <= m - 1)
      BY <2>2, <2>4
    <3>2. m - 1 \notin Bad
      <4>. HIDE DEF Bad
      <4>. QED  BY <2>1, <3>1
    <3>. HIDE DEF Up
    <3>. QED  BY <3>1, <3>2
  <2>. DEFINE last == step[m][f[prev[m]]]
              g == [i \in 0..m |-> IF i < m THEN f[i] ELSE last]
  <2>6. m \in 1..n /\ prev[m] \in 0..m - 1
    BY <2>2, <2>4
  <2>7. last \in S
    BY <2>5, <2>6
  <2>8. \A i \in 0..m - 1 : g[i] = f[i]
    BY <2>6
  <2>9. g[m] = step[m][g[prev[m]]]
    BY <2>6, <2>8
  <2>10. \A i \in 1..m - 1 : prev[i] \in 0..m - 1
    BY <2>6
  <2>11. g \in [0..m -> S] /\ g[0] = base
    BY <2>5, <2>6, <2>7
  <2>12. \A i \in 1..m - 1 : g[i] = step[i][g[prev[i]]]
    <3>. HIDE DEF g
    <3>. QED  BY <2>5, <2>8, <2>10, <2>6
  <2>13. Up(m, g)
    <3>. HIDE DEF g
    <3>. QED  BY <2>6, <2>9, <2>11, <2>12
  <2>. HIDE DEF Up
  <2>. QED  BY <2>2, <2>13
<1>. QED  BY <1>1, <1>2

\* What holds at zero and is handed up the recursion holds throughout.
LEMMA UpwardInduction ==
  ASSUME NEW n \in Nat, NEW P, NEW prev \in [1..n -> Nat], \A i \in 1..n : prev[i] < i,
         0 \in P, \A i \in 1..n : prev[i] \in P => i \in P
  PROVE  0..n \subseteq P
<1>. DEFINE Bad == (0..n) \ P
<1>. SUFFICES ASSUME Bad # {} PROVE FALSE
  OBVIOUS
<1>1. PICK m \in Bad : \A k \in Bad : m <= k
  <2>1. Bad \subseteq Nat
    OBVIOUS
  <2>. HIDE DEF Bad
  <2>. QED  BY <2>1, LeastElement
<1>2. m \in 1..n
  BY <1>1
<1>3. prev[m] \in 0..n /\ ~ (m <= prev[m])
  BY <1>2
<1>. QED  BY <1>1, <1>2, <1>3

\* The same for a scan that goes upward and is told from its end.
LEMMA ScanRecursion ==
  ASSUME NEW n, NEW S, NEW base, NEW next, NEW step, ScanOf(n, S, base, next, step)
  PROVE  \E f \in [1..n + 1 -> S] : f[n + 1] = base /\ \A i \in 1..n : f[i] = step[i][f[next[i]]]
<1>. DEFINE prev == [i \in 1..n |-> n + 1 - next[n + 1 - i]]
            back == [i \in 1..n |-> step[n + 1 - i]]
<1>0. /\ n \in Nat /\ base \in S
      /\ next \in [1..n -> Nat] /\ \A i \in 1..n : i < next[i] /\ next[i] <= n + 1
      /\ step \in [1..n -> [S -> S]]
  BY DEF ScanOf
<1>1. \A i \in 1..n : n + 1 - i \in 1..n
  BY <1>0
<1>2. prev \in [1..n -> Nat] /\ \A i \in 1..n : prev[i] < i
  BY <1>0, <1>1
<1>3. back \in [1..n -> [S -> S]]
  BY <1>0, <1>1
<1>4. PICK g \in [0..n -> S] : g[0] = base /\ \A i \in 1..n : g[i] = back[i][g[prev[i]]]
  <2>. HIDE DEF prev, back
  <2>1. Recursion(n, S, base, prev, back)
    BY <1>0, <1>2, <1>3 DEF Recursion
  <2>. QED  BY <2>1, UpwardRecursion
<1>. DEFINE f == [i \in 1..n + 1 |-> g[n + 1 - i]]
<1>5. f \in [1..n + 1 -> S] /\ f[n + 1] = base
  BY <1>0, <1>4
<1>6. ASSUME NEW i \in 1..n PROVE f[i] = step[i][f[next[i]]]
  <2>1. n + 1 - i \in 1..n /\ n + 1 - (n + 1 - i) = i
    BY <1>0
  <2>2. f[i] = g[n + 1 - i] /\ prev[n + 1 - i] = n + 1 - next[i] /\ back[n + 1 - i] = step[i]
    BY <1>0, <2>1
  <2>3. f[next[i]] = g[n + 1 - next[i]]
    <3>1. next[i] \in 1..n + 1
      BY <1>0
    <3>. HIDE DEF prev, back
    <3>. QED  BY <3>1
  <2>. HIDE DEF f, prev, back
  <2>. QED  BY <1>4, <2>1, <2>2, <2>3
<1>. QED  BY <1>5, <1>6

\* What holds at the end and is handed down the scan holds throughout.
LEMMA ScanInduction ==
  ASSUME NEW n \in Nat, NEW P, NEW next \in [1..n -> Nat],
         \A i \in 1..n : i < next[i] /\ next[i] <= n + 1,
         n + 1 \in P, \A i \in 1..n : next[i] \in P => i \in P
  PROVE  1..n + 1 \subseteq P
<1>. DEFINE prev == [i \in 1..n |-> n + 1 - next[n + 1 - i]]
            Q == {j \in 0..n : n + 1 - j \in P}
<1>1. prev \in [1..n -> Nat] /\ \A i \in 1..n : prev[i] < i
  OBVIOUS
<1>2. 0 \in Q /\ \A i \in 1..n : prev[i] \in Q => i \in Q
  <2>1. 0 \in Q
    OBVIOUS
  <2>2. ASSUME NEW i \in 1..n, prev[i] \in Q PROVE i \in Q
    <3>1. n + 1 - i \in 1..n /\ prev[i] = n + 1 - next[n + 1 - i]
      OBVIOUS
    <3>2. n + 1 - prev[i] = next[n + 1 - i]
      BY <3>1
    <3>3. next[n + 1 - i] \in P
      BY <2>2, <3>2
    <3>. QED  BY <3>1, <3>3
  <2>. QED  BY <2>1, <2>2
<1>3. 0..n \subseteq Q
  <2>. HIDE DEF prev, Q
  <2>. QED  BY <1>1, <1>2, UpwardInduction
<1>4. ASSUME NEW i \in 1..n + 1 PROVE i \in P
  <2>1. n + 1 - i \in 0..n /\ n + 1 - (n + 1 - i) = i
    OBVIOUS
  <2>. QED  BY <1>3, <2>1
<1>. QED  BY <1>4

\* A scan goes upward, and not beyond the end.
Scan(next) == /\ next \in Seq(Nat)
              /\ \A i \in 1..Len(next) : i < next[i] /\ next[i] <= Len(next) + 1

\* A scan as the function it is.
LEMMA ScanIsFunction ==
  ASSUME NEW next, Scan(next)
  PROVE  Len(next) \in Nat /\ next \in [1..Len(next) -> Nat]
BY DEF Scan

\* The positions visited solve their recursion.
LEMMA VisitedFunction ==
  ASSUME NEW next, Scan(next)
  PROVE  \E from \in [1..Len(next) + 1 -> SUBSET (1..Len(next))] :
           /\ \A i : Visited(i, next) = from[i]
           /\ from[Len(next) + 1] = {}
           /\ \A i \in 1..Len(next) : from[i] = {i} \cup from[next[i]]
<1>. DEFINE n == Len(next)
            S == SUBSET (1..n)
            step == [i \in 1..n |-> [x \in S |-> {i} \cup x]]
            Is(f) == f = [k \in 1..n + 1 |-> IF k > n THEN {} ELSE {k} \cup f[next[k]]]
            from == CHOOSE f : Is(f)
<1>1. n \in Nat /\ next \in [1..n -> Nat] /\ \A i \in 1..n : i < next[i] /\ next[i] <= n + 1
  BY DEF Scan
<1>2. step \in [1..n -> [S -> S]] /\ {} \in S
  BY <1>1
<1>3. PICK g \in [1..n + 1 -> S] : g[n + 1] = {} /\ \A i \in 1..n : g[i] = step[i][g[next[i]]]
  <2>. HIDE DEF n, step, S
  <2>1. ScanOf(n, S, {}, next, step)
    BY <1>1, <1>2 DEF ScanOf
  <2>. QED  BY <2>1, ScanRecursion
<1>. HIDE DEF n
<1>4. ASSUME NEW i \in 1..n PROVE next[i] \in 1..n + 1 /\ g[i] = {i} \cup g[next[i]]
  <2>1. next[i] \in 1..n + 1
    BY <1>1
  <2>2. g[next[i]] \in S
    BY <1>3, <2>1
  <2>3. step[i][g[next[i]]] = {i} \cup g[next[i]]
    <3>. HIDE DEF S
    <3>. QED  BY <2>2
  <2>4. g[i] = step[i][g[next[i]]]
    BY <1>3
  <2>. QED  BY <2>1, <2>3, <2>4
<1>5. Is(g)
  <2>1. ASSUME NEW k \in 1..n + 1 PROVE g[k] = IF k > n THEN {} ELSE {k} \cup g[next[k]]
    BY <1>1, <1>3, <1>4
  <2>. HIDE DEF S
  <2>. QED  BY <1>3, <2>1
<1>6. Is(from)
  <2>. HIDE DEF Is
  <2>. QED  BY <1>5
<1>7. \A i : Visited(i, next) = from[i]
  BY DEF Visited, n
<1>. HIDE DEF from
<1>8. from[n + 1] = {} /\ \A i \in 1..n : from[i] = {i} \cup from[next[i]]
  <2>1. \A i \in 1..n + 1 : from[i] = IF i > n THEN {} ELSE {i} \cup from[next[i]]
    BY <1>6
  <2>2. n + 1 \in 1..n + 1 /\ n + 1 > n /\ \A i \in 1..n : i \in 1..n + 1 /\ ~ (i > n)
    BY <1>1
  <2>. QED  BY <2>1, <2>2, Zenon
<1>9. from \in [1..n + 1 -> S]
  <2>. DEFINE P == {i \in 1..n + 1 : from[i] \in S}
  <2>1. n + 1 \in P /\ \A i \in 1..n : next[i] \in P => i \in P
    BY <1>1, <1>8
  <2>2. 1..n + 1 \subseteq P
    <3>. HIDE DEF P
    <3>. QED  BY <1>1, <2>1, ScanInduction
  <2>3. DOMAIN from = 1..n + 1 /\ from = [i \in 1..n + 1 |-> from[i]]
    BY <1>6
  <2>. QED  BY <2>2, <2>3
<1>. QED  BY <1>7, <1>8, <1>9 DEF n

\* A scan comes by the positions of the text, the first of them its start.
LEMMA VisitedPositions ==
  ASSUME NEW next, Scan(next), NEW i \in 1..Len(next) + 1
  PROVE  /\ Visited(i, next) \subseteq 1..Len(next)
         /\ i \in Visited(i, next) \/ i = Len(next) + 1
         /\ \A k \in Visited(i, next) : next[k] \in Visited(i, next) \/ next[k] = Len(next) + 1
<1>1. PICK from \in [1..Len(next) + 1 -> SUBSET (1..Len(next))] :
           /\ \A k : Visited(k, next) = from[k]
           /\ from[Len(next) + 1] = {}
           /\ \A k \in 1..Len(next) : from[k] = {k} \cup from[next[k]]
  BY VisitedFunction
<1>. DEFINE n == Len(next)
            P == {j \in 1..n + 1 : \A k \in from[j] : next[k] \in from[j] \/ next[k] = n + 1}
<1>2. n \in Nat /\ next \in [1..n -> Nat] /\ \A k \in 1..n : k < next[k] /\ next[k] <= n + 1
  BY DEF Scan
<1>. HIDE DEF n
<1>3. n + 1 \in P
  BY <1>1, <1>2 DEF n
<1>4. ASSUME NEW k \in 1..n, next[k] \in P PROVE k \in P
  <2>1. next[k] \in 1..n + 1 /\ from[k] = {k} \cup from[next[k]]
    BY <1>1, <1>2 DEF n
  <2>2. next[k] \in from[next[k]] \/ next[k] = n + 1
    BY <1>1, <1>2, <2>1 DEF n
  <2>. QED  BY <1>2, <1>4, <2>1, <2>2
<1>5. 1..n + 1 \subseteq P
  <2>. HIDE DEF P
  <2>. QED  BY <1>2, <1>3, <1>4, ScanInduction
<1>6. i \in P /\ (i \in from[i] \/ i = n + 1) /\ from[i] \subseteq 1..n
  BY <1>1, <1>2, <1>5 DEF n
<1>. QED  BY <1>1, <1>6 DEF n

\* What comes of a piece of text.
Piece == [state : {"00000", "42000", "HYC00"}, text : Seq(Token)]

\* What is translated, refused or joined of pieces is a piece.
LEMMA Pieces ==
  /\ \A text \in Seq(Token) : Translated(text) \in Piece
  /\ \A state \in {"42000", "HYC00"} : Refused(state) \in Piece
  /\ \A first, second \in Piece : Both(first, second) \in Piece
BY DEF Piece, Translated, Refused, Both, Ok

\* The pieces joined from each position solve their recursion.
LEMMA JoinedFunction ==
  ASSUME NEW next, Scan(next), NEW piece \in [1..Len(next) -> Piece]
  PROVE  \E from \in [1..Len(next) + 1 -> Piece] :
           /\ Joined(piece, next) = from[1]
           /\ from[Len(next) + 1] = Translated(<<>>)
           /\ \A i \in 1..Len(next) : from[i] = Both(piece[i], from[next[i]])
<1>. DEFINE n == Len(next)
            step == [i \in 1..n |-> [x \in Piece |-> Both(piece[i], x)]]
            Is(f) == f = [i \in 1..n + 1 |-> IF i > n THEN Translated(<<>>) ELSE Both(piece[i], f[next[i]])]
            from == CHOOSE f : Is(f)
<1>1. n \in Nat /\ next \in [1..n -> Nat] /\ \A i \in 1..n : i < next[i] /\ next[i] <= n + 1
  BY DEF Scan
<1>2. step \in [1..n -> [Piece -> Piece]] /\ Translated(<<>>) \in Piece
  <2>1. ASSUME NEW i \in 1..n, NEW x \in Piece PROVE Both(piece[i], x) \in Piece
    BY Pieces
  <2>2. Translated(<<>>) \in Piece
    <3>1. <<>> \in Seq(Token)
      OBVIOUS
    <3>. QED  BY <3>1, Pieces
  <2>. HIDE DEF n
  <2>. QED  BY <2>1, <2>2
<1>3. PICK g \in [1..n + 1 -> Piece] : g[n + 1] = Translated(<<>>) /\ \A i \in 1..n : g[i] = step[i][g[next[i]]]
  <2>. HIDE DEF n, step
  <2>1. ScanOf(n, Piece, Translated(<<>>), next, step)
    BY <1>1, <1>2 DEF ScanOf
  <2>. QED  BY <2>1, ScanRecursion
<1>. HIDE DEF n
<1>4. ASSUME NEW i \in 1..n PROVE next[i] \in 1..n + 1 /\ g[i] = Both(piece[i], g[next[i]])
  <2>1. next[i] \in 1..n + 1
    BY <1>1
  <2>2. g[next[i]] \in Piece
    BY <1>3, <2>1
  <2>3. step[i][g[next[i]]] = Both(piece[i], g[next[i]])
    BY <2>2
  <2>4. g[i] = step[i][g[next[i]]]
    BY <1>3
  <2>. QED  BY <2>1, <2>3, <2>4
<1>5. Is(g)
  <2>1. ASSUME NEW k \in 1..n + 1 PROVE g[k] = IF k > n THEN Translated(<<>>) ELSE Both(piece[k], g[next[k]])
    BY <1>1, <1>3, <1>4
  <2>. QED  BY <1>3, <2>1
<1>6. Is(from)
  <2>. HIDE DEF Is
  <2>. QED  BY <1>5
<1>7. Joined(piece, next) = from[1]
  BY DEF Joined, n
<1>. HIDE DEF from
<1>8. from[n + 1] = Translated(<<>>) /\ \A i \in 1..n : from[i] = Both(piece[i], from[next[i]])
  <2>1. \A i \in 1..n + 1 : from[i] = IF i > n THEN Translated(<<>>) ELSE Both(piece[i], from[next[i]])
    BY <1>6
  <2>2. n + 1 \in 1..n + 1 /\ n + 1 > n /\ \A i \in 1..n : i \in 1..n + 1 /\ ~ (i > n)
    BY <1>1
  <2>. QED  BY <2>1, <2>2, Zenon
<1>9. from \in [1..n + 1 -> Piece]
  <2>. DEFINE P == {i \in 1..n + 1 : from[i] \in Piece}
  <2>1. n + 1 \in P /\ \A i \in 1..n : next[i] \in P => i \in P
    BY <1>1, <1>2, <1>8, Pieces DEF n
  <2>2. 1..n + 1 \subseteq P
    <3>. HIDE DEF P
    <3>. QED  BY <1>1, <2>1, ScanInduction
  <2>3. DOMAIN from = 1..n + 1 /\ from = [i \in 1..n + 1 |-> from[i]]
    BY <1>6
  <2>. QED  BY <2>2, <2>3
<1>. QED  BY <1>7, <1>8, <1>9 DEF n

\* Of numbers up to n, not none of them, one is the greatest.
LEMMA GreatestIsGreatest ==
  ASSUME NEW n \in Nat, NEW T, T \subseteq 1..n, T # {}
  PROVE  LET m == CHOOSE i \in T : \A j \in T : j <= i IN m \in T /\ \A j \in T : j <= m
<1>. DEFINE Mirror == {k \in Nat : k <= n /\ n - k \in T}
<1>1. Mirror # {} /\ Mirror \subseteq Nat
  <2>1. PICK t \in T : TRUE
    OBVIOUS
  <2>2. n - t \in Mirror
    BY <2>1
  <2>. QED  BY <2>2
<1>2. PICK k \in Mirror : \A j \in Mirror : k <= j
  <2>. HIDE DEF Mirror
  <2>. QED  BY <1>1, LeastElement
<1>3. n - k \in T
  BY <1>2
<1>4. ASSUME NEW j \in T PROVE j <= n - k
  <2>1. n - j \in Mirror
    OBVIOUS
  <2>2. k <= n - j
    BY <1>2, <2>1
  <2>. QED  BY <1>2, <2>2
<1>. QED  BY <1>3, <1>4

\* A part of a text is a text, and so is a pair of tokens.
LEMMA PartOfText ==
  ASSUME NEW text \in Seq(Token), NEW a \in Nat, a >= 1, NEW b \in Int, b <= Len(text)
  PROVE  SubSeq(text, a, b) \in Seq(Token)
OBVIOUS

LEMMA PairOfTokens ==
  ASSUME NEW a \in Token, NEW b \in Token
  PROVE  <<a, b>> \in Seq(Token)
OBVIOUS

\* Blanks are skipped to within the text or just behind it.
LEMMA BlanksSkipped ==
  ASSUME NEW text \in Seq(Token), NEW i \in Nat, i >= 1
  PROVE  SkipBlanks(text, i) \in 1..Len(text) + 1
<1>. DEFINE words == {j \in i..Len(text) : text[j] \notin Blank}
<1>1. SkipBlanks(text, i) = IF words = {} THEN Len(text) + 1 ELSE Least(words)
  BY DEF SkipBlanks
<1>2. words \subseteq 1..Len(text) /\ words \subseteq Nat
  OBVIOUS
<1>. HIDE DEF words
<1>3. words # {} => Least(words) \in words
  BY <1>2, LeastIsLeast
<1>4. Len(text) \in Nat
  OBVIOUS
<1>5. CASE words = {}
  BY <1>1, <1>4, <1>5
<1>6. CASE words # {}
  <2>1. Least(words) \in 1..Len(text)
    BY <1>2, <1>3, <1>6
  <2>. QED  BY <1>1, <1>4, <1>6, <2>1
<1>. QED  BY <1>5, <1>6

\* A text that is trimmed is a text.
LEMMA TrimsText ==
  ASSUME NEW text \in Seq(Token)
  PROVE  TrimEnd(text) \in Seq(Token) /\ Trim(text) \in Seq(Token)
<1>1. ASSUME NEW s \in Seq(Token) PROVE TrimEnd(s) \in Seq(Token)
  <2>. DEFINE kept == {i \in 1..Len(s) : s[i] \notin Blank}
  <2>1. TrimEnd(s) = IF kept = {} THEN <<>> ELSE SubSeq(s, 1, CHOOSE i \in kept : \A j \in kept : j <= i)
    BY DEF TrimEnd
  <2>2. kept \subseteq 1..Len(s) /\ Len(s) \in Nat
    OBVIOUS
  <2>. HIDE DEF kept
  <2>3. CASE kept = {}
    BY <2>1, <2>3
  <2>4. CASE kept # {}
    <3>. DEFINE m == CHOOSE i \in kept : \A j \in kept : j <= i
    <3>1. m \in kept
      BY <2>2, <2>4, GreatestIsGreatest
    <3>2. TrimEnd(s) = SubSeq(s, 1, m)
      BY <2>1, <2>4
    <3>. HIDE DEF m
    <3>. QED  BY <2>2, <3>1, <3>2, PartOfText
  <2>. QED  BY <2>3, <2>4
<1>2. SkipBlanks(text, 1) \in 1..Len(text) + 1
  BY BlanksSkipped
<1>3. SubSeq(text, SkipBlanks(text, 1), Len(text)) \in Seq(Token)
  BY <1>2, PartOfText
<1>4. Trim(text) = TrimEnd(SubSeq(text, SkipBlanks(text, 1), Len(text)))
  BY DEF Trim
<1>5. TrimEnd(text) \in Seq(Token)
  BY <1>1
<1>. QED  BY <1>1, <1>3, <1>4, <1>5

\* A match is found between the opening and the limit or not at all.
LEMMA Matched ==
  ASSUME NEW text, NEW begin \in Nat, NEW limit \in Int, NEW opening, NEW closing, NEW dialect
  PROVE  Matching(text, begin, limit, opening, closing, dialect) \in {0} \cup begin..limit - 1
<1>. DEFINE code == {begin + i - 1 : i \in Code(SubSeq(text, begin, Len(text)), dialect)} \cap begin..limit - 1
            closed == {k \in code : /\ text[k] = closing
                                    /\ Cardinality({j \in code : j <= k /\ text[j] = opening})
                                         = Cardinality({j \in code : j <= k /\ text[j] = closing})}
<1>1. Matching(text, begin, limit, opening, closing, dialect) = IF closed = {} THEN 0 ELSE Least(closed)
  BY DEF Matching, Balanced
<1>2. closed \subseteq begin..limit - 1 /\ closed \subseteq Nat
  OBVIOUS
<1>. HIDE DEF closed
<1>3. closed # {} => Least(closed) \in closed
  BY <1>2, LeastIsLeast
<1>. QED  BY <1>1, <1>2, <1>3

\* A literal, a quoted identifier and a comment end within the text or just
\* behind it, closed or not.
LEMMA QuotedEnds ==
  ASSUME NEW text \in Seq(Token), NEW i \in 1..Len(text), NEW close, NEW doubles
  PROVE  Quoted(text, i, close, doubles) \in 1..Len(text) + 1
<1>. DEFINE n == Len(text)
            Doubled(k) == doubles /\ k < n /\ text[k + 1] = close
            next == [k \in 1..n |-> IF text[k] = close /\ Doubled(k) THEN k + 2 ELSE k + 1]
            ends == {k \in Visited(i + 1, next) : text[k] = close /\ ~Doubled(k)}
<1>1. Quoted(text, i, close, doubles) = IF ends = {} THEN n + 1 ELSE Least(ends) + 1
  BY DEF Quoted
<1>2. Scan(next) /\ Len(next) = n
  <2>1. \A k \in 1..n : next[k] \in {k + 1, k + 2} /\ (next[k] = k + 2 => k < n)
    OBVIOUS
  <2>2. next \in [1..n -> Nat] /\ n \in Nat
    OBVIOUS
  <2>. HIDE DEF next
  <2>3. next \in Seq(Nat) /\ Len(next) = n
    BY <2>2
  <2>. QED  BY <2>1, <2>2, <2>3 DEF Scan
<1>3. ends \subseteq 1..n
  <2>1. i + 1 \in 1..Len(next) + 1
    BY <1>2
  <2>2. Visited(i + 1, next) \subseteq 1..n
    <3>. HIDE DEF next
    <3>. QED  BY <1>2, <2>1, VisitedPositions
  <2>. QED  BY <2>2
<1>. HIDE DEF ends
<1>4. ends \subseteq Nat
  BY <1>3
<1>5. ends # {} => Least(ends) \in ends
  BY <1>4, LeastIsLeast
<1>6. n \in Nat
  OBVIOUS
<1>. HIDE DEF n
<1>7. CASE ends = {}
  BY <1>1, <1>6, <1>7 DEF n
<1>8. CASE ends # {}
  <2>1. Least(ends) \in 1..n
    BY <1>3, <1>5, <1>8
  <2>. QED  BY <1>1, <1>6, <1>8, <2>1 DEF n
<1>. QED  BY <1>7, <1>8

LEMMA CommentedEnds ==
  ASSUME NEW text \in Seq(Token), NEW i \in 1..Len(text), NEW end
  PROVE  Commented(text, i, end) \in 1..Len(text) + 1
<1>. DEFINE ends == After(text, i + 1, {end})
<1>1. ends \subseteq 1..Len(text) /\ ends \subseteq Nat
  BY DEF After
<1>. HIDE DEF ends
<1>2. ends # {} => Least(ends) \in ends
  BY <1>1, LeastIsLeast
<1>3. Commented(text, i, end) = IF ends = {} THEN Len(text) + 1 ELSE Least(ends) + 1
  BY DEF Commented, ends
<1>4. Len(text) \in Nat
  OBVIOUS
<1>5. CASE ends = {}
  BY <1>3, <1>4, <1>5
<1>6. CASE ends # {}
  <2>1. Least(ends) \in 1..Len(text)
    BY <1>1, <1>2, <1>6
  <2>. QED  BY <1>3, <1>4, <1>6, <2>1
<1>. QED  BY <1>5, <1>6

\* So a scan over regions always goes on, and stays in the text.
LEMMA RegionEnds ==
  ASSUME NEW text \in Seq(Token), NEW i \in 1..Len(text), NEW dialect
  PROVE  /\ Region(text, i, dialect) \in 1..Len(text) + 1
         /\ Behind(text, i, dialect) \in i + 1..Len(text) + 1
<1>. DEFINE R == 1..Len(text) + 1
<1>1. Region(text, i, dialect) \in R
  <2>1. \A close, doubles : Quoted(text, i, close, doubles) \in R
    BY QuotedEnds
  <2>2. \A end : Commented(text, i, end) \in R
    BY CommentedEnds
  <2>3. i \in R
    OBVIOUS
  <2>. HIDE DEF R
  <2>. QED  BY <2>1, <2>2, <2>3, Zenon DEF Region
<1>. QED  BY <1>1 DEF Behind

\* What translates the text in an escape.
Translator == [Seq(Token) -> Piece]

\* A call that is put either way is a piece, as its parts are.
LEMMA CallPut ==
  ASSUME NEW function \in Seq(Token), NEW name, NEW args \in Piece, NEW tail \in Piece, NEW dialect
  PROVE  PutCall(function, name, args, tail, dialect) \in Piece
<1>. DEFINE Put(before, inside, behind) == Translated(before \o inside \o <<")">> \o behind)
<1>1. ASSUME NEW before \in Seq(Token), NEW inside \in Seq(Token), NEW behind \in Seq(Token)
      PROVE  Put(before, inside, behind) \in Piece
  <2>1. ")" \in Token
    BY DEF Token, Mark
  <2>2. before \o inside \o <<")">> \o behind \in Seq(Token)
    BY <2>1
  <2>. QED  BY <2>2, Pieces
<1>2. args.text \in Seq(Token) /\ tail.text \in Seq(Token)
  BY DEF Piece
<1>3. <<"g", "(">> \in Seq(Token)
  <2>1. "g" \in Token /\ "(" \in Token
    BY DEF Token, Mark, Word, Name
  <2>. QED  BY <2>1, PairOfTokens
<1>4. Put(<<"g", "(">>, Trim(args.text), TrimEnd(tail.text)) \in Piece
  <2>. HIDE DEF Put
  <2>. QED  BY <1>1, <1>2, <1>3, TrimsText
<1>5. Put(function, args.text, tail.text) \in Piece
  <2>. HIDE DEF Put
  <2>. QED  BY <1>1, <1>2
<1>. QED  BY <1>4, <1>5 DEF PutCall

LEMMA CallTranslated ==
  ASSUME NEW text \in Seq(Token), NEW name \in 1..Len(text), NEW close \in 0..Len(text), NEW dialect,
         NEW inner \in Translator
  PROVE  translate_call(text, name, close, dialect, inner) \in Piece
<1>. DEFINE p == SkipBlanks(text, name + 1)
            arg_close == IF p < close /\ text[p] = "(" THEN find_matching_paren(text, p, close, dialect) ELSE 0
<1>1. Len(text) \in Nat /\ p \in 1..Len(text) + 1
  BY BlanksSkipped
<1>2. ASSUME NEW a \in Nat, a >= 1, NEW b \in Int, b <= Len(text) PROVE inner[SubSeq(text, a, b)] \in Piece
  BY <1>2, PartOfText DEF Translator
<1>3. CASE arg_close = 0
  <2>1. translate_call(text, name, close, dialect, inner)
          = Both(Translated(<<text[name]>>), inner[SubSeq(text, name + 1, close - 1)])
    BY <1>3 DEF translate_call
  <2>2. <<text[name]>> \in Seq(Token)
    OBVIOUS
  <2>3. inner[SubSeq(text, name + 1, close - 1)] \in Piece
    BY <1>1, <1>2
  <2>. QED  BY <2>1, <2>2, <2>3, Pieces
<1>4. CASE arg_close # 0
  <2>1. p < close /\ arg_close \in p..close - 1
    <3>1. find_matching_paren(text, p, close, dialect) \in {0} \cup p..close - 1
      BY <1>1, Matched DEF find_matching_paren
    <3>. HIDE DEF p
    <3>. QED  BY <1>4, <3>1
  <2>2. translate_call(text, name, close, dialect, inner)
          = PutCall(SubSeq(text, name, p), text[name], inner[SubSeq(text, p + 1, arg_close - 1)],
                    inner[SubSeq(text, arg_close + 1, close - 1)], dialect)
    BY <1>4, Zenon DEF translate_call
  <2>. HIDE DEF p, arg_close
  <2>3. SubSeq(text, name, p) \in Seq(Token)
    BY <1>1, <2>1, PartOfText
  <2>4. inner[SubSeq(text, p + 1, arg_close - 1)] \in Piece
    BY <1>1, <1>2, <2>1
  <2>5. inner[SubSeq(text, arg_close + 1, close - 1)] \in Piece
    BY <1>1, <1>2, <2>1
  <2>. QED  BY <2>2, <2>3, <2>4, <2>5, CallPut
<1>. QED  BY <1>3, <1>4

\* Whatever an escape is and wherever it is closed, a piece comes of it.
LEMMA EscapeTranslated ==
  ASSUME NEW text \in Seq(Token), NEW begin \in 1..Len(text), NEW close \in 0..Len(text), NEW dialect,
         NEW inner \in Translator
  PROVE  translate_escape(text, begin, close, dialect, inner) \in Piece
<1>. DEFINE kw == SkipBlanks(text, begin + 1)
            keyword == IF At(text, kw) \in Word THEN text[kw] ELSE "none"
            name == SkipBlanks(text, kw + 1)
            body == SubSeq(text, kw + 1, close - 1)
            Verbatim == Translated(SubSeq(text, begin, close))
            call == IF At(text, name) \in Word
                    THEN translate_call(text, name, close, dialect, inner) ELSE Verbatim
            date == Translated(<<keyword>> \o Trim(body))
            join == [inner[body] EXCEPT !.text = Trim(@)]
            like == Translated(<<"escape", " ">> \o Trim(body))
<1>1. Len(text) \in Nat /\ kw \in 1..Len(text) + 1
  BY BlanksSkipped
<1>2. name \in 1..Len(text) + 1
  <2>. HIDE DEF kw
  <2>1. kw + 1 \in Nat /\ kw + 1 >= 1
    BY <1>1
  <2>. QED  BY <2>1, BlanksSkipped
<1>. HIDE DEF kw, name
<1>3. Verbatim \in Piece
  <2>1. SubSeq(text, begin, close) \in Seq(Token)
    BY <1>1, PartOfText
  <2>. QED  BY <2>1, Pieces
<1>4. body \in Seq(Token) /\ Trim(body) \in Seq(Token)
  <2>1. body \in Seq(Token)
    BY <1>1, PartOfText
  <2>. QED  BY <2>1, TrimsText
<1>5. call \in Piece
  <2>. HIDE DEF Verbatim
  <2>1. CASE At(text, name) \in Word
    <3>1. name <= Len(text)
      BY <1>1, <1>2, <2>1 DEF At, Word, Keyword, Name
    <3>2. name \in 1..Len(text)
      BY <1>1, <1>2, <3>1
    <3>. QED  BY <2>1, <3>2, CallTranslated
  <2>2. CASE At(text, name) \notin Word
    BY <1>3, <2>2
  <2>. QED  BY <2>1, <2>2
<1>6. keyword \in {"d", "t", "ts"} => date \in Piece
  <2>. HIDE DEF keyword, body
  <2>1. {"d", "t", "ts"} \subseteq Token
    BY DEF Token, Word, Keyword
  <2>2. keyword \in {"d", "t", "ts"} => <<keyword>> \o Trim(body) \in Seq(Token)
    BY <1>4, <2>1
  <2>. QED  BY <2>2, Pieces
<1>7. join \in Piece
  <2>. HIDE DEF body
  <2>1. inner[body] \in Piece
    BY <1>4 DEF Translator
  <2>2. inner[body].text \in Seq(Token)
    BY <2>1 DEF Piece
  <2>3. Trim(inner[body].text) \in Seq(Token)
    BY <2>2, TrimsText
  <2>. QED  BY <2>1, <2>3 DEF Piece
<1>8. like \in Piece
  <2>. HIDE DEF body
  <2>1. "escape" \in Token /\ " " \in Token
    BY DEF Token, Word, Keyword, Blank
  <2>2. <<"escape", " ">> \in Seq(Token)
    BY <2>1, PairOfTokens
  <2>3. <<"escape", " ">> \o Trim(body) \in Seq(Token)
    BY <1>4, <2>2, ConcatProperties
  <2>. QED  BY <2>3, Pieces
<1>9. Refused("42000") \in Piece /\ Refused("HYC00") \in Piece
  BY Pieces
<1>. HIDE DEF call, date, join, like, Verbatim, keyword
<1>10. (IF close = 0 THEN Refused("42000")
        ELSE
          CASE keyword = "fn" -> call
            [] keyword \in {"d", "t", "ts"} -> date
            [] keyword = "oj" -> join
            [] keyword = "escape" -> like
            [] keyword = "call" \/ (keyword = "none" /\ At(text, kw) = "?") -> Refused("HYC00")
            [] OTHER -> Verbatim) \in Piece
  BY <1>3, <1>5, <1>6, <1>7, <1>8, <1>9, Zenon
<1>. QED  BY <1>10, Zenon DEF translate_escape, call, date, join, like, Verbatim, keyword, kw, name

\* The scan of translate_slice, and what it makes of the text at each position.
LEMMA SliceScans ==
  ASSUME NEW text \in Seq(Token), NEW dialect, NEW inner \in Translator
  PROVE  LET n == Len(text)
             Escape(i) == Region(text, i, dialect) = i /\ text[i] = "{"
             close(i) == find_matching_brace(text, i, dialect)
             goes(i) == IF Escape(i) /\ close(i) # 0 THEN close(i) + 1 ELSE Behind(text, i, dialect)
             piece == [i \in 1..n |-> IF Escape(i) THEN translate_escape(text, i, close(i), dialect, inner)
                                      ELSE Translated(SubSeq(text, i, goes(i) - 1))]
             next == [i \in 1..n |-> goes(i)]
         IN  Scan(next) /\ Len(next) = n /\ piece \in [1..n -> Piece]
<1>. DEFINE n == Len(text)
            Escape(i) == Region(text, i, dialect) = i /\ text[i] = "{"
            close(i) == find_matching_brace(text, i, dialect)
            goes(i) == IF Escape(i) /\ close(i) # 0 THEN close(i) + 1 ELSE Behind(text, i, dialect)
            piece == [i \in 1..n |-> IF Escape(i) THEN translate_escape(text, i, close(i), dialect, inner)
                                     ELSE Translated(SubSeq(text, i, goes(i) - 1))]
            next == [i \in 1..n |-> goes(i)]
<1>2. n \in Nat
  OBVIOUS
<1>3. ASSUME NEW i \in 1..n PROVE close(i) \in {0} \cup i..n
  <2>1. close(i) \in {0} \cup i..(n + 1) - 1
    <3>1. i \in Nat /\ n + 1 \in Int
      BY <1>2
    <3>. HIDE DEF n
    <3>. QED  BY <3>1, Matched DEF find_matching_brace, n
  <2>2. (n + 1) - 1 = n
    BY <1>2
  <2>. HIDE DEF close
  <2>. QED  BY <2>1, <2>2
<1>. HIDE DEF close
<1>4. ASSUME NEW i \in 1..n PROVE goes(i) \in i + 1..n + 1
  <2>1. close(i) # 0 => close(i) + 1 \in i + 1..n + 1
    BY <1>2, <1>3
  <2>2. Behind(text, i, dialect) \in i + 1..n + 1
    BY RegionEnds
  <2>. HIDE DEF n, Escape
  <2>. QED  BY <2>1, <2>2
<1>. HIDE DEF goes
<1>5. Scan(next) /\ Len(next) = n
  <2>1. next \in [1..n -> Nat]
    BY <1>2, <1>4
  <2>2. next \in Seq(Nat) /\ Len(next) = n
    BY <1>2, <2>1
  <2>3. \A i \in 1..n : next[i] \in i + 1..n + 1
    BY <1>4
  <2>. HIDE DEF next, n
  <2>. QED  BY <1>2, <2>2, <2>3 DEF Scan
<1>6. ASSUME NEW i \in 1..n PROVE piece[i] \in Piece
  <2>1. CASE Escape(i)
    <3>1. close(i) \in 0..n
      BY <1>2, <1>3
    <3>2. translate_escape(text, i, close(i), dialect, inner) \in Piece
      BY <3>1, EscapeTranslated
    <3>. HIDE DEF Escape
    <3>. QED  BY <2>1, <3>2
  <2>2. CASE ~Escape(i)
    <3>1. SubSeq(text, i, goes(i) - 1) \in Seq(Token)
      BY <1>2, <1>4, PartOfText
    <3>2. Translated(SubSeq(text, i, goes(i) - 1)) \in Piece
      BY <3>1, Pieces
    <3>. HIDE DEF Escape
    <3>. QED  BY <2>2, <3>2
  <2>. QED  BY <2>1, <2>2
<1>7. piece \in [1..n -> Piece]
  <2>. HIDE DEF next, n, Escape
  <2>. QED  BY <1>6
<1>. QED  BY <1>5, <1>7 DEF close, goes

\* The translation of a text is a piece.
LEMMA SliceTranslated ==
  ASSUME NEW text \in Seq(Token), NEW dialect, NEW inner \in Translator
  PROVE  translate_slice(text, dialect, inner) \in Piece
<1>. DEFINE n == Len(text)
            Escape(i) == Region(text, i, dialect) = i /\ text[i] = "{"
            close(i) == find_matching_brace(text, i, dialect)
            goes(i) == IF Escape(i) /\ close(i) # 0 THEN close(i) + 1 ELSE Behind(text, i, dialect)
            piece == [i \in 1..n |-> IF Escape(i) THEN translate_escape(text, i, close(i), dialect, inner)
                                     ELSE Translated(SubSeq(text, i, goes(i) - 1))]
            next == [i \in 1..n |-> goes(i)]
<1>1. translate_slice(text, dialect, inner) = Joined(piece, next)
  BY DEF translate_slice
<1>2. Scan(next) /\ Len(next) = n /\ piece \in [1..n -> Piece]
  BY SliceScans
<1>3. n \in Nat
  OBVIOUS
<1>4. Joined(piece, next) \in Piece
  <2>. HIDE DEF piece, next, n
  <2>1. 1 \in 1..Len(next) + 1
    BY <1>2, <1>3
  <2>2. PICK from \in [1..Len(next) + 1 -> Piece] : Joined(piece, next) = from[1]
    BY <1>2, JoinedFunction, Zenon
  <2>. QED  BY <2>1, <2>2
<1>. QED  BY <1>1, <1>4

\* Level by level, translate_escapes is a translate_slice with a translator
\* inside: its recursion ends at MAX_ESCAPE_DEPTH.  What holds of the translator
\* that refuses, and is handed from each to the next, holds of that one.
LEMMA EscapesWithin ==
  ASSUME NEW text \in Seq(Token), NEW dialect, NEW Within, Within \subseteq Translator,
         [part \in Seq(Token) |-> Refused("42000")] \in Within,
         \A g \in Within : [part \in Seq(Token) |-> translate_slice(part, dialect, g)] \in Within
  PROVE  \E inner \in Within : translate_escapes(text, dialect) = translate_slice(text, dialect, inner)
<1>. DEFINE n == MAX_ESCAPE_DEPTH + 1
            deepest == [part \in Seq(Token) |-> Refused("42000")]
            Deeper(g) == [part \in Seq(Token) |-> translate_slice(part, dialect, g)]
            prev == [i \in 1..n |-> i - 1]
            step == [i \in 1..n |-> [g \in Within |-> Deeper(g)]]
            Is(f) == f = [left \in 0..n |-> [part \in Seq(Token) |-> IF left = 0 THEN Refused("42000")
                                                           ELSE translate_slice(part, dialect, f[left - 1])]]
            level == CHOOSE f : Is(f)
<1>1. n \in Nat /\ n >= 1
  BY MetadataAssumption
<1>2. deepest \in Within
  OBVIOUS
<1>3. \A g \in Within : Deeper(g) \in Within
  OBVIOUS
<1>4. Recursion(n, Within, deepest, prev, step)
  <2>1. prev \in [1..n -> Nat] /\ \A i \in 1..n : prev[i] < i
    BY <1>1
  <2>2. step \in [1..n -> [Within -> Within]]
    <3>. HIDE DEF Deeper, n
    <3>. QED  BY <1>3
  <2>. HIDE DEF n, deepest, prev, step
  <2>. QED  BY <1>1, <1>2, <2>1, <2>2 DEF Recursion
<1>5. PICK g \in [0..n -> Within] : g[0] = deepest /\ \A i \in 1..n : g[i] = step[i][g[prev[i]]]
  <2>. HIDE DEF n, deepest, prev, step
  <2>. QED  BY <1>4, UpwardRecursion
<1>6. ASSUME NEW i \in 1..n PROVE i - 1 \in 0..n /\ g[i] = Deeper(g[i - 1])
  <2>1. i - 1 \in 0..n
    BY <1>1
  <2>2. g[i - 1] \in Within
    BY <1>5, <2>1
  <2>3. prev[i] = i - 1
    OBVIOUS
  <2>4. step[i][g[i - 1]] = Deeper(g[i - 1])
    <3>. HIDE DEF Deeper, n
    <3>. QED  BY <2>2
  <2>. HIDE DEF Deeper, n, prev, step
  <2>. QED  BY <1>5, <2>1, <2>3, <2>4
<1>. HIDE DEF n
<1>7. Is(g)
  <2>1. ASSUME NEW i \in 0..n
        PROVE  g[i] = [part \in Seq(Token) |-> IF i = 0 THEN Refused("42000")
                                               ELSE translate_slice(part, dialect, g[i - 1])]
    <3>1. CASE i = 0
      BY <1>5, <3>1
    <3>2. CASE i # 0
      <4>1. i \in 1..n
        BY <1>1, <3>2
      <4>. QED  BY <1>6, <3>2, <4>1
    <3>. QED  BY <3>1, <3>2
  <2>. QED  BY <1>5, <2>1
<1>8. Is(level)
  <2>. HIDE DEF Is
  <2>. QED  BY <1>7
<1>9. translate_escapes(text, dialect) = level[n][text]
  BY DEF translate_escapes, n
<1>. HIDE DEF level
<1>10. \A left \in 0..n : level[left] = [part \in Seq(Token) |-> IF left = 0 THEN Refused("42000")
                                                           ELSE translate_slice(part, dialect, level[left - 1])]
  BY <1>8
<1>11. level[0] = deepest /\ \A i \in 1..n : level[i] = Deeper(level[i - 1])
  <2>1. 0 \in 0..n /\ \A i \in 1..n : i \in 0..n /\ i # 0
    BY <1>1
  <2>2. level[0] = deepest
    BY <1>10, <2>1
  <2>3. ASSUME NEW i \in 1..n PROVE level[i] = Deeper(level[i - 1])
    BY <1>10, <2>1
  <2>. QED  BY <2>2, <2>3
<1>12. 0..n \subseteq {i \in 0..n : level[i] \in Within}
  <2>. DEFINE P == {i \in 0..n : level[i] \in Within}
  <2>. HIDE DEF Deeper, deepest
  <2>1. 0 \in P
    BY <1>1, <1>2, <1>11
  <2>2. ASSUME NEW i \in 1..n, prev[i] \in P PROVE i \in P
    <3>1. prev[i] = i - 1 /\ i \in 0..n
      BY <1>1
    <3>2. level[i - 1] \in Within
      BY <2>2, <3>1
    <3>3. level[i] \in Within
      BY <1>3, <1>11, <3>2
    <3>. QED  BY <3>1, <3>3
  <2>3. prev \in [1..n -> Nat] /\ \A i \in 1..n : prev[i] < i
    BY <1>1
  <2>. HIDE DEF P, prev
  <2>4. 0..n \subseteq P
    BY <1>1, <2>1, <2>2, <2>3, UpwardInduction
  <2>. QED  BY <2>4 DEF P
<1>13. level[n - 1] \in Within /\ n \in 1..n
  <2>1. n - 1 \in 0..n /\ n \in 1..n
    BY <1>1
  <2>. QED  BY <1>12, <2>1
<1>14. level[n][text] = translate_slice(text, dialect, level[n - 1])
  <2>1. \A inner : Deeper(inner)[text] = translate_slice(text, dialect, inner)
    OBVIOUS
  <2>. HIDE DEF Deeper, deepest
  <2>2. level[n] = Deeper(level[n - 1])
    BY <1>11, <1>13
  <2>. QED  BY <2>1, <2>2
<1>. QED  BY <1>9, <1>13, <1>14

\* Every text is translated so.
LEMMA EscapesTranslated ==
  ASSUME NEW text \in Seq(Token), NEW dialect
  PROVE  \E inner \in Translator : translate_escapes(text, dialect) = translate_slice(text, dialect, inner)
<1>1. [part \in Seq(Token) |-> Refused("42000")] \in Translator
  BY Pieces DEF Translator
<1>2. \A g \in Translator : [part \in Seq(Token) |-> translate_slice(part, dialect, g)] \in Translator
  BY SliceTranslated DEF Translator
<1>. QED  BY <1>1, <1>2, EscapesWithin

\* What translate_escapes gives of any text in any dialect is a text.
LEMMA TranslationIsText ==
  ASSUME NEW text \in Seq(Token), NEW dialect
  PROVE  Len(translate_escapes(text, dialect).text) \in Nat
<1>1. translate_escapes(text, dialect) \in Piece
  BY EscapesTranslated, SliceTranslated
<1>. QED  BY <1>1 DEF Piece

\* A scan that leaves each part of the text it comes by as it is leaves the text.
LEMMA JoinedUnchanged ==
  ASSUME NEW text \in Seq(Token), NEW next, NEW behind, NEW piece, Scan(next), Scan(behind),
         Len(next) = Len(text), Len(behind) = Len(text), piece \in [1..Len(text) -> Piece],
         \A k \in Visited(1, behind) :
           next[k] = behind[k] /\ piece[k] = Translated(SubSeq(text, k, next[k] - 1))
  PROVE  Joined(piece, next) = Translated(text)
<1>. DEFINE n == Len(text)
            seen == Visited(1, behind)
<1>1. n \in Nat /\ 1 \in 1..n + 1
  OBVIOUS
<1>2. /\ seen \subseteq 1..n
      /\ 1 \in seen \/ 1 = n + 1
      /\ \A k \in seen : behind[k] \in seen \/ behind[k] = n + 1
  BY <1>1, VisitedPositions
<1>3. PICK from \in [1..n + 1 -> Piece] :
        /\ Joined(piece, next) = from[1]
        /\ from[n + 1] = Translated(<<>>)
        /\ \A i \in 1..n : from[i] = Both(piece[i], from[next[i]])
  <2>1. piece \in [1..Len(next) -> Piece]
    OBVIOUS
  <2>. QED  BY <2>1, JoinedFunction
<1>4. next \in [1..n -> Nat] /\ \A i \in 1..n : i < next[i] /\ next[i] <= n + 1
  BY DEF Scan
<1>. DEFINE Same(k) == from[k] = Translated(SubSeq(text, k, n))
            P == {k \in 1..n + 1 : k \in seen \/ k = n + 1 => Same(k)}
<1>. HIDE DEF seen
<1>5. n + 1 \in P
  <2>1. SubSeq(text, n + 1, n) = <<>>
    BY <1>1, SubSeqEmpty
  <2>2. Same(n + 1)
    BY <1>3, <2>1
  <2>3. n + 1 \in 1..n + 1
    BY <1>1
  <2>. HIDE DEF Same
  <2>. QED  BY <2>2, <2>3
<1>6. ASSUME NEW k \in 1..n, next[k] \in P PROVE k \in P
  <2>1. CASE k \notin seen
    <3>1. k \in 1..n + 1 /\ k # n + 1
      BY <1>1
    <3>. HIDE DEF Same
    <3>. QED  BY <2>1, <3>1
  <2>2. CASE k \in seen
    <3>1. next[k] = behind[k] /\ piece[k] = Translated(SubSeq(text, k, next[k] - 1))
      BY <2>2 DEF seen
    <3>2. next[k] \in k + 1..n + 1
      BY <1>1, <1>4
    <3>3. next[k] \in seen \/ next[k] = n + 1
      BY <1>2, <2>2, <3>1
    <3>4. from[next[k]] = Translated(SubSeq(text, next[k], n))
      BY <1>6, <3>2, <3>3
    <3>5. SubSeq(text, k, next[k] - 1) \o SubSeq(text, next[k], n) = SubSeq(text, k, n)
      <4>. DEFINE m == next[k] - 1
      <4>1. m \in k..n /\ m + 1 = next[k]
        BY <1>1, <3>2
      <4>2. k \in 1..n + 1 /\ m \in k - 1..n /\ n \in m..n
        BY <1>1, <4>1
      <4>. HIDE DEF m
      <4>3. SubSeq(text, k, m) \o SubSeq(text, m + 1, n) = SubSeq(text, k, n)
        BY <4>2, ConcatAdjacentSubSeq
      <4>. QED  BY <4>1, <4>3 DEF m
    <3>6. from[k] = Both(piece[k], from[next[k]])
      BY <1>3
    <3>7. Same(k)
      <4>1. \A a, b : Both(Translated(a), Translated(b)) = Translated(a \o b)
        BY DEF Both, Translated, Ok
      <4>. QED  BY <3>1, <3>4, <3>5, <3>6, <4>1
    <3>8. k \in 1..n + 1
      BY <1>1
    <3>. HIDE DEF Same
    <3>. QED  BY <3>7, <3>8
  <2>. QED  BY <2>1, <2>2
<1>7. 1..n + 1 \subseteq P
  <2>. HIDE DEF P, n
  <2>. QED  BY <1>1, <1>4, <1>5, <1>6, ScanInduction
<1>8. Same(1)
  <2>. HIDE DEF Same
  <2>. QED  BY <1>1, <1>2, <1>7
<1>9. SubSeq(text, 1, n) = text
  BY SubSeqFull
<1>. QED  BY <1>3, <1>8, <1>9

\* No escape begins outside of literals, quoted identifiers and comments.
NoEscape(text, dialect) == \A i \in Code(text, dialect) : text[i] # "{"

\* Such a text is translated to itself, for every text and dialect and whatever
\* braces its regions have (escape.rs).
LEMMA PlainTextStays ==
  ASSUME NEW text \in Seq(Token), NEW dialect, NoEscape(text, dialect)
  PROVE  translate_escapes(text, dialect).text = text
<1>1. PICK inner \in Translator : translate_escapes(text, dialect) = translate_slice(text, dialect, inner)
  BY EscapesTranslated
<1>. DEFINE n == Len(text)
            Escape(i) == Region(text, i, dialect) = i /\ text[i] = "{"
            close(i) == find_matching_brace(text, i, dialect)
            goes(i) == IF Escape(i) /\ close(i) # 0 THEN close(i) + 1 ELSE Behind(text, i, dialect)
            piece == [i \in 1..n |-> IF Escape(i) THEN translate_escape(text, i, close(i), dialect, inner)
                                     ELSE Translated(SubSeq(text, i, goes(i) - 1))]
            next == [i \in 1..n |-> goes(i)]
            behind == [k \in 1..n |-> Behind(text, k, dialect)]
            seen == Visited(1, behind)
<1>2. n \in Nat
  OBVIOUS
<1>3. translate_slice(text, dialect, inner) = Joined(piece, next)
  BY DEF translate_slice
<1>4. Scan(next) /\ Len(next) = n /\ piece \in [1..n -> Piece]
  BY SliceScans
<1>5. Scan(behind) /\ Len(behind) = n
  <2>1. \A k \in 1..n : Behind(text, k, dialect) \in k + 1..n + 1
    BY RegionEnds
  <2>2. \A k \in 1..n : Behind(text, k, dialect) \in Nat
    BY <1>2, <2>1
  <2>3. behind \in [1..n -> Nat]
    BY <2>2
  <2>4. behind \in Seq(Nat) /\ Len(behind) = n
    BY <1>2, <2>3
  <2>5. \A k \in 1..n : behind[k] \in k + 1..n + 1
    BY <2>1
  <2>. HIDE DEF behind, n
  <2>. QED  BY <1>2, <2>4, <2>5 DEF Scan
<1>6. seen \subseteq 1..n
  <2>. HIDE DEF behind, n
  <2>1. 1 \in 1..Len(behind) + 1
    BY <1>2, <1>5
  <2>. QED  BY <1>5, <2>1, VisitedPositions
<1>7. ASSUME NEW k \in seen
      PROVE  next[k] = behind[k] /\ piece[k] = Translated(SubSeq(text, k, next[k] - 1))
  <2>1. Region(text, k, dialect) = k => k \in Code(text, dialect)
    BY DEF Code
  <2>2. ~Escape(k)
    BY <2>1 DEF NoEscape
  <2>3. k \in 1..n
    BY <1>6
  <2>. HIDE DEF Escape, close, n, seen
  <2>. QED  BY <2>2, <2>3
<1>8. Joined(piece, next) = Translated(text)
  <2>. HIDE DEF piece, next, behind
  <2>. QED  BY <1>4, <1>5, <1>7, JoinedUnchanged
<1>9. Translated(text).text = text
  BY DEF Translated
<1>. HIDE DEF piece, next
<1>. QED  BY <1>1, <1>3, <1>8, <1>9

\* Reading a text token by token, the reader is in code or on the way to the
\* token that ends the literal, quoted identifier or comment it is in.
Mode == Token \cup {"code"}
Opened(token, dialect) ==
  CASE token = "'" -> "'"
    [] token \in DOMAIN dialect.quotes \ {"'"} -> dialect.quotes[token]
    [] token = "--" -> "\n"
    [] token = "/*" -> "*/"
    [] OTHER -> "code"
Moved(mode, token, dialect) ==
  IF mode = "code" THEN Opened(token, dialect) ELSE IF token = mode THEN "code" ELSE mode
Marks(mode, token) == IF mode = "code" /\ token = "?" THEN 1 ELSE 0

\* The mode that each mode ends in, and the markers that are read.
Reader == [Mode -> Mode \X Nat]
ReadsFrom(f, text, dialect) ==
  /\ f \in [1..Len(text) + 1 -> Reader]
  /\ f[Len(text) + 1] = [s \in Mode |-> <<s, 0>>]
  /\ \A i \in 1..Len(text), s \in Mode :
       LET rest == f[i + 1][Moved(s, text[i], dialect)]
       IN  f[i][s] = <<rest[1], Marks(s, text[i]) + rest[2]>>
Read(text, dialect) == (CHOOSE f : ReadsFrom(f, text, dialect))[1]
End(text, mode, dialect) == Read(text, dialect)[mode][1]
Markers(text, mode, dialect) == Read(text, dialect)[mode][2]

\* Identifiers are delimited by marks of their own.
WellQuoted(dialect) ==
  /\ DOMAIN dialect.quotes \subseteq {"q", "["}
  /\ \A o \in DOMAIN dialect.quotes : dialect.quotes[o] \in {"q", "]"}

\* What a token opens in code: no literal, delimited identifier or comment but by
\* its own mark, and a line end ends line comments alone.
LEMMA OpenedIs ==
  ASSUME NEW dialect, WellQuoted(dialect)
  PROVE  /\ \A token : Opened(token, dialect) \in {"'", "q", "]", "\n", "*/", "code"}
         /\ Opened("'", dialect) = "'" /\ Opened("--", dialect) = "\n" /\ Opened("/*", dialect) = "*/"
         /\ \A token \in DOMAIN dialect.quotes : Opened(token, dialect) = dialect.quotes[token]
         /\ \A token : token \notin {"'", "--", "/*"} \cup DOMAIN dialect.quotes => Opened(token, dialect) = "code"
         /\ \A token : token \notin {"'", "--", "/*", "q", "["} => Opened(token, dialect) = "code"
         /\ \A token : token # "--" => Opened(token, dialect) # "\n"
BY DEF Opened, WellQuoted

\* Every token moves the reader from a mode to a mode.
LEMMA MovedIs ==
  ASSUME NEW dialect, WellQuoted(dialect), NEW s \in Mode, NEW token
  PROVE  Moved(s, token, dialect) \in Mode /\ Marks(s, token) \in Nat
<1>1. {"'", "q", "]", "\n", "*/", "code"} \subseteq Mode
  BY DEF Mode, Token, Mark, Blank
<1>2. Moved(s, token, dialect) \in Mode
  BY <1>1, OpenedIs DEF Moved
<1>. QED  BY <1>2 DEF Marks

\* Every text is read.
LEMMA ReadExists ==
  ASSUME NEW text \in Seq(Token), NEW dialect, WellQuoted(dialect)
  PROVE  ReadsFrom(CHOOSE f : ReadsFrom(f, text, dialect), text, dialect)
<1>. DEFINE n == Len(text)
            base == [s \in Mode |-> <<s, 0>>]
            next == [i \in 1..n |-> i + 1]
            Before1(i, g) == [s \in Mode |-> <<g[Moved(s, text[i], dialect)][1],
                                               Marks(s, text[i]) + g[Moved(s, text[i], dialect)][2]>>]
            step == [i \in 1..n |-> [g \in Reader |-> Before1(i, g)]]
<1>1. n \in Nat
  OBVIOUS
<1>2. base \in Reader
  BY DEF Reader
<1>3. ASSUME NEW i \in 1..n, NEW g \in Reader PROVE Before1(i, g) \in Reader
  <2>1. ASSUME NEW s \in Mode
        PROVE  <<g[Moved(s, text[i], dialect)][1], Marks(s, text[i]) + g[Moved(s, text[i], dialect)][2]>> \in Mode \X Nat
    <3>1. Moved(s, text[i], dialect) \in Mode /\ Marks(s, text[i]) \in Nat
      BY MovedIs
    <3>2. g[Moved(s, text[i], dialect)] \in Mode \X Nat
      BY <3>1 DEF Reader
    <3>. HIDE DEF n
    <3>. QED  BY <3>1, <3>2
  <2>. HIDE DEF n
  <2>. QED  BY <2>1 DEF Reader
<1>4. step \in [1..n -> [Reader -> Reader]]
  <2>. HIDE DEF n, Before1
  <2>. QED  BY <1>3
<1>5. next \in [1..n -> Nat] /\ \A i \in 1..n : i < next[i] /\ next[i] <= n + 1
  BY <1>1
<1>6. PICK f \in [1..n + 1 -> Reader] : f[n + 1] = base /\ \A i \in 1..n : f[i] = step[i][f[next[i]]]
  <2>. HIDE DEF n, base, next, step
  <2>1. ScanOf(n, Reader, base, next, step)
    BY <1>1, <1>2, <1>4, <1>5 DEF ScanOf
  <2>. QED  BY <2>1, ScanRecursion
<1>7. ASSUME NEW i \in 1..n, NEW s \in Mode
      PROVE  f[i][s] = <<f[i + 1][Moved(s, text[i], dialect)][1],
                         Marks(s, text[i]) + f[i + 1][Moved(s, text[i], dialect)][2]>>
  <2>1. i + 1 \in 1..n + 1 /\ next[i] = i + 1
    BY <1>1
  <2>2. f[i + 1] \in Reader
    BY <2>1
  <2>3. step[i][f[i + 1]] = Before1(i, f[i + 1])
    <3>. HIDE DEF n, Before1
    <3>. QED  BY <2>2
  <2>4. f[i] = Before1(i, f[i + 1])
    <3>. HIDE DEF n, Before1, step, next
    <3>. QED  BY <1>6, <2>1, <2>3
  <2>. HIDE DEF n
  <2>. QED  BY <2>4
<1>8. ReadsFrom(f, text, dialect)
  BY <1>6, <1>7 DEF ReadsFrom
<1>. QED  BY <1>8

\* What is read of a text is read of its rest from anywhere.
LEMMA ReadRest ==
  ASSUME NEW text \in Seq(Token), NEW dialect, WellQuoted(dialect), NEW f, ReadsFrom(f, text, dialect),
         NEW i \in 1..Len(text) + 1
  PROVE  Read(SubSeq(text, i, Len(text)), dialect) = f[i]
<1>. DEFINE n == Len(text)
            part == SubSeq(text, i, n)
            m == Len(part)
            g == CHOOSE h : ReadsFrom(h, part, dialect)
            next == [k \in 1..m |-> k + 1]
            P == {k \in 1..m + 1 : g[k] = f[k + i - 1]}
<1>1. n \in Nat /\ part \in Seq(Token) /\ m = n + 1 - i /\ \A k \in 1..m : part[k] = text[k + i - 1]
  OBVIOUS
<1>2. ReadsFrom(g, part, dialect)
  BY <1>1, ReadExists
<1>. HIDE DEF g, part, m, n
<1>3. m \in Nat /\ \A k \in 1..m : k + i - 1 \in 1..n /\ k + 1 \in 1..m + 1 /\ (k + i - 1) + 1 = k + 1 + i - 1
  BY <1>1 DEF n
<1>4. m + 1 \in P
  <2>1. m + 1 + i - 1 = n + 1
    BY <1>1 DEF n
  <2>2. m + 1 \in 1..m + 1
    BY <1>3
  <2>. QED  BY <1>2, <2>1, <2>2 DEF ReadsFrom, m, n
<1>5. ASSUME NEW k \in 1..m, next[k] \in P PROVE k \in P
  <2>1. next[k] = k + 1 /\ k + i - 1 \in 1..n /\ k \in 1..m + 1 /\ (k + i - 1) + 1 = k + 1 + i - 1
    BY <1>3
  <2>2. g[k + 1] = f[k + 1 + i - 1]
    BY <1>5, <2>1
  <2>3. part[k] = text[k + i - 1]
    BY <1>1
  <2>4. g[k] \in Reader /\ f[k + i - 1] \in Reader
    <3>1. k + i - 1 \in 1..n + 1
      BY <1>1, <2>1
    <3>. QED  BY <1>2, <2>1, <3>1 DEF ReadsFrom, m, n
  <2>5. ASSUME NEW s \in Mode PROVE g[k][s] = f[k + i - 1][s]
    <3>. DEFINE j == k + i - 1
    <3>1. j \in 1..n /\ part[k] = text[j] /\ g[k + 1] = f[j + 1]
      BY <2>1, <2>2, <2>3
    <3>. HIDE DEF j
    <3>2. f[j][s] = <<f[j + 1][Moved(s, text[j], dialect)][1],
                      Marks(s, text[j]) + f[j + 1][Moved(s, text[j], dialect)][2]>>
      BY <3>1 DEF ReadsFrom, n
    <3>3. g[k][s] = <<g[k + 1][Moved(s, part[k], dialect)][1],
                      Marks(s, part[k]) + g[k + 1][Moved(s, part[k], dialect)][2]>>
      BY <1>2 DEF ReadsFrom, m
    <3>. QED  BY <3>1, <3>2, <3>3 DEF j
  <2>6. g[k] = f[k + i - 1]
    BY <2>4, <2>5 DEF Reader
  <2>. QED  BY <2>1, <2>6
<1>6. 1..m + 1 \subseteq P
  <2>1. next \in [1..m -> Nat] /\ \A k \in 1..m : k < next[k] /\ next[k] <= m + 1
    BY <1>3
  <2>. HIDE DEF P, next
  <2>. QED  BY <1>3, <1>4, <1>5, <2>1, ScanInduction
<1>7. 1 \in P
  BY <1>3, <1>6
<1>8. 1 + i - 1 = i
  BY <1>1
<1>. QED  BY <1>7, <1>8 DEF Read, g, part, n

\* Reading from a position on: the mode moves with the token, and the rest is
\* read from there.
Rest(text, i) == SubSeq(text, i, Len(text))
LEMMA ReadAlong ==
  ASSUME NEW text \in Seq(Token), NEW dialect, WellQuoted(dialect)
  PROVE  /\ \A s \in Mode : End(Rest(text, Len(text) + 1), s, dialect) = s
                            /\ Markers(Rest(text, Len(text) + 1), s, dialect) = 0
         /\ \A i \in 1..Len(text) + 1, s \in Mode : /\ End(Rest(text, i), s, dialect) \in Mode
                                                    /\ Markers(Rest(text, i), s, dialect) \in Nat
         /\ \A i \in 1..Len(text), s \in Mode :
              /\ End(Rest(text, i), s, dialect) = End(Rest(text, i + 1), Moved(s, text[i], dialect), dialect)
              /\ Markers(Rest(text, i), s, dialect)
                   = Marks(s, text[i]) + Markers(Rest(text, i + 1), Moved(s, text[i], dialect), dialect)
<1>. DEFINE f == CHOOSE h : ReadsFrom(h, text, dialect)
            n == Len(text)
<1>1. ReadsFrom(f, text, dialect) /\ n \in Nat
  BY ReadExists
<1>. HIDE DEF f
<1>2. \A i \in 1..n + 1 : Read(Rest(text, i), dialect) = f[i] /\ f[i] \in Reader
  BY <1>1, ReadRest DEF Rest, ReadsFrom
<1>3. n + 1 \in 1..n + 1 /\ \A i \in 1..n : i \in 1..n + 1 /\ i + 1 \in 1..n + 1
  BY <1>1
<1>4. ASSUME NEW s \in Mode
      PROVE  End(Rest(text, n + 1), s, dialect) = s /\ Markers(Rest(text, n + 1), s, dialect) = 0
  <2>1. f[n + 1][s] = <<s, 0>>
    BY <1>1 DEF ReadsFrom
  <2>. HIDE DEF n
  <2>. QED  BY <1>2, <1>3, <2>1 DEF End, Markers
<1>5. ASSUME NEW i \in 1..n + 1, NEW s \in Mode
      PROVE  End(Rest(text, i), s, dialect) \in Mode /\ Markers(Rest(text, i), s, dialect) \in Nat
  <2>1. f[i][s] \in Mode \X Nat
    BY <1>2 DEF Reader
  <2>. HIDE DEF n
  <2>. QED  BY <1>2, <2>1 DEF End, Markers
<1>6. ASSUME NEW i \in 1..n, NEW s \in Mode
      PROVE  /\ End(Rest(text, i), s, dialect) = End(Rest(text, i + 1), Moved(s, text[i], dialect), dialect)
             /\ Markers(Rest(text, i), s, dialect)
                  = Marks(s, text[i]) + Markers(Rest(text, i + 1), Moved(s, text[i], dialect), dialect)
  <2>. DEFINE t == Moved(s, text[i], dialect)
  <2>1. f[i][s] = <<f[i + 1][t][1], Marks(s, text[i]) + f[i + 1][t][2]>>
    BY <1>1 DEF ReadsFrom
  <2>. HIDE DEF t, n
  <2>2. Read(Rest(text, i), dialect) = f[i] /\ Read(Rest(text, i + 1), dialect) = f[i + 1]
    BY <1>2, <1>3
  <2>3. /\ End(Rest(text, i), s, dialect) = End(Rest(text, i + 1), t, dialect)
        /\ Markers(Rest(text, i), s, dialect) = Marks(s, text[i]) + Markers(Rest(text, i + 1), t, dialect)
    BY <2>1, <2>2 DEF End, Markers
  <2>. QED  BY <2>3 DEF t
<1>. QED  BY <1>4, <1>5, <1>6

\* Two texts one behind the other are read one after the other.
LEMMA ReadJoin ==
  ASSUME NEW a \in Seq(Token), NEW b \in Seq(Token), NEW dialect, WellQuoted(dialect), NEW s \in Mode
  PROVE  /\ End(a \o b, s, dialect) = End(b, End(a, s, dialect), dialect)
         /\ Markers(a \o b, s, dialect) = Markers(a, s, dialect) + Markers(b, End(a, s, dialect), dialect)
<1>. DEFINE n == Len(a)
            ab == a \o b
            Joins(i, t) ==
              /\ End(Rest(ab, i), t, dialect) = End(b, End(Rest(a, i), t, dialect), dialect)
              /\ Markers(Rest(ab, i), t, dialect)
                   = Markers(Rest(a, i), t, dialect) + Markers(b, End(Rest(a, i), t, dialect), dialect)
            P == {i \in 1..n + 1 : \A t \in Mode : Joins(i, t)}
            next == [i \in 1..n |-> i + 1]
<1>1. n \in Nat /\ Len(b) \in Nat /\ ab \in Seq(Token) /\ Len(ab) = n + Len(b)
      /\ (\A i \in 1..n : ab[i] = a[i]) /\ (\A i \in 1..Len(b) : ab[n + i] = b[i])
  OBVIOUS
<1>2. Rest(ab, n + 1) = b
  <2>1. Rest(ab, n + 1) \in Seq(Token) /\ Len(Rest(ab, n + 1)) = Len(b)
    BY <1>1 DEF Rest
  <2>2. \A i \in 1..Len(b) : Rest(ab, n + 1)[i] = b[i]
    BY <1>1 DEF Rest
  <2>. HIDE DEF ab
  <2>. QED  BY <2>1, <2>2, SeqEqual
<1>3. Rest(ab, 1) = ab /\ Rest(a, 1) = a
  BY <1>1, SubSeqFull DEF Rest
<1>. HIDE DEF ab
<1>4. n + 1 \in P
  <2>1. \A t \in Mode : /\ End(Rest(a, n + 1), t, dialect) = t
                        /\ Markers(Rest(a, n + 1), t, dialect) = 0
    BY ReadAlong
  <2>2. \A t \in Mode : Markers(b, t, dialect) \in Nat
    <3>1. Rest(b, 1) = b /\ 1 \in 1..Len(b) + 1
      BY <1>1, SubSeqFull DEF Rest
    <3>. QED  BY <3>1, ReadAlong
  <2>3. n + 1 \in 1..n + 1
    BY <1>1
  <2>. HIDE DEF n
  <2>. QED  BY <1>2, <2>1, <2>2, <2>3
<1>5. ASSUME NEW i \in 1..n, next[i] \in P PROVE i \in P
  <2>1. i \in 1..Len(ab) /\ i \in 1..n + 1 /\ i + 1 \in 1..n + 1 /\ ab[i] = a[i] /\ i + 1 \in P
    BY <1>1, <1>5
  <2>2. ASSUME NEW t \in Mode PROVE Joins(i, t)
    <3>. DEFINE u == Moved(t, a[i], dialect)
                e == End(Rest(a, i + 1), u, dialect)
    <3>1. u \in Mode
      BY MovedIs
    <3>2. Joins(i + 1, u)
      BY <2>1, <3>1
    <3>3. /\ End(Rest(ab, i), t, dialect) = End(Rest(ab, i + 1), u, dialect)
          /\ Markers(Rest(ab, i), t, dialect) = Marks(t, a[i]) + Markers(Rest(ab, i + 1), u, dialect)
      <4>1. /\ End(Rest(ab, i), t, dialect) = End(Rest(ab, i + 1), Moved(t, ab[i], dialect), dialect)
            /\ Markers(Rest(ab, i), t, dialect)
                 = Marks(t, ab[i]) + Markers(Rest(ab, i + 1), Moved(t, ab[i], dialect), dialect)
        <5>. HIDE DEF P
        <5>. QED  BY <1>1, <2>1, ReadAlong
      <4>. QED  BY <2>1, <4>1
    <3>4. /\ End(Rest(a, i), t, dialect) = e
          /\ Markers(Rest(a, i), t, dialect) = Marks(t, a[i]) + Markers(Rest(a, i + 1), u, dialect)
      BY ReadAlong
    <3>5. e \in Mode /\ Markers(Rest(a, i + 1), u, dialect) \in Nat /\ Marks(t, a[i]) \in Nat
      <4>. HIDE DEF u
      <4>. QED  BY <2>1, <3>1, MovedIs, ReadAlong
    <3>6. Markers(b, e, dialect) \in Nat
      <4>1. Rest(b, 1) = b /\ 1 \in 1..Len(b) + 1
        BY <1>1, SubSeqFull DEF Rest
      <4>. HIDE DEF e
      <4>. QED  BY <3>5, <4>1, ReadAlong
    <3>. HIDE DEF u, P, n
    <3>7. End(Rest(ab, i), t, dialect) = End(b, End(Rest(a, i), t, dialect), dialect)
      BY <3>2, <3>3, <3>4
    <3>8. Markers(Rest(ab, i + 1), u, dialect) = Markers(Rest(a, i + 1), u, dialect) + Markers(b, e, dialect)
      BY <3>2
    <3>9. Markers(Rest(ab, i), t, dialect) = Markers(Rest(a, i), t, dialect) + Markers(b, e, dialect)
      <4>. HIDE DEF e
      <4>. QED  BY <3>3, <3>4, <3>5, <3>6, <3>8
    <3>. QED  BY <3>4, <3>7, <3>9
  <2>. HIDE DEF Joins
  <2>. QED  BY <2>1, <2>2
<1>6. 1 \in P
  <2>1. next \in [1..n -> Nat] /\ \A i \in 1..n : i < next[i] /\ next[i] <= n + 1
    BY <1>1
  <2>2. 1 \in 1..n + 1
    BY <1>1
  <2>. HIDE DEF P, next, n
  <2>. QED  BY <1>1, <1>4, <1>5, <2>1, <2>2, ScanInduction
<1>7. Joins(1, s)
  BY <1>6
<1>. QED  BY <1>3, <1>7 DEF ab

\* What is read of any text, of none and of one token.
LEMMA ReadIs ==
  ASSUME NEW dialect, WellQuoted(dialect), NEW s \in Mode
  PROVE  /\ \A text \in Seq(Token) : End(text, s, dialect) \in Mode /\ Markers(text, s, dialect) \in Nat
         /\ End(<<>>, s, dialect) = s /\ Markers(<<>>, s, dialect) = 0
         /\ \A token \in Token : /\ End(<<token>>, s, dialect) = Moved(s, token, dialect)
                                 /\ Markers(<<token>>, s, dialect) = Marks(s, token)
<1>1. ASSUME NEW text \in Seq(Token)
      PROVE  End(text, s, dialect) \in Mode /\ Markers(text, s, dialect) \in Nat
  <2>1. Rest(text, 1) = text /\ 1 \in 1..Len(text) + 1
    BY SubSeqFull DEF Rest
  <2>. QED  BY <2>1, ReadAlong
<1>2. End(<<>>, s, dialect) = s /\ Markers(<<>>, s, dialect) = 0
  <2>. DEFINE none == <<>>
  <2>1. none \in Seq(Token) /\ Rest(none, Len(none) + 1) = <<>>
    BY DEF Rest
  <2>. HIDE DEF none
  <2>2. End(Rest(none, Len(none) + 1), s, dialect) = s /\ Markers(Rest(none, Len(none) + 1), s, dialect) = 0
    BY <2>1, ReadAlong
  <2>. QED  BY <2>1, <2>2
<1>3. ASSUME NEW token \in Token
      PROVE  /\ End(<<token>>, s, dialect) = Moved(s, token, dialect)
             /\ Markers(<<token>>, s, dialect) = Marks(s, token)
  <2>. DEFINE one == <<token>>
              t == Moved(s, token, dialect)
  <2>1. one \in Seq(Token) /\ Len(one) = 1 /\ one[1] = token /\ Rest(one, 1) = one
    <3>1. one \in Seq(Token) /\ Len(one) = 1 /\ one[1] = token
      OBVIOUS
    <3>. HIDE DEF one
    <3>. QED  BY <3>1, SubSeqFull DEF Rest
  <2>2. t \in Mode /\ Marks(s, token) \in Nat
    BY MovedIs
  <2>. HIDE DEF one, t
  <2>3. End(Rest(one, 2), t, dialect) = t /\ Markers(Rest(one, 2), t, dialect) = 0
    <3>1. Len(one) + 1 = 2
      BY <2>1
    <3>2. End(Rest(one, Len(one) + 1), t, dialect) = t /\ Markers(Rest(one, Len(one) + 1), t, dialect) = 0
      BY <2>1, <2>2, ReadAlong
    <3>. QED  BY <3>1, <3>2
  <2>4. /\ End(Rest(one, 1), s, dialect) = End(Rest(one, 2), t, dialect)
        /\ Markers(Rest(one, 1), s, dialect) = Marks(s, token) + Markers(Rest(one, 2), t, dialect)
    <3>1. 1 \in 1..Len(one) /\ 1 + 1 = 2
      BY <2>1
    <3>2. /\ End(Rest(one, 1), s, dialect) = End(Rest(one, 1 + 1), Moved(s, one[1], dialect), dialect)
          /\ Markers(Rest(one, 1), s, dialect)
               = Marks(s, one[1]) + Markers(Rest(one, 1 + 1), Moved(s, one[1], dialect), dialect)
      BY <2>1, <3>1, ReadAlong
    <3>. QED  BY <2>1, <3>1, <3>2 DEF t
  <2>. QED  BY <2>1, <2>2, <2>3, <2>4 DEF one, t
<1>. QED  BY <1>1, <1>2, <1>3

\* So a text is read up to anywhere, and on from there.
LEMMA ReadCut ==
  ASSUME NEW text \in Seq(Token), NEW dialect, WellQuoted(dialect), NEW s \in Mode,
         NEW i \in 1..Len(text) + 1, NEW k \in i - 1..Len(text), NEW j \in k..Len(text)
  PROVE  LET m == End(SubSeq(text, i, k), s, dialect)
         IN  /\ m \in Mode
             /\ End(SubSeq(text, i, j), s, dialect) = End(SubSeq(text, k + 1, j), m, dialect)
             /\ Markers(SubSeq(text, i, j), s, dialect)
                  = Markers(SubSeq(text, i, k), s, dialect) + Markers(SubSeq(text, k + 1, j), m, dialect)
<1>1. SubSeq(text, i, k) \in Seq(Token) /\ SubSeq(text, k + 1, j) \in Seq(Token)
  <2>1. i \in Nat /\ i >= 1 /\ k + 1 \in Nat /\ k + 1 >= 1 /\ k <= Len(text) /\ j <= Len(text) /\ k \in Int /\ j \in Int
    OBVIOUS
  <2>. QED  BY <2>1, PartOfText
<1>2. SubSeq(text, i, k) \o SubSeq(text, k + 1, j) = SubSeq(text, i, j)
  BY ConcatAdjacentSubSeq
<1>3. End(SubSeq(text, i, k), s, dialect) \in Mode
  BY <1>1, ReadIs
<1>. DEFINE a == SubSeq(text, i, k)
            b == SubSeq(text, k + 1, j)
<1>4. /\ End(a \o b, s, dialect) = End(b, End(a, s, dialect), dialect)
      /\ Markers(a \o b, s, dialect) = Markers(a, s, dialect) + Markers(b, End(a, s, dialect), dialect)
  <2>. HIDE DEF a, b
  <2>. QED  BY <1>1, ReadJoin DEF a, b
<1>. QED  BY <1>2, <1>3, <1>4

\* A part of one token.
LEMMA OneToken ==
  ASSUME NEW text \in Seq(Token), NEW i \in 1..Len(text)
  PROVE  SubSeq(text, i, i) = <<text[i]>> /\ text[i] \in Token
<1>. DEFINE one == <<text[i]>>
            part == SubSeq(text, i, i)
<1>1. text[i] \in Token /\ one \in Seq(Token) /\ Len(one) = 1 /\ one[1] = text[i]
  OBVIOUS
<1>2. part \in Seq(Token) /\ Len(part) = 1 /\ part[1] = text[i]
  OBVIOUS
<1>. HIDE DEF one, part
<1>3. part = one
  BY <1>1, <1>2, SeqEqual
<1>. QED  BY <1>1, <1>3 DEF one, part

\* One token is read, and the text behind it.
LEMMA ReadNext ==
  ASSUME NEW text \in Seq(Token), NEW dialect, WellQuoted(dialect), NEW s \in Mode,
         NEW i \in 1..Len(text), NEW j \in i..Len(text)
  PROVE  LET m == Moved(s, text[i], dialect)
         IN  /\ m \in Mode
             /\ End(SubSeq(text, i, j), s, dialect) = End(SubSeq(text, i + 1, j), m, dialect)
             /\ Markers(SubSeq(text, i, j), s, dialect)
                  = Marks(s, text[i]) + Markers(SubSeq(text, i + 1, j), m, dialect)
<1>1. SubSeq(text, i, i) = <<text[i]>> /\ text[i] \in Token
  BY OneToken
<1>2. i \in 1..Len(text) + 1 /\ i \in i - 1..Len(text) /\ j \in i..Len(text)
  OBVIOUS
<1>3. End(<<text[i]>>, s, dialect) = Moved(s, text[i], dialect) /\ Markers(<<text[i]>>, s, dialect) = Marks(s, text[i])
  BY <1>1, ReadIs
<1>4. LET m == End(SubSeq(text, i, i), s, dialect)
      IN  /\ m \in Mode
          /\ End(SubSeq(text, i, j), s, dialect) = End(SubSeq(text, i + 1, j), m, dialect)
          /\ Markers(SubSeq(text, i, j), s, dialect)
               = Markers(SubSeq(text, i, i), s, dialect) + Markers(SubSeq(text, i + 1, j), m, dialect)
  BY <1>2, ReadCut
<1>. QED  BY <1>1, <1>3, <1>4

\* A scan comes by where it starts, and by what it comes by from there on.
LEMMA VisitedNext ==
  ASSUME NEW next, Scan(next)
  PROVE  /\ Visited(Len(next) + 1, next) = {}
         /\ \A i \in 1..Len(next) : Visited(i, next) = {i} \cup Visited(next[i], next)
         /\ \A i \in 1..Len(next) + 1 : Visited(i, next) \subseteq i..Len(next)
<1>. DEFINE n == Len(next)
            P == {i \in 1..n + 1 : Visited(i, next) \subseteq i..n}
<1>1. PICK from \in [1..n + 1 -> SUBSET (1..n)] :
        /\ \A i : Visited(i, next) = from[i]
        /\ from[n + 1] = {}
        /\ \A i \in 1..n : from[i] = {i} \cup from[next[i]]
  BY VisitedFunction
<1>2. n \in Nat /\ next \in [1..n -> Nat] /\ \A i \in 1..n : i < next[i] /\ next[i] <= n + 1
  BY DEF Scan
<1>3. /\ Visited(n + 1, next) = {}
      /\ \A i \in 1..n : Visited(i, next) = {i} \cup Visited(next[i], next)
  BY <1>1
<1>4. n + 1 \in P
  BY <1>2, <1>3
<1>5. ASSUME NEW i \in 1..n, next[i] \in P PROVE i \in P
  <2>1. next[i] \in i + 1..n + 1 /\ i \in 1..n + 1
    BY <1>2
  <2>2. Visited(next[i], next) \subseteq next[i]..n
    BY <1>5
  <2>3. Visited(i, next) \subseteq i..n
    <3>1. {i} \subseteq i..n /\ next[i]..n \subseteq i..n
      BY <1>2, <2>1
    <3>. QED  BY <1>3, <2>2, <3>1
  <2>. HIDE DEF n
  <2>. QED  BY <2>1, <2>3
<1>6. 1..n + 1 \subseteq P
  <2>. HIDE DEF P, n
  <2>. QED  BY <1>2, <1>4, <1>5, ScanInduction
<1>. QED  BY <1>3, <1>6

\* Inside quotes no marker is read, and the closing quote ends them.
LEMMA QuotedRead ==
  ASSUME NEW text \in Seq(Token), NEW dialect, WellQuoted(dialect), NEW i \in 1..Len(text),
         NEW close \in {"'", "q", "]", "\n", "*/"}, NEW doubles, doubles => Opened(close, dialect) = close
  PROVE  LET r == Quoted(text, i, close, doubles)
         IN  /\ r \in i + 1..Len(text) + 1
             /\ Markers(SubSeq(text, i + 1, r - 1), close, dialect) = 0
             /\ End(SubSeq(text, i + 1, r - 1), close, dialect) = "code" \/ r = Len(text) + 1
<1>. DEFINE n == Len(text)
            Doubled(k) == doubles /\ k < n /\ text[k + 1] = close
            next == [k \in 1..n |-> IF text[k] = close /\ Doubled(k) THEN k + 2 ELSE k + 1]
            E(k) == {v \in Visited(k, next) : text[v] = close /\ ~Doubled(v)}
            upto(k) == IF E(k) = {} THEN n ELSE Least(E(k))
            Good(k) == /\ Markers(SubSeq(text, k, upto(k)), close, dialect) = 0
                       /\ E(k) = {} \/ End(SubSeq(text, k, upto(k)), close, dialect) = "code"
            P == {k \in 1..n + 1 : Good(k)}
<1>0. n \in Nat
  OBVIOUS
<1>1. Scan(next) /\ Len(next) = n
  <2>1. \A k \in 1..n : next[k] \in {k + 1, k + 2} /\ (next[k] = k + 2 => k < n)
    OBVIOUS
  <2>2. next \in [1..n -> Nat] /\ n \in Nat
    OBVIOUS
  <2>. HIDE DEF next
  <2>3. next \in Seq(Nat) /\ Len(next) = n
    BY <2>2
  <2>. QED  BY <2>1, <2>2, <2>3 DEF Scan
<1>2. /\ Visited(n + 1, next) = {}
      /\ \A k \in 1..n : Visited(k, next) = {k} \cup Visited(next[k], next)
      /\ \A k \in 1..n + 1 : Visited(k, next) \subseteq k..n
  <2>. HIDE DEF next, n
  <2>. QED  BY <1>1, VisitedNext
<1>3. ASSUME NEW k \in 1..n + 1 PROVE E(k) \subseteq k..n /\ upto(k) \in k - 1..n
                                      /\ (E(k) # {} => upto(k) \in E(k) /\ \A v \in E(k) : upto(k) <= v)
  <2>1. E(k) \subseteq k..n
    BY <1>2
  <2>. HIDE DEF E, n
  <2>2. E(k) \subseteq Nat
    BY <1>0, <2>1
  <2>3. E(k) # {} => Least(E(k)) \in E(k) /\ \A v \in E(k) : Least(E(k)) <= v
    BY <2>2, LeastIsLeast
  <2>. QED  BY <1>0, <2>1, <2>3
<1>4. close \in Mode /\ "code" \in Mode /\ close # "code" /\ close # "?"
  BY DEF Mode, Token, Mark, Blank
<1>5. n + 1 \in P
  <2>1. E(n + 1) = {} /\ upto(n + 1) = n
    BY <1>2
  <2>2. SubSeq(text, n + 1, n) = <<>>
    BY <1>0, SubSeqEmpty
  <2>3. Markers(<<>>, close, dialect) = 0
    BY <1>4, ReadIs
  <2>4. n + 1 \in 1..n + 1
    BY <1>0
  <2>. HIDE DEF E, n, upto
  <2>. QED  BY <2>1, <2>2, <2>3, <2>4
<1>6. ASSUME NEW k \in 1..n, next[k] \in P PROVE k \in P
  <2>0. k \in 1..n + 1 /\ next[k] \in 1..n + 1 /\ Good(next[k])
    <3>1. k \in 1..n + 1
      BY <1>0
    <3>. HIDE DEF Good, next, n
    <3>. QED  BY <1>6, <3>1
  <2>1. CASE text[k] = close /\ Doubled(k)
    <3>1. next[k] = k + 2 /\ k + 1 \in 1..n /\ text[k + 1] = close /\ doubles
      BY <1>0, <2>1
    <3>2. E(k) = E(k + 2)
      BY <1>2, <2>1, <3>1
    <3>3. k + 2 \in 1..n + 1 /\ upto(k) = upto(k + 2) /\ upto(k) \in k + 1..n
      <4>1. k + 2 \in 1..n + 1
        BY <2>0, <3>1
      <4>2. upto(k + 2) \in k + 2 - 1..n
        <5>. HIDE DEF E, upto, n
        <5>. QED  BY <1>3, <4>1
      <4>. HIDE DEF E, n
      <4>. QED  BY <3>2, <4>1, <4>2
    <3>. DEFINE u == upto(k)
    <3>4. Moved(close, close, dialect) = "code" /\ Moved("code", close, dialect) = close
          /\ Marks(close, close) = 0 /\ Marks("code", close) = 0
      BY <1>4, <3>1 DEF Moved, Marks
    <3>5. Good(k + 2)
      BY <2>0, <3>1
    <3>. HIDE DEF E, n, P, next, Doubled
    <3>6. /\ Markers(SubSeq(text, k + 2, u), close, dialect) = 0
          /\ E(k) = {} \/ End(SubSeq(text, k + 2, u), close, dialect) = "code"
      BY <3>2, <3>3, <3>5
    <3>7. u \in k + 1..n /\ u \in k..n
      BY <1>0, <3>3
    <3>. HIDE DEF u, upto
    <3>8. /\ End(SubSeq(text, k, u), close, dialect) = End(SubSeq(text, k + 1, u), "code", dialect)
          /\ Markers(SubSeq(text, k, u), close, dialect) = Marks(close, close) + Markers(SubSeq(text, k + 1, u), "code", dialect)
      BY <1>4, <2>1, <3>4, <3>7, ReadNext DEF n
    <3>9. /\ End(SubSeq(text, k + 1, u), "code", dialect) = End(SubSeq(text, k + 1 + 1, u), close, dialect)
          /\ Markers(SubSeq(text, k + 1, u), "code", dialect)
               = Marks("code", close) + Markers(SubSeq(text, k + 1 + 1, u), close, dialect)
      BY <1>4, <3>1, <3>4, <3>7, ReadNext DEF n
    <3>10. k + 1 + 1 = k + 2
      BY <1>0
    <3>11. Markers(SubSeq(text, k, u), close, dialect) = 0
      BY <3>4, <3>6, <3>8, <3>9, <3>10
    <3>12. E(k) = {} \/ End(SubSeq(text, k, u), close, dialect) = "code"
      BY <3>6, <3>8, <3>9, <3>10
    <3>13. Good(k)
      BY <3>11, <3>12 DEF u
    <3>. HIDE DEF Good
    <3>. QED  BY <2>0, <3>13 DEF P
  <2>2. CASE text[k] = close /\ ~Doubled(k)
    <3>1. k \in E(k)
      BY <1>2, <2>2
    <3>2. upto(k) = k
      <4>. HIDE DEF E, upto, n
      <4>1. upto(k) \in k..n /\ upto(k) <= k
        <5>1. E(k) \subseteq k..n /\ upto(k) \in E(k) /\ \A v \in E(k) : upto(k) <= v
          BY <1>3, <2>0, <3>1
        <5>. QED  BY <3>1, <5>1
      <4>. QED  BY <1>0, <4>1
    <3>3. Moved(close, close, dialect) = "code" /\ Marks(close, close) = 0
      BY <1>4 DEF Moved, Marks
    <3>. HIDE DEF E, n, P, next, Doubled, upto
    <3>4. k \in k..n
      BY <1>0
    <3>5. /\ End(SubSeq(text, k, k), close, dialect) = End(SubSeq(text, k + 1, k), "code", dialect)
          /\ Markers(SubSeq(text, k, k), close, dialect) = Marks(close, close) + Markers(SubSeq(text, k + 1, k), "code", dialect)
      BY <1>4, <2>2, <3>3, <3>4, ReadNext DEF n
    <3>6. SubSeq(text, k + 1, k) = <<>>
      BY <1>0, SubSeqEmpty
    <3>7. End(<<>>, "code", dialect) = "code" /\ Markers(<<>>, "code", dialect) = 0
      BY <1>4, ReadIs
    <3>8. Markers(SubSeq(text, k, k), close, dialect) = 0 /\ End(SubSeq(text, k, k), close, dialect) = "code"
      <4>. DEFINE none == SubSeq(text, k + 1, k)
      <4>1. End(none, "code", dialect) = "code" /\ Markers(none, "code", dialect) = 0
        BY <3>6, <3>7, Zenon
      <4>2. /\ End(SubSeq(text, k, k), close, dialect) = End(none, "code", dialect)
            /\ Markers(SubSeq(text, k, k), close, dialect) = 0 + Markers(none, "code", dialect)
        BY <3>3, <3>5, Zenon
      <4>. HIDE DEF none
      <4>. QED  BY <4>1, <4>2
    <3>9. Good(k)
      BY <3>2, <3>8
    <3>. HIDE DEF Good
    <3>. QED  BY <2>0, <3>9 DEF P
  <2>3. CASE text[k] # close
    <3>1. next[k] = k + 1 /\ Good(k + 1) /\ k + 1 \in 1..n + 1
      BY <2>0, <2>3
    <3>2. E(k) = E(k + 1)
      <4>1. Visited(k, next) = {k} \cup Visited(k + 1, next)
        <5>. HIDE DEF next, n
        <5>. QED  BY <1>2, <3>1
      <4>. HIDE DEF next, Doubled, n
      <4>. QED  BY <2>3, <4>1
    <3>3. upto(k) = upto(k + 1) /\ upto(k) \in k..n
      <4>1. upto(k + 1) \in k + 1 - 1..n
        <5>. HIDE DEF E, upto, n
        <5>. QED  BY <1>3, <3>1
      <4>. HIDE DEF E, n
      <4>. QED  BY <3>2, <4>1
    <3>4. Moved(close, text[k], dialect) = close /\ Marks(close, text[k]) = 0
      BY <1>4, <2>3 DEF Moved, Marks
    <3>. HIDE DEF E, n, P, next, Doubled
    <3>. DEFINE u == upto(k)
    <3>5. /\ Markers(SubSeq(text, k + 1, u), close, dialect) = 0
          /\ E(k) = {} \/ End(SubSeq(text, k + 1, u), close, dialect) = "code"
      BY <3>1, <3>2, <3>3
    <3>6. u \in k..n
      BY <3>3
    <3>. HIDE DEF u, upto
    <3>7. /\ End(SubSeq(text, k, u), close, dialect) = End(SubSeq(text, k + 1, u), close, dialect)
          /\ Markers(SubSeq(text, k, u), close, dialect) = Marks(close, text[k]) + Markers(SubSeq(text, k + 1, u), close, dialect)
      BY <1>4, <3>4, <3>6, ReadNext DEF n
    <3>8. Good(k)
      BY <3>4, <3>5, <3>7 DEF u
    <3>. HIDE DEF Good
    <3>. QED  BY <2>0, <3>8 DEF P
  <2>. QED  BY <2>1, <2>2, <2>3
<1>7. i + 1 \in P
  <2>1. next \in [1..n -> Nat] /\ \A k \in 1..n : k < next[k] /\ next[k] <= n + 1
    <3>. HIDE DEF next, n
    <3>. QED  BY <1>1 DEF Scan
  <2>2. i + 1 \in 1..n + 1
    BY <1>0
  <2>3. 1..n + 1 \subseteq P
    <3>. HIDE DEF P, next, n
    <3>. QED  BY <1>0, <1>5, <1>6, <2>1, ScanInduction
  <2>. HIDE DEF P, n
  <2>. QED  BY <2>2, <2>3
<1>8. Quoted(text, i, close, doubles) = upto(i + 1) + 1
  BY <1>0 DEF Quoted
<1>9. Good(i + 1) /\ i + 1 \in 1..n + 1
  BY <1>7
<1>10. upto(i + 1) \in i + 1 - 1..n
  <2>. HIDE DEF upto, E, n
  <2>. QED  BY <1>3, <1>9
<1>12. E(i + 1) = {} => upto(i + 1) = n
  OBVIOUS
<1>. DEFINE r == Quoted(text, i, close, doubles)
<1>14. r - 1 = upto(i + 1) /\ r \in i + 1..n + 1 /\ (E(i + 1) = {} => r = n + 1)
  <2>1. r = upto(i + 1) + 1
    BY <1>8
  <2>2. upto(i + 1) \in i..n
    <3>. HIDE DEF upto, E, n
    <3>. QED  BY <1>0, <1>10
  <2>. DEFINE u == upto(i + 1)
              none == E(i + 1) = {}
  <2>3. r = u + 1 /\ u \in i..n /\ (none => u = n)
    BY <1>12, <2>1, <2>2, Zenon
  <2>. HIDE DEF u, none, r, n
  <2>4. r - 1 = u /\ r \in i + 1..n + 1 /\ (none => r = n + 1)
    BY <1>0, <2>3
  <2>. QED  BY <2>4, Zenon DEF u, none
<1>15. /\ Markers(SubSeq(text, i + 1, upto(i + 1)), close, dialect) = 0
       /\ E(i + 1) = {} \/ End(SubSeq(text, i + 1, upto(i + 1)), close, dialect) = "code"
  <2>. HIDE DEF upto, E
  <2>. QED  BY <1>9
<1>. HIDE DEF upto, E, P, r, n
<1>16. /\ Markers(SubSeq(text, i + 1, r - 1), close, dialect) = 0
       /\ End(SubSeq(text, i + 1, r - 1), close, dialect) = "code" \/ r = n + 1
  BY <1>14, <1>15
<1>. QED  BY <1>14, <1>16 DEF r, n

\* A comment is read as a literal is whose end cannot be doubled.
LEMMA CommentedIsQuoted ==
  ASSUME NEW text \in Seq(Token), NEW i \in 1..Len(text), NEW end
  PROVE  Commented(text, i, end) = Quoted(text, i, end, FALSE)
<1>. DEFINE n == Len(text)
            next == [k \in 1..n |-> k + 1]
            P == {k \in 1..n + 1 : Visited(k, next) = k..n}
<1>1. n \in Nat /\ i \in 1..n
  OBVIOUS
<1>2. next \in [1..n -> Nat] /\ (\A k \in 1..n : k < next[k] /\ next[k] <= n + 1)
      /\ next \in Seq(Nat) /\ Len(next) = n
  <2>1. next \in [1..n -> Nat] /\ (\A k \in 1..n : k < next[k] /\ next[k] <= n + 1)
    BY <1>1
  <2>. HIDE DEF next, n
  <2>. QED  BY <1>1, <2>1
<1>3. Scan(next)
  <2>. HIDE DEF next, n
  <2>. QED  BY <1>2 DEF Scan
<1>4. Visited(n + 1, next) = {} /\ \A k \in 1..n : Visited(k, next) = {k} \cup Visited(k + 1, next)
  <2>1. \A k \in 1..n : next[k] = k + 1
    OBVIOUS
  <2>. HIDE DEF next, n
  <2>. QED  BY <1>2, <1>3, <2>1, VisitedNext
<1>5. n + 1 \in P
  <2>1. n + 1 \in 1..n + 1 /\ n + 1..n = {}
    BY <1>1
  <2>. HIDE DEF next, n
  <2>. QED  BY <1>4, <2>1
<1>6. ASSUME NEW k \in 1..n, next[k] \in P PROVE k \in P
  <2>1. k + 1 \in P /\ k \in 1..n + 1
    BY <1>1, <1>6
  <2>. HIDE DEF next, n
  <2>2. {k} \cup (k + 1..n) = k..n
    BY <1>1
  <2>. QED  BY <1>4, <2>1, <2>2
<1>7. Visited(i + 1, next) = i + 1..n
  <2>1. 1..n + 1 \subseteq P
    <3>. HIDE DEF P, next, n
    <3>. QED  BY <1>1, <1>2, <1>5, <1>6, ScanInduction
  <2>2. i + 1 \in 1..n + 1
    BY <1>1
  <2>. HIDE DEF next, n
  <2>. QED  BY <2>1, <2>2
<1>8. Quoted(text, i, end, FALSE) = LET ends == {k \in Visited(i + 1, next) : text[k] = end}
                                    IN  IF ends = {} THEN n + 1 ELSE Least(ends) + 1
  BY DEF Quoted
<1>9. After(text, i + 1, {end}) = {k \in i + 1..n : text[k] = end}
  BY DEF After
<1>. HIDE DEF next
<1>. QED  BY <1>7, <1>8, <1>9 DEF Commented

\* From one position of a scan of code to the next the scanner is back in code,
\* unless the text ends, and comes by a marker exactly where one stands there.
LEMMA BehindRead ==
  ASSUME NEW text \in Seq(Token), NEW dialect, WellQuoted(dialect), NEW i \in 1..Len(text)
  PROVE  LET b == Behind(text, i, dialect)
         IN  /\ b \in i + 1..Len(text) + 1
             /\ Markers(SubSeq(text, i, b - 1), "code", dialect)
                  = IF Region(text, i, dialect) = i /\ text[i] = "?" THEN 1 ELSE 0
             /\ End(SubSeq(text, i, b - 1), "code", dialect) = "code" \/ b = Len(text) + 1
<1>. DEFINE n == Len(text)
            t == text[i]
            c == Opened(t, dialect)
            r == Region(text, i, dialect)
            b == Behind(text, i, dialect)
<1>0. n \in Nat /\ i \in 1..n /\ t \in Token
  OBVIOUS
<1>1. "code" \in Mode
  BY DEF Mode
<1>2. Moved("code", t, dialect) = c /\ Marks("code", t) = IF t = "?" THEN 1 ELSE 0
  BY DEF Moved, Marks
<1>3. CASE c = "code"
  <2>1. r = i
    <3>1. t # "'" /\ t # "--" /\ t # "/*"
      BY <1>3, OpenedIs
    <3>2. t \notin DOMAIN dialect.quotes
      BY <1>3, OpenedIs DEF WellQuoted
    <3>. QED  BY <3>1, <3>2 DEF Region
  <2>2. b = i + 1 /\ b - 1 = i /\ b \in i + 1..n + 1
    <3>1. b = i + 1
      BY <1>0, <2>1 DEF Behind
    <3>. HIDE DEF b, n
    <3>. QED  BY <1>0, <3>1
  <2>3. SubSeq(text, i, b - 1) = <<t>>
    BY <2>2, OneToken
  <2>4. End(<<t>>, "code", dialect) = Moved("code", t, dialect) /\ Markers(<<t>>, "code", dialect) = Marks("code", t)
    BY <1>0, <1>1, ReadIs
  <2>. HIDE DEF b, r, t, n
  <2>. QED  BY <1>2, <1>3, <2>1, <2>2, <2>3, <2>4 DEF b, r, t, n
<1>4. CASE c # "code"
  <2>1. t # "?" /\ c \in {"'", "q", "]", "\n", "*/"}
    BY <1>4, OpenedIs DEF WellQuoted
  <2>2. \E doubles : r = Quoted(text, i, c, doubles) /\ (doubles => Opened(c, dialect) = c)
    <3>1. CASE t = "'"
      BY <3>1, OpenedIs DEF Region
    <3>2. CASE t \in DOMAIN dialect.quotes
      <4>1. c = dialect.quotes[t] /\ t \notin {"'", "--", "/*"}
        BY <3>2, OpenedIs DEF WellQuoted
      <4>2. r = Quoted(text, i, c, c = t)
        BY <3>2, <4>1 DEF Region
      <4>. QED  BY <4>2
    <3>3. CASE t = "--"
      <4>1. t \notin DOMAIN dialect.quotes
        BY <3>3 DEF WellQuoted
      <4>2. r = Commented(text, i, "\n")
        BY <3>3, <4>1 DEF Region
      <4>3. c = "\n"
        BY <3>3, OpenedIs
      <4>4. r = Quoted(text, i, c, FALSE)
        BY <4>2, <4>3, CommentedIsQuoted
      <4>. QED  BY <4>4
    <3>4. CASE t = "/*"
      <4>1. t \notin DOMAIN dialect.quotes
        BY <3>4 DEF WellQuoted
      <4>2. r = Commented(text, i, "*/")
        BY <3>4, <4>1 DEF Region
      <4>3. c = "*/"
        BY <3>4, OpenedIs
      <4>4. r = Quoted(text, i, c, FALSE)
        BY <4>2, <4>3, CommentedIsQuoted
      <4>. QED  BY <4>4
    <3>. QED  BY <1>4, <3>1, <3>2, <3>3, <3>4, OpenedIs
  <2>3. PICK doubles : r = Quoted(text, i, c, doubles) /\ (doubles => Opened(c, dialect) = c)
    BY <2>2
  <2>. HIDE DEF r, c, t
  <2>4. /\ r \in i + 1..n + 1
        /\ Markers(SubSeq(text, i + 1, r - 1), c, dialect) = 0
        /\ End(SubSeq(text, i + 1, r - 1), c, dialect) = "code" \/ r = n + 1
    BY <2>1, <2>3, QuotedRead
  <2>5. b = r /\ r # i /\ r - 1 \in i..n
    <3>1. r > i /\ r - 1 \in i..n
      BY <1>0, <2>4
    <3>. QED  BY <1>0, <3>1 DEF Behind, r
  <2>. HIDE DEF b, n
  <2>6. /\ End(SubSeq(text, i, r - 1), "code", dialect) = End(SubSeq(text, i + 1, r - 1), c, dialect)
        /\ Markers(SubSeq(text, i, r - 1), "code", dialect) = Marks("code", t) + Markers(SubSeq(text, i + 1, r - 1), c, dialect)
    <3>1. text[i] = t /\ i \in 1..Len(text) /\ r - 1 \in i..Len(text)
      BY <2>5 DEF t, n
    <3>. QED  BY <1>1, <1>2, <3>1, ReadNext DEF t
  <2>7. Marks("code", t) = 0
    BY <1>2, <2>1
  <2>8. Markers(SubSeq(text, i, b - 1), "code", dialect) = 0
    BY <2>4, <2>5, <2>6, <2>7
  <2>9. End(SubSeq(text, i, b - 1), "code", dialect) = "code" \/ b = n + 1
    BY <2>4, <2>5, <2>6
  <2>. QED  BY <2>4, <2>5, <2>8, <2>9 DEF b, r, n
<1>. QED  BY <1>3, <1>4

\* The scan of code.
LEMMA CodeScan ==
  ASSUME NEW text \in Seq(Token), NEW dialect
  PROVE  LET next == [k \in 1..Len(text) |-> Behind(text, k, dialect)]
         IN  Scan(next) /\ Len(next) = Len(text)
<1>. DEFINE n == Len(text)
            next == [k \in 1..n |-> Behind(text, k, dialect)]
<1>1. n \in Nat /\ \A k \in 1..n : next[k] \in k + 1..n + 1
  BY RegionEnds
<1>2. next \in [1..n -> Nat]
  <2>1. \A k \in 1..n : Behind(text, k, dialect) \in Nat
    BY <1>1
  <2>. HIDE DEF n
  <2>. QED  BY <2>1
<1>. HIDE DEF next, n
<1>3. next \in Seq(Nat) /\ Len(next) = n
  BY <1>1, <1>2
<1>. QED  BY <1>1, <1>3 DEF Scan, next, n

\* count_params counts the markers the scanner reads.
LEMMA CountIs ==
  ASSUME NEW text \in Seq(Token), NEW dialect, WellQuoted(dialect)
  PROVE  count_params(text, dialect) = Markers(text, "code", dialect)
<1>. DEFINE n == Len(text)
            next == [k \in 1..n |-> Behind(text, k, dialect)]
            Marker(k) == Region(text, k, dialect) = k /\ text[k] = "?"
            M(i) == {k \in Visited(i, next) : Marker(k)}
            P == {i \in 1..n + 1 : /\ IsFiniteSet(M(i))
                                   /\ Cardinality(M(i)) = Markers(SubSeq(text, i, n), "code", dialect)}
<1>0. n \in Nat /\ "code" \in Mode
  BY DEF Mode
<1>1. Scan(next) /\ Len(next) = n
  BY CodeScan
<1>2. next \in [1..n -> Nat] /\ \A i \in 1..n : i < next[i] /\ next[i] <= n + 1
  <2>. HIDE DEF next, n
  <2>. QED  BY <1>1 DEF Scan
<1>3. /\ Visited(n + 1, next) = {}
      /\ \A i \in 1..n : Visited(i, next) = {i} \cup Visited(next[i], next)
      /\ \A i \in 1..n + 1 : Visited(i, next) \subseteq i..n
  <2>. HIDE DEF next, n
  <2>. QED  BY <1>1, VisitedNext
<1>4. M(n + 1) = {} /\ SubSeq(text, n + 1, n) = <<>> /\ \A s \in Mode : Markers(<<>>, s, dialect) = 0
  <2>1. SubSeq(text, n + 1, n) = <<>>
    BY <1>0, SubSeqEmpty
  <2>2. M(n + 1) = {}
    BY <1>3
  <2>. QED  BY <2>1, <2>2, ReadIs
<1>5. n + 1 \in P
  <2>1. n + 1 \in 1..n + 1 /\ IsFiniteSet({}) /\ Cardinality({}) = 0
    BY <1>0, FS_EmptySet
  <2>. HIDE DEF M, n
  <2>. QED  BY <1>0, <1>4, <2>1
<1>6. ASSUME NEW i \in 1..n, next[i] \in P PROVE i \in P
  <2>. DEFINE b == next[i]
              m == End(SubSeq(text, i, b - 1), "code", dialect)
  <2>1. /\ b \in i + 1..n + 1
        /\ Markers(SubSeq(text, i, b - 1), "code", dialect) = IF Marker(i) THEN 1 ELSE 0
        /\ m = "code" \/ b = n + 1
    <3>1. b = Behind(text, i, dialect)
      OBVIOUS
    <3>. HIDE DEF b
    <3>. QED  BY <3>1, BehindRead
  <2>2. b - 1 \in i..n /\ (b - 1) + 1 = b /\ i \in 1..n + 1 /\ b - 1 \in i - 1..n /\ n \in b - 1..n
    <3>. HIDE DEF b, n
    <3>. QED  BY <1>0, <2>1
  <2>3. /\ m \in Mode
        /\ Markers(SubSeq(text, i, n), "code", dialect)
             = Markers(SubSeq(text, i, b - 1), "code", dialect) + Markers(SubSeq(text, b, n), m, dialect)
    <3>. HIDE DEF b
    <3>1. /\ m \in Mode
          /\ Markers(SubSeq(text, i, n), "code", dialect)
               = Markers(SubSeq(text, i, b - 1), "code", dialect) + Markers(SubSeq(text, (b - 1) + 1, n), m, dialect)
      BY <1>0, <2>2, ReadCut
    <3>. QED  BY <2>2, <3>1
  <2>4. Markers(SubSeq(text, b, n), m, dialect) = Markers(SubSeq(text, b, n), "code", dialect)
    <3>1. CASE m = "code"
      BY <3>1
    <3>2. CASE b = n + 1
      <4>1. SubSeq(text, b, n) = <<>>
        BY <1>4, <3>2
      <4>. HIDE DEF b, m, n
      <4>. QED  BY <1>0, <1>4, <2>3, <4>1
    <3>. QED  BY <2>1, <3>1, <3>2
  <2>5. M(b) \subseteq b..n /\ i \notin M(b) /\ M(i) = M(b) \cup IF Marker(i) THEN {i} ELSE {}
    <3>1. M(b) \subseteq b..n
      <4>1. b \in 1..n + 1
        <5>. HIDE DEF b, n
        <5>. QED  BY <1>0, <2>1
      <4>. HIDE DEF next, b, n
      <4>. QED  BY <1>3, <4>1
    <3>2. i \notin b..n
      <4>. HIDE DEF b, n
      <4>. QED  BY <1>0, <2>1
    <3>3. Visited(i, next) = {i} \cup Visited(b, next)
      <4>. HIDE DEF next, n
      <4>. QED  BY <1>3
    <3>. HIDE DEF b, next, n, Marker
    <3>. QED  BY <3>1, <3>2, <3>3
  <2>6. IsFiniteSet(M(b)) /\ Cardinality(M(b)) = Markers(SubSeq(text, b, n), "code", dialect)
    <3>. HIDE DEF M, n
    <3>. QED  BY <1>6
  <2>7. /\ IsFiniteSet(M(i))
        /\ Cardinality(M(i)) = Cardinality(M(b)) + IF Marker(i) THEN 1 ELSE 0
    <3>1. Cardinality(M(b)) \in Nat
      <4>. HIDE DEF M
      <4>. QED  BY <2>6, FS_CardinalityType
    <3>2. CASE Marker(i)
      <4>1. M(i) = M(b) \cup {i} /\ i \notin M(b)
        BY <2>5, <3>2
      <4>. HIDE DEF M, Marker, b
      <4>2. IsFiniteSet(M(b) \cup {i}) /\ Cardinality(M(b) \cup {i}) = Cardinality(M(b)) + 1
        BY <2>6, <4>1, FS_AddElement
      <4>. QED  BY <3>2, <4>1, <4>2
    <3>3. CASE ~Marker(i)
      <4>1. M(i) = M(b)
        BY <2>5, <3>3
      <4>. HIDE DEF M, Marker, b
      <4>. QED  BY <2>6, <3>1, <3>3, <4>1
    <3>. QED  BY <3>2, <3>3
  <2>8. Markers(SubSeq(text, b, n), "code", dialect) \in Nat
    <3>. HIDE DEF M
    <3>. QED  BY <2>6, FS_CardinalityType
  <2>9. Cardinality(M(i)) = Markers(SubSeq(text, i, n), "code", dialect)
    <3>. HIDE DEF M, b, m, n, Marker
    <3>. QED  BY <2>1, <2>3, <2>4, <2>6, <2>7, <2>8
  <2>. HIDE DEF M, b, m, n, Marker
  <2>. QED  BY <2>2, <2>7, <2>9
<1>7. 1 \in P
  <2>1. 1..n + 1 \subseteq P
    <3>. HIDE DEF P, next, n
    <3>. QED  BY <1>0, <1>2, <1>5, <1>6, ScanInduction
  <2>2. 1 \in 1..n + 1
    BY <1>0
  <2>. HIDE DEF P, n
  <2>. QED  BY <2>1, <2>2
<1>8. SubSeq(text, 1, n) = text
  BY SubSeqFull
<1>9. M(1) = {i \in Code(text, dialect) : text[i] = "?"}
  BY DEF Code
<1>10. Cardinality(M(1)) = Markers(SubSeq(text, 1, n), "code", dialect)
  <2>. HIDE DEF M, n
  <2>. QED  BY <1>7
<1>. QED  BY <1>8, <1>9, <1>10, Zenon DEF count_params

\* Where the scan of code comes by, the scanner is in code.
LEMMA CodeIsRead ==
  ASSUME NEW text \in Seq(Token), NEW dialect, WellQuoted(dialect), NEW v \in Code(text, dialect)
  PROVE  v \in 1..Len(text) /\ End(SubSeq(text, 1, v - 1), "code", dialect) = "code"
<1>. DEFINE n == Len(text)
            next == [k \in 1..n |-> Behind(text, k, dialect)]
            P == {i \in 1..n + 1 : \A w \in Visited(i, next) : End(SubSeq(text, i, w - 1), "code", dialect) = "code"}
<1>0. n \in Nat /\ "code" \in Mode /\ End(<<>>, "code", dialect) = "code"
  BY ReadIs DEF Mode
<1>1. Scan(next) /\ Len(next) = n
  BY CodeScan
<1>2. next \in [1..n -> Nat] /\ \A i \in 1..n : i < next[i] /\ next[i] <= n + 1
  <2>. HIDE DEF next, n
  <2>. QED  BY <1>1 DEF Scan
<1>3. /\ Visited(n + 1, next) = {}
      /\ \A i \in 1..n : Visited(i, next) = {i} \cup Visited(next[i], next)
      /\ \A i \in 1..n + 1 : Visited(i, next) \subseteq i..n
  <2>. HIDE DEF next, n
  <2>. QED  BY <1>1, VisitedNext
<1>5. n + 1 \in P
  <2>1. n + 1 \in 1..n + 1
    BY <1>0
  <2>. HIDE DEF next, n
  <2>. QED  BY <1>3, <2>1
<1>6. ASSUME NEW i \in 1..n, next[i] \in P PROVE i \in P
  <2>. DEFINE b == next[i]
              m == End(SubSeq(text, i, b - 1), "code", dialect)
  <2>1. b \in i + 1..n + 1 /\ (m = "code" \/ b = n + 1)
    <3>1. b = Behind(text, i, dialect)
      OBVIOUS
    <3>. HIDE DEF b
    <3>. QED  BY <3>1, BehindRead
  <2>2. b - 1 \in i..n /\ (b - 1) + 1 = b /\ i \in 1..n + 1 /\ b - 1 \in i - 1..n /\ b \in 1..n + 1
    <3>. HIDE DEF b, n
    <3>. QED  BY <1>0, <2>1
  <2>3. ASSUME NEW w \in Visited(i, next) PROVE End(SubSeq(text, i, w - 1), "code", dialect) = "code"
    <3>1. CASE w = i
      <4>1. SubSeq(text, i, i - 1) = <<>>
        <5>1. i \in Int /\ i - 1 \in Int /\ i - 1 < i
          BY <1>0
        <5>. QED  BY <5>1, SubSeqEmpty
      <4>. QED  BY <1>0, <3>1, <4>1
    <3>2. CASE w # i
      <4>1. w \in Visited(b, next)
        <5>1. Visited(i, next) = {i} \cup Visited(b, next)
          <6>. HIDE DEF next, n
          <6>. QED  BY <1>3
        <5>. HIDE DEF next, b
        <5>. QED  BY <3>2, <5>1
      <4>2. w \in b..n
        <5>. HIDE DEF next, n, b
        <5>. QED  BY <1>3, <2>2, <4>1
      <4>3. b # n + 1 /\ w - 1 \in b - 1..n
        <5>. HIDE DEF b, n
        <5>. QED  BY <1>0, <2>1, <4>2
      <4>4. m = "code"
        <5>. HIDE DEF b, m, n
        <5>. QED  BY <2>1, <4>3
      <4>5. End(SubSeq(text, b, w - 1), "code", dialect) = "code"
        <5>1. b \in P
          BY <1>6
        <5>. HIDE DEF b, next, n
        <5>. QED  BY <4>1, <5>1
      <4>6. End(SubSeq(text, i, w - 1), "code", dialect) = End(SubSeq(text, (b - 1) + 1, w - 1), m, dialect)
        <5>. HIDE DEF b, next
        <5>. QED  BY <1>0, <2>2, <4>3, ReadCut
      <4>. HIDE DEF b, m, n
      <4>. QED  BY <2>2, <4>4, <4>5, <4>6
    <3>. QED  BY <3>1, <3>2
  <2>. HIDE DEF next, n
  <2>. QED  BY <2>2, <2>3
<1>7. 1 \in P /\ 1 \in 1..n + 1
  <2>1. 1..n + 1 \subseteq P
    <3>. HIDE DEF P, next, n
    <3>. QED  BY <1>0, <1>2, <1>5, <1>6, ScanInduction
  <2>2. 1 \in 1..n + 1
    BY <1>0
  <2>. HIDE DEF P, n
  <2>. QED  BY <2>1, <2>2
<1>8. v \in Visited(1, next)
  BY DEF Code
<1>. HIDE DEF next, n
<1>. QED  BY <1>3, <1>7, <1>8 DEF n

\* The tokens that begin no line comment.
Lineless == Token \ {"--"}

\* Such a text is one in which no token is "--".
LEMMA LinelessIs ==
  ASSUME NEW text
  PROVE  text \in Seq(Lineless) <=> text \in Seq(Token) /\ \A i \in 1..Len(text) : text[i] # "--"
<1>1. ASSUME text \in Seq(Lineless)
      PROVE  text \in Seq(Token) /\ \A i \in 1..Len(text) : text[i] # "--"
  <2>1. Len(text) \in Nat /\ text \in [1..Len(text) -> Lineless]
    BY <1>1
  <2>2. text \in [1..Len(text) -> Token] /\ \A i \in 1..Len(text) : text[i] # "--"
    BY <2>1 DEF Lineless
  <2>. QED  BY <1>1, <2>1, <2>2
<1>2. ASSUME text \in Seq(Token), \A i \in 1..Len(text) : text[i] # "--"
      PROVE  text \in Seq(Lineless)
  <2>1. Len(text) \in Nat /\ text \in [1..Len(text) -> Token]
    BY <1>2
  <2>2. text \in [1..Len(text) -> Lineless]
    BY <1>2, <2>1 DEF Lineless
  <2>. QED  BY <1>2, <2>1, <2>2
<1>. QED  BY <1>1, <1>2

\* Two texts leave the scanner alike, with as many markers.
Same(a, b, dialect) == /\ End(a, "code", dialect) = End(b, "code", dialect)
                       /\ Markers(a, "code", dialect) = Markers(b, "code", dialect)

\* Blanks are read as nothing, but in a line comment.
LEMMA BlanksRead ==
  ASSUME NEW text \in Seq(Token), NEW dialect, WellQuoted(dialect), NEW s \in Mode \ Blank,
         NEW i \in 1..Len(text) + 1, NEW k \in i - 1..Len(text), \A v \in i..k : text[v] \in Blank
  PROVE  End(SubSeq(text, i, k), s, dialect) = s /\ Markers(SubSeq(text, i, k), s, dialect) = 0
<1>. DEFINE next == [v \in 1..k |-> v + 1]
            P == {v \in 1..k + 1 : v >= i => /\ End(SubSeq(text, v, k), s, dialect) = s
                                             /\ Markers(SubSeq(text, v, k), s, dialect) = 0}
<1>1. k \in Nat /\ i \in 1..k + 1 /\ Len(text) \in Nat /\ k <= Len(text)
  OBVIOUS
<1>2. k + 1 \in P
  <2>1. SubSeq(text, k + 1, k) = <<>>
    BY <1>1, SubSeqEmpty
  <2>2. End(<<>>, s, dialect) = s /\ Markers(<<>>, s, dialect) = 0
    BY ReadIs
  <2>3. /\ End(SubSeq(text, k + 1, k), s, dialect) = s
        /\ Markers(SubSeq(text, k + 1, k), s, dialect) = 0
    BY <2>1, <2>2, Zenon
  <2>. QED  BY <1>1, <2>3
<1>3. ASSUME NEW v \in 1..k, next[v] \in P PROVE v \in P
  <2>1. v \in 1..k + 1 /\ next[v] = v + 1
    BY <1>1
  <2>2. CASE ~ (v >= i)
    BY <2>1, <2>2
  <2>3. CASE v >= i
    <3>1. /\ End(SubSeq(text, v + 1, k), s, dialect) = s
          /\ Markers(SubSeq(text, v + 1, k), s, dialect) = 0
      BY <1>1, <1>3, <2>1, <2>3
    <3>2. text[v] \in Blank /\ v \in 1..Len(text) /\ k \in v..Len(text)
      BY <1>1, <2>3
    <3>3. text[v] # "?" /\ text[v] \notin {"'", "--", "/*", "q", "["}
      BY <3>2 DEF Blank
    <3>4. Moved(s, text[v], dialect) = s /\ Marks(s, text[v]) = 0
      BY <3>2, <3>3, OpenedIs DEF Moved, Marks
    <3>5. /\ End(SubSeq(text, v, k), s, dialect) = End(SubSeq(text, v + 1, k), s, dialect)
          /\ Markers(SubSeq(text, v, k), s, dialect) = Marks(s, text[v]) + Markers(SubSeq(text, v + 1, k), s, dialect)
      BY <3>2, <3>4, ReadNext
    <3>. QED  BY <2>1, <3>1, <3>4, <3>5
  <2>. QED  BY <2>2, <2>3
<1>4. 1..k + 1 \subseteq P
  <2>1. next \in [1..k -> Nat] /\ \A v \in 1..k : v < next[v] /\ next[v] <= k + 1
    BY <1>1
  <2>. HIDE DEF P, next
  <2>. QED  BY <1>1, <1>2, <1>3, <2>1, ScanInduction
<1>5. i \in P /\ i >= i
  <2>. HIDE DEF P
  <2>. QED  BY <1>1, <1>4
<1>. QED  BY <1>5

\* Where no line comment begins no line end is waited for.
LEMMA LinelessRead ==
  ASSUME NEW text \in Seq(Lineless), NEW dialect, WellQuoted(dialect), NEW s \in Mode \ Blank
  PROVE  End(text, s, dialect) \in Mode \ Blank
<1>. DEFINE n == Len(text)
            next == [v \in 1..n |-> v + 1]
            P == {v \in 1..n + 1 : \A t \in Mode \ Blank : End(SubSeq(text, v, n), t, dialect) \in Mode \ Blank}
<1>1. n \in Nat /\ text \in Seq(Token) /\ \A v \in 1..n : text[v] # "--"
  BY LinelessIs
<1>2. n + 1 \in P
  <2>1. SubSeq(text, n + 1, n) = <<>>
    BY <1>1, SubSeqEmpty
  <2>2. \A t \in Mode : End(<<>>, t, dialect) = t
    BY ReadIs
  <2>3. n + 1 \in 1..n + 1
    BY <1>1
  <2>. HIDE DEF n
  <2>. QED  BY <2>1, <2>2, <2>3
<1>3. ASSUME NEW v \in 1..n, next[v] \in P PROVE v \in P
  <2>1. v \in 1..n + 1 /\ v + 1 \in P /\ n \in v..n
    BY <1>1, <1>3
  <2>2. ASSUME NEW t \in Mode \ Blank PROVE End(SubSeq(text, v, n), t, dialect) \in Mode \ Blank
    <3>. DEFINE m == Moved(t, text[v], dialect)
    <3>1. m \in Mode /\ End(SubSeq(text, v, n), t, dialect) = End(SubSeq(text, v + 1, n), m, dialect)
      BY <1>1, <2>1, ReadNext
    <3>2. m \notin Blank
      <4>1. Opened(text[v], dialect) \in {"'", "q", "]", "\n", "*/", "code"} /\ Opened(text[v], dialect) # "\n"
        BY <1>1, OpenedIs
      <4>2. m = Opened(text[v], dialect) \/ m = "code" \/ m = t
        BY DEF Moved
      <4>. HIDE DEF m
      <4>. QED  BY <4>1, <4>2 DEF Blank
    <3>. HIDE DEF m, n
    <3>. QED  BY <2>1, <3>1, <3>2
  <2>. HIDE DEF n
  <2>. QED  BY <2>1, <2>2
<1>4. 1..n + 1 \subseteq P
  <2>1. next \in [1..n -> Nat] /\ \A v \in 1..n : v < next[v] /\ next[v] <= n + 1
    BY <1>1
  <2>. HIDE DEF P, next, n
  <2>. QED  BY <1>1, <1>2, <1>3, <2>1, ScanInduction
<1>5. 1 \in P /\ SubSeq(text, 1, n) = text
  <2>1. 1 \in 1..n + 1 /\ SubSeq(text, 1, n) = text
    BY <1>1, SubSeqFull
  <2>. HIDE DEF P
  <2>. QED  BY <1>4, <2>1
<1>. QED  BY <1>5

\* Blanks are skipped up to a token that is none.
LEMMA BlanksSkippedTo ==
  ASSUME NEW text \in Seq(Token), NEW i \in 1..Len(text) + 1
  PROVE  LET r == SkipBlanks(text, i)
         IN  /\ r \in i..Len(text) + 1
             /\ \A v \in i..r - 1 : text[v] \in Blank
             /\ r <= Len(text) => text[r] \notin Blank
             /\ \A v \in i..Len(text) : text[v] \notin Blank => r <= v
<1>. DEFINE n == Len(text)
            words == {j \in i..n : text[j] \notin Blank}
            r == SkipBlanks(text, i)
<1>1. r = IF words = {} THEN n + 1 ELSE Least(words)
  BY DEF SkipBlanks
<1>2. words \subseteq i..n /\ words \subseteq Nat /\ n \in Nat
  OBVIOUS
<1>3. words # {} => Least(words) \in words /\ \A v \in words : Least(words) <= v
  <2>. HIDE DEF words
  <2>. QED  BY <1>2, LeastIsLeast
<1>. HIDE DEF r
<1>4. CASE words = {}
  <2>1. r = n + 1 /\ \A v \in i..n : text[v] \in Blank
    BY <1>1, <1>4
  <2>. QED  BY <1>2, <2>1 DEF r
<1>5. CASE words # {}
  <2>1. r \in words /\ \A v \in words : r <= v
    BY <1>1, <1>3, <1>5
  <2>2. r \in i..n /\ text[r] \notin Blank
    BY <2>1
  <2>3. \A v \in i..r - 1 : v \in i..n /\ ~ (r <= v)
    BY <1>2, <2>2
  <2>4. \A v \in i..r - 1 : text[v] \in Blank
    BY <2>1, <2>3
  <2>5. \A v \in i..n : text[v] \notin Blank => r <= v
    BY <2>1
  <2>6. r \in i..n + 1
    BY <1>2, <2>2
  <2>. QED  BY <2>2, <2>4, <2>5, <2>6 DEF r
<1>. QED  BY <1>4, <1>5

\* Trimming leaves the markers and where the scanner ends, for a text without
\* line comments.
LEMMA TrimEndRead ==
  ASSUME NEW text \in Seq(Lineless), NEW dialect, WellQuoted(dialect)
  PROVE  TrimEnd(text) \in Seq(Lineless) /\ Same(TrimEnd(text), text, dialect)
<1>. DEFINE n == Len(text)
            kept == {i \in 1..n : text[i] \notin Blank}
            last == CHOOSE i \in kept : \A j \in kept : j <= i
            m == IF kept = {} THEN 0 ELSE last
<1>1. n \in Nat /\ text \in Seq(Token) /\ kept \subseteq 1..n
  BY LinelessIs
<1>2. m \in 0..n /\ \A v \in m + 1..n : text[v] \in Blank
  <2>1. CASE kept = {}
    <3>1. m = 0 /\ \A v \in 1..n : text[v] \in Blank
      BY <2>1
    <3>. HIDE DEF m, n
    <3>. QED  BY <1>1, <3>1
  <2>2. CASE kept # {}
    <3>1. last \in kept /\ \A j \in kept : j <= last
      <4>. HIDE DEF kept
      <4>. QED  BY <1>1, <2>2, GreatestIsGreatest
    <3>2. m = last
      BY <2>2
    <3>. HIDE DEF m, last
    <3>3. \A v \in m + 1..n : v \in 1..n /\ ~ (v <= m)
      BY <1>1, <3>1, <3>2
    <3>. QED  BY <3>1, <3>2, <3>3
  <2>. QED  BY <2>1, <2>2
<1>3. TrimEnd(text) = SubSeq(text, 1, m)
  <2>1. TrimEnd(text) = IF kept = {} THEN <<>> ELSE SubSeq(text, 1, last)
    BY DEF TrimEnd
  <2>2. SubSeq(text, 1, 0) = <<>>
    BY SubSeqEmpty
  <2>. HIDE DEF kept, last
  <2>. QED  BY <2>1, <2>2
<1>. HIDE DEF m
<1>4. SubSeq(text, 1, m) \in Seq(Lineless)
  BY <1>1, <1>2
<1>. DEFINE e == End(SubSeq(text, 1, m), "code", dialect)
<1>5. "code" \in Mode \ Blank
  BY DEF Mode, Blank
<1>6. e \in Mode \ Blank
  BY <1>4, <1>5, LinelessRead
<1>7. SubSeq(text, 1, n) = text /\ m \in 1 - 1..n /\ n \in m..n /\ 1 \in 1..n + 1 /\ m + 1 \in 1..n + 1 /\ n \in m + 1 - 1..n
  BY <1>1, <1>2, SubSeqFull
<1>8. /\ End(SubSeq(text, 1, n), "code", dialect) = End(SubSeq(text, m + 1, n), e, dialect)
      /\ Markers(SubSeq(text, 1, n), "code", dialect)
           = Markers(SubSeq(text, 1, m), "code", dialect) + Markers(SubSeq(text, m + 1, n), e, dialect)
  BY <1>1, <1>5, <1>7, ReadCut
<1>. HIDE DEF e
<1>9. End(SubSeq(text, m + 1, n), e, dialect) = e /\ Markers(SubSeq(text, m + 1, n), e, dialect) = 0
  <2>. DEFINE a == m + 1
  <2>1. a \in 1..n + 1 /\ n \in a - 1..n /\ \A v \in a..n : text[v] \in Blank
    BY <1>2, <1>7
  <2>. HIDE DEF a
  <2>2. End(SubSeq(text, a, n), e, dialect) = e /\ Markers(SubSeq(text, a, n), e, dialect) = 0
    BY <1>1, <1>6, <2>1, BlanksRead
  <2>. QED  BY <2>2 DEF a
<1>10. Markers(SubSeq(text, 1, m), "code", dialect) \in Nat
  <2>1. SubSeq(text, 1, m) \in Seq(Token)
    BY <1>1, <1>2, PartOfText
  <2>. QED  BY <1>5, <2>1, ReadIs
<1>11. Same(SubSeq(text, 1, m), text, dialect)
  <2>. DEFINE front == SubSeq(text, 1, m)
              back == SubSeq(text, m + 1, n)
  <2>1. /\ End(text, "code", dialect) = End(back, e, dialect)
        /\ Markers(text, "code", dialect) = Markers(front, "code", dialect) + Markers(back, e, dialect)
    BY <1>7, <1>8, Zenon
  <2>2. End(back, e, dialect) = e /\ Markers(back, e, dialect) = 0 /\ Markers(front, "code", dialect) \in Nat
    BY <1>9, <1>10
  <2>3. e = End(front, "code", dialect)
    BY DEF e
  <2>. HIDE DEF front, back
  <2>4. Same(front, text, dialect)
    BY <2>1, <2>2, <2>3 DEF Same
  <2>. QED  BY <2>4 DEF front
<1>. QED  BY <1>3, <1>4, <1>11

\* A text in which no line comment begins is read the same when it is trimmed.
LEMMA TrimRead ==
  ASSUME NEW text \in Seq(Lineless), NEW dialect, WellQuoted(dialect)
  PROVE  Trim(text) \in Seq(Lineless) /\ Same(Trim(text), text, dialect)
<1>. DEFINE n == Len(text)
            r == SkipBlanks(text, 1)
            rest == SubSeq(text, r, n)
<1>1. n \in Nat /\ text \in Seq(Token) /\ "code" \in Mode \ Blank
  BY LinelessIs DEF Mode, Blank
<1>2. r \in 1..n + 1 /\ \A v \in 1..r - 1 : text[v] \in Blank
  <2>1. 1 \in 1..n + 1
    BY <1>1
  <2>. QED  BY <1>1, <2>1, BlanksSkippedTo
<1>. HIDE DEF r
<1>3. rest \in Seq(Lineless)
  BY <1>1, <1>2
<1>4. r - 1 \in 1 - 1..n /\ n \in r - 1..n /\ 1 \in 1..n + 1 /\ (r - 1) + 1 = r /\ SubSeq(text, 1, n) = text
  BY <1>1, <1>2, SubSeqFull
<1>. DEFINE e == End(SubSeq(text, 1, r - 1), "code", dialect)
<1>5. e = "code" /\ Markers(SubSeq(text, 1, r - 1), "code", dialect) = 0
  BY <1>1, <1>2, <1>4, BlanksRead
<1>6. /\ End(SubSeq(text, 1, n), "code", dialect) = End(SubSeq(text, (r - 1) + 1, n), e, dialect)
      /\ Markers(SubSeq(text, 1, n), "code", dialect)
           = Markers(SubSeq(text, 1, r - 1), "code", dialect) + Markers(SubSeq(text, (r - 1) + 1, n), e, dialect)
  BY <1>1, <1>4, ReadCut
<1>. HIDE DEF e, n
<1>7. Markers(rest, "code", dialect) \in Nat
  <2>1. rest \in Seq(Token)
    BY <1>3, LinelessIs
  <2>. QED  BY <1>1, <2>1, ReadIs
<1>8. Same(rest, text, dialect)
  <2>. DEFINE front == SubSeq(text, 1, r - 1)
  <2>1. /\ End(text, "code", dialect) = End(rest, e, dialect)
        /\ Markers(text, "code", dialect) = Markers(front, "code", dialect) + Markers(rest, e, dialect)
    BY <1>4, <1>6, Zenon
  <2>2. e = "code" /\ Markers(front, "code", dialect) = 0
    BY <1>5
  <2>. HIDE DEF front, rest
  <2>. QED  BY <1>7, <2>1, <2>2 DEF Same
<1>. HIDE DEF rest
<1>9. TrimEnd(rest) \in Seq(Lineless) /\ Same(TrimEnd(rest), rest, dialect)
  BY <1>3, TrimEndRead
<1>10. Trim(text) = TrimEnd(rest)
  BY DEF Trim, rest, r, n
<1>. QED  BY <1>8, <1>9, <1>10 DEF Same

\* The tokens that leave the scanner in code and are no markers.
Silent == Token \ {"'", "q", "[", "--", "/*", "?"}

\* Texts of silent tokens are read in code, and have no marker.
LEMMA SilentRead ==
  ASSUME NEW text \in Seq(Silent), NEW dialect, WellQuoted(dialect)
  PROVE  /\ text \in Seq(Lineless) /\ text \in Seq(Token)
         /\ End(text, "code", dialect) = "code" /\ Markers(text, "code", dialect) = 0
<1>. DEFINE n == Len(text)
            next == [v \in 1..n |-> v + 1]
            P == {v \in 1..n + 1 : /\ End(SubSeq(text, v, n), "code", dialect) = "code"
                                   /\ Markers(SubSeq(text, v, n), "code", dialect) = 0}
<1>1. n \in Nat /\ \A v \in 1..n : text[v] \in Silent
  OBVIOUS
<1>2. text \in Seq(Token)
  <2>1. text \in [1..n -> Token]
    BY <1>1 DEF Silent
  <2>. QED  BY <1>1, <2>1
<1>3. text \in Seq(Lineless)
  BY <1>1, <1>2, LinelessIs DEF Silent
<1>4. n + 1 \in P
  <2>1. SubSeq(text, n + 1, n) = <<>>
    BY <1>1, SubSeqEmpty
  <2>2. End(<<>>, "code", dialect) = "code" /\ Markers(<<>>, "code", dialect) = 0
    BY ReadIs DEF Mode
  <2>3. /\ End(SubSeq(text, n + 1, n), "code", dialect) = "code"
        /\ Markers(SubSeq(text, n + 1, n), "code", dialect) = 0
    BY <2>1, <2>2, Zenon
  <2>. QED  BY <1>1, <2>3
<1>5. ASSUME NEW v \in 1..n, next[v] \in P PROVE v \in P
  <2>1. v \in 1..n + 1 /\ next[v] = v + 1 /\ n \in v..n
    BY <1>1
  <2>2. /\ End(SubSeq(text, v + 1, n), "code", dialect) = "code"
        /\ Markers(SubSeq(text, v + 1, n), "code", dialect) = 0
    BY <1>5, <2>1
  <2>3. text[v] # "?" /\ text[v] \notin {"'", "--", "/*", "q", "["}
    BY <1>1 DEF Silent
  <2>4. "code" \in Mode /\ Moved("code", text[v], dialect) = "code" /\ Marks("code", text[v]) = 0
    BY <2>3, OpenedIs DEF Moved, Marks, Mode
  <2>5. /\ End(SubSeq(text, v, n), "code", dialect) = End(SubSeq(text, v + 1, n), "code", dialect)
        /\ Markers(SubSeq(text, v, n), "code", dialect)
             = Marks("code", text[v]) + Markers(SubSeq(text, v + 1, n), "code", dialect)
    BY <1>2, <2>1, <2>4, ReadNext
  <2>. QED  BY <2>1, <2>2, <2>4, <2>5
<1>6. 1..n + 1 \subseteq P
  <2>1. next \in [1..n -> Nat] /\ \A v \in 1..n : v < next[v] /\ next[v] <= n + 1
    BY <1>1
  <2>. HIDE DEF P, next, n
  <2>. QED  BY <1>1, <1>4, <1>5, <2>1, ScanInduction
<1>7. 1 \in P /\ SubSeq(text, 1, n) = text
  <2>1. 1 \in 1..n + 1 /\ SubSeq(text, 1, n) = text
    BY <1>1, <1>2, SubSeqFull
  <2>. HIDE DEF P
  <2>. QED  BY <1>6, <2>1
<1>. QED  BY <1>2, <1>3, <1>7

\* A text of tokens of a kind is one of that kind.
LEMMA TextOf ==
  ASSUME NEW S, NEW text \in Seq(Token), \A v \in 1..Len(text) : text[v] \in S
  PROVE  text \in Seq(S)
<1>1. Len(text) \in Nat /\ text \in [1..Len(text) -> S]
  OBVIOUS
<1>. QED  BY <1>1

\* A part of a text that has silent tokens only is such a text.
LEMMA SilentPart ==
  ASSUME NEW text \in Seq(Token), NEW i \in 1..Len(text) + 1, NEW k \in i - 1..Len(text),
         \A v \in i..k : text[v] \in Silent
  PROVE  SubSeq(text, i, k) \in Seq(Silent)
<1>. DEFINE part == SubSeq(text, i, k)
<1>1. /\ Len(part) \in Nat /\ part \in Seq(Token)
      /\ \A v \in 1..Len(part) : v + i - 1 \in i..k /\ part[v] = text[v + i - 1]
  OBVIOUS
<1>. HIDE DEF part
<1>2. \A v \in 1..Len(part) : part[v] \in Silent
  BY <1>1
<1>3. part \in Seq(Silent)
  BY <1>1, <1>2, TextOf
<1>. QED  BY <1>3 DEF part

\* What begins no comment stands for a text of such tokens.
LEMMA LinelessPart ==
  ASSUME NEW text \in Seq(Token), NEW i \in 1..Len(text) + 1, NEW k \in i - 1..Len(text),
         \A v \in i..k : text[v] # "--"
  PROVE  SubSeq(text, i, k) \in Seq(Lineless)
<1>. DEFINE part == SubSeq(text, i, k)
<1>1. /\ Len(part) \in Nat /\ part \in Seq(Token)
      /\ \A v \in 1..Len(part) : v + i - 1 \in i..k /\ part[v] = text[v + i - 1]
  OBVIOUS
<1>. HIDE DEF part
<1>2. part \in Seq(Lineless)
  BY <1>1, LinelessIs
<1>. QED  BY <1>2 DEF part

\* Texts that are read alike in code, one behind the other.
LEMMA SameJoin ==
  ASSUME NEW dialect, WellQuoted(dialect), NEW a \in Seq(Token), NEW b \in Seq(Token),
         NEW c \in Seq(Token), NEW d \in Seq(Token),
         Same(a, c, dialect), Same(b, d, dialect), End(c, "code", dialect) = "code"
  PROVE  Same(a \o b, c \o d, dialect) /\ End(c \o d, "code", dialect) = End(d, "code", dialect)
<1>1. "code" \in Mode
  BY DEF Mode
<1>2. /\ End(c \o d, "code", dialect) = End(d, "code", dialect)
      /\ Markers(c \o d, "code", dialect) = Markers(c, "code", dialect) + Markers(d, "code", dialect)
  <2>1. /\ End(c \o d, "code", dialect) = End(d, End(c, "code", dialect), dialect)
        /\ Markers(c \o d, "code", dialect) = Markers(c, "code", dialect) + Markers(d, End(c, "code", dialect), dialect)
    BY <1>1, ReadJoin
  <2>. QED  BY <2>1, Zenon
<1>3. /\ End(a \o b, "code", dialect) = End(b, "code", dialect)
      /\ Markers(a \o b, "code", dialect) = Markers(a, "code", dialect) + Markers(b, "code", dialect)
  <2>1. /\ End(a \o b, "code", dialect) = End(b, End(a, "code", dialect), dialect)
        /\ Markers(a \o b, "code", dialect) = Markers(a, "code", dialect) + Markers(b, End(a, "code", dialect), dialect)
    BY <1>1, ReadJoin
  <2>2. End(a, "code", dialect) = "code"
    BY DEF Same
  <2>. QED  BY <2>1, <2>2, Zenon
<1>. QED  BY <1>2, <1>3, Zenon DEF Same

\* A silent text before another is not noticed.
LEMMA SilentBefore ==
  ASSUME NEW dialect, WellQuoted(dialect), NEW a \in Seq(Silent), NEW b \in Seq(Token)
  PROVE  Same(a \o b, b, dialect)
<1>1. a \in Seq(Token) /\ End(a, "code", dialect) = "code" /\ Markers(a, "code", dialect) = 0 /\ "code" \in Mode
  BY SilentRead DEF Mode
<1>2. /\ End(a \o b, "code", dialect) = End(b, End(a, "code", dialect), dialect)
      /\ Markers(a \o b, "code", dialect) = Markers(a, "code", dialect) + Markers(b, End(a, "code", dialect), dialect)
  BY <1>1, ReadJoin
<1>3. /\ End(a \o b, "code", dialect) = End(b, "code", dialect)
      /\ Markers(a \o b, "code", dialect) = 0 + Markers(b, "code", dialect)
  BY <1>1, <1>2, Zenon
<1>4. Markers(b, "code", dialect) \in Nat
  BY <1>1, ReadIs
<1>. QED  BY <1>3, <1>4 DEF Same

\* Up to a match the scanner comes back to code.
LEMMA MatchedRead ==
  ASSUME NEW text \in Seq(Token), NEW dialect, WellQuoted(dialect), NEW begin \in 1..Len(text),
         NEW limit \in 1..Len(text) + 1, NEW opening, NEW closing,
         Matching(text, begin, limit, opening, closing, dialect) # 0
  PROVE  LET m == Matching(text, begin, limit, opening, closing, dialect)
         IN  /\ m \in begin..limit - 1
             /\ text[m] = closing
             /\ End(SubSeq(text, begin, m - 1), "code", dialect) = "code"
<1>. DEFINE rest == SubSeq(text, begin, Len(text))
            code == {begin + i - 1 : i \in Code(rest, dialect)} \cap begin..limit - 1
            closed == {k \in code : /\ text[k] = closing
                                    /\ Cardinality({j \in code : j <= k /\ text[j] = opening})
                                         = Cardinality({j \in code : j <= k /\ text[j] = closing})}
            m == Matching(text, begin, limit, opening, closing, dialect)
<1>1. m = IF closed = {} THEN 0 ELSE Least(closed)
  BY DEF Matching, Balanced
<1>2. closed \subseteq code /\ closed \subseteq Nat /\ \A k \in closed : text[k] = closing
  OBVIOUS
<1>. HIDE DEF closed
<1>3. closed # {} => Least(closed) \in closed
  BY <1>2, LeastIsLeast
<1>. HIDE DEF m
<1>4. m \in closed
  BY <1>1, <1>3 DEF m
<1>5. text[m] = closing /\ m \in begin..limit - 1 /\ \E i \in Code(rest, dialect) : m = begin + i - 1
  <2>. HIDE DEF rest
  <2>. QED  BY <1>2, <1>4
<1>6. PICK v \in Code(rest, dialect) : m = begin + v - 1
  BY <1>5
<1>7. rest \in Seq(Token) /\ Len(rest) = Len(text) + 1 - begin
  OBVIOUS
<1>8. v \in 1..Len(rest) /\ End(SubSeq(rest, 1, v - 1), "code", dialect) = "code"
  <2>. HIDE DEF rest
  <2>. QED  BY <1>7, CodeIsRead
<1>9. SubSeq(rest, 1, v - 1) = SubSeq(text, begin, m - 1)
  <2>. DEFINE a == SubSeq(rest, 1, v - 1)
              b == SubSeq(text, begin, m - 1)
  <2>1. a \in Seq(Token) /\ Len(a) = v - 1 /\ \A k \in 1..Len(a) : a[k] = rest[k]
    <3>. HIDE DEF rest
    <3>. QED  BY <1>7, <1>8
  <2>2. b \in Seq(Token) /\ Len(b) = v - 1 /\ \A k \in 1..Len(b) : b[k] = text[begin + k - 1]
    <3>1. v \in 1..Len(text) + 1 - begin
      <4>. HIDE DEF rest
      <4>. QED  BY <1>7, <1>8
    <3>. HIDE DEF rest
    <3>. QED  BY <1>6, <3>1
  <2>3. \A k \in 1..v - 1 : rest[k] = text[begin + k - 1]
    <3>1. v \in 1..Len(text) + 1 - begin
      <4>. HIDE DEF rest
      <4>. QED  BY <1>7, <1>8
    <3>. QED  BY <3>1
  <2>. HIDE DEF a, b, rest
  <2>4. \A k \in 1..Len(a) : a[k] = b[k]
    BY <2>1, <2>2, <2>3
  <2>. QED  BY <2>1, <2>2, <2>4, SeqEqual DEF a, b
<1>. QED  BY <1>5, <1>8, <1>9, Zenon DEF m

\* A translator that keeps the markers of what it translates.
Keeps(inner, dialect) ==
  \A part \in Seq(Lineless) :
    Ok(inner[part]) => inner[part].text \in Seq(Lineless) /\ Same(inner[part].text, part, dialect)

\* An escape from one brace to the other, with no line comment in it.
Escaping(text, begin, close, dialect) ==
  /\ begin \in 1..Len(text) /\ close \in begin + 1..Len(text)
  /\ text[begin] = "{" /\ text[close] = "}"
  /\ \A k \in begin..close : text[k] # "--"
  /\ End(SubSeq(text, begin, close - 1), "code", dialect) = "code"

\* What stands for an escape.
StandsFor(t, text, begin, close, dialect) ==
  t \in Seq(Lineless) /\ Same(t, SubSeq(text, begin, close), dialect)

\* The tokens of words, blanks and escapes open nothing and are told apart.
LEMMA TokensOf ==
  /\ Word \cup Blank \cup {"{", "}", "(", ")"} \subseteq Silent
  /\ "{" \notin Word \cup Blank /\ "}" \notin Word \cup Blank /\ "(" \notin Blank
  /\ Silent \subseteq Token /\ Lineless \subseteq Token
  /\ "end" \notin Word
<1>1. Word \cup Blank \cup {"{", "}", "(", ")"} \subseteq Token
  BY DEF Token, Mark
<1>2. \A w \in Word \cup Blank : w \notin {"'", "q", "[", "--", "/*", "?", "{", "}", "("}
  BY DEF Word, Keyword, Name, Blank
<1>. QED  BY <1>1, <1>2 DEF Silent, Lineless, Word, Keyword, Name

\* Joining texts, the order of joining does not matter.
LEMMA TextsAssociate ==
  ASSUME NEW a \in Seq(Token), NEW b \in Seq(Token), NEW c \in Seq(Token)
  PROVE  (a \o b) \o c = a \o (b \o c)
BY ConcatAssociative

\* Behind silent tokens the rest of an escape has all of its markers.
LEMMA BodyRead ==
  ASSUME NEW text \in Seq(Token), NEW dialect, WellQuoted(dialect), NEW begin, NEW close,
         Escaping(text, begin, close, dialect),
         NEW k \in begin..close - 1, \A v \in begin..k : text[v] \in Silent
  PROVE  LET body == SubSeq(text, k + 1, close - 1)
         IN  /\ body \in Seq(Lineless) /\ body \in Seq(Token)
             /\ End(body, "code", dialect) = "code"
             /\ Same(body, SubSeq(text, begin, close), dialect)
             /\ End(SubSeq(text, begin, close), "code", dialect) = "code"
<1>. DEFINE n == Len(text)
            front == SubSeq(text, begin, k)
            body == SubSeq(text, k + 1, close - 1)
            most == SubSeq(text, begin, close - 1)
            all == SubSeq(text, begin, close)
            last == <<text[close]>>
<1>0. begin \in 1..n /\ close \in begin + 1..n /\ n \in Nat
  <2>1. begin \in 1..n /\ close \in begin + 1..n
    BY DEF Escaping
  <2>2. n \in Nat
    OBVIOUS
  <2>. QED  BY <2>1, <2>2
<1>1. front \in Seq(Silent)
  <2>1. begin \in 1..n + 1 /\ k \in begin - 1..n
    BY <1>0
  <2>. QED  BY <2>1, SilentPart
<1>2. body \in Seq(Lineless) /\ body \in Seq(Token)
  <2>. DEFINE a == k + 1
              b == close - 1
  <2>1. a \in 1..n + 1 /\ b \in a - 1..n /\ \A v \in a..b : v \in begin..close
    BY <1>0
  <2>2. \A v \in a..b : text[v] # "--"
    BY <2>1 DEF Escaping
  <2>. HIDE DEF a, b
  <2>3. SubSeq(text, a, b) \in Seq(Lineless)
    BY <2>1, <2>2, LinelessPart
  <2>4. SubSeq(text, a, b) \in Seq(Token)
    BY <2>3, LinelessIs
  <2>. QED  BY <2>3, <2>4 DEF a, b
<1>3. last \in Seq(Silent)
  <2>1. text[close] \in Silent
    BY TokensOf DEF Escaping
  <2>. QED  BY <2>1
<1>4. front \o body = most
  <2>. DEFINE b == close - 1
  <2>1. begin \in 1..n + 1 /\ k \in begin - 1..n /\ b \in k..n
    BY <1>0
  <2>. HIDE DEF b
  <2>2. SubSeq(text, begin, k) \o SubSeq(text, k + 1, b) = SubSeq(text, begin, b)
    BY <2>1, ConcatAdjacentSubSeq
  <2>. QED  BY <2>2 DEF b
<1>5. most \o last = all /\ most \in Seq(Token)
  <2>. DEFINE b == close - 1
  <2>1. begin \in 1..n + 1 /\ b \in begin - 1..n /\ close \in b..n /\ b + 1 = close
    BY <1>0
  <2>2. SubSeq(text, close, close) = last
    BY <1>0, OneToken
  <2>3. most \in Seq(Token)
    BY <1>0, PartOfText
  <2>. HIDE DEF b
  <2>4. SubSeq(text, begin, b) \o SubSeq(text, b + 1, close) = SubSeq(text, begin, close)
    BY <2>1, ConcatAdjacentSubSeq
  <2>. QED  BY <2>1, <2>2, <2>3, <2>4 DEF b
<1>. HIDE DEF front, body, last
<1>6. Same(most, body, dialect)
  BY <1>1, <1>2, <1>4, SilentBefore
<1>7. End(most, "code", dialect) = "code"
  BY DEF Escaping
<1>. HIDE DEF most, all
<1>8. End(body, "code", dialect) = "code"
  BY <1>6, <1>7 DEF Same
<1>9. Same(body, all, dialect) /\ End(all, "code", dialect) = "code"
  <2>1. End(last, "code", dialect) = "code" /\ Markers(last, "code", dialect) = 0 /\ last \in Seq(Token)
    BY <1>3, SilentRead
  <2>2. "code" \in Mode
    BY DEF Mode
  <2>3. /\ End(most \o last, "code", dialect) = End(last, End(most, "code", dialect), dialect)
        /\ Markers(most \o last, "code", dialect)
             = Markers(most, "code", dialect) + Markers(last, End(most, "code", dialect), dialect)
    BY <1>5, <2>1, <2>2, ReadJoin
  <2>4. /\ End(all, "code", dialect) = End(last, "code", dialect)
        /\ Markers(all, "code", dialect) = Markers(most, "code", dialect) + Markers(last, "code", dialect)
    BY <1>5, <1>7, <2>3, Zenon
  <2>5. Markers(most, "code", dialect) \in Nat
    BY <1>5, <2>2, ReadIs
  <2>. QED  BY <1>6, <1>8, <2>1, <2>4, <2>5 DEF Same
<1>. QED  BY <1>2, <1>8, <1>9 DEF body, all

\* A silent text and what the inside of an escape is read as stand for it.
LEMMA PutBefore ==
  ASSUME NEW text \in Seq(Token), NEW dialect, WellQuoted(dialect), NEW begin, NEW close,
         Escaping(text, begin, close, dialect),
         NEW k \in begin..close - 1, \A v \in begin..k : text[v] \in Silent,
         NEW before \in Seq(Silent), NEW inside \in Seq(Lineless),
         Same(inside, SubSeq(text, k + 1, close - 1), dialect)
  PROVE  StandsFor(before \o inside, text, begin, close, dialect)
<1>1. Same(SubSeq(text, k + 1, close - 1), SubSeq(text, begin, close), dialect)
  BY BodyRead
<1>2. inside \in Seq(Token) /\ before \in Seq(Lineless)
  BY LinelessIs, SilentRead
<1>3. Same(before \o inside, inside, dialect)
  BY <1>2, SilentBefore
<1>4. before \o inside \in Seq(Lineless)
  BY <1>2
<1>. QED  BY <1>1, <1>3, <1>4, Zenon DEF Same, StandsFor

\* What is translated of an escape's inside stands for it.
LEMMA CallPutRead ==
  ASSUME NEW text \in Seq(Token), NEW dialect, WellQuoted(dialect), NEW begin, NEW close,
         Escaping(text, begin, close, dialect),
         NEW p \in begin..close - 1, \A v \in begin..p : text[v] \in Silent,
         NEW last \in p + 1..close - 1, text[last] = ")",
         End(SubSeq(text, p, last - 1), "code", dialect) = "code",
         NEW before \in Seq(Silent), NEW inside \in Seq(Lineless), NEW behind \in Seq(Lineless),
         Same(inside, SubSeq(text, p + 1, last - 1), dialect),
         Same(behind, SubSeq(text, last + 1, close - 1), dialect)
  PROVE  StandsFor(before \o inside \o <<")">> \o behind, text, begin, close, dialect)
<1>. DEFINE n == Len(text)
            args == SubSeq(text, p + 1, last - 1)
            tail == SubSeq(text, last + 1, close - 1)
            body == SubSeq(text, p + 1, close - 1)
            end == <<")">>
<1>0. begin \in 1..n /\ close \in begin + 1..n /\ n \in Nat
  <2>1. begin \in 1..n /\ close \in begin + 1..n
    BY DEF Escaping
  <2>2. n \in Nat
    OBVIOUS
  <2>. QED  BY <2>1, <2>2
<1>1. args \in Seq(Token) /\ tail \in Seq(Token) /\ p \in 1..n /\ last \in 1..n
  BY <1>0, PartOfText
<1>2. end \in Seq(Silent) /\ <<text[last]>> = end
  <2>1. ")" \in Silent
    BY TokensOf
  <2>2. end \in Seq(Silent)
    BY <2>1
  <2>. QED  BY <2>2
<1>3. args \o (end \o tail) = body
  <2>. DEFINE a == p + 1
              b == last - 1
              c == close - 1
  <2>1. a \in 1..n + 1 /\ b \in a - 1..n /\ c \in b..n /\ b + 1 = last
        /\ last \in 1..n + 1 /\ last \in last - 1..n /\ c \in last..n
    BY <1>0
  <2>2. SubSeq(text, last, last) = end
    BY <1>1, <1>2, OneToken
  <2>. HIDE DEF a, b, c, end
  <2>3. SubSeq(text, a, b) \o SubSeq(text, b + 1, c) = SubSeq(text, a, c)
    BY <2>1, ConcatAdjacentSubSeq
  <2>4. SubSeq(text, last, last) \o SubSeq(text, last + 1, c) = SubSeq(text, last, c)
    BY <2>1, ConcatAdjacentSubSeq
  <2>. QED  BY <2>1, <2>2, <2>3, <2>4, Zenon DEF a, b, c
<1>4. End(args, "code", dialect) = "code"
  <2>. DEFINE b == last - 1
              m == Moved("code", text[p], dialect)
  <2>1. b \in p..n
    BY <1>0
  <2>2. "code" \in Mode
    BY DEF Mode
  <2>3. m = "code"
    <3>1. text[p] \in Silent
      OBVIOUS
    <3>2. text[p] \notin {"'", "--", "/*", "q", "["}
      BY <3>1 DEF Silent
    <3>. QED  BY <3>2, OpenedIs DEF Moved
  <2>. HIDE DEF b, m
  <2>4. End(SubSeq(text, p, b), "code", dialect) = End(SubSeq(text, p + 1, b), m, dialect)
    BY <1>1, <2>1, <2>2, ReadNext DEF m
  <2>5. End(SubSeq(text, p, b), "code", dialect) = "code"
    BY DEF b
  <2>. QED  BY <2>3, <2>4, <2>5, Zenon DEF b
<1>5. inside \in Seq(Token) /\ behind \in Seq(Token) /\ end \in Seq(Token) /\ end \in Seq(Lineless)
  BY <1>2, LinelessIs, SilentRead
<1>. HIDE DEF args, tail, body, end, n
<1>6. Same(end \o behind, behind, dialect) /\ Same(end \o tail, tail, dialect)
  BY <1>1, <1>2, <1>5, SilentBefore
<1>7. Same(end \o behind, end \o tail, dialect)
  <2>1. Same(behind, tail, dialect)
    BY DEF tail
  <2>. QED  BY <1>6, <2>1, Zenon DEF Same
<1>8. end \o behind \in Seq(Token) /\ end \o tail \in Seq(Token)
  BY <1>1, <1>5
<1>9. Same(inside \o (end \o behind), body, dialect)
  <2>1. Same(inside, args, dialect)
    BY DEF args
  <2>2. Same(inside \o (end \o behind), args \o (end \o tail), dialect)
    BY <1>1, <1>4, <1>5, <1>7, <1>8, <2>1, SameJoin
  <2>. QED  BY <1>3, <2>2
<1>10. inside \o (end \o behind) \in Seq(Lineless)
  BY <1>5
<1>11. StandsFor(before \o (inside \o (end \o behind)), text, begin, close, dialect)
  BY <1>9, <1>10, PutBefore DEF body
<1>12. before \o inside \o end \o behind = before \o (inside \o (end \o behind))
  <2>1. before \in Seq(Token)
    BY SilentRead
  <2>2. before \o inside \o end = before \o (inside \o end)
    BY <1>5, <2>1, TextsAssociate
  <2>3. (before \o (inside \o end)) \o behind = before \o ((inside \o end) \o behind)
    <3>1. inside \o end \in Seq(Token)
      BY <1>5
    <3>. QED  BY <1>5, <2>1, <3>1, TextsAssociate
  <2>4. (inside \o end) \o behind = inside \o (end \o behind)
    BY <1>5, TextsAssociate
  <2>. QED  BY <2>2, <2>3, <2>4, Zenon
<1>. QED  BY <1>11, <1>12, Zenon DEF end

\* Results joined are a translation only where both are.
LEMMA BothOk ==
  ASSUME NEW a, NEW b, Ok(Both(a, b))
  PROVE  Ok(a) /\ Ok(b) /\ Both(a, b).text = a.text \o b.text
BY DEF Both, Ok, Translated

\* Two elements of a set are a sequence over it.
LEMMA PairOf ==
  ASSUME NEW S, NEW a \in S, NEW b \in S
  PROVE  <<a, b>> \in Seq(S)
OBVIOUS

\* Put either way, a call keeps the markers of what it is given.
LEMMA CallKeeps ==
  ASSUME NEW text \in Seq(Token), NEW dialect, WellQuoted(dialect), NEW begin, NEW close,
         Escaping(text, begin, close, dialect),
         NEW name \in begin + 1..close - 1, \A v \in begin..name : text[v] \in Silent,
         NEW inner \in Translator, Keeps(inner, dialect),
         Ok(translate_call(text, name, close, dialect, inner))
  PROVE  StandsFor(translate_call(text, name, close, dialect, inner).text, text, begin, close, dialect)
<1>. DEFINE n == Len(text)
            p == SkipBlanks(text, name + 1)
            last == IF p < close /\ text[p] = "(" THEN find_matching_paren(text, p, close, dialect) ELSE 0
            result == translate_call(text, name, close, dialect, inner)
<1>0. begin \in 1..n /\ close \in begin + 1..n /\ n \in Nat /\ name \in 1..n /\ name \in begin..close - 1
  <2>1. begin \in 1..n /\ close \in begin + 1..n
    BY DEF Escaping
  <2>2. n \in Nat
    OBVIOUS
  <2>. QED  BY <2>1, <2>2
<1>1. p \in name + 1..n + 1 /\ \A v \in name + 1..p - 1 : text[v] \in Blank
  <2>. DEFINE a == name + 1
  <2>1. a \in 1..n + 1
    BY <1>0
  <2>. HIDE DEF a
  <2>2. LET r == SkipBlanks(text, a) IN r \in a..n + 1 /\ \A v \in a..r - 1 : text[v] \in Blank
    BY <2>1, BlanksSkippedTo
  <2>. QED  BY <2>2 DEF a
<1>. HIDE DEF p, result
<1>2. CASE last = 0
  <2>. DEFINE rest == inner[SubSeq(text, name + 1, close - 1)]
  <2>1. result = Both(Translated(<<text[name]>>), rest)
    BY <1>2, Zenon DEF translate_call, result, p
  <2>2. Ok(rest) /\ result.text = <<text[name]>> \o rest.text
    <3>1. Ok(result)
      BY DEF result
    <3>. HIDE DEF rest
    <3>2. Translated(<<text[name]>>).text = <<text[name]>>
      BY DEF Translated
    <3>. QED  BY <2>1, <3>1, <3>2, BothOk
  <2>3. /\ SubSeq(text, name + 1, close - 1) \in Seq(Lineless)
    BY <1>0, BodyRead
  <2>4. rest.text \in Seq(Lineless) /\ Same(rest.text, SubSeq(text, name + 1, close - 1), dialect)
    <3>. DEFINE part == SubSeq(text, name + 1, close - 1)
    <3>. HIDE DEF part
    <3>. QED  BY <2>2, <2>3 DEF Keeps, part
  <2>5. <<text[name]>> \in Seq(Silent)
    <3>1. text[name] \in Silent
      BY <1>0
    <3>. QED  BY <3>1
  <2>. DEFINE before == <<text[name]>>
              inside == rest.text
  <2>. HIDE DEF before, inside, rest
  <2>6. StandsFor(before \o inside, text, begin, close, dialect)
    BY <1>0, <2>4, <2>5, PutBefore DEF before, inside
  <2>. QED  BY <2>2, <2>6 DEF before, inside, result
<1>3. CASE last # 0
  <2>. DEFINE args == inner[SubSeq(text, p + 1, last - 1)]
              tail == inner[SubSeq(text, last + 1, close - 1)]
              function == SubSeq(text, name, p)
              Put(before, inside, behind) == Translated(before \o inside \o <<")">> \o behind)
  <2>1. /\ p < close /\ text[p] = "("
        /\ last = Matching(text, p, close, "(", ")", dialect)
    BY <1>3, Zenon DEF find_matching_paren
  <2>2. result = PutCall(function, text[name], args, tail, dialect)
    BY <1>3, Zenon DEF translate_call, result, p
  <2>. HIDE DEF last
  <2>3. p \in 1..n /\ p \in begin..close - 1 /\ close \in 1..n + 1
    BY <1>0, <1>1, <2>1
  <2>4. \A v \in begin..p : text[v] \in Silent
    <3>1. ASSUME NEW v \in begin..p PROVE text[v] \in Silent
      <4>1. v \in begin..name \/ v \in name + 1..p - 1 \/ v = p
        BY <1>0, <1>1, <2>3
      <4>2. text[p] \in Silent /\ Blank \subseteq Silent
        BY <2>1, TokensOf
      <4>. QED  BY <1>1, <4>1, <4>2
    <3>. QED  BY <3>1
  <2>5. /\ last \in p..close - 1
        /\ text[last] = ")"
        /\ End(SubSeq(text, p, last - 1), "code", dialect) = "code"
    BY <1>3, <2>1, <2>3, MatchedRead
  <2>6. last \in p + 1..close - 1
    BY <2>1, <2>3, <2>5
  <2>7. SubSeq(text, p + 1, last - 1) \in Seq(Lineless) /\ SubSeq(text, last + 1, close - 1) \in Seq(Lineless)
    <3>. DEFINE a == p + 1
                b == last - 1
                c == last + 1
                d == close - 1
    <3>1. a \in 1..n + 1 /\ b \in a - 1..n /\ c \in 1..n + 1 /\ d \in c - 1..n
          /\ (\A v \in a..b : v \in begin..close) /\ (\A v \in c..d : v \in begin..close)
      BY <1>0, <2>3, <2>6
    <3>2. (\A v \in a..b : text[v] # "--") /\ (\A v \in c..d : text[v] # "--")
      BY <3>1 DEF Escaping
    <3>. HIDE DEF a, b, c, d
    <3>3. SubSeq(text, a, b) \in Seq(Lineless) /\ SubSeq(text, c, d) \in Seq(Lineless)
      BY <3>1, <3>2, LinelessPart
    <3>. QED  BY <3>3 DEF a, b, c, d
  <2>8. function \in Seq(Silent)
    <3>1. name \in 1..n + 1 /\ p \in name - 1..n /\ \A v \in name..p : text[v] \in Silent
      BY <1>0, <1>1, <2>3, <2>4
    <3>. QED  BY <3>1, SilentPart
  <2>9. Ok(args) /\ Ok(tail)
        /\ (result = Put(<<"g", "(">>, Trim(args.text), TrimEnd(tail.text)) \/ result = Put(function, args.text, tail.text))
    <3>1. Ok(result)
      BY DEF result
    <3>. HIDE DEF args, tail, function
    <3>. QED  BY <2>2, <3>1, Zenon DEF PutCall
  <2>10. /\ args.text \in Seq(Lineless) /\ Same(args.text, SubSeq(text, p + 1, last - 1), dialect)
         /\ tail.text \in Seq(Lineless) /\ Same(tail.text, SubSeq(text, last + 1, close - 1), dialect)
    <3>. DEFINE inside == SubSeq(text, p + 1, last - 1)
                behind == SubSeq(text, last + 1, close - 1)
    <3>1. Ok(inner[inside]) /\ Ok(inner[behind]) /\ inside \in Seq(Lineless) /\ behind \in Seq(Lineless)
      BY <2>7, <2>9
    <3>. HIDE DEF inside, behind
    <3>2. /\ inner[inside].text \in Seq(Lineless) /\ Same(inner[inside].text, inside, dialect)
          /\ inner[behind].text \in Seq(Lineless) /\ Same(inner[behind].text, behind, dialect)
      BY <3>1 DEF Keeps
    <3>. QED  BY <3>2 DEF inside, behind
  <2>. HIDE DEF args, tail, function
  <2>. DEFINE trimmed == Trim(args.text)
              closing == TrimEnd(tail.text)
  <2>11. /\ trimmed \in Seq(Lineless) /\ Same(trimmed, SubSeq(text, p + 1, last - 1), dialect)
         /\ closing \in Seq(Lineless) /\ Same(closing, SubSeq(text, last + 1, close - 1), dialect)
    <3>1. trimmed \in Seq(Lineless) /\ Same(trimmed, args.text, dialect)
      BY <2>10, TrimRead
    <3>2. closing \in Seq(Lineless) /\ Same(closing, tail.text, dialect)
      BY <2>10, TrimEndRead
    <3>. HIDE DEF trimmed, closing
    <3>. QED  BY <2>10, <3>1, <3>2 DEF Same
  <2>12. <<"g", "(">> \in Seq(Silent)
    <3>1. "g" \in Silent /\ "(" \in Silent
      BY TokensOf DEF Word, Name
    <3>. QED  BY <3>1, PairOf
  <2>. HIDE DEF trimmed, closing
  <2>13. ASSUME NEW before \in Seq(Silent), NEW inside \in Seq(Lineless), NEW behind \in Seq(Lineless),
                Same(inside, SubSeq(text, p + 1, last - 1), dialect),
                Same(behind, SubSeq(text, last + 1, close - 1), dialect)
         PROVE  StandsFor(Put(before, inside, behind).text, text, begin, close, dialect)
    <3>1. StandsFor(before \o inside \o <<")">> \o behind, text, begin, close, dialect)
      BY <2>3, <2>4, <2>5, <2>6, <2>13, CallPutRead
    <3>. QED  BY <3>1, Zenon DEF Translated
  <2>14. StandsFor(Put(<<"g", "(">>, trimmed, closing).text, text, begin, close, dialect)
    <3>. HIDE DEF Put
    <3>. QED  BY <2>11, <2>12, <2>13
  <2>15. StandsFor(Put(function, args.text, tail.text).text, text, begin, close, dialect)
    <3>. HIDE DEF Put
    <3>. QED  BY <2>8, <2>10, <2>13
  <2>. HIDE DEF Put
  <2>. QED  BY <2>9, <2>14, <2>15, Zenon DEF trimmed, closing, result
<1>. QED  BY <1>2, <1>3

\* So does every escape that is translated.
LEMMA EscapeKeeps ==
  ASSUME NEW text \in Seq(Token), NEW dialect, WellQuoted(dialect), NEW begin, NEW close,
         Escaping(text, begin, close, dialect), NEW inner \in Translator, Keeps(inner, dialect),
         Ok(translate_escape(text, begin, close, dialect, inner))
  PROVE  StandsFor(translate_escape(text, begin, close, dialect, inner).text, text, begin, close, dialect)
<1>. DEFINE n == Len(text)
            kw == SkipBlanks(text, begin + 1)
            keyword == IF At(text, kw) \in Word THEN text[kw] ELSE "none"
            name == SkipBlanks(text, kw + 1)
            body == SubSeq(text, kw + 1, close - 1)
            Verbatim == Translated(SubSeq(text, begin, close))
            call == IF At(text, name) \in Word
                    THEN translate_call(text, name, close, dialect, inner) ELSE Verbatim
            date == Translated(<<keyword>> \o Trim(body))
            join == [inner[body] EXCEPT !.text = Trim(@)]
            like == Translated(<<"escape", " ">> \o Trim(body))
            result == translate_escape(text, begin, close, dialect, inner)
<1>0. begin \in 1..n /\ close \in begin + 1..n /\ n \in Nat
  <2>1. begin \in 1..n /\ close \in begin + 1..n
    BY DEF Escaping
  <2>2. n \in Nat
    OBVIOUS
  <2>. QED  BY <2>1, <2>2
<1>1. /\ kw \in begin + 1..close /\ \A v \in begin + 1..kw - 1 : text[v] \in Blank
  <2>. DEFINE a == begin + 1
  <2>1. a \in 1..n + 1 /\ close \in a..n
    BY <1>0
  <2>2. text[close] \notin Blank
    BY TokensOf DEF Escaping
  <2>. HIDE DEF a
  <2>3. LET r == SkipBlanks(text, a)
        IN  r \in a..n + 1 /\ r <= close /\ \A v \in a..r - 1 : text[v] \in Blank
    BY <2>1, <2>2, BlanksSkippedTo
  <2>4. SkipBlanks(text, a) \in a..close
    BY <1>0, <2>1, <2>3
  <2>. QED  BY <2>3, <2>4 DEF a
<1>. HIDE DEF kw
<1>2. ASSUME keyword # "none"
      PROVE  /\ kw \in begin..close - 1 /\ keyword = text[kw] /\ keyword \in Silent
             /\ \A v \in begin..kw : text[v] \in Silent
  <2>1. text[kw] \in Word /\ keyword = text[kw]
    <3>1. At(text, kw) \in Word /\ keyword = text[kw]
      BY <1>2
    <3>2. kw <= n
      BY <1>0, <1>1
    <3>. HIDE DEF keyword
    <3>. QED  BY <3>1, <3>2 DEF At
  <2>2. kw # close
    BY <2>1, TokensOf DEF Escaping
  <2>3. kw \in begin..close - 1
    BY <1>0, <1>1, <2>2
  <2>4. Word \subseteq Silent /\ Blank \subseteq Silent /\ text[begin] \in Silent
    BY TokensOf DEF Escaping
  <2>5. \A v \in begin..kw : v = begin \/ v \in begin + 1..kw - 1 \/ v = kw
    BY <1>0, <1>1
  <2>6. ASSUME NEW v \in begin..kw PROVE text[v] \in Silent
    <3>. HIDE DEF keyword
    <3>. QED  BY <1>1, <2>1, <2>4, <2>5
  <2>. HIDE DEF keyword
  <2>. QED  BY <2>1, <2>3, <2>4, <2>6
<1>3. /\ StandsFor(SubSeq(text, begin, close), text, begin, close, dialect)
  <2>1. begin \in 1..n + 1 /\ close \in begin - 1..n
    BY <1>0
  <2>2. \A v \in begin..close : text[v] # "--"
    BY DEF Escaping
  <2>3. SubSeq(text, begin, close) \in Seq(Lineless)
    BY <2>1, <2>2, LinelessPart
  <2>. QED  BY <2>3, Zenon DEF StandsFor, Same
<1>4. StandsFor(Verbatim.text, text, begin, close, dialect)
  BY <1>3, Zenon DEF Translated
<1>5. ASSUME keyword # "none" PROVE body \in Seq(Lineless)
  BY <1>2, <1>5, BodyRead
<1>6. ASSUME keyword # "none", NEW before \in Seq(Silent)
      PROVE  StandsFor(Translated(before \o Trim(body)).text, text, begin, close, dialect)
  <2>. DEFINE inside == Trim(body)
  <2>1. inside \in Seq(Lineless) /\ Same(inside, body, dialect)
    BY <1>5, <1>6, TrimRead
  <2>. HIDE DEF inside, keyword
  <2>2. StandsFor(before \o inside, text, begin, close, dialect)
    BY <1>2, <1>6, <2>1, PutBefore
  <2>. QED  BY <2>2, Zenon DEF Translated, inside
<1>7. ASSUME keyword \in {"d", "t", "ts"} PROVE StandsFor(date.text, text, begin, close, dialect)
  <2>1. keyword # "none"
    BY <1>7
  <2>. HIDE DEF keyword
  <2>2. <<keyword>> \in Seq(Silent)
    <3>1. keyword \in Silent
      BY <1>2, <2>1
    <3>. QED  BY <3>1
  <2>. HIDE DEF body
  <2>. DEFINE before == <<keyword>>
  <2>. HIDE DEF before
  <2>3. StandsFor(Translated(before \o Trim(body)).text, text, begin, close, dialect)
    BY <1>6, <2>1, <2>2 DEF before
  <2>. QED  BY <2>3 DEF before
<1>8. ASSUME keyword = "escape" PROVE StandsFor(like.text, text, begin, close, dialect)
  <2>1. keyword # "none"
    BY <1>8
  <2>2. <<"escape", " ">> \in Seq(Silent)
    <3>1. "escape" \in Silent /\ " " \in Silent
      BY TokensOf DEF Word, Keyword, Blank
    <3>. QED  BY <3>1, PairOf
  <2>. HIDE DEF keyword, body
  <2>. DEFINE before == <<"escape", " ">>
  <2>. HIDE DEF before
  <2>3. StandsFor(Translated(before \o Trim(body)).text, text, begin, close, dialect)
    BY <1>6, <2>1, <2>2 DEF before
  <2>. QED  BY <2>3 DEF before
<1>9. ASSUME keyword = "oj", Ok(join) PROVE StandsFor(join.text, text, begin, close, dialect)
  <2>1. keyword # "none"
    BY <1>9
  <2>. HIDE DEF keyword
  <2>2. body \in Seq(Lineless) /\ kw \in begin..close - 1 /\ \A v \in begin..kw : text[v] \in Silent
    BY <1>2, <1>5, <2>1
  <2>3. Same(body, SubSeq(text, begin, close), dialect) /\ body \in Seq(Token)
    BY <2>2, BodyRead
  <2>. HIDE DEF body
  <2>4. inner[body] \in Piece
    BY <2>3 DEF Translator
  <2>5. join.state = inner[body].state /\ join.text = Trim(inner[body].text)
    BY <2>4 DEF Piece
  <2>6. Ok(inner[body])
    BY <1>9, <2>5 DEF Ok
  <2>7. inner[body].text \in Seq(Lineless) /\ Same(inner[body].text, body, dialect)
    BY <2>2, <2>6 DEF Keeps
  <2>8. Trim(inner[body].text) \in Seq(Lineless) /\ Same(Trim(inner[body].text), inner[body].text, dialect)
    BY <2>7, TrimRead
  <2>. QED  BY <2>3, <2>5, <2>7, <2>8 DEF Same, StandsFor
<1>10. ASSUME keyword = "fn", Ok(call) PROVE StandsFor(call.text, text, begin, close, dialect)
  <2>0. keyword # "none"
    BY <1>10
  <2>. HIDE DEF keyword
  <2>1. kw \in begin..close - 1 /\ \A v \in begin..kw : text[v] \in Silent
    BY <1>2, <2>0
  <2>2. /\ name \in kw + 1..close /\ \A v \in kw + 1..name - 1 : text[v] \in Blank
    <3>. DEFINE a == kw + 1
    <3>1. a \in 1..n + 1 /\ close \in a..n
      BY <1>0, <2>1
    <3>2. text[close] \notin Blank
      BY TokensOf DEF Escaping
    <3>. HIDE DEF a
    <3>3. LET r == SkipBlanks(text, a)
          IN  r \in a..n + 1 /\ r <= close /\ \A v \in a..r - 1 : text[v] \in Blank
      BY <3>1, <3>2, BlanksSkippedTo
    <3>4. SkipBlanks(text, a) \in a..close
      BY <1>0, <3>1, <3>3
    <3>. QED  BY <3>3, <3>4 DEF a
  <2>. HIDE DEF name
  <2>3. CASE At(text, name) \notin Word
    <3>. HIDE DEF Verbatim
    <3>. QED  BY <1>4, <2>3
  <2>4. CASE At(text, name) \in Word
    <3>1. text[name] \in Word
      <4>1. name <= n
        BY <1>0, <2>1, <2>2
      <4>. QED  BY <2>4, <4>1 DEF At
    <3>2. name # close
      BY <3>1, TokensOf DEF Escaping
    <3>3. name \in begin + 1..close - 1
      BY <1>0, <2>1, <2>2, <3>2
    <3>4. Word \subseteq Silent /\ Blank \subseteq Silent
      BY TokensOf
    <3>5. \A v \in begin..name : v \in begin..kw \/ v \in kw + 1..name - 1 \/ v = name
      BY <1>0, <2>1, <2>2
    <3>6. ASSUME NEW v \in begin..name PROVE text[v] \in Silent
      BY <2>1, <2>2, <3>1, <3>4, <3>5
    <3>7. call = translate_call(text, name, close, dialect, inner)
      BY <2>4
    <3>. HIDE DEF call
    <3>8. Ok(translate_call(text, name, close, dialect, inner))
      BY <1>10, <3>7
    <3>. QED  BY <3>3, <3>6, <3>7, <3>8, CallKeeps
  <2>. QED  BY <2>3, <2>4
<1>. DEFINE cases ==
        CASE keyword = "fn" -> call
          [] keyword \in {"d", "t", "ts"} -> date
          [] keyword = "oj" -> join
          [] keyword = "escape" -> like
          [] keyword = "call" \/ (keyword = "none" /\ At(text, kw) = "?") -> Refused("HYC00")
          [] OTHER -> Verbatim
<1>11. result = IF close = 0 THEN Refused("42000") ELSE cases
  BY Zenon DEF translate_escape, kw
<1>12. result = cases /\ Ok(cases)
  <2>1. close # 0
    BY <1>0
  <2>. HIDE DEF cases, result
  <2>2. result = cases
    BY <1>11, <2>1
  <2>. QED  BY <2>2 DEF result
<1>13. ~Ok(Refused("HYC00"))
  BY DEF Ok, Refused
<1>. HIDE DEF call, date, join, like, Verbatim, keyword, result
<1>14. \/ keyword = "fn" /\ cases = call
       \/ keyword \in {"d", "t", "ts"} /\ cases = date
       \/ keyword = "oj" /\ cases = join
       \/ keyword = "escape" /\ cases = like
       \/ cases = Refused("HYC00")
       \/ cases = Verbatim
  OBVIOUS
<1>. HIDE DEF cases
<1>15. StandsFor(cases.text, text, begin, close, dialect)
  BY <1>4, <1>7, <1>8, <1>9, <1>10, <1>12, <1>13, <1>14, Zenon
<1>. QED  BY <1>12, <1>15 DEF result

\* No line comment begins in an escape, nor between braces that could be one's.
Uncommented(text) ==
  \A i, j, k \in 1..Len(text) : i < j /\ j < k /\ text[i] = "{" /\ text[k] = "}" => text[j] # "--"

\* Up to the brace that closes an escape as well.
LEMMA BraceRead ==
  ASSUME NEW text \in Seq(Token), NEW dialect, WellQuoted(dialect), NEW i \in 1..Len(text),
         NEW last, last = find_matching_brace(text, i, dialect), last # 0
  PROVE  /\ last \in i..Len(text)
         /\ text[last] = "}"
         /\ End(SubSeq(text, i, last - 1), "code", dialect) = "code"
<1>. DEFINE limit == Len(text) + 1
<1>1. limit \in 1..Len(text) + 1 /\ limit - 1 = Len(text)
  OBVIOUS
<1>2. last = Matching(text, i, limit, "{", "}", dialect)
  BY DEF find_matching_brace
<1>. HIDE DEF limit
<1>3. Matching(text, i, limit, "{", "}", dialect) # 0
  BY <1>2
<1>4. LET m == Matching(text, i, limit, "{", "}", dialect)
      IN  /\ m \in i..limit - 1
          /\ text[m] = "}"
          /\ End(SubSeq(text, i, m - 1), "code", dialect) = "code"
  BY <1>1, <1>3, MatchedRead
<1>. QED  BY <1>1, <1>2, <1>4, Zenon

\* Piece by piece, a text that is translated keeps its markers.
LEMMA SliceKeeps ==
  ASSUME NEW text \in Seq(Token), NEW dialect, WellQuoted(dialect), Uncommented(text),
         NEW inner \in Translator, Keeps(inner, dialect), Ok(translate_slice(text, dialect, inner))
  PROVE  /\ Same(translate_slice(text, dialect, inner).text, text, dialect)
         /\ text \in Seq(Lineless) => translate_slice(text, dialect, inner).text \in Seq(Lineless)
<1>. DEFINE n == Len(text)
            Escape(i) == Region(text, i, dialect) = i /\ text[i] = "{"
            close(i) == find_matching_brace(text, i, dialect)
            goes(i) == IF Escape(i) /\ close(i) # 0 THEN close(i) + 1 ELSE Behind(text, i, dialect)
            piece == [i \in 1..n |-> IF Escape(i) THEN translate_escape(text, i, close(i), dialect, inner)
                                     ELSE Translated(SubSeq(text, i, goes(i) - 1))]
            next == [i \in 1..n |-> goes(i)]
            lineless == text \in Seq(Lineless)
<1>1. n \in Nat /\ "code" \in Mode
  BY DEF Mode
<1>2. translate_slice(text, dialect, inner) = Joined(piece, next)
  BY DEF translate_slice
<1>3. Scan(next) /\ Len(next) = n /\ piece \in [1..n -> Piece]
  BY SliceScans
<1>4. PICK from \in [1..n + 1 -> Piece] :
        /\ Joined(piece, next) = from[1]
        /\ from[n + 1] = Translated(<<>>)
        /\ \A i \in 1..n : from[i] = Both(piece[i], from[next[i]])
  <2>. HIDE DEF piece, next, n
  <2>. QED  BY <1>3, JoinedFunction
<1>5. next \in [1..n -> Nat] /\ \A i \in 1..n : i < next[i] /\ next[i] <= n + 1
  <2>. HIDE DEF piece, next, n
  <2>. QED  BY <1>3, ScanIsFunction DEF Scan
<1>. DEFINE Good(i) == Ok(from[i]) => /\ Same(from[i].text, SubSeq(text, i, n), dialect)
                                      /\ lineless => from[i].text \in Seq(Lineless)
            P == {i \in 1..n + 1 : Good(i)}
<1>6. SubSeq(text, n + 1, n) = <<>> /\ from[n + 1].text = <<>>
  <2>. HIDE DEF piece, next
  <2>1. SubSeq(text, n + 1, n) = <<>>
    BY <1>1, SubSeqEmpty
  <2>2. Translated(<<>>).text = <<>>
    BY DEF Translated
  <2>. QED  BY <1>4, <2>1, <2>2
<1>7. n + 1 \in P
  <2>1. <<>> \in Seq(Lineless)
    OBVIOUS
  <2>2. Good(n + 1)
    BY <1>6, <2>1, Zenon DEF Same
  <2>3. n + 1 \in 1..n + 1
    BY <1>1
  <2>. HIDE DEF Good
  <2>. QED  BY <2>2, <2>3
<1>8. ASSUME NEW i \in 1..n, next[i] \in P PROVE i \in P
  <2>. DEFINE b == next[i]
              front == piece[i].text
              behind == from[b].text
              rest == SubSeq(text, b, n)
  <2>1. b \in i + 1..n + 1 /\ i \in 1..n + 1
    <3>. HIDE DEF next, n
    <3>. QED  BY <1>1, <1>5
  <2>2. Good(b)
    <3>. HIDE DEF Good
    <3>. QED  BY <1>8
  <2>3. ASSUME Ok(from[i])
        PROVE  Same(from[i].text, SubSeq(text, i, n), dialect) /\ (lineless => from[i].text \in Seq(Lineless))
    <3>1. Ok(piece[i]) /\ Ok(from[b]) /\ from[i].text = front \o behind
      <4>1. from[i] = Both(piece[i], from[b])
        BY <1>4
      <4>. HIDE DEF piece, b
      <4>. QED  BY <2>3, <4>1, BothOk
    <3>2. Same(behind, rest, dialect) /\ (lineless => behind \in Seq(Lineless))
      <4>. HIDE DEF next, piece
      <4>. QED  BY <2>2, <3>1
    <3>3. front \in Seq(Token) /\ behind \in Seq(Token) /\ rest \in Seq(Token)
      <4>1. piece[i] \in Piece /\ from[b] \in Piece
        <5>. HIDE DEF piece, next, n, b
        <5>1. b \in 1..n + 1
          BY <1>1, <2>1
        <5>. QED  BY <1>3, <1>4, <5>1
      <4>2. rest \in Seq(Token)
        <5>. HIDE DEF b
        <5>. QED  BY <1>1, <2>1, PartOfText
      <4>. HIDE DEF piece, b
      <4>. QED  BY <4>1, <4>2 DEF Piece
    <3>. DEFINE part == SubSeq(text, i, b - 1)
    <3>4. part \o rest = SubSeq(text, i, n) /\ part \in Seq(Token)
      <4>. DEFINE m == b - 1
      <4>1. i \in 1..n + 1 /\ m \in i - 1..n /\ n \in m..n /\ m + 1 = b
        <5>. HIDE DEF b, n
        <5>. QED  BY <1>1, <2>1
      <4>. HIDE DEF m, b
      <4>2. SubSeq(text, i, m) \o SubSeq(text, m + 1, n) = SubSeq(text, i, n)
        BY <4>1, ConcatAdjacentSubSeq
      <4>3. SubSeq(text, i, m) \in Seq(Token)
        BY <1>1, <4>1, PartOfText
      <4>. QED  BY <4>1, <4>2, <4>3 DEF m
    <3>5. /\ Same(front, part, dialect) /\ (lineless => front \in Seq(Lineless))
          /\ End(part, "code", dialect) = "code" \/ (b = n + 1 /\ front = part)
      <4>1. CASE Escape(i)
        <5>. DEFINE last == close(i)
        <5>1. piece[i] = translate_escape(text, i, last, dialect, inner)
          BY <4>1
        <5>. HIDE DEF piece
        <5>2. last # 0
          <6>1. ASSUME last = 0 PROVE translate_escape(text, i, last, dialect, inner) = Refused("42000")
            BY <6>1, Zenon DEF translate_escape
          <6>2. ~Ok(Refused("42000"))
            BY DEF Ok, Refused
          <6>. HIDE DEF last
          <6>. QED  BY <3>1, <5>1, <6>1, <6>2
        <5>3. b = last + 1
          BY <4>1, <5>2
        <5>. HIDE DEF last, close, b, next, rest, behind, Good, P
        <5>. HIDE DEF part, front, goes, Escape
        <5>4. last = find_matching_brace(text, i, dialect)
          BY Zenon DEF last, close
        <5>5. /\ last \in i..n
              /\ text[last] = "}"
              /\ End(SubSeq(text, i, last - 1), "code", dialect) = "code"
          BY <5>2, <5>4, BraceRead
        <5>6. last \in i..n
          BY <5>5, Zenon
        <5>7. text[last] = "}"
          BY <5>5, Zenon
        <5>8. text[i] = "{"
          BY <4>1 DEF Escape
        <5>9. last # i
          BY <5>7, <5>8, Zenon
        <5>10. last \in i + 1..n
          BY <1>1, <5>6, <5>9
        <5>11. \A k \in i..last : text[k] # "--"
          <6>1. ASSUME NEW k \in i..last PROVE text[k] # "--"
            <7>1. k = i \/ k = last \/ (k \in 1..n /\ last \in 1..n /\ i < k /\ k < last)
              BY <5>10
            <7>2. "{" # "--" /\ "}" # "--"
              OBVIOUS
            <7>. QED  BY <5>7, <5>8, <7>1, <7>2, Zenon DEF Uncommented
          <6>. QED  BY <6>1
        <5>12. Escaping(text, i, last, dialect)
          BY <5>5, <5>8, <5>10, <5>11, Zenon DEF Escaping
        <5>13. StandsFor(front, text, i, last, dialect)
          BY <3>1, <5>1, <5>12, EscapeKeeps DEF front
        <5>14. End(SubSeq(text, i, last), "code", dialect) = "code"
          <6>1. i \in i..last - 1 /\ \A v \in i..i : v = i
            BY <5>10
          <6>2. text[i] \in Silent
            BY <5>8, TokensOf
          <6>3. \A v \in i..i : text[v] \in Silent
            BY <6>1, <6>2
          <6>. QED  BY <5>12, <6>1, <6>3, BodyRead
        <5>15. part = SubSeq(text, i, last)
          <6>1. b - 1 = last
            BY <5>3, <5>10
          <6>. QED  BY <6>1 DEF part
        <5>. QED  BY <5>13, <5>14, <5>15, Zenon DEF StandsFor
      <4>2. CASE ~Escape(i)
        <5>1. b = Behind(text, i, dialect) /\ piece[i] = Translated(part)
          <6>1. goes(i) = Behind(text, i, dialect)
            BY <4>2
          <6>2. b = goes(i)
            OBVIOUS
          <6>3. piece[i] = Translated(SubSeq(text, i, goes(i) - 1))
            BY <4>2
          <6>. HIDE DEF goes, b, piece
          <6>. QED  BY <6>1, <6>2, <6>3
        <5>2. End(part, "code", dialect) = "code" \/ b = n + 1
          <6>. HIDE DEF b
          <6>. QED  BY <5>1, BehindRead
        <5>3. front = part
          <6>. HIDE DEF part, piece, b, goes, Escape
          <6>1. Translated(part).text = part
            BY DEF Translated
          <6>. QED  BY <5>1, <6>1
        <5>4. lineless => part \in Seq(Lineless)
          <6>. HIDE DEF b
          <6>. QED  BY <1>1, <2>1
        <5>. HIDE DEF part, front, b
        <5>. QED  BY <5>2, <5>3, <5>4 DEF Same
      <4>. HIDE DEF piece, next, Escape, part
      <4>. QED  BY <4>1, <4>2
    <3>6. lineless => front \o behind \in Seq(Lineless)
      <4>. HIDE DEF front, behind, part, rest, b, next
      <4>1. lineless => front \in Seq(Lineless) /\ behind \in Seq(Lineless)
        BY <3>2, <3>5
      <4>. QED  BY <4>1
    <3>. HIDE DEF part, rest, front
    <3>7. CASE End(part, "code", dialect) = "code"
      <4>. HIDE DEF behind
      <4>1. Same(front \o behind, part \o rest, dialect)
        BY <3>2, <3>3, <3>4, <3>5, <3>7, SameJoin
      <4>. QED  BY <3>1, <3>4, <3>6, <4>1
    <3>8. CASE End(part, "code", dialect) # "code"
      <4>1. b = n + 1 /\ front = part
        BY <3>5, <3>8
      <4>2. behind = <<>> /\ rest = <<>>
        <5>. HIDE DEF b
        <5>. QED  BY <1>6, <4>1 DEF rest
      <4>. HIDE DEF behind, b
      <4>3. front \o behind = part \o rest
        BY <4>1, <4>2
      <4>. QED  BY <3>1, <3>4, <3>6, <4>3 DEF Same
    <3>. QED  BY <3>7, <3>8
  <2>4. Good(i)
    <3>. HIDE DEF lineless
    <3>. QED  BY <2>3
  <2>. HIDE DEF Good
  <2>. QED  BY <2>1, <2>4
<1>9. 1 \in P
  <2>1. 1..n + 1 \subseteq P
    <3>. HIDE DEF P, next, n
    <3>. QED  BY <1>1, <1>5, <1>7, <1>8, ScanInduction
  <2>2. 1 \in 1..n + 1
    BY <1>1
  <2>. HIDE DEF P, n
  <2>. QED  BY <2>1, <2>2
<1>10. SubSeq(text, 1, n) = text
  BY SubSeqFull
<1>. HIDE DEF piece, next
<1>. QED  BY <1>2, <1>4, <1>9, <1>10

\* Translated level by level, a text keeps its markers.
LEMMA TranslationKeeps ==
  ASSUME NEW text \in Seq(Token), NEW dialect, WellQuoted(dialect), Uncommented(text),
         Ok(translate_escapes(text, dialect))
  PROVE  count_params(translate_escapes(text, dialect).text, dialect) = count_params(text, dialect)
<1>. DEFINE Within == {g \in Translator : Keeps(g, dialect)}
            deepest == [part \in Seq(Token) |-> Refused("42000")]
            Deeper(g) == [part \in Seq(Token) |-> translate_slice(part, dialect, g)]
<1>0. Seq(Lineless) \subseteq Seq(Token) /\ \A part \in Seq(Lineless) : Uncommented(part)
  BY LinelessIs DEF Uncommented
<1>1. deepest \in Within
  <2>1. deepest \in Translator
    BY Pieces DEF Translator
  <2>2. ~Ok(Refused("42000"))
    BY DEF Ok, Refused
  <2>3. Keeps(deepest, dialect)
    BY <1>0, <2>2 DEF Keeps
  <2>. HIDE DEF deepest
  <2>. QED  BY <2>1, <2>3
<1>2. \A g \in Within : Deeper(g) \in Within
  <2>1. ASSUME NEW g \in Translator, Keeps(g, dialect) PROVE Deeper(g) \in Translator /\ Keeps(Deeper(g), dialect)
    <3>1. Deeper(g) \in Translator
      BY <2>1, SliceTranslated DEF Translator
    <3>2. ASSUME NEW part \in Seq(Lineless), Ok(Deeper(g)[part])
          PROVE  Deeper(g)[part].text \in Seq(Lineless) /\ Same(Deeper(g)[part].text, part, dialect)
      <4>1. part \in Seq(Token) /\ Uncommented(part)
        BY <1>0
      <4>2. Deeper(g)[part] = translate_slice(part, dialect, g)
        BY <4>1
      <4>. HIDE DEF Deeper
      <4>. QED  BY <2>1, <3>2, <4>1, <4>2, SliceKeeps
    <3>. HIDE DEF Deeper
    <3>. QED  BY <3>1, <3>2 DEF Keeps
  <2>. HIDE DEF Deeper
  <2>. QED  BY <2>1
<1>3. PICK inner \in Within : translate_escapes(text, dialect) = translate_slice(text, dialect, inner)
  <2>. HIDE DEF Within
  <2>1. Within \subseteq Translator
    BY DEF Within
  <2>. QED  BY <1>1, <1>2, <2>1, EscapesWithin
<1>. DEFINE t == translate_escapes(text, dialect).text
<1>4. t \in Seq(Token) /\ Same(t, text, dialect)
  <2>1. inner \in Translator /\ Keeps(inner, dialect)
    BY <1>3
  <2>2. Ok(translate_slice(text, dialect, inner))
    BY <1>3
  <2>3. translate_slice(text, dialect, inner) \in Piece
    BY <2>1, SliceTranslated
  <2>4. translate_slice(text, dialect, inner).text \in Seq(Token)
    BY <2>3 DEF Piece
  <2>5. Same(translate_slice(text, dialect, inner).text, text, dialect)
    BY <2>1, <2>2, SliceKeeps
  <2>. QED  BY <1>3, <2>4, <2>5
<1>. HIDE DEF t
<1>5. count_params(t, dialect) = Markers(t, "code", dialect) /\ count_params(text, dialect) = Markers(text, "code", dialect)
  BY <1>4, CountIs
<1>. QED  BY <1>4, <1>5 DEF t, Same

\* SQLGetInfo and the diagnostic functions agree, and what they write fits.
LEMMA GetInfoAgrees ==
  ASSUME Typed, queue \in Queues, NEW t \in InfoType \cup RawType, NEW own \in BOOLEAN, NEW buffer \in Int,
         buffer = NullPointer \/ buffer >= -1, GetInfo(t, own, buffer)
  PROVE  Typed' /\ AnswersAgree' /\ TextFits'
<1>. DEFINE value == InfoOf(t, own)
            text == Told(Units(value), buffer, TRUE)
            told == [f |-> "GetInfo", type |-> t, kind |-> value[1], text |-> text]
            number == [f |-> "GetInfo", type |-> t, kind |-> value[1]]
<1>1. /\ IF value[1] = "String"
         THEN Answers("GetInfo", "conn", note_truncation(text), NoError, text.ret, told)
         ELSE Answers("GetInfo", "conn", <<>>, NoError, Success, number)
      /\ UNCHANGED <<source, open, metadata_id, statement>>
  BY DEF GetInfo
<1>2. Typed'
  BY <1>1 DEF Typed
<1>3. /\ t \in InfoType => value[1] = expected_kind(t)
      /\ open /\ t \notin InfoType =>
           value[1] = IF t \in RawString THEN "String" ELSE IF t \in RawU16 THEN "U16" ELSE "U32"
  BY InformationShaped DEF InfoOf
<1>4. open => info_group_consistent([u \in InfoType \cup RawType |-> InfoOf(u, FALSE)])
  BY GroupAgrees DEF InfoOf
<1>5. (open => info_group_consistent([u \in InfoType \cup RawType |-> InfoOf(u, FALSE)]))'
  BY <1>1, <1>4 DEF InfoOf
<1>6. /\ told.f = "GetInfo" /\ told.type = t /\ told.kind = value[1] /\ told.text = text
      /\ DOMAIN told = {"f", "type", "kind", "text"}
      /\ number.f = "GetInfo" /\ number.type = t /\ number.kind = value[1]
      /\ DOMAIN number = {"f", "type", "kind"}
  OBVIOUS
<1>7. CASE value[1] = "String"
  <2>1. Units(value) \in Nat
    BY <1>7, LengthAssumption DEF Typed, InfoOf
  <2>2. Answers("GetInfo", "conn", note_truncation(text), NoError, text.ret, told)
    BY <1>1, <1>7
  <2>. HIDE DEF told, value
  <2>3. TextFits' /\ answer' = told
    <3>1. TRUE \in BOOLEAN
      OBVIOUS
    <3>. QED  BY <1>6, <2>1, <2>2, <3>1, TextTold, Callers
  <2>. QED  BY <1>1, <1>2, <1>3, <1>5, <1>6, <2>3 DEF AnswersAgree
<1>8. CASE value[1] # "String"
  <2>1. answer' = number
    BY <1>1, <1>8 DEF Answers, NoError
  <2>. HIDE DEF number, value
  <2>2. TextFits'
    BY <1>6, <2>1 DEF TextFits
  <2>. QED  BY <1>1, <1>2, <1>3, <1>5, <1>6, <2>1, <2>2 DEF AnswersAgree
<1>. QED  BY <1>7, <1>8

LEMMA DiagAgrees ==
  ASSUME Typed, NEW h \in Handle, NEW rec \in Nat, NEW field, NEW buffer,
         \/ buffer \in Buffers /\ SQLGetDiagRec(h, rec, buffer)
         \/ SQLGetDiagField(h, rec, field, buffer)
  PROVE  Typed' /\ AnswersAgree' /\ TextFits'
<1>1. CASE SQLGetDiagField(h, rec, field, buffer)
  <2>. DEFINE got == GetDiagField(queue[h], h = "stmt", RowCount, rec, field, buffer)
  <2>1. /\ answer' = [f |-> "GetDiagField", h |-> h, rec |-> rec, field |-> field, buffer |-> buffer, got |-> got]
        /\ UNCHANGED <<source, open, metadata_id, statement>>
    BY <1>1 DEF SQLGetDiagField
  <2>. HIDE DEF got
  <2>2. Plain(answer)'
    BY <2>1 DEF Plain
  <2>. QED  BY <2>1, <2>2, PlainIsRight DEF Typed
<1>2. CASE buffer \in Buffers /\ SQLGetDiagRec(h, rec, buffer)
  <2>. DEFINE got == GetDiagRec(queue[h], rec, buffer)
              written == write_utf16(MessageUnits, buffer)
  <2>1. /\ answer' = [f |-> "GetDiagRec", h |-> h, rec |-> rec, buffer |-> buffer, got |-> got]
        /\ UNCHANGED <<source, open, metadata_id, statement>>
    BY <1>2 DEF SQLGetDiagRec
  <2>2. got.ret \in {Success, Info} => got.written = written
    BY DEF GetDiagRec, Ended, Error, NoData, Success, Info
  <2>. HIDE DEF got
  <2>3. AnswersAgree'
    BY <2>1 DEF AnswersAgree
  <2>4. buffer \in Int /\ (buffer = NullPointer \/ buffer >= -1)
    BY <1>2, MetadataAssumption
  <2>5. "text" \notin DOMAIN answer' /\ answer'.buffer = buffer /\ answer'.got = got
    BY <2>1
  <2>6. /\ written.copied = 0 \/ written.copied < buffer
        /\ written.ret = Info => buffer # NullPointer /\ (written.copied < MessageUnits \/ buffer <= 0)
        /\ written.ret = Success => buffer = NullPointer \/ written.copied = MessageUnits
        /\ MessageUnits < written.reported + 1
        /\ written.reported <= MessageUnits
    BY <2>4 DEF write_utf16, MessageUnits, Success, Info, NullPointer
  <2>. HIDE DEF written
  <2>7. TextFits'
    BY <2>2, <2>5, <2>6 DEF TextFits
  <2>. QED  BY <2>1, <2>3, <2>7 DEF Typed
<1>. QED  BY <1>1, <1>2

\* SQLNativeSql agrees, and what it writes fits.
LEMMA NativeSqlAgrees ==
  ASSUME Typed, queue \in Queues, NEW given, NEW length, NEW terminator, NEW buffer \in Int,
         buffer = NullPointer \/ buffer >= -1, NativeSql(given, length, terminator, buffer),
         LET native == translate_escapes(SubSeq(given, 1, utf16_to_string(terminator, length, MaxScan).units), Dialect)
         IN  /\ open /\ given # Null /\ (length >= 0 \/ length = SQL_NTS)
             /\ utf16_to_string(terminator, length, MaxScan).state = NoError /\ Ok(native)
             => Len(native.text) \in Nat
  PROVE  Typed' /\ AnswersAgree' /\ TextFits'
<1>. DEFINE read == utf16_to_string(terminator, length, MaxScan)
            sql == SubSeq(given, 1, read.units)
            native == translate_escapes(sql, Dialect)
            error == IF ~open THEN "08003"
                     ELSE IF given = Null THEN "HY009"
                     ELSE IF length < 0 /\ length # SQL_NTS THEN "HY090"
                     ELSE IF buffer < 0 /\ buffer # NullPointer THEN "HY090"
                     ELSE IF read.state # NoError THEN read.state
                     ELSE IF ~Ok(native) THEN "HY000" ELSE NoError
            units == Len(native.text)
            truncated == buffer # NullPointer /\ buffer <= units /\ (buffer > 0 \/ units > 0)
            ret == IF truncated THEN Info ELSE Success
            text ==
              [units |-> units, buffer |-> buffer, bytes |-> FALSE, ret |-> ret,
               copied |-> IF buffer <= 0 THEN 0 ELSE IF truncated THEN buffer - 1 ELSE units,
               reported |-> units]
            pushed == IF truncated THEN <<"01004">> ELSE <<>>
            told == [f |-> "NativeSql", sql |-> sql, native |-> native.text, text |-> text]
<1>1. /\ IF error # NoError THEN Answers("NativeSql", "conn", <<>>, error, Success, NoAnswer)
         ELSE Answers("NativeSql", "conn", pushed, NoError, ret, told)
      /\ UNCHANGED <<source, open, metadata_id, statement>>
  BY Zenon DEF NativeSql
<1>2. Typed'
  BY <1>1 DEF Typed
<1>3. CASE error # NoError
  <2>. HIDE DEF error, told
  <2>. QED  BY <1>1, <1>2, <1>3, PlainRecords, PlainIsRight, AnswersPlainly
<1>4. CASE error = NoError
  <2>1. units \in Nat /\ buffer # -1
    <3>. HIDE DEF native, read
    <3>1. /\ open /\ given # Null /\ (length < 0 => length = SQL_NTS)
          /\ (buffer < 0 => buffer = NullPointer) /\ read.state = NoError /\ Ok(native)
      <4>1. NoError \notin {"08003", "HY009", "HY090", "HY000"}
        BY DEF NoError
      <4>. QED  BY <1>4, <4>1, Zenon
    <3>2. buffer # -1
      BY <3>1 DEF NullPointer
    <3>3. Len(native.text) \in Nat
      BY <3>1 DEF read, native
    <3>. QED  BY <3>2, <3>3
  <2>2. Answers("NativeSql", "conn", pushed, NoError, ret, told)
    <3>1. Answers("NativeSql", "conn", pushed, error, ret, told)
      <4>. HIDE DEF error, told, pushed, ret
      <4>. QED  BY <1>1, <1>4
    <3>. HIDE DEF error, told, pushed, ret
    <3>. QED  BY <1>4, <3>1
  <2>3. /\ told.f = "NativeSql" /\ told.text = text
        /\ DOMAIN told = {"f", "sql", "native", "text"}
    OBVIOUS
  <2>. HIDE DEF told, native, error
  <2>4. WrittenFits(text)
    BY <2>1 DEF WrittenFits, NullPointer, Success, Info
  <2>5. text.units = units /\ text.bytes = FALSE /\ text.buffer = buffer /\ text.ret = ret
    OBVIOUS
  <2>6. ret = Info <=> pushed = <<"01004">>
    <3>1. <<>> # <<"01004">> /\ Success # Info
      BY DEF Success, Info
    <3>. HIDE DEF truncated
    <3>. QED  BY <3>1
  <2>7. pushed \in {<<>>, <<"01004">>}
    <3>. HIDE DEF truncated
    <3>. QED  OBVIOUS
  <2>. HIDE DEF text, pushed, ret
  <2>8. ended'.handle = "conn" /\ answer' = told /\ queue'["conn"] = pushed
    <3>1. Posted(Cleared(queue["conn"]), pushed, NoError) = pushed
      BY <2>7 DEF Posted, Cleared, NoError
    <3>2. "conn" \in Handle
      BY DEF Handle
    <3>. QED  BY <2>2, <3>1, <3>2 DEF Answers, Queues, NoError
  <2>9. TextFits'
    <3>1. /\ answer'.f = "NativeSql" /\ "text" \in DOMAIN answer' /\ answer'.text = text
          /\ queue'[ended'.handle] = pushed
      BY <2>3, <2>8
    <3>. QED  BY <2>4, <2>5, <2>6, <3>1 DEF TextFits, WrittenFits
  <2>10. AnswersAgree'
    BY <2>3, <2>8 DEF AnswersAgree
  <2>. QED  BY <1>2, <2>9, <2>10
<1>. QED  BY <1>3, <1>4

\* What SQLNativeSql reads of its argument is a text.
LEMMA ReadIsText ==
  ASSUME NEW given \in Seq(Token), NEW length \in {-5, SQL_NTS, Len(given)},
         NEW terminator \in {NotTerminated, Len(given)},
         utf16_to_string(terminator, length, MaxScan).state = NoError
  PROVE  SubSeq(given, 1, utf16_to_string(terminator, length, MaxScan).units) \in Seq(Token)
<1>1. Len(given) \in Nat
  OBVIOUS
<1>2. utf16_to_string(terminator, length, MaxScan).units = Len(given)
  BY <1>1 DEF utf16_to_string, NotTerminated, SQL_NTS, NoError
<1>3. SubSeq(given, 1, Len(given)) \in Seq(Token)
  BY <1>1, PartOfText
<1>. QED  BY <1>2, <1>3

\* No other function tells of a translation.
LEMMA Untold ==
  ASSUME NEW f, NEW h, NEW pushed, NEW error, NEW ret, NEW told, "native" \notin DOMAIN told,
         Answers(f, h, pushed, error, ret, told)
  PROVE  TranslationKeepsMarkers'
<1>1. "native" \notin DOMAIN answer'
  BY DEF Answers
<1>. QED  BY <1>1 DEF TranslationKeepsMarkers, PlainTextUnchanged

LEMMA OthersUntold ==
  ASSUME NEW t, NEW own, NEW buffer, NEW id, NEW k, NEW field, NEW h, NEW rec,
         \/ GetInfo(t, own, buffer) \/ GetFunctions(id) \/ SQLNumResultCols \/ DescribeCol(k, buffer)
         \/ ColAttribute(k, field, buffer) \/ SQLGetDiagRec(h, rec, buffer)
         \/ SQLGetDiagField(h, rec, field, buffer)
  PROVE  TranslationKeepsMarkers'
<1>1. CASE GetInfo(t, own, buffer)
  <2>1. PICK text, kind, pushed, ret :
          \/ Answers("GetInfo", "conn", pushed, NoError, ret, [f |-> "GetInfo", type |-> t, kind |-> kind, text |-> text])
          \/ Answers("GetInfo", "conn", <<>>, NoError, Success, [f |-> "GetInfo", type |-> t, kind |-> kind])
    BY <1>1, Zenon DEF GetInfo
  <2>. QED  BY <2>1, Untold
<1>2. CASE GetFunctions(id)
  <2>1. PICK told : Answers("GetFunctions", "conn", <<>>, NoError, Success, [f |-> "GetFunctions", id |-> id, told |-> told])
    BY <1>2, Zenon DEF GetFunctions
  <2>. QED  BY <2>1, Untold
<1>3. CASE SQLNumResultCols
  BY <1>3, Untold DEF SQLNumResultCols
<1>4. CASE DescribeCol(k, buffer)
  <2>1. PICK text, size, error, pushed, ret :
          \/ Answers("DescribeCol", "stmt", <<>>, error, Success, NoAnswer)
          \/ Answers("DescribeCol", "stmt", pushed, error, ret,
                     [f |-> "DescribeCol", column |-> k, size |-> size, text |-> text])
    BY <1>4, Zenon DEF DescribeCol
  <2>. QED  BY <2>1, Untold DEF NoAnswer
<1>5. CASE ColAttribute(k, field, buffer)
  <2>1. PICK text, value, error, pushed, ret :
          \/ Answers("ColAttribute", "stmt", <<>>, error, Success, NoAnswer)
          \/ Answers("ColAttribute", "stmt", pushed, error, ret,
                     [f |-> "ColAttribute", column |-> k, field |-> field, text |-> text])
          \/ Answers("ColAttribute", "stmt", <<>>, error, Success,
                     [f |-> "ColAttribute", column |-> k, field |-> field, value |-> value])
    BY <1>5, Zenon DEF ColAttribute
  <2>. QED  BY <2>1, Untold DEF NoAnswer
<1>6. CASE SQLGetDiagRec(h, rec, buffer)
  <2>1. "native" \notin DOMAIN answer'
    BY <1>6 DEF SQLGetDiagRec
  <2>. QED  BY <2>1 DEF TranslationKeepsMarkers, PlainTextUnchanged
<1>7. CASE SQLGetDiagField(h, rec, field, buffer)
  <2>1. "native" \notin DOMAIN answer'
    BY <1>7 DEF SQLGetDiagField
  <2>. QED  BY <2>1 DEF TranslationKeepsMarkers, PlainTextUnchanged
<1>. QED  BY <1>1, <1>2, <1>3, <1>4, <1>5, <1>6, <1>7

\* What SQLNativeSql reads of a text it can read is a text, and so is what it
\* makes of it.
LEMMA NativeIsText ==
  ASSUME NEW given \in Texts \cup {Null}, NEW length \in {-5, SQL_NTS, Len(given)},
         NEW terminator \in {NotTerminated, Len(given)}, given # Null,
         utf16_to_string(terminator, length, MaxScan).state = NoError
  PROVE  LET sql == SubSeq(given, 1, utf16_to_string(terminator, length, MaxScan).units)
         IN  /\ sql \in Seq(Token)
             /\ Len(translate_escapes(sql, Dialect).text) \in Nat
<1>1. given \in Seq(Token)
  BY MetadataAssumption
<1>2. SubSeq(given, 1, utf16_to_string(terminator, length, MaxScan).units) \in Seq(Token)
  BY <1>1, ReadIsText
<1>. QED  BY <1>2, TranslationIsText

\* A dialect of a data source delimits identifiers by such marks.
LEMMA DialectQuotes ==
  ASSUME Typed
  PROVE  WellQuoted(Dialect)
<1>1. source \in Sources /\ source.quotes \subseteq {"q", "["} \X {"q", "]"}
  BY DelimiterAssumption DEF Typed
<1>. DEFINE Q == source.quotes
            openings == {q[1] : q \in Q}
            quotes == [o \in openings |-> CHOOSE c \in {q[2] : q \in Q} : <<o, c>> \in Q]
<1>2. Dialect.quotes = quotes
  BY DEF Dialect
<1>. HIDE DEF Q
<1>3. Q \subseteq {"q", "["} \X {"q", "]"}
  BY <1>1 DEF Q
<1>4. openings \subseteq {"q", "["}
  BY <1>3
<1>5. ASSUME NEW o \in openings PROVE quotes[o] \in {"q", "]"}
  <2>1. PICK q \in Q : o = q[1]
    OBVIOUS
  <2>2. q = <<o, q[2]>> /\ q[2] \in {"q", "]"}
    BY <1>3, <2>1
  <2>3. \E c \in {r[2] : r \in Q} : <<o, c>> \in Q
    BY <2>1, <2>2
  <2>4. (CHOOSE c \in {r[2] : r \in Q} : <<o, c>> \in Q) \in {r[2] : r \in Q}
    BY <2>3
  <2>5. {r[2] : r \in Q} \subseteq {"q", "]"}
    BY <1>3
  <2>. QED  BY <2>4, <2>5
<1>6. DOMAIN quotes = openings
  OBVIOUS
<1>. HIDE DEF quotes, openings
<1>. QED  BY <1>2, <1>4, <1>5, <1>6 DEF WellQuoted

\* A text goes through SQLNativeSql with its markers, and as it is without
\* escapes.
LEMMA NativeSqlKeepsMarkers ==
  ASSUME Typed, NEW given \in Texts \cup {Null}, NEW length \in {-5, SQL_NTS, Len(given)},
         NEW terminator \in {NotTerminated, Len(given)}, NEW buffer,
         NativeSql(given, length, terminator, buffer)
  PROVE  TranslationKeepsMarkers'
<1>. DEFINE read == utf16_to_string(terminator, length, MaxScan)
            sql == SubSeq(given, 1, read.units)
            native == translate_escapes(sql, Dialect)
<1>1. PICK error, text :
        /\ error = NoError => given # Null /\ read.state = NoError /\ Ok(native)
        /\ answer' = IF error = NoError
                     THEN [f |-> "NativeSql", sql |-> sql, native |-> native.text, text |-> text]
                     ELSE [f |-> "failed"]
  <2>. DEFINE error == IF ~open THEN "08003"
                     ELSE IF given = Null THEN "HY009"
                     ELSE IF length < 0 /\ length # SQL_NTS THEN "HY090"
                     ELSE IF buffer < 0 /\ buffer # NullPointer THEN "HY090"
                     ELSE IF read.state # NoError THEN read.state
                     ELSE IF ~Ok(native) THEN "HY000" ELSE NoError
              units == Len(native.text)
              truncated == buffer # NullPointer /\ buffer <= units /\ (buffer > 0 \/ units > 0)
              ret == IF truncated THEN Info ELSE Success
              text == [units |-> units, buffer |-> buffer, bytes |-> FALSE, ret |-> ret,
                       copied |-> IF buffer <= 0 THEN 0 ELSE IF truncated THEN buffer - 1 ELSE units,
                       reported |-> units]
  <2>1. IF error # NoError THEN Answers("NativeSql", "conn", <<>>, error, Success, NoAnswer)
        ELSE Answers("NativeSql", "conn", IF truncated THEN <<"01004">> ELSE <<>>, NoError, ret,
                     [f |-> "NativeSql", sql |-> sql, native |-> native.text, text |-> text])
    BY Zenon DEF NativeSql
  <2>2. error = NoError => given # Null /\ read.state = NoError /\ Ok(native)
    <3>. HIDE DEF read, native
    <3>. QED  BY DEF NoError
  <2>. HIDE DEF error, text, sql, native, read, truncated, ret
  <2>3. answer' = IF error = NoError
                  THEN [f |-> "NativeSql", sql |-> sql, native |-> native.text, text |-> text]
                  ELSE [f |-> "failed"]
    BY <2>1 DEF Answers, NoError
  <2>. QED  BY <2>2, <2>3
<1>2. source' = source
  BY DEF NativeSql
<1>3. Dialect' = Dialect
  BY <1>2 DEF Dialect
<1>4. CASE error = NoError
  <2>1. sql \in Seq(Token)
    BY <1>1, <1>4, NativeIsText
  <2>2. NoEscape(sql, Dialect) => native.text = sql
    BY <2>1, PlainTextStays
  <2>3. WellQuoted(Dialect) /\ Ok(native)
    BY <1>1, <1>4, DialectQuotes
  <2>. HIDE DEF sql
  <2>4. Uncommented(sql) => count_params(native.text, Dialect) = count_params(sql, Dialect)
    BY <2>1, <2>3, TranslationKeeps
  <2>5. ~ (\E i, j, k \in DOMAIN sql : i < j /\ j < k /\ sql[i] = "{" /\ sql[j] = "--" /\ sql[k] = "}")
          => Uncommented(sql)
    <3>1. DOMAIN sql = 1..Len(sql)
      BY <2>1
    <3>. QED  BY <3>1, Zenon DEF Uncommented
  <2>. HIDE DEF native
  <2>6. answer'.sql = sql /\ answer'.native = native.text
    BY <1>1, <1>4
  <2>7. PlainTextUnchanged'
    BY <1>3, <2>2, <2>6 DEF PlainTextUnchanged, NoEscape
  <2>. DEFINE In(u) == \E i, j, k \in DOMAIN u : i < j /\ j < k /\ u[i] = "{" /\ u[j] = "--" /\ u[k] = "}"
  <2>8. ~ In(sql) => count_params(native.text, Dialect) = count_params(sql, Dialect)
    BY <2>4, <2>5
  <2>9. ~ In(answer'.sql) => count_params(answer'.native, Dialect') = count_params(answer'.sql, Dialect')
    <3>. HIDE DEF In
    <3>. QED  BY <1>3, <2>6, <2>8
  <2>. QED  BY <2>7, <2>9, Zenon DEF TranslationKeepsMarkers
<1>5. CASE error # NoError
  <2>. HIDE DEF sql, native
  <2>1. answer' = [f |-> "failed"]
    BY <1>1, <1>5
  <2>2. "native" \notin DOMAIN answer'
    BY <2>1
  <2>. QED  BY <2>2 DEF TranslationKeepsMarkers, PlainTextUnchanged
<1>. QED  BY <1>4, <1>5

\* The two together.
LEMMA NativeSqlRight ==
  ASSUME Typed, queue \in Queues, NEW given \in Texts \cup {Null}, NEW length \in {-5, SQL_NTS, Len(given)},
         NEW terminator \in {NotTerminated, Len(given)}, NEW buffer \in Int,
         buffer = NullPointer \/ buffer >= -1, NativeSql(given, length, terminator, buffer)
  PROVE  Typed' /\ AnswersAgree' /\ TextFits' /\ TranslationKeepsMarkers'
<1>1. TranslationKeepsMarkers'
  BY NativeSqlKeepsMarkers
<1>2. LET native == translate_escapes(SubSeq(given, 1, utf16_to_string(terminator, length, MaxScan).units), Dialect)
      IN  /\ open /\ given # Null /\ (length >= 0 \/ length = SQL_NTS)
          /\ utf16_to_string(terminator, length, MaxScan).state = NoError /\ Ok(native)
          => Len(native.text) \in Nat
  BY NativeIsText, Zenon
<1>. QED  BY <1>1, <1>2, NativeSqlAgrees

\* What is stated of the answers.
AnswersRight == Typed /\ AnswersAgree /\ TranslationKeepsMarkers /\ TextFits

\* A plain answer has all of it.
LEMMA PlainKept ==
  ASSUME Plain(answer)'
  PROVE  AnswersAgree' /\ TextFits' /\ TranslationKeepsMarkers'
<1>1. TranslationKeepsMarkers'
  BY DEF Plain, TranslationKeepsMarkers, PlainTextUnchanged
<1>. QED  BY <1>1, PlainIsRight

\* The parts of the next-state relation keep it.
LEMMA CatalogKeeps ==
  ASSUME Typed, CatalogNext
  PROVE  AnswersRight'
<1>1. CASE \E c \in (IF Fresh THEN Calls ELSE FewCalls), outcome \in Outcome :
             \/ sql_tables_w(c, outcome)
             \/ sql_columns_w(c, outcome)
             \/ sql_primary_keys_w(c, outcome)
             \/ sql_foreign_keys_w(c, outcome)
             \/ sql_statistics_w(c, outcome)
             \/ sql_special_columns_w(c, outcome)
             \/ sql_procedures_w(c, outcome)
             \/ sql_procedure_columns_w(c, outcome)
             \/ sql_column_privileges_w(c, outcome)
             \/ sql_table_privileges_w(c, outcome)
  <2>1. PICK c \in (IF Fresh THEN Calls ELSE FewCalls), outcome \in Outcome :
          \/ sql_tables_w(c, outcome)
          \/ sql_columns_w(c, outcome)
          \/ sql_primary_keys_w(c, outcome)
          \/ sql_foreign_keys_w(c, outcome)
          \/ sql_statistics_w(c, outcome)
          \/ sql_special_columns_w(c, outcome)
          \/ sql_procedures_w(c, outcome)
          \/ sql_procedure_columns_w(c, outcome)
          \/ sql_column_privileges_w(c, outcome)
          \/ sql_table_privileges_w(c, outcome)
    BY <1>1
  <2>2. {"Tables", "Columns", "PrimaryKeys", "ForeignKeys", "Statistics", "SpecialColumns", "Procedures",
         "ProcedureColumns", "ColumnPrivileges", "TablePrivileges"} \subseteq CatalogFunction
    BY DEF CatalogFunction, Arguments
  <2>3. \E checks, keys : c.f \in CatalogFunction /\ Answering(c, outcome, checks, keys)
    <3>1. CASE sql_tables_w(c, outcome)
      BY <3>1, <2>2, Zenon DEF sql_tables_w
    <3>2. CASE sql_columns_w(c, outcome)
      BY <3>2, <2>2, Zenon DEF sql_columns_w
    <3>3. CASE sql_primary_keys_w(c, outcome)
      BY <3>3, <2>2, Zenon DEF sql_primary_keys_w
    <3>4. CASE sql_foreign_keys_w(c, outcome)
      BY <3>4, <2>2, Zenon DEF sql_foreign_keys_w
    <3>5. CASE sql_statistics_w(c, outcome)
      BY <3>5, <2>2, Zenon DEF sql_statistics_w
    <3>6. CASE sql_special_columns_w(c, outcome)
      BY <3>6, <2>2, Zenon DEF sql_special_columns_w
    <3>7. CASE sql_procedures_w(c, outcome)
      BY <3>7, <2>2, Zenon DEF sql_procedures_w
    <3>8. CASE sql_procedure_columns_w(c, outcome)
      BY <3>8, <2>2, Zenon DEF sql_procedure_columns_w
    <3>9. CASE sql_column_privileges_w(c, outcome)
      BY <3>9, <2>2, Zenon DEF sql_column_privileges_w
    <3>10. CASE sql_table_privileges_w(c, outcome)
      BY <3>10, <2>2, Zenon DEF sql_table_privileges_w
    <3>. QED  BY <2>1, <3>1, <3>2, <3>3, <3>4, <3>5, <3>6, <3>7, <3>8, <3>9, <3>10, Zenon
  <2>. QED  BY <2>3, CatalogPlain, PlainKept DEF AnswersRight
<1>2. CASE \E data_type \in {AllTypes} \cup {t.data_type : t \in Types}, outcome \in {"rows", "reversed"} :
             GetTypeInfo(data_type, outcome)
  BY <1>2, StatementPlain, PlainKept DEF AnswersRight
<1>. QED  BY <1>1, <1>2, Zenon DEF CatalogNext

LEMMA StatementKeeps ==
  ASSUME Typed, queue \in Queues, StatementNext
  PROVE  AnswersRight'
<1>1. CASE \/ \E pushed \in {<<>>, <<"01004">>, <<"01004", "01004">>}, error \in {NoError, "01S07", "22003"} :
               Fetch(pushed, error)
           \/ CloseCursor \/ MoreResults \/ SQLRowCount
           \/ \E operation \in {"add", "unknown"} : BulkOperations(operation)
           \/ \E operation \in {"update", "unknown"}, lock_type \in {"exclusive", "unknown"} :
                SetPos(operation, lock_type)
           \/ \E value \in BOOLEAN : SetMetadataId(value)
  BY <1>1, StatementPlain, PlainKept DEF AnswersRight
<1>2. CASE SQLNumResultCols
  <2>1. TranslationKeepsMarkers'
    BY <1>2, OthersUntold
  <2>. QED  BY <1>2, <2>1, NumResultColsAgrees DEF AnswersRight
<1>3. CASE \E k \in {0, 1, ColumnCount, ColumnCount + 1}, buffer \in Buffers : DescribeCol(k, buffer)
  <2>1. TranslationKeepsMarkers'
    BY <1>3, OthersUntold
  <2>. QED  BY <1>3, <2>1, DescribeColAgrees DEF AnswersRight
<1>4. CASE \E k \in {0, 1, ColumnCount, ColumnCount + 1}, field \in Identifier : ColAttribute(k, field, 40)
  <2>1. TranslationKeepsMarkers'
    BY <1>4, OthersUntold
  <2>. QED  BY <1>4, <2>1, ColAttributeAgrees DEF AnswersRight
<1>. QED  BY <1>1, <1>2, <1>3, <1>4, Zenon DEF StatementNext

\* The buffers and texts of the calls, by the assumption on them.
LEMMA BufferSizes ==
  /\ \A buffer \in Buffers : buffer \in Int /\ (buffer = NullPointer \/ buffer >= -1)
  /\ FewTexts \subseteq Texts
BY MetadataAssumption

\* The same of the calls on the connection.
LEMMA ConnectionKeeps ==
  ASSUME Typed, queue \in Queues, ConnectionNext
  PROVE  AnswersRight'
<1>1. CASE \E t \in (IF Fresh THEN InfoType \cup RawType ELSE {"DriverName"}), own \in BOOLEAN : GetInfo(t, own, 8)
  <2>1. PICK t \in (IF Fresh THEN InfoType \cup RawType ELSE {"DriverName"}), own \in BOOLEAN : GetInfo(t, own, 8)
    BY <1>1
  <2>2. TranslationKeepsMarkers'
    BY <2>1, OthersUntold
  <2>3. t \in InfoType \cup RawType
    <3>1. "DriverName" \in InfoType
      BY DEF InfoType, StringShaped
    <3>. QED  BY <3>1
  <2>. QED  BY <2>1, <2>2, <2>3, GetInfoAgrees DEF AnswersRight
<1>2. CASE \E buffer \in Buffers : GetInfo("DriverName", FALSE, buffer)
  <2>1. PICK buffer \in Buffers : GetInfo("DriverName", FALSE, buffer)
    BY <1>2
  <2>2. TranslationKeepsMarkers'
    BY <2>1, OthersUntold
  <2>3. "DriverName" \in InfoType
    BY DEF InfoType, StringShaped
  <2>. QED  BY <2>1, <2>2, <2>3, BufferSizes, GetInfoAgrees DEF AnswersRight
<1>3. CASE \E id \in (IF Fresh THEN {999, 2013} \cup {FunctionId[f] : f \in Function} ELSE {}) \cup {0} :
             GetFunctions(id)
  <2>1. TranslationKeepsMarkers'
    BY <1>3, OthersUntold
  <2>. QED  BY <1>3, <2>1, GetFunctionsAgrees DEF AnswersRight
<1>4. CASE \E text \in (IF Fresh THEN Texts ELSE FewTexts) : NativeSql(text, SQL_NTS, Len(text), 40)
  BY <1>4, BufferSizes, NativeSqlRight DEF AnswersRight
<1>5. CASE \E text \in FewTexts \cup {Null}, buffer \in Buffers :
             \E length \in {-5, SQL_NTS, Len(text)}, terminator \in {NotTerminated, Len(text)} :
               NativeSql(text, length, terminator, buffer)
  BY <1>5, BufferSizes, NativeSqlRight DEF AnswersRight
<1>. QED  BY <1>1, <1>2, <1>3, <1>4, <1>5, Zenon DEF ConnectionNext

\* And of the diagnostic functions.
LEMMA DiagnosticKeeps ==
  ASSUME Typed, DiagnosticNext
  PROVE  AnswersRight'
<1>1. PICK h, rec, field, buffer : h \in Handle /\ rec \in Nat /\
           \/ buffer \in Buffers /\ SQLGetDiagRec(h, rec, buffer)
           \/ SQLGetDiagField(h, rec, field, buffer)
  <2>1. 0..3 \subseteq Nat
    OBVIOUS
  <2>2. CASE \E h \in Handle, rec \in 0..3 : \E buffer \in Buffers : SQLGetDiagRec(h, rec, buffer)
    BY <2>1, <2>2
  <2>3. CASE \E h \in Handle, rec \in 0..3 : \E field \in DiagField, buffer \in {-1, 20} : SQLGetDiagField(h, rec, field, buffer)
    BY <2>1, <2>3
  <2>. QED  BY <2>2, <2>3, Zenon DEF DiagnosticNext
<1>2. TranslationKeepsMarkers'
  BY <1>1, OthersUntold
<1>. QED  BY <1>1, <1>2, DiagAgrees DEF AnswersRight

\* In every behaviour the two together hold.
THEOREM MetadataInvariant == Spec => [](RecordsRight /\ AnswersRight)
<1>1. Init => AnswersRight
  <2>. SUFFICES ASSUME Init PROVE AnswersRight
    OBVIOUS
  <2>1. answer = [f |-> "none"] /\ "text" \notin DOMAIN answer /\ "kind" \notin DOMAIN answer /\ "native" \notin DOMAIN answer
    BY DEF Init, NoAnswer
  <2>2. Typed
    BY DEF Init, Typed
  <2>. QED  BY <2>1, <2>2 DEF AnswersRight, AnswersAgree, TranslationKeepsMarkers, PlainTextUnchanged, TextFits
<1>2. RecordsRight /\ AnswersRight /\ [Next]_vars => AnswersRight'
  <2>. SUFFICES ASSUME RecordsRight, AnswersRight, [Next]_vars PROVE AnswersRight'
    OBVIOUS
  <2>1. CASE CatalogNext
    BY <2>1, CatalogKeeps DEF AnswersRight
  <2>2. CASE StatementNext
    BY <2>2, StatementKeeps DEF AnswersRight, RecordsRight
  <2>3. CASE ConnectionNext
    BY <2>3, ConnectionKeeps DEF AnswersRight, RecordsRight
  <2>4. CASE DiagnosticNext
    BY <2>4, DiagnosticKeeps DEF AnswersRight
  <2>5. CASE Forget
    <3>1. Plain(answer)' /\ Typed'
      BY <2>5, PlainRecords DEF Forget, AnswersRight, Typed
    <3>. QED  BY <3>1, PlainKept DEF AnswersRight
  <2>6. CASE UNCHANGED vars
    <3>1. Typed'
      BY <2>6 DEF vars, AnswersRight, Typed
    <3>2. TextFits'
      BY <2>6 DEF vars, AnswersRight, TextFits
    <3>3. TranslationKeepsMarkers'
      <4>1. answer' = answer /\ Dialect' = Dialect
        BY <2>6 DEF vars, Dialect
      <4>. QED  BY <4>1 DEF AnswersRight, TranslationKeepsMarkers, PlainTextUnchanged
    <3>4. AnswersAgree'
      BY <2>6 DEF vars, AnswersRight, AnswersAgree, InfoOf, cursor_open
    <3>. QED  BY <3>1, <3>2, <3>3, <3>4 DEF AnswersRight
  <2>. QED  BY <2>1, <2>2, <2>3, <2>4, <2>5, <2>6, Zenon DEF Next
<1>. QED  BY <1>1, <1>2, RecordsAreRight, PTL DEF Spec

\* For every data source, call, text and buffer: SQLGetDiagRec and
\* SQLGetDiagField tell of the last call on the handle, in states listed for it
\* (handles/diagnostics.rs, ffi/diag.rs, types/diagnostics_table.rs).
THEOREM DiagnosticsHold == Spec => []DiagnosticsTellLastCall
<1>1. RecordsRight => DiagnosticsTellLastCall
  BY DEF RecordsRight
<1>. QED  BY <1>1, RecordsAreRight, PTL

\* What the application is told in one place is what it is told in another: of
\* information, functions and the number of columns (info.rs, conformance.rs,
\* function_id.rs, result_cols.rs).
THEOREM AnswersAlwaysAgree == Spec => []AnswersAgree
<1>1. AnswersRight => AnswersAgree
  BY DEF AnswersRight
<1>. QED  BY <1>1, MetadataInvariant, PTL

\* SQLNativeSql leaves a text as it is that has no escape outside of literals,
\* quoted identifiers and comments (escape.rs, SQLNativeSql in ffi/connect.rs).
THEOREM PlainTextStaysUnchanged == Spec => []PlainTextUnchanged
<1>1. AnswersRight => PlainTextUnchanged
  BY DEF AnswersRight, TranslationKeepsMarkers
<1>. QED  BY <1>1, MetadataInvariant, PTL

\* What SQLNativeSql translates has the parameter markers of what it is given,
\* whatever escapes, literals, quoted identifiers and comments there are, but
\* for a line comment in an escape (escape.rs, count_params in ffi/params.rs).
THEOREM TranslationAlwaysKeepsMarkers == Spec => []TranslationKeepsMarkers
<1>1. AnswersRight => TranslationKeepsMarkers
  BY DEF AnswersRight
<1>. QED  BY <1>1, MetadataInvariant, PTL

\* A text fits its buffer with the terminator, and 01004 says exactly that it
\* was cut off (utf16.rs and the functions that write text).
THEOREM TextAlwaysFits == Spec => []TextFits
<1>1. AnswersRight => TextFits
  BY DEF AnswersRight
<1>. QED  BY <1>1, MetadataInvariant, PTL

\* The result set of the statement is always one whose columns are described.
THEOREM MetadataTyped == Spec => []Typed
<1>1. AnswersRight => Typed
  BY DEF AnswersRight
<1>. QED  BY <1>1, MetadataInvariant, PTL

\* translate_escapes ends for every text and dialect, in a text or in one of
\* the two refusals (escape.rs).
THEOREM TranslationEnds ==
  ASSUME NEW text \in Seq(Token), NEW dialect
  PROVE  translate_escapes(text, dialect) \in [state : {"00000", "42000", "HYC00"}, text : Seq(Token)]
BY EscapesTranslated, SliceTranslated DEF Piece

\* A strict total order, as a set of pairs, and the lexicographic order of
\* functions on a set of numbers that it gives.
StrictOrder(R, V) ==
  /\ \A x, y \in V : x = y \/ <<x, y>> \in R \/ <<y, x>> \in R
  /\ \A x \in V : <<x, x>> \notin R
  /\ \A x, y, z \in V : <<x, y>> \in R /\ <<y, z>> \in R => <<x, z>> \in R
Lex(D, R, f, g) == \E p \in D : (\A j \in D : j < p => f[j] = g[j]) /\ <<f[p], g[p]>> \in R

\* The lexicographic order is a strict total one.
LEMMA Lexicographic ==
  ASSUME NEW D, D \subseteq Nat, NEW V, NEW R, StrictOrder(R, V)
  PROVE  /\ \A f, g \in [D -> V] : f = g \/ Lex(D, R, f, g) \/ Lex(D, R, g, f)
         /\ \A f \in [D -> V] : ~Lex(D, R, f, f)
         /\ \A f, g, h \in [D -> V] : Lex(D, R, f, g) /\ Lex(D, R, g, h) => Lex(D, R, f, h)
<1>0. /\ \A x, y \in V : x = y \/ <<x, y>> \in R \/ <<y, x>> \in R
      /\ \A x \in V : <<x, x>> \notin R
      /\ \A x, y, z \in V : <<x, y>> \in R /\ <<y, z>> \in R => <<x, z>> \in R
  BY Zenon DEF StrictOrder
<1>1. ASSUME NEW f \in [D -> V], NEW g \in [D -> V]
      PROVE  f = g \/ Lex(D, R, f, g) \/ Lex(D, R, g, f)
  <2>. DEFINE differ == {j \in D : f[j] # g[j]}
  <2>1. CASE differ = {}
    BY <2>1
  <2>2. CASE differ # {}
    <3>1. PICK p \in differ : \A j \in differ : p <= j
      <4>1. differ \subseteq Nat
        OBVIOUS
      <4>. HIDE DEF differ
      <4>. QED  BY <2>2, <4>1, LeastElement
    <3>2. p \in D /\ f[p] \in V /\ g[p] \in V /\ f[p] # g[p]
      BY <3>1
    <3>3. \A j \in D : j < p => f[j] = g[j]
      <4>. SUFFICES ASSUME NEW j \in D, j < p PROVE f[j] = g[j]
        OBVIOUS
      <4>1. ~(p <= j)
        BY <3>2
      <4>2. j \notin differ
        <5>. HIDE DEF differ
        <5>. QED  BY <3>1, <4>1
      <4>. QED  BY <4>2
    <3>4. \A j \in D : j < p => g[j] = f[j]
      BY <3>3, Zenon
    <3>5. <<f[p], g[p]>> \in R \/ <<g[p], f[p]>> \in R
      BY <1>0, <3>2, Zenon
    <3>. HIDE DEF differ
    <3>. QED  BY <3>2, <3>3, <3>4, <3>5, Zenon DEF Lex
  <2>. QED  BY <2>1, <2>2
<1>2. ASSUME NEW f \in [D -> V] PROVE ~Lex(D, R, f, f)
  <2>1. \A p \in D : f[p] \in V
    OBVIOUS
  <2>. QED  BY <1>0, <2>1, Zenon DEF Lex
<1>3. ASSUME NEW f \in [D -> V], NEW g \in [D -> V], NEW h \in [D -> V],
             Lex(D, R, f, g), Lex(D, R, g, h)
      PROVE  Lex(D, R, f, h)
  <2>1. PICK p \in D : (\A j \in D : j < p => f[j] = g[j]) /\ <<f[p], g[p]>> \in R
    BY <1>3, Zenon DEF Lex
  <2>2. PICK q \in D : (\A j \in D : j < q => g[j] = h[j]) /\ <<g[q], h[q]>> \in R
    BY <1>3, Zenon DEF Lex
  <2>3. p \in Nat /\ q \in Nat /\ D \subseteq Nat
    OBVIOUS
  <2>4. \A x \in D : f[x] \in V /\ g[x] \in V /\ h[x] \in V
    OBVIOUS
  <2>5. CASE p < q
    <3>1. <<f[p], h[p]>> \in R
      BY <2>1, <2>2, <2>5, Zenon
    <3>2. ASSUME NEW j \in D, j < p PROVE f[j] = h[j]
      <4>1. j < q
        BY <2>3, <2>5, <3>2
      <4>. QED  BY <2>1, <2>2, <3>2, <4>1, Zenon
    <3>. QED  BY <3>1, <3>2, Zenon DEF Lex
  <2>6. CASE p = q
    <3>1. <<f[p], h[p]>> \in R
      BY <1>0, <2>1, <2>2, <2>4, <2>6, Zenon
    <3>2. \A j \in D : j < p => f[j] = h[j]
      BY <2>1, <2>2, <2>6, Zenon
    <3>. QED  BY <3>1, <3>2, Zenon DEF Lex
  <2>7. CASE q < p
    <3>1. <<f[q], h[q]>> \in R
      BY <2>1, <2>2, <2>7, Zenon
    <3>2. ASSUME NEW j \in D, j < q PROVE f[j] = h[j]
      <4>1. j < p
        BY <2>3, <2>7, <3>2
      <4>. QED  BY <2>1, <2>2, <3>2, <4>1, Zenon
    <3>. QED  BY <3>1, <3>2, Zenon DEF Lex
  <2>. QED  BY <2>3, <2>5, <2>6, <2>7
<1>. QED  BY <1>1, <1>2, <1>3, Zenon

\* Where an element stands that so many come before: each place is taken, once.
LEMMA Placed ==
  ASSUME NEW n \in Nat, NEW E \in [1..n -> SUBSET (1..n)],
         \A i \in 1..n : i \notin E[i],
         \A i, j \in 1..n : j \in E[i] => E[j] \subseteq E[i],
         \A i, j \in 1..n : i = j \/ i \in E[j] \/ j \in E[i]
  PROVE  /\ \A k \in 1..n : \E i \in 1..n : 1 + Cardinality(E[i]) = k
         /\ \A i, j \in 1..n : 1 + Cardinality(E[i]) = 1 + Cardinality(E[j]) => i = j
         /\ \A i, j \in 1..n : 1 + Cardinality(E[j]) < 1 + Cardinality(E[i]) => j \in E[i]
<1>. DEFINE place == [i \in 1..n |-> 1 + Cardinality(E[i])]
<1>1. IsFiniteSet(1..n) /\ Cardinality(1..n) = n
  <2>1. 1 \in Int /\ n \in Int /\ (1 > n => n = 0)
    OBVIOUS
  <2>. QED  BY <2>1, FS_Interval
<1>2. \A i \in 1..n : IsFiniteSet(E[i]) /\ Cardinality(E[i]) \in Nat
  <2>1. \A i \in 1..n : E[i] \subseteq 1..n
    OBVIOUS
  <2>. QED  BY <1>1, <2>1, FS_Subset, FS_CardinalityType, Zenon
<1>3. ASSUME NEW i \in 1..n, NEW j \in 1..n, j \in E[i]
      PROVE  Cardinality(E[j]) < Cardinality(E[i])
  <2>1. E[j] \subseteq E[i] /\ E[j] # E[i]
    BY <1>3, Zenon
  <2>. QED  BY <1>2, <2>1, FS_Subset
<1>4. \A i, j \in 1..n : Cardinality(E[i]) = Cardinality(E[j]) => i = j
  BY <1>2, <1>3
<1>5. place \in [1..n -> 1..n]
  <2>. SUFFICES ASSUME NEW i \in 1..n PROVE 1 + Cardinality(E[i]) \in 1..n
    OBVIOUS
  <2>1. E[i] \in SUBSET (1..n) /\ E[i] # 1..n
    OBVIOUS
  <2>2. Cardinality(E[i]) <= Cardinality(1..n) /\ (Cardinality(1..n) = Cardinality(E[i]) => 1..n = E[i])
    BY <1>1, <2>1, FS_Subset, Zenon
  <2>3. Cardinality(E[i]) < n
    BY <1>1, <1>2, <2>1, <2>2
  <2>. QED  BY <1>2, <2>3
<1>6. \A i, j \in 1..n : place[i] = place[j] => i = j
  BY <1>2, <1>4
<1>7. ASSUME NEW k \in 1..n PROVE \E i \in 1..n : place[i] = k
  <2>. DEFINE taken == {place[i] : i \in 1..n}
  <2>1. taken \subseteq 1..n
    BY <1>5
  <2>2. Cardinality(taken) = n
    <3>1. place \in Bijection(1..n, taken)
      <4>1. place \in [1..n -> taken] /\ \A t \in taken : \E i \in 1..n : place[i] = t
        <5>1. \A i \in 1..n : place[i] \in taken
          OBVIOUS
        <5>2. \A t \in taken : \E i \in 1..n : place[i] = t
          OBVIOUS
        <5>3. place = [i \in 1..n |-> place[i]]
          OBVIOUS
        <5>. HIDE DEF place, taken
        <5>. QED  BY <5>1, <5>2, <5>3, Zenon
      <4>. HIDE DEF place, taken
      <4>. QED  BY <1>6, <4>1, Zenon DEF Bijection, Injection, Surjection, IsInjective
    <3>. HIDE DEF place, taken
    <3>2. ExistsBijection(1..n, taken)
      BY <3>1, Zenon DEF ExistsBijection
    <3>. QED  BY <1>1, <3>2, FS_Bijection, Zenon
  <2>3. taken = 1..n
    <3>. HIDE DEF taken
    <3>. QED  BY <1>1, <2>1, <2>2, FS_Subset
  <2>. QED  BY <2>3
<1>8. \A i, j \in 1..n : Cardinality(E[j]) < Cardinality(E[i]) => j \in E[i]
  BY <1>2, <1>3
<1>9. \A i, j \in 1..n : 1 + Cardinality(E[j]) < 1 + Cardinality(E[i]) => j \in E[i]
  BY <1>2, <1>8
<1>10. \A i \in 1..n : place[i] = 1 + Cardinality(E[i])
  OBVIOUS
<1>. HIDE DEF place
<1>. QED  BY <1>6, <1>7, <1>9, <1>10, Zenon

\* The values rows are sorted by.
Valued == Text \cup {Null}

\* NULL is no text.
LEMMA NullIsNoText == Null \notin Text
<1>. SUFFICES ASSUME <<"NULL">> \in Seq(Character) PROVE FALSE
  BY DEF Null, Text
<1>1. <<"NULL">>[1] \in Character
  OBVIOUS
<1>. QED  BY <1>1, CollationAssumption

\* Every character has its place in the collation, and no other has it.
LEMMA RankIs ==
  /\ \A ch \in Character : Rank(ch) \in Nat /\ 0 < Rank(ch)
  /\ \A ch, other \in Character : Rank(ch) = Rank(other) => ch = other
<1>1. \A ch \in Character : Rank(ch) \in DOMAIN Collation /\ Collation[Rank(ch)] = ch
  BY DEF Rank, Character
<1>2. \A k \in DOMAIN Collation : k \in Nat /\ 0 < k
  BY CollationAssumption
<1>. QED  BY <1>1, <1>2, Zenon

\* The order of texts is the lexicographic one of their characters' places, the
\* end of a text coming before any.
Place == Nat \ {0}
Less == {pair \in Nat \X Nat : pair[1] < pair[2]}
Places(x) == [i \in Place |-> IF i <= Len(x) THEN Rank(x[i]) ELSE 0]

\* Numbers are ordered strictly.
LEMMA LessIsStrict == StrictOrder(Less, Nat)
BY DEF StrictOrder, Less

\* The places of a text: a number for each of its characters, and 0 behind them.
LEMMA PlacesAre ==
  ASSUME NEW x \in Text
  PROVE  /\ Len(x) \in Nat /\ Places(x) \in [Place -> Nat]
         /\ \A i \in 1..Len(x) : i \in Place /\ x[i] \in Character /\ Places(x)[i] = Rank(x[i])
         /\ \A i \in Place : Places(x)[i] # 0 <=> i <= Len(x)
<1>1. Len(x) \in Nat /\ \A i \in 1..Len(x) : x[i] \in Character
  BY DEF Text
<1>2. \A i \in Place : i <= Len(x) => i \in 1..Len(x)
  BY <1>1 DEF Place
<1>3. \A i \in Place : IF i <= Len(x) THEN Rank(x[i]) \in Nat /\ 0 < Rank(x[i]) ELSE TRUE
  BY <1>1, <1>2, RankIs
<1>4. Places(x) \in [Place -> Nat]
  BY <1>3 DEF Places
<1>5. \A i \in 1..Len(x) : i \in Place /\ Places(x)[i] = Rank(x[i])
  BY <1>1 DEF Places, Place
<1>6. \A i \in Place : Places(x)[i] # 0 <=> i <= Len(x)
  BY <1>3 DEF Places
<1>. QED  BY <1>1, <1>4, <1>5, <1>6

\* A text has its places to itself.
LEMMA SamePlaces ==
  ASSUME NEW x \in Text, NEW y \in Text, Places(x) = Places(y)
  PROVE  x = y
<1>1. /\ Len(x) \in Nat /\ Len(y) \in Nat
      /\ \A i \in 1..Len(x) : i \in Place /\ x[i] \in Character /\ Places(x)[i] = Rank(x[i])
      /\ \A i \in 1..Len(y) : i \in Place /\ y[i] \in Character /\ Places(y)[i] = Rank(y[i])
      /\ \A i \in Place : Places(x)[i] # 0 <=> i <= Len(x)
      /\ \A i \in Place : Places(y)[i] # 0 <=> i <= Len(y)
  BY PlacesAre, Zenon
<1>2. \A i \in Place : i <= Len(x) <=> i <= Len(y)
  BY <1>1, Zenon
<1>3. Len(x) = Len(y)
  <2>1. Len(x) <= Len(x) /\ Len(y) <= Len(y)
    BY <1>1
  <2>2. Len(x) # 0 => Len(x) \in Place
    BY <1>1 DEF Place
  <2>3. Len(y) # 0 => Len(y) \in Place
    BY <1>1 DEF Place
  <2>4. (Len(x) # 0 => Len(x) <= Len(y)) /\ (Len(y) # 0 => Len(y) <= Len(x))
    BY <1>2, <2>1, <2>2, <2>3, Zenon
  <2>. QED  BY <1>1, <2>4
<1>4. \A i \in 1..Len(x) : x[i] = y[i]
  <2>. SUFFICES ASSUME NEW i \in 1..Len(x) PROVE x[i] = y[i]
    OBVIOUS
  <2>1. x[i] \in Character /\ y[i] \in Character /\ Rank(x[i]) = Rank(y[i])
    BY <1>1, <1>3, Zenon
  <2>. QED  BY <2>1, RankIs, Zenon
<1>. QED  BY <1>3, <1>4 DEF Text

\* The order of texts is lexicographic.
LEMMA TextPrecedesIs ==
  ASSUME NEW x \in Text, NEW y \in Text
  PROVE  TextPrecedes(x, y) <=> Lex(Place, Less, Places(x), Places(y))
<1>. DEFINE f == Places(x)
            g == Places(y)
<1>1. /\ Len(x) \in Nat /\ Len(y) \in Nat
      /\ f \in [Place -> Nat] /\ g \in [Place -> Nat]
      /\ \A i \in 1..Len(x) : i \in Place /\ x[i] \in Character /\ f[i] = Rank(x[i])
      /\ \A i \in 1..Len(y) : i \in Place /\ y[i] \in Character /\ g[i] = Rank(y[i])
      /\ \A i \in Place : f[i] # 0 <=> i <= Len(x)
      /\ \A i \in Place : g[i] # 0 <=> i <= Len(y)
  BY PlacesAre, Zenon
<1>2. \A i \in Place : f[i] \in Nat /\ g[i] \in Nat
  <2>. HIDE DEF f, g
  <2>. QED  BY <1>1
<1>3. \A i \in Place : <<f[i], g[i]>> \in Less <=> f[i] < g[i]
  <2>. HIDE DEF f, g
  <2>. QED  BY <1>2 DEF Less
<1>. HIDE DEF f, g
<1>4. ASSUME TextPrecedes(x, y) PROVE Lex(Place, Less, f, g)
  <2>1. PICK n \in 0..Len(x) : /\ n < Len(y) /\ SubSeq(x, 1, n) = SubSeq(y, 1, n)
                               /\ n = Len(x) \/ (n < Len(x) /\ Rank(x[n + 1]) < Rank(y[n + 1]))
    BY <1>4 DEF TextPrecedes
  <2>2. n + 1 \in Place /\ n + 1 \in 1..Len(y)
    BY <1>1, <2>1 DEF Place
  <2>3. \A j \in Place : j < n + 1 => f[j] = g[j]
    <3>. SUFFICES ASSUME NEW j \in Place, j < n + 1 PROVE f[j] = g[j]
      OBVIOUS
    <3>1. j \in 1..n /\ j \in 1..Len(x) /\ j \in 1..Len(y)
      BY <1>1, <2>1 DEF Place
    <3>2. SubSeq(x, 1, n)[j] = x[j] /\ SubSeq(y, 1, n)[j] = y[j]
      BY <1>1, <2>1, <3>1 DEF Text
    <3>3. x[j] = y[j]
      BY <2>1, <3>2, Zenon
    <3>. QED  BY <1>1, <3>1, <3>3, Zenon
  <2>4. f[n + 1] < g[n + 1]
    <3>1. g[n + 1] # 0 /\ g[n + 1] = Rank(y[n + 1])
      BY <1>1, <2>2
    <3>2. CASE n = Len(x)
      <4>1. f[n + 1] = 0
        BY <1>1, <2>2, <3>2
      <4>. QED  BY <1>2, <2>2, <3>1, <4>1
    <3>3. CASE n < Len(x) /\ Rank(x[n + 1]) < Rank(y[n + 1])
      <4>1. n + 1 \in 1..Len(x)
        BY <1>1, <2>1, <3>3
      <4>. QED  BY <1>1, <3>1, <3>3, <4>1
    <3>. QED  BY <2>1, <3>2, <3>3
  <2>. QED  BY <1>3, <2>2, <2>3, <2>4, Zenon DEF Lex
<1>5. ASSUME Lex(Place, Less, f, g) PROVE TextPrecedes(x, y)
  <2>1. PICK p \in Place : (\A j \in Place : j < p => f[j] = g[j]) /\ f[p] < g[p]
    BY <1>3, <1>5, Zenon DEF Lex
  <2>2. g[p] # 0 /\ p <= Len(y) /\ p \in Nat /\ 1 <= p
    BY <1>1, <1>2, <2>1 DEF Place
  <2>3. \A j \in 1..p - 1 : j \in Place /\ j \in 1..Len(y) /\ j \in 1..Len(x) /\ f[j] = g[j]
    <3>. SUFFICES ASSUME NEW j \in 1..p - 1
                  PROVE  j \in Place /\ j \in 1..Len(y) /\ j \in 1..Len(x) /\ f[j] = g[j]
      OBVIOUS
    <3>1. j \in Place /\ j < p /\ j \in 1..Len(y)
      BY <1>1, <2>2 DEF Place
    <3>2. f[j] = g[j] /\ g[j] # 0
      BY <1>1, <2>1, <3>1
    <3>3. j <= Len(x)
      BY <1>1, <3>1, <3>2
    <3>. QED  BY <1>1, <3>1, <3>2, <3>3
  <2>4. p - 1 <= Len(x)
    BY <1>1, <2>2, <2>3
  <2>5. \A j \in 1..p - 1 : x[j] = y[j]
    <3>. SUFFICES ASSUME NEW j \in 1..p - 1 PROVE x[j] = y[j]
      OBVIOUS
    <3>1. x[j] \in Character /\ y[j] \in Character /\ Rank(x[j]) = Rank(y[j])
      BY <1>1, <2>3
    <3>. QED  BY <3>1, RankIs, Zenon
  <2>6. SubSeq(x, 1, p - 1) = SubSeq(y, 1, p - 1)
    BY <1>1, <2>2, <2>4, <2>5 DEF Text
  <2>7. p - 1 = Len(x) \/ (p - 1 < Len(x) /\ Rank(x[p]) < Rank(y[p]))
    <3>1. p - 1 < Len(x) => p \in 1..Len(x) /\ p \in 1..Len(y)
      BY <1>1, <2>2
    <3>2. p - 1 < Len(x) => Rank(x[p]) < Rank(y[p])
      BY <1>1, <2>1, <3>1
    <3>. QED  BY <1>1, <2>2, <2>4, <3>2
  <2>8. p - 1 \in 0..Len(x) /\ p - 1 < Len(y) /\ (p - 1) + 1 = p
    BY <1>1, <2>2, <2>4
  <2>. QED  BY <2>6, <2>7, <2>8 DEF TextPrecedes
<1>. QED  BY <1>4, <1>5 DEF f, g

\* So it is strict and total.
LEMMA TextsOrdered ==
  /\ \A x, y \in Text : x = y \/ TextPrecedes(x, y) \/ TextPrecedes(y, x)
  /\ \A x \in Text : ~TextPrecedes(x, x)
  /\ \A x, y, z \in Text : TextPrecedes(x, y) /\ TextPrecedes(y, z) => TextPrecedes(x, z)
<1>1. Place \subseteq Nat
  BY DEF Place
<1>2. /\ \A f, g \in [Place -> Nat] : f = g \/ Lex(Place, Less, f, g) \/ Lex(Place, Less, g, f)
      /\ \A f \in [Place -> Nat] : ~Lex(Place, Less, f, f)
      /\ \A f, g, h \in [Place -> Nat] :
           Lex(Place, Less, f, g) /\ Lex(Place, Less, g, h) => Lex(Place, Less, f, h)
  BY <1>1, LessIsStrict, Lexicographic
<1>3. \A x \in Text : Places(x) \in [Place -> Nat]
  BY PlacesAre, Zenon
<1>4. \A x, y \in Text : TextPrecedes(x, y) <=> Lex(Place, Less, Places(x), Places(y))
  BY TextPrecedesIs, Zenon
<1>5. \A x, y \in Text : Places(x) = Places(y) => x = y
  BY SamePlaces, Zenon
<1>6. \A x, y \in Text : x = y \/ TextPrecedes(x, y) \/ TextPrecedes(y, x)
  BY <1>2, <1>3, <1>4, <1>5, Zenon
<1>7. \A x \in Text : ~TextPrecedes(x, x)
  BY <1>2, <1>3, <1>4, Zenon
<1>8. \A x, y, z \in Text : TextPrecedes(x, y) /\ TextPrecedes(y, z) => TextPrecedes(x, z)
  BY <1>2, <1>3, <1>4, Zenon
<1>. QED  BY <1>6, <1>7, <1>8

\* So is the order of values, wherever NULL goes.
Before(nulls) == {pair \in Valued \X Valued : ValuePrecedes(pair[1], pair[2], nulls)}

\* The set of pairs is the relation.
LEMMA BeforeIs ==
  ASSUME NEW nulls, NEW x \in Valued, NEW y \in Valued
  PROVE  <<x, y>> \in Before(nulls) <=> ValuePrecedes(x, y, nulls)
BY DEF Before

\* Where NULL comes before or behind a value, and how two texts compare.
LEMMA NullBefore ==
  ASSUME NEW nulls, NEW y
  PROVE  ValuePrecedes(Null, y, nulls) <=> y # Null /\ nulls = "low"
<1>1. ASSUME y # Null /\ nulls = "low" PROVE ValuePrecedes(Null, y, nulls)
  BY <1>1 DEF ValuePrecedes
<1>2. ASSUME ~(y # Null /\ nulls = "low") PROVE ~ValuePrecedes(Null, y, nulls)
  BY <1>2 DEF ValuePrecedes
<1>. QED  BY <1>1, <1>2

\* A text comes before NULL where NULL sorts high.
LEMMA NullAfter ==
  ASSUME NEW nulls, NEW x, NEW y, x # Null, y = Null
  PROVE  ValuePrecedes(x, y, nulls) <=> nulls # "low"
BY Zenon DEF ValuePrecedes

\* Texts compare as texts.
LEMMA OtherValues ==
  ASSUME NEW nulls, NEW x, NEW y, x # Null, y # Null
  PROVE  ValuePrecedes(x, y, nulls) <=> TextPrecedes(x, y)
BY Zenon DEF ValuePrecedes

\* The order of values is strict and total, wherever NULL goes.
LEMMA ValuesOrdered ==
  ASSUME NEW nulls
  PROVE  StrictOrder(Before(nulls), Valued)
<1>1. \A x \in Valued : x = Null \/ (x \in Text /\ x # Null)
  BY NullIsNoText, Zenon DEF Valued
<1>2. \A x, y \in Valued : x = Null => (ValuePrecedes(x, y, nulls) <=> y # Null /\ nulls = "low")
  BY NullBefore, Zenon
<1>3. \A x, y \in Valued : x # Null /\ y = Null => (ValuePrecedes(x, y, nulls) <=> nulls # "low")
  BY NullAfter, Zenon
<1>4. \A x, y \in Valued : x # Null /\ y # Null => (ValuePrecedes(x, y, nulls) <=> TextPrecedes(x, y))
  BY OtherValues, Zenon
<1>5. \A x, y \in Valued : x = y \/ ValuePrecedes(x, y, nulls) \/ ValuePrecedes(y, x, nulls)
  <2>. SUFFICES ASSUME NEW x \in Valued, NEW y \in Valued
                PROVE  x = y \/ ValuePrecedes(x, y, nulls) \/ ValuePrecedes(y, x, nulls)
    OBVIOUS
  <2>1. CASE x = Null
    BY <1>2, <1>3, <2>1, Zenon
  <2>2. CASE y = Null
    BY <1>2, <1>3, <2>2, Zenon
  <2>3. CASE x # Null /\ y # Null
    BY <1>1, <1>4, <2>3, TextsOrdered, Zenon
  <2>. QED  BY <2>1, <2>2, <2>3
<1>6. \A x \in Valued : ~ValuePrecedes(x, x, nulls)
  BY <1>1, <1>2, <1>4, TextsOrdered, Zenon
<1>7. ASSUME NEW x \in Valued, NEW y \in Valued, NEW z \in Valued,
             ValuePrecedes(x, y, nulls), ValuePrecedes(y, z, nulls)
      PROVE  ValuePrecedes(x, z, nulls)
  <2>1. CASE x = Null
    BY <1>2, <1>3, <1>7, <2>1, Zenon
  <2>2. CASE x # Null /\ z = Null
    BY <1>2, <1>3, <1>7, <2>2, Zenon
  <2>3. CASE x # Null /\ z # Null /\ y = Null
    BY <1>2, <1>3, <1>7, <2>3, Zenon
  <2>4. CASE x # Null /\ z # Null /\ y # Null
    BY <1>1, <1>4, <1>7, <2>4, TextsOrdered, Zenon
  <2>. QED  BY <2>1, <2>2, <2>3, <2>4, Zenon
<1>8. \A x, y \in Valued : <<x, y>> \in Before(nulls) <=> ValuePrecedes(x, y, nulls)
  BY BeforeIs, Zenon
<1>. QED  BY <1>5, <1>6, <1>7, <1>8, Zenon DEF StrictOrder

\* What a row is sorted by.
KeyValues(r, keys) == [n \in 1..Len(keys) |-> r[keys[n] + 1]]

\* The order of rows is the lexicographic one of what they are sorted by.
LEMMA RowPrecedesIs ==
  ASSUME NEW keys, Len(keys) \in Nat, NEW nulls, NEW r, NEW s,
         KeyValues(r, keys) \in [1..Len(keys) -> Valued], KeyValues(s, keys) \in [1..Len(keys) -> Valued]
  PROVE  RowPrecedes(r, s, keys, nulls)
           <=> Lex(1..Len(keys), Before(nulls), KeyValues(r, keys), KeyValues(s, keys))
<1>. DEFINE D == 1..Len(keys)
            f == KeyValues(r, keys)
            g == KeyValues(s, keys)
<1>1. \A n \in D : f[n] = r[keys[n] + 1] /\ g[n] = s[keys[n] + 1]
  BY DEF KeyValues
<1>2. f \in [D -> Valued] /\ g \in [D -> Valued]
  OBVIOUS
<1>3. \A n \in D : f[n] \in Valued /\ g[n] \in Valued
  <2>. HIDE DEF f, g, D
  <2>. QED  BY <1>2
<1>4. \A n \in D : <<f[n], g[n]>> \in Before(nulls) <=> ValuePrecedes(f[n], g[n], nulls)
  <2>. HIDE DEF f, g, D
  <2>. QED  BY <1>3, BeforeIs, Zenon
<1>5. \A n \in D : \A m : m \in 1..n - 1 <=> m \in D /\ m < n
  OBVIOUS
<1>6. RowPrecedes(r, s, keys, nulls)
        <=> \E n \in D : /\ \A m \in 1..n - 1 : r[keys[m] + 1] = s[keys[m] + 1]
                         /\ ValuePrecedes(r[keys[n] + 1], s[keys[n] + 1], nulls)
  BY DEF RowPrecedes
<1>7. RowPrecedes(r, s, keys, nulls)
        <=> \E n \in D : /\ \A m \in 1..n - 1 : f[m] = g[m]
                         /\ ValuePrecedes(f[n], g[n], nulls)
  <2>1. \A n \in D : (\A m \in 1..n - 1 : r[keys[m] + 1] = s[keys[m] + 1])
                      <=> (\A m \in 1..n - 1 : f[m] = g[m])
    <3>. HIDE DEF f, g, D
    <3>. QED  BY <1>1, <1>5, Zenon
  <2>2. \A n \in D : ValuePrecedes(r[keys[n] + 1], s[keys[n] + 1], nulls)
                      <=> ValuePrecedes(f[n], g[n], nulls)
    <3>. HIDE DEF f, g, D
    <3>. QED  BY <1>1, Zenon
  <2>. HIDE DEF f, g, D
  <2>. QED  BY <1>6, <2>1, <2>2, Zenon
<1>. HIDE DEF f, g, D
<1>8. RowPrecedes(r, s, keys, nulls)
        <=> \E n \in D : /\ \A m \in D : m < n => f[m] = g[m]
                         /\ <<f[n], g[n]>> \in Before(nulls)
  BY <1>4, <1>5, <1>7, Zenon
<1>9. RowPrecedes(r, s, keys, nulls) <=> Lex(D, Before(nulls), f, g)
  BY <1>8, Zenon DEF Lex
<1>. QED  BY <1>9 DEF D, f, g

\* Rows as sort_rows compares them: one of two precedes or they are the same in
\* all that they are sorted by.
LEMMA RowsOrdered ==
  ASSUME NEW keys, Len(keys) \in Nat, NEW nulls, NEW S,
         \A r \in S : KeyValues(r, keys) \in [1..Len(keys) -> Valued]
  PROVE  /\ \A r, s \in S : \/ KeyValues(r, keys) = KeyValues(s, keys)
                            \/ RowPrecedes(r, s, keys, nulls) \/ RowPrecedes(s, r, keys, nulls)
         /\ \A r, s \in S : KeyValues(r, keys) = KeyValues(s, keys) => ~RowPrecedes(r, s, keys, nulls)
         /\ \A r, s, t \in S : RowPrecedes(r, s, keys, nulls) /\ RowPrecedes(s, t, keys, nulls)
                                 => RowPrecedes(r, t, keys, nulls)
         /\ \A r, s, t \in S : KeyValues(r, keys) = KeyValues(s, keys)
                                 => /\ RowPrecedes(r, t, keys, nulls) <=> RowPrecedes(s, t, keys, nulls)
                                    /\ RowPrecedes(t, r, keys, nulls) <=> RowPrecedes(t, s, keys, nulls)
<1>. DEFINE D == 1..Len(keys)
            K(r) == KeyValues(r, keys)
            P(r, s) == RowPrecedes(r, s, keys, nulls)
            L(f, g) == Lex(D, Before(nulls), f, g)
<1>1. /\ \A f, g \in [D -> Valued] : f = g \/ L(f, g) \/ L(g, f)
      /\ \A f \in [D -> Valued] : ~L(f, f)
      /\ \A f, g, h \in [D -> Valued] : L(f, g) /\ L(g, h) => L(f, h)
  <2>1. D \subseteq Nat
    OBVIOUS
  <2>2. StrictOrder(Before(nulls), Valued)
    BY ValuesOrdered
  <2>. HIDE DEF D
  <2>. QED  BY <2>1, <2>2, Lexicographic
<1>2. \A r \in S : K(r) \in [D -> Valued]
  BY Zenon
<1>3. \A r, s \in S : P(r, s) <=> L(K(r), K(s))
  BY RowPrecedesIs, Zenon
<1>. HIDE DEF D, K, P, L
<1>4. \A r, s \in S : K(r) = K(s) \/ P(r, s) \/ P(s, r)
  BY <1>1, <1>2, <1>3, Zenon
<1>5. \A r, s \in S : K(r) = K(s) => ~P(r, s)
  BY <1>1, <1>2, <1>3, Zenon
<1>6. \A r, s, t \in S : P(r, s) /\ P(s, t) => P(r, t)
  BY <1>1, <1>2, <1>3, Zenon
<1>7. \A r, s, t \in S : K(r) = K(s) => (P(r, t) <=> P(s, t)) /\ (P(t, r) <=> P(t, s))
  BY <1>3, Zenon
<1>. QED  BY <1>4, <1>5, <1>6, <1>7, Zenon DEF K, P

\* There are n numbers from 1 to n.
LEMMA Counted ==
  ASSUME NEW n \in Nat
  PROVE  IsFiniteSet(1..n) /\ Cardinality(1..n) = n
<1>1. 1 \in Int /\ n \in Int /\ (1 > n => n = 0)
  OBVIOUS
<1>. QED  BY <1>1, FS_Interval

\* sort_rows gives the same rows, each as often as it was, in an order where
\* none precedes the one before it.
THEOREM SortsRows ==
  ASSUME NEW rows, Len(rows) \in Nat, NEW keys, Len(keys) \in Nat, NEW nulls,
         \A i \in 1..Len(rows) : KeyValues(rows[i], keys) \in [1..Len(keys) -> Valued]
  PROVE  \E at \in [1..Len(rows) -> 1..Len(rows)] :
           /\ sort_rows(rows, keys, nulls) = [k \in 1..Len(rows) |-> rows[at[k]]]
           /\ \A i \in 1..Len(rows) : \E k \in 1..Len(rows) : at[k] = i
           /\ \A k, l \in 1..Len(rows) : at[k] = at[l] => k = l
           /\ \A k \in 2..Len(rows) : ~RowPrecedes(rows[at[k]], rows[at[k - 1]], keys, nulls)
<1>. DEFINE n == Len(rows)
            K(i) == KeyValues(rows[i], keys)
            P(j, i) == RowPrecedes(rows[j], rows[i], keys, nulls)
            Earlier(j, i) == P(j, i) \/ (~P(i, j) /\ j < i)
            E == [i \in 1..n |-> {j \in 1..n : Earlier(j, i)}]
            at == [k \in 1..n |-> CHOOSE i \in 1..n : 1 + Cardinality(E[i]) = k]
<1>1. /\ \A r, s \in 1..n : K(r) = K(s) \/ P(r, s) \/ P(s, r)
      /\ \A r, s \in 1..n : K(r) = K(s) => ~P(r, s)
      /\ \A r, s, t \in 1..n : P(r, s) /\ P(s, t) => P(r, t)
      /\ \A r, s, t \in 1..n : K(r) = K(s) => (P(r, t) <=> P(s, t)) /\ (P(t, r) <=> P(t, s))
  <2>. DEFINE S == {rows[i] : i \in 1..n}
  <2>1. \A r \in S : KeyValues(r, keys) \in [1..Len(keys) -> Valued]
    BY Zenon
  <2>2. \A i \in 1..n : rows[i] \in S
    BY Zenon
  <2>. HIDE DEF S
  <2>3. /\ \A r, s \in S : \/ KeyValues(r, keys) = KeyValues(s, keys)
                           \/ RowPrecedes(r, s, keys, nulls) \/ RowPrecedes(s, r, keys, nulls)
        /\ \A r, s \in S : KeyValues(r, keys) = KeyValues(s, keys) => ~RowPrecedes(r, s, keys, nulls)
        /\ \A r, s, t \in S : RowPrecedes(r, s, keys, nulls) /\ RowPrecedes(s, t, keys, nulls)
                                => RowPrecedes(r, t, keys, nulls)
        /\ \A r, s, t \in S : KeyValues(r, keys) = KeyValues(s, keys)
                                => /\ RowPrecedes(r, t, keys, nulls) <=> RowPrecedes(s, t, keys, nulls)
                                   /\ RowPrecedes(t, r, keys, nulls) <=> RowPrecedes(t, s, keys, nulls)
    BY <2>1, RowsOrdered, Zenon
  <2>. QED  BY <2>2, <2>3, Zenon
<1>2. n \in Nat /\ \A i, j \in 1..n : i \in Nat /\ j \in Nat
  OBVIOUS
<1>. HIDE DEF n, K, P
<1>3. E \in [1..n -> SUBSET (1..n)] /\ \A i, j \in 1..n : j \in E[i] <=> Earlier(j, i)
  OBVIOUS
<1>. HIDE DEF E
<1>4. \A i \in 1..n : i \notin E[i]
  BY <1>1, <1>2, <1>3
<1>5. \A i, j \in 1..n : i = j \/ i \in E[j] \/ j \in E[i]
  BY <1>1, <1>2, <1>3
<1>6. \A i, j \in 1..n : j \in E[i] => E[j] \subseteq E[i]
  <2>. SUFFICES ASSUME NEW i \in 1..n, NEW j \in 1..n, j \in E[i], NEW k \in 1..n, k \in E[j]
                PROVE  k \in E[i]
    BY <1>3
  <2>1. Earlier(j, i) /\ Earlier(k, j)
    BY <1>3, Zenon
  <2>2. CASE P(j, i) /\ P(k, j)
    BY <1>1, <1>3, <2>2, Zenon
  <2>3. CASE P(j, i) /\ ~P(k, j)
    <3>1. K(k) = K(j)
      BY <1>1, <2>1, <2>3, Zenon
    <3>. QED  BY <1>1, <1>3, <2>3, <3>1, Zenon
  <2>4. CASE ~P(j, i) /\ P(k, j)
    <3>1. K(j) = K(i)
      BY <1>1, <2>1, <2>4, Zenon
    <3>. QED  BY <1>1, <1>3, <2>4, <3>1, Zenon
  <2>5. CASE ~P(j, i) /\ ~P(k, j)
    <3>1. K(j) = K(i) /\ K(k) = K(j) /\ j < i /\ k < j
      BY <1>1, <2>1, <2>5, Zenon
    <3>2. k < i
      BY <1>2, <3>1
    <3>3. ~P(i, k)
      BY <1>1, <3>1, Zenon
    <3>. QED  BY <1>3, <3>2, <3>3, Zenon
  <2>. QED  BY <2>2, <2>3, <2>4, <2>5, Zenon
<1>7. /\ \A k \in 1..n : \E i \in 1..n : 1 + Cardinality(E[i]) = k
      /\ \A i, j \in 1..n : 1 + Cardinality(E[i]) = 1 + Cardinality(E[j]) => i = j
      /\ \A i, j \in 1..n : 1 + Cardinality(E[j]) < 1 + Cardinality(E[i]) => j \in E[i]
  BY <1>2, <1>3, <1>4, <1>5, <1>6, Placed
<1>8. \A k \in 1..n : at[k] \in 1..n /\ 1 + Cardinality(E[at[k]]) = k
  <2>. SUFFICES ASSUME NEW k \in 1..n PROVE at[k] \in 1..n /\ 1 + Cardinality(E[at[k]]) = k
    OBVIOUS
  <2>1. at[k] = CHOOSE i \in 1..n : 1 + Cardinality(E[i]) = k
    OBVIOUS
  <2>. HIDE DEF at
  <2>. QED  BY <1>7, <2>1, Zenon
<1>9. at \in [1..n -> 1..n]
  <2>1. at = [k \in 1..n |-> at[k]]
    OBVIOUS
  <2>. HIDE DEF at
  <2>. QED  BY <1>8, <2>1
<1>10. sort_rows(rows, keys, nulls) = [k \in 1..n |-> rows[at[k]]]
  <2>1. \A i \in 1..n : E[i] = {j \in 1..Len(rows) : RowPrecedes(rows[j], rows[i], keys, nulls)
                                   \/ (~RowPrecedes(rows[i], rows[j], keys, nulls) /\ j < i)}
    BY Zenon DEF E, n, P
  <2>2. sort_rows(rows, keys, nulls) =
          [k \in 1..Len(rows) |-> rows[CHOOSE i \in 1..Len(rows) :
             1 + Cardinality({j \in 1..Len(rows) : RowPrecedes(rows[j], rows[i], keys, nulls)
                                \/ (~RowPrecedes(rows[i], rows[j], keys, nulls) /\ j < i)}) = k]]
    BY DEF sort_rows, Sorted
  <2>3. \A k \in 1..n : at[k] = CHOOSE i \in 1..Len(rows) :
             1 + Cardinality({j \in 1..Len(rows) : RowPrecedes(rows[j], rows[i], keys, nulls)
                                \/ (~RowPrecedes(rows[i], rows[j], keys, nulls) /\ j < i)}) = k
    BY <2>1, Zenon DEF n
  <2>. HIDE DEF at
  <2>. QED  BY <2>2, <2>3, Zenon DEF n
<1>. HIDE DEF at, Earlier
<1>11. \A i \in 1..n : \E k \in 1..n : at[k] = i
  <2>. SUFFICES ASSUME NEW i \in 1..n PROVE \E k \in 1..n : at[k] = i
    OBVIOUS
  <2>1. 1 + Cardinality(E[i]) \in 1..n
    <3>1. E[i] \in SUBSET (1..n) /\ E[i] # 1..n
      BY <1>3, <1>4
    <3>2. IsFiniteSet(1..n) /\ Cardinality(1..n) = n
      BY <1>2, Counted
    <3>3. /\ IsFiniteSet(E[i]) /\ Cardinality(E[i]) <= Cardinality(1..n)
          /\ (Cardinality(1..n) = Cardinality(E[i]) => 1..n = E[i])
      BY <3>1, <3>2, FS_Subset, Zenon
    <3>4. Cardinality(E[i]) \in Nat
      BY <3>3, FS_CardinalityType, Zenon
    <3>. QED  BY <1>2, <3>1, <3>2, <3>3, <3>4
  <2>. QED  BY <1>7, <1>8, <2>1, Zenon
<1>12. \A k, l \in 1..n : at[k] = at[l] => k = l
  BY <1>8, Zenon
<1>13. \A k \in 2..n : ~P(at[k], at[k - 1])
  <2>. SUFFICES ASSUME NEW k \in 2..n PROVE ~P(at[k], at[k - 1])
    OBVIOUS
  <2>1. k \in 1..n /\ k - 1 \in 1..n /\ k - 1 < k
    BY <1>2
  <2>2. at[k - 1] \in E[at[k]] /\ at[k] \in 1..n /\ at[k - 1] \in 1..n
    BY <1>7, <1>8, <2>1, Zenon
  <2>3. P(at[k - 1], at[k]) \/ ~P(at[k], at[k - 1])
    BY <1>3, <2>2, Zenon DEF Earlier
  <2>. QED  BY <1>1, <2>2, <2>3, Zenon
<1>. QED  BY <1>9, <1>10, <1>11, <1>12, <1>13, Zenon DEF n, P

\* The columns that never lack a value, and the ones rows are sorted by.
NeverNull == {"TABLE_NAME", "PKTABLE_NAME", "FKTABLE_NAME", "PROCEDURE_NAME", "COLUMN_NAME", "PKCOLUMN_NAME",
              "FKCOLUMN_NAME", "GRANTEE", "PRIVILEGE", "KEY_SEQ", "TYPE", "COLUMN_TYPE", "ORDINAL_POSITION",
              "DATA_TYPE", "TYPE_NAME", "NULLABLE", "SQL_DATA_TYPE"}
Key == {"TABLE_CAT", "TABLE_SCHEM", "TABLE_NAME", "PKTABLE_CAT", "PKTABLE_SCHEM", "PKTABLE_NAME",
        "FKTABLE_CAT", "FKTABLE_SCHEM", "FKTABLE_NAME", "PROCEDURE_CAT", "PROCEDURE_SCHEM", "PROCEDURE_NAME",
        "TABLE_TYPE", "COLUMN_NAME", "KEY_SEQ", "ORDINAL_POSITION", "NON_UNIQUE", "TYPE", "INDEX_QUALIFIER",
        "INDEX_NAME", "SCOPE", "COLUMN_TYPE", "PRIVILEGE", "GRANTEE"}

\* Columns as described and values as pushed stand for the same, one by one.
Alike(columns, values, n) ==
  /\ DOMAIN columns = 1..n /\ Len(columns) = n /\ Len(values) = n
  /\ \A k \in 1..n : /\ columns[k][1] = values[k][1] /\ columns[k][2] = values[k][2]
                     /\ ~columns[k][3] => columns[k][1] \in NeverNull

\* The catalog functions, by name.
LEMMA CatalogFunctions ==
  CatalogFunction = {"Tables", "Columns", "PrimaryKeys", "ForeignKeys", "Statistics", "SpecialColumns",
                     "Procedures", "ProcedureColumns", "ColumnPrivileges", "TablePrivileges"}
BY DEF CatalogFunction, Arguments

\* Where a column must have a value, it is one that always has.
Fillable(columns, n) == Row(columns, n) /\ \A k \in 1..n : ~columns[k][3] => columns[k][1] \in NeverNull

\* So are two such lists of columns, one behind the other.
LEMMA FillableJoined ==
  ASSUME NEW s, NEW t, NEW m \in Nat, NEW n \in Nat, Fillable(s, m), Fillable(t, n)
  PROVE  Fillable(s \o t, m + n)
<1>1. PICK S : s \in Seq(S) /\ Len(s) = m
  BY DEF Row, Fillable
<1>2. PICK T : t \in Seq(T) /\ Len(t) = n
  BY DEF Row, Fillable
<1>3. s \in Seq(S \cup T) /\ t \in Seq(S \cup T)
  BY <1>1, <1>2
<1>4. \A k \in 1..m + n : IF k <= m THEN k \in 1..m /\ (s \o t)[k] = s[k]
                          ELSE k - m \in 1..n /\ (s \o t)[k] = t[k - m]
  BY <1>1, <1>2, <1>3
<1>5. /\ \A k \in 1..m : ~s[k][3] => s[k][1] \in NeverNull
      /\ \A k \in 1..n : ~t[k][3] => t[k][1] \in NeverNull
  BY DEF Fillable
<1>6. Row(s \o t, m + n)
  BY RowsJoined DEF Fillable
<1>7. ASSUME NEW k \in 1..m + n PROVE ~(s \o t)[k][3] => (s \o t)[k][1] \in NeverNull
  <2>1. CASE k <= m
    BY <1>4, <1>5, <2>1, Zenon
  <2>2. CASE ~(k <= m)
    BY <1>4, <1>5, <2>2, Zenon
  <2>. QED  BY <2>1, <2>2
<1>. QED  BY <1>6, <1>7 DEF Fillable

\* So it is of the result set of every catalog function.
LEMMA FillableColumns ==
  /\ Fillable(TablesColumns, 5)
  /\ Fillable(ColumnsColumns, 18)
  /\ Fillable(PrimaryKeysColumns, 6)
  /\ Fillable(ForeignKeysColumns, 14)
  /\ Fillable(statistics_columns, 13)
  /\ Fillable(special_columns_columns, 8)
  /\ Fillable(procedures_columns, 8)
  /\ Fillable(procedure_columns_columns, 19)
  /\ Fillable(column_privileges_columns, 8)
  /\ Fillable(table_privileges_columns, 7)
<1>1. /\ Fillable(ATable, 3) /\ Fillable(AProcedure, 3)
      /\ Fillable(Object("PKTABLE_CAT", "PKTABLE_SCHEM", "PKTABLE_NAME"), 3)
      /\ Fillable(Object("FKTABLE_CAT", "FKTABLE_SCHEM", "FKTABLE_NAME"), 3)
  <2>1. ASSUME NEW catalog, NEW schema, NEW name \in NeverNull
        PROVE  Fillable(Object(catalog, schema, name), 3)
    <3>. DEFINE s == Object(catalog, schema, name)
    <3>1. s[1][3] /\ s[2][3] /\ s[3][1] \in NeverNull
      BY DEF Object, Described, identifier, identifierNoNulls
    <3>2. \A k \in 1..3 : ~s[k][3] => s[k][1] \in NeverNull
      <4>. HIDE DEF s
      <4>. QED  BY <3>1
    <3>. QED  BY <3>2, RowParts DEF Fillable
  <2>2. {"TABLE_NAME", "PROCEDURE_NAME", "PKTABLE_NAME", "FKTABLE_NAME"} \subseteq NeverNull
    BY DEF NeverNull
  <2>. QED  BY <2>1, <2>2 DEF ATable, AProcedure
<1>5. Fillable(AboutAType, 14)
  <2>. DEFINE s == AboutAType
  <2>1. s[1][1] \in NeverNull /\ s[2][1] \in NeverNull /\ s[3][3] /\ s[4][3] /\ s[5][3] /\ s[6][3]
          /\ s[7][1] \in NeverNull /\ s[8][3] /\ s[9][3] /\ s[10][1] \in NeverNull /\ s[11][3] /\ s[12][3]
          /\ s[13][1] \in NeverNull /\ s[14][3]
    BY DEF AboutAType, NeverNull, Described, identifier, identifierNoNulls, smallint, smallintNoNulls, integer,
           integerNoNulls
  <2>2. \A k \in 1..14 : ~s[k][3] => s[k][1] \in NeverNull
    <3>. HIDE DEF s
    <3>. QED  BY <2>1
  <2>3. Row(s, 14)
    BY RowOf14 DEF AboutAType
  <2>. QED  BY <2>2, <2>3 DEF Fillable
<1>6. Fillable(Granted, 4)
  <2>. DEFINE s == Granted
  <2>1. s[1][3] /\ s[2][1] \in NeverNull /\ s[3][1] \in NeverNull /\ s[4][3]
    BY DEF Granted, NeverNull, Described, identifier, identifierNoNulls
  <2>2. \A k \in 1..4 : ~s[k][3] => s[k][1] \in NeverNull
    <3>. HIDE DEF s
    <3>. QED  BY <2>1
  <2>3. Row(s, 4)
    BY RowOf4 DEF Granted
  <2>. QED  BY <2>2, <2>3 DEF Fillable
<1>7. ASSUME NEW name \in {"COLUMN_NAME", "PKCOLUMN_NAME"} PROVE Fillable(<<identifierNoNulls(name)>>, 1)
  <2>. DEFINE s == <<identifierNoNulls(name)>>
  <2>1. s[1][1] \in NeverNull
    BY DEF NeverNull, Described, identifierNoNulls
  <2>2. \A k \in 1..1 : ~s[k][3] => s[k][1] \in NeverNull
    <3>. HIDE DEF s
    <3>. QED  BY <2>1
  <2>3. Row(s, 1)
    BY RowOf1
  <2>. QED  BY <2>2, <2>3 DEF Fillable
<1>. DEFINE keyed == <<identifierNoNulls("COLUMN_NAME"), smallintNoNulls("KEY_SEQ"), identifier("PK_NAME")>>
<1>9. Fillable(keyed, 3)
  <2>1. keyed[1][1] \in NeverNull /\ keyed[2][1] \in NeverNull /\ keyed[3][3]
    BY DEF NeverNull, Described, identifier, identifierNoNulls, smallint, smallintNoNulls
  <2>2. \A k \in 1..3 : ~keyed[k][3] => keyed[k][1] \in NeverNull
    <3>. HIDE DEF keyed
    <3>. QED  BY <2>1
  <2>3. Row(keyed, 3)
    BY RowOf3
  <2>. QED  BY <2>2, <2>3 DEF Fillable
<1>. DEFINE fk == <<identifierNoNulls("FKCOLUMN_NAME"), smallintNoNulls("KEY_SEQ"), smallint("UPDATE_RULE"),
                    smallint("DELETE_RULE"), identifier("FK_NAME"), identifier("PK_NAME"),
                    smallint("DEFERRABILITY")>>
<1>10. Fillable(fk, 7)
  <2>1. fk[1][1] \in NeverNull /\ fk[2][1] \in NeverNull /\ fk[3][3] /\ fk[4][3] /\ fk[5][3] /\ fk[6][3] /\ fk[7][3]
    BY DEF NeverNull, Described, identifier, identifierNoNulls, smallint, smallintNoNulls
  <2>2. \A k \in 1..7 : ~fk[k][3] => fk[k][1] \in NeverNull
    <3>. HIDE DEF fk
    <3>. QED  BY <2>1
  <2>3. Row(fk, 7)
    BY RowOf7
  <2>. QED  BY <2>2, <2>3 DEF Fillable
<1>. DEFINE ix == <<smallint("NON_UNIQUE"), identifier("INDEX_QUALIFIER"), identifier("INDEX_NAME"),
                    smallintNoNulls("TYPE"), smallint("ORDINAL_POSITION"), identifier("COLUMN_NAME"),
                    identifier("ASC_OR_DESC"), integer("CARDINALITY"), integer("PAGES"),
                    identifier("FILTER_CONDITION")>>
<1>11. Fillable(ix, 10)
  <2>1. ix[1][3] /\ ix[2][3] /\ ix[3][3] /\ ix[4][1] \in NeverNull /\ ix[5][3] /\ ix[6][3] /\ ix[7][3] /\ ix[8][3]
          /\ ix[9][3] /\ ix[10][3]
    BY DEF NeverNull, Described, identifier, smallint, smallintNoNulls, integer
  <2>2. \A k \in 1..10 : ~ix[k][3] => ix[k][1] \in NeverNull
    <3>. HIDE DEF ix
    <3>. QED  BY <2>1
  <2>3. Row(ix, 10)
    BY RowOf10
  <2>. QED  BY <2>2, <2>3 DEF Fillable
<1>. DEFINE counted == <<smallint("NUM_INPUT_PARAMS"), smallint("NUM_OUTPUT_PARAMS"), smallint("NUM_RESULT_SETS"),
                         identifier("REMARKS"), smallint("PROCEDURE_TYPE")>>
<1>12. Fillable(counted, 5)
  <2>1. counted[1][3] /\ counted[2][3] /\ counted[3][3] /\ counted[4][3] /\ counted[5][3]
    BY DEF NeverNull, Described, identifier, smallint
  <2>2. \A k \in 1..5 : ~counted[k][3] => counted[k][1] \in NeverNull
    <3>. HIDE DEF counted
    <3>. QED  BY <2>1
  <2>3. Row(counted, 5)
    BY RowOf5
  <2>. QED  BY <2>2, <2>3 DEF Fillable
<1>. DEFINE typed == <<identifierNoNulls("COLUMN_NAME"), smallintNoNulls("COLUMN_TYPE")>>
<1>13. Fillable(typed, 2)
  <2>1. typed[1][1] \in NeverNull /\ typed[2][1] \in NeverNull
    BY DEF NeverNull, Described, identifierNoNulls, smallint, smallintNoNulls
  <2>2. \A k \in 1..2 : ~typed[k][3] => typed[k][1] \in NeverNull
    <3>. HIDE DEF typed
    <3>. QED  BY <2>1
  <2>3. Row(typed, 2)
    BY RowOf2
  <2>. QED  BY <2>2, <2>3 DEF Fillable
<1>14. Fillable(TablesColumns, 5)
  <2>. DEFINE s == TablesColumns
  <2>1. s[1][3] /\ s[2][3] /\ s[3][3] /\ s[4][3] /\ s[5][3]
    BY DEF TablesColumns, NeverNull, Described, identifier
  <2>2. \A k \in 1..5 : ~s[k][3] => s[k][1] \in NeverNull
    <3>. HIDE DEF s
    <3>. QED  BY <2>1
  <2>3. Row(s, 5)
    BY RowOf5 DEF TablesColumns
  <2>. QED  BY <2>2, <2>3 DEF Fillable
<1>15. Fillable(special_columns_columns, 8)
  <2>. DEFINE s == special_columns_columns
  <2>1. s[1][3] /\ s[2][1] \in NeverNull /\ s[3][1] \in NeverNull /\ s[4][1] \in NeverNull /\ s[5][3] /\ s[6][3]
          /\ s[7][3] /\ s[8][3]
    BY DEF special_columns_columns, NeverNull, Described, identifierNoNulls, smallint, smallintNoNulls, integer
  <2>2. \A k \in 1..8 : ~s[k][3] => s[k][1] \in NeverNull
    <3>. HIDE DEF s
    <3>. QED  BY <2>1
  <2>3. Row(s, 8)
    BY RowOf8 DEF special_columns_columns
  <2>. QED  BY <2>2, <2>3 DEF Fillable
<1>16. Fillable(ColumnsColumns, 18)
  BY <1>1, <1>7, <1>5, FillableJoined DEF ColumnsColumns
<1>17. Fillable(PrimaryKeysColumns, 6)
  BY <1>1, <1>9, FillableJoined DEF PrimaryKeysColumns
<1>18. Fillable(ForeignKeysColumns, 14)
  BY <1>1, <1>7, <1>10, FillableJoined DEF ForeignKeysColumns
<1>19. Fillable(statistics_columns, 13)
  BY <1>1, <1>11, FillableJoined DEF statistics_columns
<1>20. Fillable(procedures_columns, 8)
  BY <1>1, <1>12, FillableJoined DEF procedures_columns
<1>21. Fillable(procedure_columns_columns, 19)
  BY <1>1, <1>13, <1>5, FillableJoined DEF procedure_columns_columns
<1>22. Fillable(column_privileges_columns, 8)
  BY <1>1, <1>7, <1>6, FillableJoined DEF column_privileges_columns
<1>23. Fillable(table_privileges_columns, 7)
  BY <1>1, <1>6, FillableJoined DEF table_privileges_columns
<1>. QED  BY <1>14, <1>15, <1>16, <1>17, <1>18, <1>19, <1>20, <1>21, <1>22, <1>23

\* The columns of each result set are described as the row structs push them.
LEMMA ColumnsAlike ==
  ASSUME NEW f \in CatalogFunction
  PROVE  \E n \in Nat : Alike(Columns[f], Values[f], n)
<1>1. CASE f = "Tables"
  <2>1. Columns[f] = TablesColumns /\ Values[f] = TableRow
    BY <1>1 DEF Columns, Values
  <2>2. DOMAIN TablesColumns = 1..5 /\ Len(TablesColumns) = 5 /\ Len(TableRow) = 5
    BY DEF TablesColumns, TableRow
  <2>3. \A k \in 1..5 : TablesColumns[k][1] = TableRow[k][1] /\ TablesColumns[k][2] = TableRow[k][2]
    BY DEF TablesColumns, TableRow, Described, identifier, Value, OptStr
  <2>. QED  BY <2>1, <2>2, <2>3, FillableColumns DEF Alike, Fillable
<1>2. CASE f = "Columns"
  <2>1. Columns[f] = ColumnsColumns /\ Values[f] = ColumnRow
    BY <1>2 DEF Columns, Values
  <2>2. DOMAIN ColumnsColumns = 1..18 /\ Len(ColumnsColumns) = 18 /\ Len(ColumnRow) = 18
    BY DEF ColumnsColumns, ColumnRow, Object, ATable, AboutAType, NamedRow, TableValues, TypeValues
  <2>3. \A k \in 1..18 : ColumnsColumns[k][1] = ColumnRow[k][1] /\ ColumnsColumns[k][2] = ColumnRow[k][2]
    BY DEF ColumnsColumns, ColumnRow, Object, ATable, AboutAType, NamedRow, TableValues, TypeValues, Described,
           identifier, identifierNoNulls, smallint, smallintNoNulls, integer, integerNoNulls, Value, OptStr,
           Str, OptI16, I16, OptI32, I32
  <2>. QED  BY <2>1, <2>2, <2>3, FillableColumns DEF Alike, Fillable
<1>3. CASE f = "PrimaryKeys"
  <2>1. Columns[f] = PrimaryKeysColumns /\ Values[f] = PrimaryKeyRow
    BY <1>3 DEF Columns, Values
  <2>2. DOMAIN PrimaryKeysColumns = 1..6 /\ Len(PrimaryKeysColumns) = 6 /\ Len(PrimaryKeyRow) = 6
    BY DEF PrimaryKeysColumns, PrimaryKeyRow, Object, ATable, NamedRow, TableValues
  <2>3. \A k \in 1..6 : PrimaryKeysColumns[k][1] = PrimaryKeyRow[k][1]
          /\ PrimaryKeysColumns[k][2] = PrimaryKeyRow[k][2]
    BY DEF PrimaryKeysColumns, PrimaryKeyRow, Object, ATable, NamedRow, TableValues, Described, identifier,
           identifierNoNulls, smallint, smallintNoNulls, Value, OptStr, Str, I16
  <2>. QED  BY <2>1, <2>2, <2>3, FillableColumns DEF Alike, Fillable
<1>4. CASE f = "ForeignKeys"
  <2>1. Columns[f] = ForeignKeysColumns /\ Values[f] = ForeignKeyRow
    BY <1>4 DEF Columns, Values
  <2>2. DOMAIN ForeignKeysColumns = 1..14 /\ Len(ForeignKeysColumns) = 14 /\ Len(ForeignKeyRow) = 14
    BY DEF ForeignKeysColumns, ForeignKeyRow, Object, NamedRow, PkTableValues, FkTableValues
  <2>3. \A k \in 1..14 : ForeignKeysColumns[k][1] = ForeignKeyRow[k][1]
          /\ ForeignKeysColumns[k][2] = ForeignKeyRow[k][2]
    BY DEF ForeignKeysColumns, ForeignKeyRow, Object, NamedRow, PkTableValues, FkTableValues, Described,
           identifier, identifierNoNulls, smallint, smallintNoNulls, Value, OptStr, Str, OptI16, I16
  <2>. QED  BY <2>1, <2>2, <2>3, FillableColumns DEF Alike, Fillable
<1>5. CASE f = "Statistics"
  <2>1. Columns[f] = statistics_columns /\ Values[f] = StatisticsRow
    BY <1>5 DEF Columns, Values
  <2>2. DOMAIN statistics_columns = 1..13 /\ Len(statistics_columns) = 13 /\ Len(StatisticsRow) = 13
    BY DEF statistics_columns, StatisticsRow, Object, ATable, NamedRow, TableValues
  <2>3. \A k \in 1..13 : statistics_columns[k][1] = StatisticsRow[k][1]
          /\ statistics_columns[k][2] = StatisticsRow[k][2]
    BY DEF statistics_columns, StatisticsRow, Object, ATable, NamedRow, TableValues, Described, identifier,
           identifierNoNulls, smallint, smallintNoNulls, integer, Value, OptStr, Str, OptI16, I16, OptI32
  <2>. QED  BY <2>1, <2>2, <2>3, FillableColumns DEF Alike, Fillable
<1>6. CASE f = "SpecialColumns"
  <2>1. Columns[f] = special_columns_columns /\ Values[f] = SpecialColumnRow
    BY <1>6 DEF Columns, Values
  <2>2. DOMAIN special_columns_columns = 1..8 /\ Len(special_columns_columns) = 8 /\ Len(SpecialColumnRow) = 8
    BY DEF special_columns_columns, SpecialColumnRow
  <2>3. \A k \in 1..8 : special_columns_columns[k][1] = SpecialColumnRow[k][1]
          /\ special_columns_columns[k][2] = SpecialColumnRow[k][2]
    BY DEF special_columns_columns, SpecialColumnRow, Described, identifierNoNulls, smallint, smallintNoNulls,
           integer, Value, Str, OptI16, I16, OptI32
  <2>. QED  BY <2>1, <2>2, <2>3, FillableColumns DEF Alike, Fillable
<1>7. CASE f = "Procedures"
  <2>1. Columns[f] = procedures_columns /\ Values[f] = ProcedureRow
    BY <1>7 DEF Columns, Values
  <2>2. DOMAIN procedures_columns = 1..8 /\ Len(procedures_columns) = 8 /\ Len(ProcedureRow) = 8
    BY DEF procedures_columns, ProcedureRow, Object, AProcedure, NamedRow, ProcedureValues
  <2>3. \A k \in 1..8 : procedures_columns[k][1] = ProcedureRow[k][1]
          /\ procedures_columns[k][2] = ProcedureRow[k][2]
    BY DEF procedures_columns, ProcedureRow, Object, AProcedure, NamedRow, ProcedureValues, Described,
           identifier, identifierNoNulls, smallint, Value, OptStr, Str, OptI16
  <2>. QED  BY <2>1, <2>2, <2>3, FillableColumns DEF Alike, Fillable
<1>8. CASE f = "ProcedureColumns"
  <2>1. Columns[f] = procedure_columns_columns /\ Values[f] = ProcedureColumnRow
    BY <1>8 DEF Columns, Values
  <2>2. DOMAIN procedure_columns_columns = 1..19 /\ Len(procedure_columns_columns) = 19
          /\ Len(ProcedureColumnRow) = 19
    BY DEF procedure_columns_columns, ProcedureColumnRow, Object, AProcedure, AboutAType, NamedRow,
           ProcedureValues, TypeValues
  <2>3. \A k \in 1..19 : procedure_columns_columns[k][1] = ProcedureColumnRow[k][1]
          /\ procedure_columns_columns[k][2] = ProcedureColumnRow[k][2]
    BY DEF procedure_columns_columns, ProcedureColumnRow, Object, AProcedure, AboutAType, NamedRow,
           ProcedureValues, TypeValues, Described, identifier, identifierNoNulls, smallint, smallintNoNulls,
           integer, integerNoNulls, Value, OptStr, Str, OptI16, I16, OptI32, I32
  <2>. QED  BY <2>1, <2>2, <2>3, FillableColumns DEF Alike, Fillable
<1>9. CASE f = "ColumnPrivileges"
  <2>1. Columns[f] = column_privileges_columns /\ Values[f] = ColumnPrivilegeRow
    BY <1>9 DEF Columns, Values
  <2>2. DOMAIN column_privileges_columns = 1..8 /\ Len(column_privileges_columns) = 8
          /\ Len(ColumnPrivilegeRow) = 8
    BY DEF column_privileges_columns, ColumnPrivilegeRow, Object, ATable, Granted, NamedRow, TableValues,
           GrantValues
  <2>3. \A k \in 1..8 : column_privileges_columns[k][1] = ColumnPrivilegeRow[k][1]
          /\ column_privileges_columns[k][2] = ColumnPrivilegeRow[k][2]
    BY DEF column_privileges_columns, ColumnPrivilegeRow, Object, ATable, Granted, NamedRow, TableValues,
           GrantValues, Described, identifier, identifierNoNulls, Value, OptStr, Str
  <2>. QED  BY <2>1, <2>2, <2>3, FillableColumns DEF Alike, Fillable
<1>10. CASE f = "TablePrivileges"
  <2>1. Columns[f] = table_privileges_columns /\ Values[f] = TablePrivilegeRow
    BY <1>10 DEF Columns, Values
  <2>2. DOMAIN table_privileges_columns = 1..7 /\ Len(table_privileges_columns) = 7
          /\ Len(TablePrivilegeRow) = 7
    BY DEF table_privileges_columns, TablePrivilegeRow, Object, ATable, Granted, NamedRow, TableValues,
           GrantValues
  <2>3. \A k \in 1..7 : table_privileges_columns[k][1] = TablePrivilegeRow[k][1]
          /\ table_privileges_columns[k][2] = TablePrivilegeRow[k][2]
    BY DEF table_privileges_columns, TablePrivilegeRow, Object, ATable, Granted, NamedRow, TableValues,
           GrantValues, Described, identifier, identifierNoNulls, Value, OptStr, Str
  <2>. QED  BY <2>1, <2>2, <2>3, FillableColumns DEF Alike, Fillable
<1>. QED  BY CatalogFunctions, <1>1, <1>2, <1>3, <1>4, <1>5, <1>6, <1>7, <1>8, <1>9, <1>10

\* What sort_rows is given are the columns the rows are documented to be ordered by.
Ordering(c, keys) ==
  /\ Len(keys) \in Nat
  /\ DOMAIN OrderedBy(c) = 1..Len(keys)
  /\ \A n \in 1..Len(keys) :
       /\ keys[n] + 1 \in DOMAIN Columns[c.f]
       /\ OrderedBy(c)[n] \in Key
       /\ Columns[c.f][keys[n] + 1][1] = OrderedBy(c)[n]
       /\ \A k \in DOMAIN Columns[c.f] : Columns[c.f][k][1] = OrderedBy(c)[n] => k = keys[n] + 1

\* The sort keys of each catalog function are at the columns of its documented order.
LEMMA OrderTables ==
  ASSUME NEW c, c.f = "Tables"
  PROVE  Ordering(c, <<3, 0, 1, 2>>)
<1>1. OrderedBy(c) = <<"TABLE_TYPE">> \o ThreePart
  BY DEF OrderedBy
<1>2. Columns[c.f] = TablesColumns
  BY DEF Columns
<1>3. DOMAIN TablesColumns = 1..5
  BY DEF TablesColumns
<1>4. /\ DOMAIN OrderedBy(c) = 1..4
      /\ OrderedBy(c)[1] = "TABLE_TYPE" /\ OrderedBy(c)[2] = "TABLE_CAT"
      /\ OrderedBy(c)[3] = "TABLE_SCHEM" /\ OrderedBy(c)[4] = "TABLE_NAME"
  BY <1>1 DEF ThreePart
<1>5. /\ TablesColumns[1][1] = "TABLE_CAT" /\ TablesColumns[2][1] = "TABLE_SCHEM"
      /\ TablesColumns[3][1] = "TABLE_NAME" /\ TablesColumns[4][1] = "TABLE_TYPE"
      /\ TablesColumns[5][1] = "REMARKS"
  BY DEF TablesColumns, Described, identifier
<1>6. {"TABLE_TYPE", "TABLE_CAT", "TABLE_SCHEM", "TABLE_NAME"} \subseteq Key
  BY DEF Key
<1>7. \A n \in 1..4 :
        LET column == <<3, 0, 1, 2>>[n] + 1
        IN  /\ column \in 1..5 /\ OrderedBy(c)[n] \in Key /\ TablesColumns[column][1] = OrderedBy(c)[n]
            /\ \A k \in 1..5 : TablesColumns[k][1] = OrderedBy(c)[n] => k = column
  <2>1. \A n \in 1..4 : n = 1 \/ n = 2 \/ n = 3 \/ n = 4
    OBVIOUS
  <2>2. \A k \in 1..5 : k = 1 \/ k = 2 \/ k = 3 \/ k = 4 \/ k = 5
    OBVIOUS
  <2>. QED  BY <1>4, <1>5, <1>6, <2>1, <2>2
<1>. QED  BY <1>2, <1>3, <1>4, <1>7 DEF Ordering

\* The keys of SQLColumns.
LEMMA OrderColumns ==
  ASSUME NEW c, c.f = "Columns"
  PROVE  Ordering(c, <<0, 1, 2, 16>>)
<1>1. OrderedBy(c) = Append(ThreePart, "ORDINAL_POSITION")
  BY DEF OrderedBy
<1>2. Columns[c.f] = ColumnsColumns
  BY DEF Columns
<1>3. DOMAIN ColumnsColumns = 1..18
  BY DEF ColumnsColumns, Object, ATable, AboutAType
<1>. QED  BY <1>1, <1>2, <1>3 DEF Ordering, Key, ThreePart, Arguments, ColumnsColumns, Object, ATable,
                                  AboutAType, Described, identifier, identifierNoNulls, smallint,
                                  smallintNoNulls, integer, integerNoNulls

\* The keys of SQLPrimaryKeys.
LEMMA OrderPrimaryKeys ==
  ASSUME NEW c, c.f = "PrimaryKeys"
  PROVE  Ordering(c, <<0, 1, 2, 4>>)
<1>1. OrderedBy(c) = Append(ThreePart, "KEY_SEQ")
  BY DEF OrderedBy
<1>2. Columns[c.f] = PrimaryKeysColumns
  BY DEF Columns
<1>3. DOMAIN PrimaryKeysColumns = 1..6
  BY DEF PrimaryKeysColumns, Object, ATable
<1>. QED  BY <1>1, <1>2, <1>3 DEF Ordering, Key, ThreePart, Arguments, PrimaryKeysColumns, Object, ATable,
                                  Described, identifier, identifierNoNulls, smallint, smallintNoNulls

\* SQLForeignKeys of a primary key table: by the foreign key tables.
LEMMA OrderForeignKeysOf ==
  ASSUME NEW c, c.f = "ForeignKeys", c.args[3] # Null
  PROVE  Ordering(c, <<4, 5, 6, 8>>)
<1>1. OrderedBy(c) = <<"FKTABLE_CAT", "FKTABLE_SCHEM", "FKTABLE_NAME", "KEY_SEQ">>
  BY DEF OrderedBy
<1>2. Columns[c.f] = ForeignKeysColumns
  BY DEF Columns
<1>3. DOMAIN ForeignKeysColumns = 1..14
  BY DEF ForeignKeysColumns, Object
<1>. QED  BY <1>1, <1>2, <1>3 DEF Ordering, Key, ThreePart, Arguments, ForeignKeysColumns, Object, Described,
                                  identifier, identifierNoNulls, smallint, smallintNoNulls

\* SQLForeignKeys of a foreign key table: by the primary key tables.
LEMMA OrderForeignKeysTo ==
  ASSUME NEW c, c.f = "ForeignKeys", c.args[3] = Null
  PROVE  Ordering(c, <<0, 1, 2, 8>>)
<1>1. OrderedBy(c) = <<"PKTABLE_CAT", "PKTABLE_SCHEM", "PKTABLE_NAME", "KEY_SEQ">>
  BY DEF OrderedBy
<1>2. Columns[c.f] = ForeignKeysColumns
  BY DEF Columns
<1>3. DOMAIN ForeignKeysColumns = 1..14
  BY DEF ForeignKeysColumns, Object
<1>. QED  BY <1>1, <1>2, <1>3 DEF Ordering, Key, ThreePart, Arguments, ForeignKeysColumns, Object, Described,
                                  identifier, identifierNoNulls, smallint, smallintNoNulls

\* The keys of SQLStatistics.
LEMMA OrderStatistics ==
  ASSUME NEW c, c.f = "Statistics"
  PROVE  Ordering(c, <<3, 6, 4, 5, 7>>)
<1>1. OrderedBy(c) = <<"NON_UNIQUE", "TYPE", "INDEX_QUALIFIER", "INDEX_NAME", "ORDINAL_POSITION">>
  BY DEF OrderedBy
<1>2. Columns[c.f] = statistics_columns
  BY DEF Columns
<1>3. DOMAIN statistics_columns = 1..13
  BY DEF statistics_columns, Object, ATable
<1>. QED  BY <1>1, <1>2, <1>3 DEF Ordering, Key, ThreePart, Arguments, statistics_columns, Object, ATable,
                                  Described, identifier, identifierNoNulls, smallint, smallintNoNulls, integer

\* The keys of SQLSpecialColumns.
LEMMA OrderSpecialColumns ==
  ASSUME NEW c, c.f = "SpecialColumns"
  PROVE  Ordering(c, <<0>>)
<1>1. OrderedBy(c) = <<"SCOPE">>
  BY DEF OrderedBy
<1>2. Columns[c.f] = special_columns_columns
  BY DEF Columns
<1>3. DOMAIN special_columns_columns = 1..8
  BY DEF special_columns_columns
<1>. QED  BY <1>1, <1>2, <1>3 DEF Ordering, Key, ThreePart, Arguments, special_columns_columns, Described,
                                  identifierNoNulls, smallint, smallintNoNulls, integer

\* The keys of SQLProcedures.
LEMMA OrderProcedures ==
  ASSUME NEW c, c.f = "Procedures"
  PROVE  Ordering(c, <<0, 1, 2>>)
<1>1. OrderedBy(c) = Arguments["Procedures"]
  BY DEF OrderedBy
<1>2. Columns[c.f] = procedures_columns
  BY DEF Columns
<1>3. DOMAIN procedures_columns = 1..8
  BY DEF procedures_columns, Object, AProcedure
<1>. QED  BY <1>1, <1>2, <1>3 DEF Ordering, Key, ThreePart, Arguments, procedures_columns, Object, AProcedure,
                                  Described, identifier, identifierNoNulls, smallint

\* The keys of SQLProcedureColumns.
LEMMA OrderProcedureColumns ==
  ASSUME NEW c, c.f = "ProcedureColumns"
  PROVE  Ordering(c, <<0, 1, 2, 4>>)
<1>1. OrderedBy(c) = Append(Arguments["Procedures"], "COLUMN_TYPE")
  BY DEF OrderedBy
<1>2. Columns[c.f] = procedure_columns_columns
  BY DEF Columns
<1>3. DOMAIN procedure_columns_columns = 1..19
  BY DEF procedure_columns_columns, Object, AProcedure, AboutAType
<1>. QED  BY <1>1, <1>2, <1>3 DEF Ordering, Key, ThreePart, Arguments, procedure_columns_columns, Object,
                                  AProcedure, AboutAType, Described, identifier, identifierNoNulls, smallint,
                                  smallintNoNulls, integer, integerNoNulls

\* The keys of SQLColumnPrivileges.
LEMMA OrderColumnPrivileges ==
  ASSUME NEW c, c.f = "ColumnPrivileges"
  PROVE  Ordering(c, <<0, 1, 2, 3, 6>>)
<1>1. OrderedBy(c) = ThreePart \o <<"COLUMN_NAME", "PRIVILEGE">>
  BY DEF OrderedBy
<1>2. Columns[c.f] = column_privileges_columns
  BY DEF Columns
<1>3. DOMAIN column_privileges_columns = 1..8
  BY DEF column_privileges_columns, Object, ATable, Granted
<1>. QED  BY <1>1, <1>2, <1>3 DEF Ordering, Key, ThreePart, Arguments, column_privileges_columns, Object,
                                  ATable, Granted, Described, identifier, identifierNoNulls

\* The keys of SQLTablePrivileges.
LEMMA OrderTablePrivileges ==
  ASSUME NEW c, c.f = "TablePrivileges"
  PROVE  Ordering(c, <<0, 1, 2, 5, 4>>)
<1>1. OrderedBy(c) = ThreePart \o <<"PRIVILEGE", "GRANTEE">>
  BY DEF OrderedBy
<1>2. Columns[c.f] = table_privileges_columns
  BY DEF Columns
<1>3. DOMAIN table_privileges_columns = 1..7
  BY DEF table_privileges_columns, Object, ATable, Granted
<1>. QED  BY <1>1, <1>2, <1>3 DEF Ordering, Key, ThreePart, Arguments, table_privileges_columns, Object,
                                  ATable, Granted, Described, identifier, identifierNoNulls

\* The fields of an object, and what it has in a column.
LEMMA ObjectFields ==
  ASSUME NEW o \in Objects
  PROVE  /\ o.catalog \in Text /\ o.schema \in Text /\ o.name \in Text /\ o.foreign \in Text
         /\ o.column \in Text /\ o.type \in Text /\ o.number \in Text /\ o.kind \in Text
         /\ o.other \in Valued
<1>. DEFINE Fields == [catalog : Text, schema : Text, name : Text, foreign : Text, column : Text,
                       type : Text, number : Text, kind : Text, other : Text \cup {Null}]
<1>1. o \in Fields
  BY CatalogAssumption
<1>. QED  BY <1>1 DEF Valued

\* Rows are sorted by texts and NULLs.
LEMMA FieldOfKey ==
  ASSUME NEW o \in Objects, NEW column \in Key
  PROVE  Field(o, column) \in Valued
<1>1. /\ o.catalog \in Valued /\ o.schema \in Valued /\ o.name \in Valued /\ o.foreign \in Valued
      /\ o.column \in Valued /\ o.type \in Valued /\ o.number \in Valued /\ o.kind \in Valued
      /\ o.other \in Valued /\ Null \in Valued
  BY ObjectFields DEF Valued
<1>. QED  BY <1>1 DEF Field, NamesCatalog, NamesSchema, Key

\* A column that never lacks a value has one.
LEMMA FieldIsThere ==
  ASSUME NEW o \in Objects, NEW column \in NeverNull
  PROVE  Field(o, column) # Null
<1>1. /\ o.name # Null /\ o.foreign # Null /\ o.column # Null /\ o.number # Null /\ o.kind # Null
  BY ObjectFields, NullIsNoText
<1>2. column # "NULL" => <<column>> # Null
  BY DEF Null
<1>. QED  BY <1>1, <1>2 DEF Field, NamesCatalog, NamesSchema, NeverNull

\* A sequence that has every element of a set once, and no other.
Lists(s, S) ==
  /\ s \in Seq(S)
  /\ \A x \in S : \E i \in 1..Len(s) : s[i] = x
  /\ \A i, j \in 1..Len(s) : s[i] = s[j] => i = j

\* Such a sequence is as long as the set is large.
LEMMA ListsCounted ==
  ASSUME NEW S, NEW s, Lists(s, S)
  PROVE  IsFiniteSet(S) /\ Len(s) = Cardinality(S)
<1>. DEFINE n == Len(s)
<1>1. n \in Nat /\ s \in [1..n -> S]
  BY DEF Lists
<1>2. s \in Bijection(1..n, S)
  BY <1>1 DEF Lists, Bijection, Injection, Surjection, IsInjective
<1>3. ExistsBijection(1..n, S)
  BY <1>2, Zenon DEF ExistsBijection
<1>. QED  BY <1>1, <1>3, Counted, FS_Bijection

\* In whatever order a backend returns what it found, it lists it.
LEMMA OrderedLists ==
  ASSUME NEW S, IsFiniteSet(S), NEW outcome
  PROVE  Lists(Ordered(S, outcome), S)
<1>. DEFINE n == Cardinality(S)
            s == SetToSeq(S)
<1>1. n \in Nat
  BY FS_CardinalityType
<1>2. \E f \in [1..n -> S] : IsInjective(f) /\ \A x \in S : \E i \in 1..n : f[i] = x
  <2>1. IsFiniteSet(1..n) /\ Cardinality(1..n) = Cardinality(S)
    BY <1>1, Counted
  <2>2. ExistsBijection(1..n, S)
    BY <2>1, FS_SameCardinalityBij
  <2>. QED  BY <2>2 DEF ExistsBijection, Bijection, Injection, Surjection
<1>3. s \in [1..n -> S] /\ IsInjective(s)
  BY <1>2, Zenon DEF SetToSeq
<1>. HIDE DEF s
<1>4. \A x \in S : \E i \in 1..n : s[i] = x
  <2>1. s \in Injection(1..n, S)
    BY <1>3, Zenon DEF Injection
  <2>2. IsFiniteSet(1..n) /\ Cardinality(1..n) = Cardinality(S)
    BY <1>1, Counted
  <2>3. s \in Surjection(1..n, S)
    BY <2>1, <2>2, FS_Injection
  <2>. QED  BY <2>3 DEF Surjection
<1>. HIDE DEF n
<1>5. Lists(s, S)
  BY <1>1, <1>3, <1>4 DEF Lists, IsInjective
<1>6. Lists(Reverse(s), S)
  <2>. DEFINE r == Reverse(s)
  <2>1. Len(s) = n /\ r = [i \in 1..n |-> s[(n - i) + 1]]
    BY <1>1, <1>3 DEF Reverse
  <2>2. \A i \in 1..n : (n - i) + 1 \in 1..n
    BY <1>1
  <2>3. r \in Seq(S) /\ Len(r) = n /\ \A i \in 1..n : r[i] = s[(n - i) + 1]
    <3>1. r \in [1..n -> S]
      BY <1>3, <2>1, <2>2
    <3>. QED  BY <1>1, <2>1, <3>1
  <2>. HIDE DEF r
  <2>4. ASSUME NEW x \in S PROVE \E i \in 1..n : r[i] = x
    <3>1. PICK i \in 1..n : s[i] = x
      BY <1>4
    <3>2. (n - i) + 1 \in 1..n /\ (n - ((n - i) + 1)) + 1 = i
      BY <1>1
    <3>. QED  BY <2>3, <3>1, <3>2
  <2>5. ASSUME NEW i \in 1..n, NEW j \in 1..n, r[i] = r[j] PROVE i = j
    <3>1. s[(n - i) + 1] = s[(n - j) + 1]
      BY <2>3, <2>5, Zenon
    <3>2. (n - i) + 1 = (n - j) + 1
      BY <1>3, <2>2, <3>1 DEF IsInjective
    <3>. QED  BY <1>1, <3>2
  <2>6. Lists(r, S)
    BY <2>3, <2>4, <2>5 DEF Lists
  <2>. QED  BY <2>6 DEF r
<1>. QED  BY <1>5, <1>6 DEF Ordered, s

\* A row has a value wherever it is sorted by it or one is promised.
Filled(row, f) ==
  \A k \in DOMAIN Columns[f] : /\ Columns[f][k][1] \in Key => row[k] \in Valued
                               /\ ~Columns[f][k][3] => row[k] # Null

\* The row of an object is the one described for it, and has what it must.
LEMMA ObjectRow ==
  ASSUME NEW o \in Objects, NEW f \in CatalogFunction
  PROVE  LET row == into_values(f, LAMBDA k : Field(o, k))
         IN  row = DescribedRow(o, f) /\ Filled(row, f)
<1>. DEFINE row == into_values(f, LAMBDA k : Field(o, k))
<1>1. PICK n \in Nat : Alike(Columns[f], Values[f], n)
  BY ColumnsAlike
<1>2. row = [k \in 1..n |-> Field(o, Values[f][k][1])]
  BY <1>1 DEF Alike, into_values
<1>3. DescribedRow(o, f) = [k \in 1..n |-> Field(o, Columns[f][k][1])]
  BY <1>1 DEF Alike, DescribedRow
<1>4. \A k \in 1..n : Columns[f][k][1] = Values[f][k][1]
  BY <1>1 DEF Alike
<1>5. row = DescribedRow(o, f)
  BY <1>2, <1>3, <1>4
<1>6. \A k \in DOMAIN Columns[f] : row[k] = Field(o, Columns[f][k][1])
  BY <1>1, <1>2, <1>4 DEF Alike
<1>7. \A k \in DOMAIN Columns[f] : ~Columns[f][k][3] => Columns[f][k][1] \in NeverNull
  BY <1>1, Zenon DEF Alike
<1>8. Filled(row, f)
  <2>. HIDE DEF row
  <2>. QED  BY <1>6, <1>7, FieldOfKey, FieldIsThere, Zenon DEF Filled
<1>. QED  BY <1>5, <1>8

\* The row of an enumeration, by the column it has its value in.
EnumerationRow(column, name) == into_values("Tables", LAMBDA k : IF k = column THEN name ELSE Null)

\* The columns of SQLTables, none of which must have a value.
LEMMA TablesNames ==
  /\ Len(TableRow) = 5 /\ DOMAIN Columns["Tables"] = 1..5 /\ Values["Tables"] = TableRow
  /\ TableRow[1][1] = "TABLE_CAT" /\ TableRow[2][1] = "TABLE_SCHEM" /\ TableRow[3][1] = "TABLE_NAME"
  /\ TableRow[4][1] = "TABLE_TYPE" /\ TableRow[5][1] = "REMARKS"
  /\ \A k \in 1..5 : Columns["Tables"][k][3]
<1>1. TablesColumns[1][3] /\ TablesColumns[2][3] /\ TablesColumns[3][3] /\ TablesColumns[4][3] /\ TablesColumns[5][3]
  BY DEF TablesColumns, identifier, Described
<1>2. \A k \in 1..5 : TablesColumns[k][3]
  BY <1>1
<1>3. Columns["Tables"] = TablesColumns /\ Values["Tables"] = TableRow
  BY DEF Columns, Values
<1>4. DOMAIN TablesColumns = 1..5
  BY DEF TablesColumns
<1>. QED  BY <1>2, <1>3, <1>4 DEF TableRow, OptStr, Value

\* Such a row has one value only.
LEMMA EnumerationRowIs ==
  ASSUME NEW column \in {"TABLE_CAT", "TABLE_SCHEM", "TABLE_TYPE"}, NEW name \in Text
  PROVE  LET row == EnumerationRow(column, name)
             p == IF column = "TABLE_CAT" THEN 1 ELSE IF column = "TABLE_SCHEM" THEN 2 ELSE 4
         IN  /\ p \in 1..5 /\ row = [k \in 1..5 |-> IF k = p THEN name ELSE Null]
             /\ row[p] = name /\ Filled(row, "Tables")
             /\ Cardinality({k \in DOMAIN row : row[k] # Null}) = 1
<1>. DEFINE row == EnumerationRow(column, name)
            p == IF column = "TABLE_CAT" THEN 1 ELSE IF column = "TABLE_SCHEM" THEN 2 ELSE 4
<1>1. p \in 1..5 /\ \A k \in 1..5 : TableRow[k][1] = column <=> k = p
  BY TablesNames
<1>2. row = [k \in 1..5 |-> IF TableRow[k][1] = column THEN name ELSE Null]
  BY TablesNames DEF EnumerationRow, into_values
<1>. HIDE DEF p
<1>3. row = [k \in 1..5 |-> IF k = p THEN name ELSE Null]
  BY <1>1, <1>2
<1>. HIDE DEF row
<1>4. name # Null /\ name \in Valued /\ Null \in Valued
  BY NullIsNoText DEF Valued
<1>5. {k \in DOMAIN row : row[k] # Null} = {p}
  BY <1>1, <1>3, <1>4
<1>6. Cardinality({p}) = 1
  BY FS_Singleton
<1>7. \A k \in 1..5 : row[k] \in Valued
  BY <1>3, <1>4
<1>8. Filled(row, "Tables")
  BY <1>7, TablesNames, Zenon DEF Filled
<1>9. Cardinality({k \in DOMAIN row : row[k] # Null}) = 1
  BY <1>5, <1>6, Zenon
<1>10. row[p] = name
  BY <1>1, <1>3
<1>. QED  BY <1>1, <1>3, <1>8, <1>9, <1>10 DEF row, p

\* Only SQLTables enumerates, and one of three columns.
LEMMA EnumeratedIs ==
  ASSUME NEW c, Enumerated(c) # "None"
  PROVE  c.f = "Tables" /\ EnumeratedColumn(Enumerated(c)) \in {"TABLE_CAT", "TABLE_SCHEM", "TABLE_TYPE"}
<1>1. c.f = "Tables" /\ Enumerated(c) = table_enumeration(c.args, c.types)
  BY DEF Enumerated
<1>. DEFINE first == c.args = <<Wild, Empty, Empty>>
            second == c.args = <<Empty, Wild, Empty>>
            third == c.args = <<Empty, Empty, Empty>> /\ c.types = Wild
<1>2. table_enumeration(c.args, c.types) \in {"Catalogs", "Schemas", "TableTypes", "None"}
  <2>1. first => ~second /\ ~third
    BY DEF Wild, Empty
  <2>2. second => ~third
    BY DEF Wild, Empty
  <2>3. CASE first
    <3>1. table_enumeration(c.args, c.types) = "Catalogs"
      <4>. HIDE DEF second, third
      <4>. QED  BY <2>1, <2>3 DEF table_enumeration, second, third
    <3>. QED  BY <3>1
  <2>4. CASE second
    <3>1. table_enumeration(c.args, c.types) = "Schemas"
      BY <2>1, <2>2, <2>4 DEF table_enumeration
    <3>. QED  BY <3>1
  <2>5. CASE third
    <3>1. table_enumeration(c.args, c.types) = "TableTypes"
      BY <2>1, <2>2, <2>5 DEF table_enumeration
    <3>. QED  BY <3>1
  <2>6. CASE ~first /\ ~second /\ ~third
    <3>1. table_enumeration(c.args, c.types) = "None"
      BY <2>6 DEF table_enumeration
    <3>. QED  BY <3>1
  <2>. QED  BY <2>3, <2>4, <2>5, <2>6
<1>. QED  BY <1>1, <1>2 DEF EnumeratedColumn

\* The rows of an enumeration are those of finitely many names.
LEMMA EnumerationIs ==
  ASSUME NEW c, Enumerated(c) # "None"
  PROVE  LET column == EnumeratedColumn(Enumerated(c))
         IN  \E names \in SUBSET Text : /\ IsFiniteSet(names)
                                        /\ Enumeration(c) = {EnumerationRow(column, name) : name \in names}
<1>. DEFINE column == EnumeratedColumn(Enumerated(c))
            all == {Field(o, column) : o \in Objects} \ {Null}
            names == IF AsksBackend(c) \/ Enumerated(c) = "TableTypes" THEN all ELSE {}
<1>1. column \in Key
  BY EnumeratedIs DEF Key
<1>2. all \subseteq Text
  BY <1>1, FieldOfKey DEF Valued
<1>3. IsFiniteSet(all)
  <2>1. IsFiniteSet({Field(o, column) : o \in Objects})
    <3>. DEFINE found == {Field(o, column) : o \in Objects}
                f == [o \in Objects |-> Field(o, column)]
    <3>1. f \in Surjection(Objects, found)
      BY DEF Surjection
    <3>. HIDE DEF f
    <3>. QED  BY <3>1, MetadataAssumption, FS_Surjection
  <2>. QED  BY <2>1, FS_Difference
<1>4. names \subseteq Text /\ IsFiniteSet(names)
  BY <1>2, <1>3, FS_EmptySet
<1>5. Enumeration(c) = {EnumerationRow(column, name) : name \in names}
  BY DEF Enumeration, EnumerationRow
<1>. QED  BY <1>4, <1>5

\* So they are finitely many, and have one value each.
LEMMA EnumerationRows ==
  ASSUME NEW c, Enumerated(c) # "None"
  PROVE  /\ IsFiniteSet(Enumeration(c))
         /\ \A row \in Enumeration(c) : /\ Filled(row, "Tables")
                                        /\ Cardinality({k \in DOMAIN row : row[k] # Null}) = 1
<1>. DEFINE column == EnumeratedColumn(Enumerated(c))
<1>1. column \in {"TABLE_CAT", "TABLE_SCHEM", "TABLE_TYPE"}
  BY EnumeratedIs
<1>2. PICK names \in SUBSET Text : /\ IsFiniteSet(names)
                                   /\ Enumeration(c) = {EnumerationRow(column, name) : name \in names}
  BY EnumerationIs
<1>. HIDE DEF column
<1>3. IsFiniteSet(Enumeration(c))
  <2>. DEFINE f == [name \in names |-> EnumerationRow(column, name)]
  <2>1. f \in Surjection(names, Enumeration(c))
    BY <1>2 DEF Surjection
  <2>. HIDE DEF f
  <2>. QED  BY <1>2, <2>1, FS_Surjection
<1>4. ASSUME NEW name \in names
      PROVE  LET row == EnumerationRow(column, name)
             IN  Filled(row, "Tables") /\ Cardinality({k \in DOMAIN row : row[k] # Null}) = 1
  <2>1. name \in Text
    OBVIOUS
  <2>. QED  BY <1>1, <2>1, EnumerationRowIs
<1>. QED  BY <1>2, <1>3, <1>4

\* The objects the backend is asked for.
Asked(c) == Backend(c, Normalised(c), parse_table_type_list(c.types))

\* They are finitely many.
LEMMA AskedIsFinite ==
  ASSUME NEW c PROVE Asked(c) \subseteq Objects /\ IsFiniteSet(Asked(c))
<1>1. Asked(c) \subseteq Objects
  BY DEF Asked, Backend
<1>. QED  BY <1>1, MetadataAssumption, FS_Subset

\* What the rows of an answer are before the sort.
LEMMA AnsweredRows ==
  ASSUME NEW c, c.f \in CatalogFunction, NEW outcome
  PROVE  LET rows == Answered(c, outcome)
         IN  /\ Len(rows) \in Nat /\ \A i \in 1..Len(rows) : Filled(rows[i], c.f)
             /\ Enumerated(c) # "None" => Lists(rows, Enumeration(c))
             /\ Enumerated(c) = "None" /\ AsksBackend(c) /\ outcome # "unimplemented" =>
                  \E found : Lists(found, Asked(c)) /\ rows = [i \in 1..Len(found) |-> DescribedRow(found[i], c.f)]
<1>. DEFINE rows == Answered(c, outcome)
<1>1. CASE Enumerated(c) # "None"
  <2>1. rows = Ordered(Enumeration(c), outcome)
    BY <1>1 DEF Answered
  <2>2. Lists(rows, Enumeration(c))
    BY <1>1, <2>1, EnumerationRows, OrderedLists
  <2>. HIDE DEF rows
  <2>3. rows \in Seq(Enumeration(c))
    BY <2>2 DEF Lists
  <2>4. Len(rows) \in Nat /\ \A i \in 1..Len(rows) : rows[i] \in Enumeration(c)
    BY <2>3
  <2>5. c.f = "Tables"
    BY <1>1, EnumeratedIs
  <2>6. \A i \in 1..Len(rows) : Filled(rows[i], c.f)
    BY <1>1, <2>4, <2>5, EnumerationRows, Zenon
  <2>. QED  BY <1>1, <2>2, <2>4, <2>6 DEF rows
<1>2. CASE Enumerated(c) = "None" /\ (~AsksBackend(c) \/ outcome = "unimplemented")
  <2>1. rows = <<>>
    BY <1>2 DEF Answered
  <2>2. Len(rows) = 0
    BY <2>1
  <2>. HIDE DEF rows
  <2>3. Len(rows) \in Nat /\ \A i \in 1..Len(rows) : Filled(rows[i], c.f)
    BY <2>2
  <2>. QED  BY <1>2, <2>3 DEF rows
<1>3. CASE Enumerated(c) = "None" /\ ~(~AsksBackend(c) \/ outcome = "unimplemented")
  <2>. DEFINE found == Ordered(Asked(c), outcome)
  <2>1. rows = [i \in DOMAIN found |-> into_values(c.f, LAMBDA k : Field(found[i], k))]
    BY <1>3 DEF Answered, Asked
  <2>2. Lists(found, Asked(c))
    BY AskedIsFinite, OrderedLists
  <2>. HIDE DEF found
  <2>3. found \in Seq(Asked(c))
    BY <2>2 DEF Lists
  <2>4. Len(found) \in Nat /\ DOMAIN found = 1..Len(found) /\ \A i \in 1..Len(found) : found[i] \in Asked(c)
    BY <2>3
  <2>5. \A i \in 1..Len(found) : found[i] \in Objects
    BY <2>4, AskedIsFinite
  <2>6. \A i \in 1..Len(found) : /\ into_values(c.f, LAMBDA k : Field(found[i], k)) = DescribedRow(found[i], c.f)
                                 /\ Filled(DescribedRow(found[i], c.f), c.f)
    <3>. SUFFICES ASSUME NEW i \in 1..Len(found)
                  PROVE  /\ into_values(c.f, LAMBDA k : Field(found[i], k)) = DescribedRow(found[i], c.f)
                         /\ Filled(DescribedRow(found[i], c.f), c.f)
      OBVIOUS
    <3>. DEFINE o == found[i]
    <3>1. o \in Objects
      BY <2>5
    <3>. HIDE DEF o
    <3>2. into_values(c.f, LAMBDA k : Field(o, k)) = DescribedRow(o, c.f) /\ Filled(DescribedRow(o, c.f), c.f)
      BY <3>1, ObjectRow
    <3>. QED  BY <3>2 DEF o
  <2>7. rows = [i \in 1..Len(found) |-> DescribedRow(found[i], c.f)]
    BY <2>1, <2>4, <2>6
  <2>. HIDE DEF rows
  <2>8. Len(rows) = Len(found)
    BY <2>4, <2>7
  <2>9. \A i \in 1..Len(rows) : Filled(rows[i], c.f)
    BY <2>6, <2>7, <2>8
  <2>. QED  BY <1>3, <2>2, <2>4, <2>7, <2>8, <2>9 DEF rows
<1>. QED  BY <1>1, <1>2, <1>3

\* They are put in order, none of them lost.
LEMMA SortedRows ==
  ASSUME NEW c, c.f \in CatalogFunction, NEW keys, Ordering(c, keys), NEW rows, Len(rows) \in Nat,
         \A i \in 1..Len(rows) : Filled(rows[i], c.f)
  PROVE  LET sorted == sort_rows(rows, keys, source.nulls)
         IN  /\ Len(sorted) = Len(rows) /\ DOMAIN sorted = 1..Len(rows)
             /\ \A i \in 2..Len(rows) : InOrder(sorted[i - 1], sorted[i], c)
             /\ \E at \in [1..Len(rows) -> 1..Len(rows)] :
                  /\ \A k \in 1..Len(rows) : sorted[k] = rows[at[k]]
                  /\ \A i \in 1..Len(rows) : \E k \in 1..Len(rows) : at[k] = i
                  /\ \A k, l \in 1..Len(rows) : at[k] = at[l] => k = l
<1>. DEFINE n == Len(rows)
            m == Len(keys)
            sorted == sort_rows(rows, keys, source.nulls)
<1>1. /\ m \in Nat /\ DOMAIN OrderedBy(c) = 1..m
      /\ \A j \in 1..m : /\ keys[j] + 1 \in DOMAIN Columns[c.f] /\ OrderedBy(c)[j] \in Key
                         /\ Columns[c.f][keys[j] + 1][1] = OrderedBy(c)[j]
                         /\ \A k \in DOMAIN Columns[c.f] :
                              Columns[c.f][k][1] = OrderedBy(c)[j] => k = keys[j] + 1
  BY DEF Ordering
<1>2. ASSUME NEW i \in 1..n PROVE KeyValues(rows[i], keys) \in [1..m -> Valued]
  <2>1. \A j \in 1..m : rows[i][keys[j] + 1] \in Valued
    BY <1>1, Zenon DEF Filled
  <2>. QED  BY <2>1 DEF KeyValues
<1>3. PICK at \in [1..n -> 1..n] :
           /\ sorted = [k \in 1..n |-> rows[at[k]]]
           /\ \A i \in 1..n : \E k \in 1..n : at[k] = i
           /\ \A k, l \in 1..n : at[k] = at[l] => k = l
           /\ \A k \in 2..n : ~RowPrecedes(rows[at[k]], rows[at[k - 1]], keys, source.nulls)
  BY <1>1, <1>2, SortsRows
<1>. HIDE DEF n, m, sorted
<1>4. \A j \in 1..m : Positioned(c.f, OrderedBy(c)[j]) = keys[j] + 1
  <2>. SUFFICES ASSUME NEW j \in 1..m PROVE Positioned(c.f, OrderedBy(c)[j]) = keys[j] + 1
    OBVIOUS
  <2>1. \E k \in DOMAIN Columns[c.f] : Columns[c.f][k][1] = OrderedBy(c)[j]
    BY <1>1, Zenon
  <2>2. /\ Positioned(c.f, OrderedBy(c)[j]) \in DOMAIN Columns[c.f]
        /\ Columns[c.f][Positioned(c.f, OrderedBy(c)[j])][1] = OrderedBy(c)[j]
    BY <2>1, Zenon DEF Positioned
  <2>. QED  BY <1>1, <2>2, Zenon
<1>5. ASSUME NEW r, NEW s, ~RowPrecedes(s, r, keys, source.nulls)
      PROVE  InOrder(r, s, c)
  <2>. DEFINE at2(j) == Positioned(c.f, OrderedBy(c)[j])
  <2>. SUFFICES ASSUME NEW j \in 1..m, \A l \in 1..j - 1 : r[at2(l)] = s[at2(l)]
                PROVE  ~ValuePrecedes(s[at2(j)], r[at2(j)], source.nulls)
    BY <1>1 DEF InOrder
  <2>1. \A l \in 1..j - 1 : l \in 1..m
    BY <1>1
  <2>2. \A l \in 1..j - 1 : s[keys[l] + 1] = r[keys[l] + 1]
    BY <1>4, <2>1, Zenon
  <2>3. ~ValuePrecedes(s[keys[j] + 1], r[keys[j] + 1], source.nulls)
    BY <1>5, <2>2, Zenon DEF RowPrecedes, m
  <2>. QED  BY <1>4, <2>3, Zenon
<1>6. n \in Nat
  BY DEF n
<1>7. Len(sorted) = n /\ DOMAIN sorted = 1..n /\ \A k \in 1..n : sorted[k] = rows[at[k]]
  BY <1>3, <1>6
<1>8. \A i \in 2..n : InOrder(sorted[i - 1], sorted[i], c)
  <2>. SUFFICES ASSUME NEW i \in 2..n PROVE InOrder(sorted[i - 1], sorted[i], c)
    OBVIOUS
  <2>1. i \in 1..n /\ i - 1 \in 1..n
    BY <1>6
  <2>. QED  BY <1>3, <1>5, <1>7, <2>1, Zenon
<1>. QED  BY <1>3, <1>7, <1>8, Zenon DEF n, sorted

Sequences(T, seqs) == seqs \in Seq(Seq(T))

\* The beginnings of what FlattenSeq makes of some sequences.
Beginnings(T, seqs, f) ==
  /\ f \in [0..Len(seqs) -> Seq(T)] /\ f[0] = <<>>
  /\ \A i \in 1..Len(seqs) : f[i] = f[i - 1] \o seqs[i]

\* A sequence behind another.
LEMMA ConcatIs ==
  ASSUME NEW T, NEW a \in Seq(T), NEW b \in Seq(T), NEW c, c = a \o b
  PROVE  /\ c \in Seq(T) /\ Len(c) = Len(a) + Len(b) /\ Len(a) \in Nat /\ Len(b) \in Nat
         /\ \A j \in 1..Len(a) : c[j] = a[j]
         /\ \A j \in 1..Len(b) : c[Len(a) + j] = b[j]
OBVIOUS

\* FlattenSeq is the last of the beginnings it is put together from.
LEMMA FlattenSeqIs ==
  ASSUME NEW T, NEW seqs, Sequences(T, seqs)
  PROVE  \E f : Beginnings(T, seqs, f) /\ FlattenSeq(seqs) = f[Len(seqs)]
<1>. DEFINE n == Len(seqs)
            S == Seq(T)
            prev == [i \in 1..n |-> i - 1]
            step == [i \in 1..n |-> [x \in S |-> x \o seqs[i]]]
<1>0. n \in Nat /\ \A i \in 1..n : seqs[i] \in S
  BY DEF Sequences
<1>. HIDE DEF n
<1>1. <<>> \in S /\ prev \in [1..n -> Nat] /\ \A i \in 1..n : prev[i] < i
  BY <1>0
<1>2. step \in [1..n -> [S -> S]]
  <2>1. \A i \in 1..n : \A x \in S : x \o seqs[i] \in S
    BY <1>0
  <2>. QED  BY <2>1
<1>3. Recursion(n, S, <<>>, prev, step)
  <2>. HIDE DEF S, prev, step
  <2>. QED  BY <1>0, <1>1, <1>2 DEF Recursion
<1>4. PICK f \in [0..n -> S] : f[0] = <<>> /\ \A i \in 1..n : f[i] = step[i][f[prev[i]]]
  <2>. HIDE DEF S, prev, step
  <2>. QED  BY <1>3, UpwardRecursion
<1>5. ASSUME NEW i \in 1..n PROVE f[i] = f[i - 1] \o seqs[i]
  <2>1. prev[i] = i - 1 /\ i - 1 \in 0..n
    BY <1>0
  <2>2. f[i - 1] \in S
    BY <2>1, <1>4
  <2>. QED  BY <1>4, <2>1, <2>2
<1>6. Beginnings(T, seqs, f)
  BY <1>4, <1>5 DEF Beginnings, n
<1>7. CASE n = 0
  <2>1. seqs = <<>>
    BY <1>7 DEF n, Sequences
  <2>. QED  BY <1>4, <1>6, <1>7, <2>1 DEF FlattenSeq, n
<1>8. CASE n # 0
  <2>. DEFINE Body(g) == [i \in 1..n |-> IF i = 1 THEN seqs[i] ELSE g[i - 1] \o seqs[i]]
              g == CHOOSE g : g = Body(g)
  <2>. DEFINE h == [i \in 1..n |-> f[i]]
  <2>0. f[1] = seqs[1]
    <3>1. 1 \in 1..n /\ 1 - 1 = 0
      BY <1>0, <1>8
    <3>2. f[1] = f[1 - 1] \o seqs[1] /\ seqs[1] \in Seq(T)
      BY <1>0, <1>5, <3>1, Zenon
    <3>3. f[1] = <<>> \o seqs[1]
      BY <1>4, <3>1, <3>2, Zenon
    <3>4. <<>> \o seqs[1] = seqs[1]
      BY <3>2
    <3>. QED  BY <3>3, <3>4, Zenon
  <2>1. h = Body(h)
    <3>1. ASSUME NEW i \in 1..n
          PROVE  h[i] = IF i = 1 THEN seqs[i] ELSE h[i - 1] \o seqs[i]
      <4>1. CASE i = 1
        BY <2>0, <4>1
      <4>2. CASE i # 1
        <5>1. i - 1 \in 1..n
          BY <1>0, <4>2
        <5>2. h[i] = f[i] /\ h[i - 1] = f[i - 1]
          BY <5>1
        <5>. HIDE DEF h
        <5>. QED  BY <1>5, <4>2, <5>2
      <4>. QED  BY <4>1, <4>2
    <3>2. h = [i \in 1..n |-> h[i]]
      OBVIOUS
    <3>. HIDE DEF h
    <3>3. [i \in 1..n |-> h[i]] = Body(h)
      BY <3>1, Zenon
    <3>. QED  BY <3>2, <3>3
  <2>2. g = Body(g)
    <3>. HIDE DEF Body
    <3>. QED  BY <2>1
  <2>. HIDE DEF g
  <2>. DEFINE P == {i \in 0..n : i = 0 \/ g[i] = f[i]}
  <2>3. 0 \in P /\ \A i \in 1..n : prev[i] \in P => i \in P
    <3>1. 0 \in P
      BY <1>0
    <3>2. ASSUME NEW i \in 1..n, prev[i] \in P PROVE i \in P
      <4>1. g[i] = IF i = 1 THEN seqs[i] ELSE g[i - 1] \o seqs[i]
        BY <2>2
      <4>2. CASE i = 1
        <5>1. g[i] = f[i]
          BY <2>0, <4>1, <4>2
        <5>2. i \in 0..n
          BY <1>0
        <5>. QED  BY <5>1, <5>2
      <4>3. CASE i # 1
        <5>1. prev[i] = i - 1 /\ i - 1 # 0
          BY <1>0, <4>3
        <5>2. g[i - 1] = f[i - 1]
          BY <3>2, <5>1
        <5>3. g[i] = f[i]
          BY <1>5, <4>1, <4>3, <5>2, Zenon
        <5>4. i \in 0..n
          BY <1>0
        <5>. QED  BY <5>3, <5>4
      <4>. QED  BY <4>2, <4>3
    <3>. QED  BY <3>1, <3>2
  <2>4. 0..n \subseteq P
    <3>. HIDE DEF P, prev
    <3>. QED  BY <1>0, <1>1, <2>3, UpwardInduction
  <2>5. g[n] = f[n]
    <3>1. n \in 0..n
      BY <1>0
    <3>2. n \in P
      BY <2>4, <3>1
    <3>. QED  BY <3>2, <1>8
  <2>6. FlattenSeq(seqs) = g[n]
    BY <1>8, Zenon DEF FlattenSeq, g, n
  <2>. QED  BY <1>6, <2>5, <2>6 DEF n
<1>. QED  BY <1>7, <1>8

\* Where each of the sequences stands in a text that starts behind c.
Laid(text, c, seqs, at) ==
  /\ at \in [1..Len(seqs) + 1 -> Nat] /\ at[1] = 0
  /\ \A m \in 1..Len(seqs) : /\ at[m + 1] = at[m] + Len(seqs[m])
                             /\ \A j \in 1..Len(seqs[m]) : text[c + at[m] + j] = seqs[m][j]

\* Each sequence stands where the lengths of those before it put it.
LEMMA FlattenSeqLays ==
  ASSUME NEW T, NEW seqs, Sequences(T, seqs)
  PROVE  /\ FlattenSeq(seqs) \in Seq(T)
         /\ \E at : Laid(FlattenSeq(seqs), 0, seqs, at) /\ Len(FlattenSeq(seqs)) = at[Len(seqs) + 1]
<1>. DEFINE n == Len(seqs)
<1>1. PICK f : Beginnings(T, seqs, f) /\ FlattenSeq(seqs) = f[n]
  BY FlattenSeqIs
<1>2. /\ n \in Nat /\ \A i \in 1..n : seqs[i] \in Seq(T)
      /\ f \in [0..n -> Seq(T)] /\ f[0] = <<>>
      /\ \A i \in 1..n : f[i] = f[i - 1] \o seqs[i]
  <2>1. n \in Nat /\ \A i \in 1..n : seqs[i] \in Seq(T)
    BY DEF Sequences
  <2>. QED  BY <1>1, <2>1, Zenon DEF Beginnings, n
<1>. HIDE DEF n
<1>. DEFINE Prefix(i, k) == Len(f[i]) <= Len(f[k]) /\ \A j \in 1..Len(f[i]) : f[k][j] = f[i][j]
            P == {k \in 0..n : \A i \in 0..k : Prefix(i, k)}
            prev == [i \in 1..n |-> i - 1]
<1>3. 0 \in P
  <2>1. \A i \in 0..0 : i = 0
    OBVIOUS
  <2>2. Prefix(0, 0)
    BY <1>2
  <2>. HIDE DEF Prefix
  <2>. QED  BY <1>2, <2>1, <2>2
<1>4. ASSUME NEW k \in 1..n, k - 1 \in P PROVE k \in P
  <2>1. k - 1 \in 0..n /\ \A i \in 0..k - 1 : Prefix(i, k - 1)
    <3>. HIDE DEF Prefix
    <3>. QED  BY <1>4
  <2>2. f[k - 1] \in Seq(T) /\ seqs[k] \in Seq(T) /\ f[k] = f[k - 1] \o seqs[k]
    BY <1>2, <2>1
  <2>. DEFINE a == f[k - 1]
              b == seqs[k]
              c == f[k]
  <2>3. /\ Len(c) = Len(a) + Len(b) /\ Len(a) \in Nat /\ Len(b) \in Nat
        /\ \A j \in 1..Len(a) : c[j] = a[j]
    <3>1. a \in Seq(T) /\ b \in Seq(T) /\ c = a \o b
      BY <2>2, Zenon
    <3>. HIDE DEF a, b, c
    <3>. QED  BY <3>1, ConcatIs
  <2>5. ASSUME NEW i \in 0..k PROVE Prefix(i, k)
    <3>1. CASE i = k
      <4>1. f[k] \in Seq(T)
        BY <1>2
      <4>2. Len(f[k]) \in Nat
        BY <4>1
      <4>. QED  BY <3>1, <4>2
    <3>2. CASE i # k
      <4>1. i \in 0..k - 1 /\ i \in 0..n
        BY <3>2, <1>2
      <4>2. Prefix(i, k - 1)
        <5>. HIDE DEF Prefix
        <5>. QED  BY <2>1, <4>1
      <4>3. f[i] \in Seq(T)
        BY <1>2, <4>1
      <4>. DEFINE d == f[i]
      <4>4. Len(d) \in Nat
        BY <4>3
      <4>5. Len(d) <= Len(a) /\ \A j \in 1..Len(d) : a[j] = d[j]
        BY <4>2, Zenon
      <4>6. Len(d) <= Len(c) /\ \A j \in 1..Len(d) : c[j] = d[j]
        <5>. HIDE DEF a, b, c, d
        <5>. QED  BY <2>3, <4>4, <4>5
      <4>. QED  BY <4>6, Zenon
    <3>. QED  BY <3>1, <3>2
  <2>. HIDE DEF Prefix
  <2>. QED  BY <1>2, <2>5
<1>5. 0..n \subseteq P
  <2>1. prev \in [1..n -> Nat] /\ \A i \in 1..n : prev[i] < i
    BY <1>2
  <2>2. \A i \in 1..n : prev[i] \in P => i \in P
    <3>. HIDE DEF P
    <3>. QED  BY <1>4
  <2>. HIDE DEF P, prev
  <2>. QED  BY <1>2, <1>3, <2>1, <2>2, UpwardInduction
<1>. DEFINE at == [m \in 1..n + 1 |-> Len(f[m - 1])]
<1>6. \A i \in 0..n : Prefix(i, n)
  <2>1. n \in P
    <3>. HIDE DEF P
    <3>. QED  BY <1>2, <1>5
  <2>. HIDE DEF Prefix
  <2>. QED  BY <2>1
<1>7. at \in [1..n + 1 -> Nat] /\ at[1] = 0 /\ at[n + 1] = Len(f[n])
  <2>1. \A m \in 1..n + 1 : m - 1 \in 0..n
    BY <1>2
  <2>2. \A m \in 1..n + 1 : Len(f[m - 1]) \in Nat
    BY <1>2, <2>1
  <2>3. at[1] = Len(f[0]) /\ at[n + 1] = Len(f[n])
    BY <1>2
  <2>. QED  BY <1>2, <2>2, <2>3
<1>8. ASSUME NEW m \in 1..n
      PROVE  /\ at[m + 1] = at[m] + Len(seqs[m])
             /\ \A j \in 1..Len(seqs[m]) : f[n][0 + at[m] + j] = seqs[m][j]
  <2>1. m - 1 \in 0..n /\ m \in 0..n /\ m + 1 - 1 = m
    BY <1>2
  <2>2. f[m - 1] \in Seq(T) /\ seqs[m] \in Seq(T) /\ f[m] = f[m - 1] \o seqs[m]
    BY <1>2, <2>1
  <2>3. at[m] = Len(f[m - 1]) /\ at[m + 1] = Len(f[m])
    BY <1>2, <2>1
  <2>. DEFINE a == f[m - 1]
              b == seqs[m]
              c == f[m]
  <2>4. /\ Len(c) = Len(a) + Len(b) /\ Len(a) \in Nat /\ Len(b) \in Nat
        /\ \A j \in 1..Len(b) : c[Len(a) + j] = b[j]
    <3>1. a \in Seq(T) /\ b \in Seq(T) /\ c = a \o b
      BY <2>2, Zenon
    <3>. HIDE DEF a, b, c
    <3>. QED  BY <3>1, ConcatIs
  <2>5. ASSUME NEW j \in 1..Len(b) PROVE f[n][0 + at[m] + j] = b[j]
    <3>1. at[m] = Len(a)
      BY <2>3
    <3>2. Len(a) + j \in 1..Len(c) /\ 0 + Len(a) + j = Len(a) + j
      <4>. HIDE DEF a, b, c
      <4>. QED  BY <2>4
    <3>3. \A x \in 1..Len(c) : f[n][x] = c[x]
      <4>1. Prefix(m, n)
        <5>. HIDE DEF Prefix
        <5>. QED  BY <1>6, <2>1
      <4>. QED  BY <4>1
    <3>. HIDE DEF a, b, c, at
    <3>. QED  BY <2>4, <3>1, <3>2, <3>3, Zenon
  <2>6. at[m + 1] = at[m] + Len(seqs[m])
    BY <2>3, <2>4, Zenon
  <2>. QED  BY <2>5, <2>6, Zenon
<1>9. Laid(f[n], 0, seqs, at)
  <2>. HIDE DEF at
  <2>. QED  BY <1>7, <1>8 DEF Laid, n
<1>10. f[n] \in Seq(T)
  BY <1>2
<1>. QED  BY <1>1, <1>7, <1>9, <1>10 DEF n

\* A pattern whose parts each stand for one character: from start[k] to
\* start[k + 1], the character itself or an escape and the character.
Spells(pattern, escape, start, id, m) ==
  /\ m \in Nat /\ start \in [1..m + 1 -> Nat \ {0}] /\ start[1] = 1 /\ start[m + 1] = Len(pattern) + 1
  /\ \A k \in 1..m :
       \/ /\ Escapes(pattern, start[k], escape) /\ start[k + 1] = start[k] + 2
          /\ pattern[start[k] + 1] = id[k]
       \/ /\ ~Escapes(pattern, start[k], escape) /\ start[k + 1] = start[k] + 1
          /\ pattern[start[k]] = id[k] /\ id[k] \notin {"%", "_"}

\* Positions that each lie above the one before lie above all before.
LEMMA Rise ==
  ASSUME NEW m \in Nat, NEW start \in [1..m + 1 -> Nat], \A k \in 1..m : start[k] < start[k + 1]
  PROVE  \A k \in 1..m + 1 : \A j \in 1..k - 1 : start[j] < start[k]
<1>. DEFINE P == {k \in 0..m : \A j \in 1..k : start[j] < start[k + 1]}
            prev == [k \in 1..m |-> k - 1]
<1>1. 0 \in P
  OBVIOUS
<1>2. ASSUME NEW k \in 1..m, prev[k] \in P PROVE k \in P
  <2>1. prev[k] = k - 1 /\ k - 1 \in 0..m /\ (k - 1) + 1 = k /\ k \in 0..m
    OBVIOUS
  <2>2. \A j \in 1..k - 1 : start[j] < start[k]
    BY <1>2, <2>1
  <2>3. start[k] < start[k + 1] /\ start[k] \in Nat /\ start[k + 1] \in Nat
    OBVIOUS
  <2>4. ASSUME NEW j \in 1..k PROVE start[j] < start[k + 1]
    <3>1. start[j] \in Nat
      OBVIOUS
    <3>2. j = k \/ j \in 1..k - 1
      OBVIOUS
    <3>. QED  BY <2>2, <2>3, <3>1, <3>2
  <2>. QED  BY <2>1, <2>4
<1>3. 0..m \subseteq P
  <2>1. prev \in [1..m -> Nat] /\ \A k \in 1..m : prev[k] < k
    OBVIOUS
  <2>. HIDE DEF P, prev
  <2>. QED  BY <1>1, <1>2, <2>1, UpwardInduction
<1>4. ASSUME NEW k \in 1..m + 1 PROVE \A j \in 1..k - 1 : start[j] < start[k]
  <2>1. k - 1 \in 0..m /\ (k - 1) + 1 = k
    OBVIOUS
  <2>2. k - 1 \in P
    <3>. HIDE DEF P
    <3>. QED  BY <1>3, <2>1
  <2>. QED  BY <2>1, <2>2
<1>. QED  BY <1>4

\* What the part of a pattern at i takes of a text.
Taking(pattern, text, escape, i, from, to) ==
  CASE Escapes(pattern, i, escape) -> to = from + 1 /\ text[to] = pattern[i + 1]
    [] ~Escapes(pattern, i, escape) /\ pattern[i] = "%" -> from <= to
    [] OTHER -> to = from + 1 /\ pattern[i] \in {"_", text[to]}

\* The pattern is like the text it spells, and no other.
LEMMA SpelledIsLike ==
  ASSUME NEW T, NEW pattern \in Seq(T), NEW escape, NEW start, NEW U, NEW id \in Seq(U),
         Spells(pattern, escape, start, id, Len(id)), NEW V, NEW value \in Seq(V)
  PROVE  Like(pattern, value, escape) <=> value = id
<1>. DEFINE n == Len(pattern)
            m == Len(id)
            next == [i \in 1..n |-> IF Escapes(pattern, i, escape) THEN i + 2 ELSE i + 1]
            One(k) == /\ Escapes(pattern, start[k], escape) /\ start[k + 1] = start[k] + 2
                      /\ pattern[start[k] + 1] = id[k]
            Two(k) == /\ ~Escapes(pattern, start[k], escape) /\ start[k + 1] = start[k] + 1
                      /\ pattern[start[k]] = id[k] /\ id[k] \notin {"%", "_"}
<1>1. /\ n \in Nat /\ m \in Nat /\ start \in [1..m + 1 -> Nat \ {0}] /\ start[1] = 1 /\ start[m + 1] = n + 1
      /\ \A k \in 1..m : One(k) \/ Two(k)
  <2>1. n \in Nat
    OBVIOUS
  <2>. QED  BY <2>1, Zenon DEF Spells
<1>. HIDE DEF m, n
<1>0. /\ start \in [1..m + 1 -> Nat] /\ \A k \in 1..m + 1 : 1 <= start[k]
      /\ \A k \in 1..m : /\ k \in 1..m + 1 /\ k + 1 \in 1..m + 1
                         /\ start[k + 1] = IF Escapes(pattern, start[k], escape) THEN start[k] + 2 ELSE start[k] + 1
  <2>1. start \in [1..m + 1 -> Nat] /\ \A k \in 1..m + 1 : 1 <= start[k]
    <3>. HIDE DEF One, Two
    <3>. QED  BY <1>1
  <2>2. \A k \in 1..m : k \in 1..m + 1 /\ k + 1 \in 1..m + 1
    <3>1. m \in Nat
      BY <1>1
    <3>. QED  BY <3>1
  <2>3. \A k \in 1..m : start[k + 1] = IF Escapes(pattern, start[k], escape) THEN start[k] + 2 ELSE start[k] + 1
    BY <1>1, Zenon
  <2>. QED  BY <2>1, <2>2, <2>3
<1>. HIDE DEF One, Two
<1>2. \A k \in 1..m : start[k] < start[k + 1]
  BY <1>0
<1>3. \A k \in 1..m + 1 : \A j \in 1..k - 1 : start[j] < start[k]
  BY <1>0, <1>1, <1>2, Rise
<1>4. \A k \in 1..m : start[k] \in 1..n /\ next[start[k]] = start[k + 1]
  <2>1. \A k \in 1..m : start[k] < n + 1
    <3>1. m + 1 \in 1..m + 1 /\ (m + 1) - 1 = m /\ \A k \in 1..m : k \in 1..m + 1
      BY <1>1
    <3>. QED  BY <1>1, <1>3, <3>1
  <2>2. \A k \in 1..m : start[k] \in 1..n
    BY <1>0, <1>1, <2>1
  <2>3. \A k \in 1..m : next[start[k]] = IF Escapes(pattern, start[k], escape) THEN start[k] + 2 ELSE start[k] + 1
    BY <2>2
  <2>. HIDE DEF next
  <2>. QED  BY <1>0, <2>2, <2>3, Zenon
<1>5. Scan(next) /\ Len(next) = n /\ Len(next) \in Nat
  <2>1. \A i \in 1..n : next[i] \in Nat /\ i < next[i] /\ next[i] <= n + 1
    BY <1>1 DEF Escapes, n
  <2>2. next \in Seq(Nat) /\ Len(next) = n
    BY <1>1, <2>1
  <2>. HIDE DEF next
  <2>. QED  BY <1>1, <2>1, <2>2 DEF Scan
<1>. HIDE DEF next
<1>6. Visited(1, next) = {start[k] : k \in 1..m}
  <2>1. PICK from \in [1..n + 1 -> SUBSET (1..n)] :
           /\ \A i : Visited(i, next) = from[i]
           /\ from[n + 1] = {}
           /\ \A i \in 1..n : from[i] = {i} \cup from[next[i]]
    BY <1>5, VisitedFunction
  <2>. DEFINE P == {j \in 0..m : from[start[m + 1 - j]] = {start[l] : l \in m + 1 - j..m}}
              prev == [j \in 1..m |-> j - 1]
  <2>2. 0 \in P
    <3>1. \A l : l \notin m + 1 - 0..m
      BY <1>1
    <3>2. m + 1 - 0 = m + 1 /\ 0 \in 0..m
      BY <1>1
    <3>. QED  BY <1>1, <2>1, <3>1, <3>2
  <2>3. ASSUME NEW j \in 1..m, prev[j] \in P PROVE j \in P
    <3>. DEFINE k == m + 1 - j
    <3>1. k \in 1..m /\ m + 1 - (j - 1) = k + 1 /\ j \in 0..m /\ prev[j] = j - 1
      BY <1>1
    <3>2. from[start[k + 1]] = {start[l] : l \in k + 1..m}
      BY <2>3, <3>1
    <3>. HIDE DEF k
    <3>3. from[start[k]] = {start[k]} \cup {start[l] : l \in k + 1..m}
      <4>1. start[k] \in 1..n /\ next[start[k]] = start[k + 1]
        BY <1>4, <3>1, Zenon
      <4>. QED  BY <2>1, <3>2, <4>1, Zenon
    <3>4. {start[k]} \cup {start[l] : l \in k + 1..m} = {start[l] : l \in k..m}
      <4>1. \A l : l \in k..m <=> l = k \/ l \in k + 1..m
        BY <1>1, <3>1
      <4>. QED  BY <4>1
    <3>5. from[start[k]] = {start[l] : l \in k..m}
      BY <3>3, <3>4, Zenon
    <3>. QED  BY <3>1, <3>5 DEF k
  <2>4. 0..m \subseteq P
    <3>1. prev \in [1..m -> Nat] /\ \A j \in 1..m : prev[j] < j
      BY <1>1
    <3>. HIDE DEF P, prev
    <3>. QED  BY <1>1, <2>2, <2>3, <3>1, UpwardInduction
  <2>5. m \in P
    <3>. HIDE DEF P
    <3>. QED  BY <1>1, <2>4
  <2>6. m + 1 - m = 1
    BY <1>1
  <2>. QED  BY <1>1, <2>1, <2>5, <2>6
<1>8. Like(pattern, value, escape) <=>
        \E cut \in [1..n + 1 -> 0..Len(value)] :
          /\ cut[1] = 0 /\ cut[n + 1] = Len(value)
          /\ \A i \in Visited(1, next) : Taking(pattern, value, escape, i, cut[i], cut[next[i]])
  BY DEF Like, n, next, Taking
<1>. HIDE DEF One, Two
<1>9. Like(pattern, value, escape) <=>
        \E cut \in [1..n + 1 -> 0..Len(value)] :
          /\ cut[1] = 0 /\ cut[n + 1] = Len(value)
          /\ \A k \in 1..m : cut[start[k + 1]] = cut[start[k]] + 1 /\ value[cut[start[k + 1]]] = id[k]
  <2>1. ASSUME NEW cut
        PROVE  (\A i \in Visited(1, next) : Taking(pattern, value, escape, i, cut[i], cut[next[i]])) <=>
                  \A k \in 1..m : cut[start[k + 1]] = cut[start[k]] + 1 /\ value[cut[start[k + 1]]] = id[k]
    <3>1. (\A i \in Visited(1, next) : Taking(pattern, value, escape, i, cut[i], cut[next[i]])) <=>
             \A k \in 1..m : Taking(pattern, value, escape, start[k], cut[start[k]], cut[next[start[k]]])
      BY <1>6
    <3>2. \A k \in 1..m : Taking(pattern, value, escape, start[k], cut[start[k]], cut[next[start[k]]]) <=>
             cut[start[k + 1]] = cut[start[k]] + 1 /\ value[cut[start[k + 1]]] = id[k]
      <4>. SUFFICES ASSUME NEW k \in 1..m
                    PROVE  Taking(pattern, value, escape, start[k], cut[start[k]], cut[next[start[k]]]) <=>
                             cut[start[k + 1]] = cut[start[k]] + 1 /\ value[cut[start[k + 1]]] = id[k]
        OBVIOUS
      <4>1. next[start[k]] = start[k + 1]
        BY <1>4, Zenon
      <4>2. Taking(pattern, value, escape, start[k], cut[start[k]], cut[start[k + 1]]) <=>
              cut[start[k + 1]] = cut[start[k]] + 1 /\ value[cut[start[k + 1]]] = id[k]
        <5>1. \/ Escapes(pattern, start[k], escape) /\ pattern[start[k] + 1] = id[k]
              \/ ~Escapes(pattern, start[k], escape) /\ pattern[start[k]] = id[k] /\ id[k] \notin {"%", "_"}
          BY <1>1, Zenon DEF One, Two
        <5>. DEFINE i == start[k]
                    from == cut[start[k]]
                    to == cut[start[k + 1]]
                    c == id[k]
        <5>. HIDE DEF i, from, to, c
        <5>2. \/ Escapes(pattern, i, escape) /\ pattern[i + 1] = c
              \/ ~Escapes(pattern, i, escape) /\ pattern[i] = c /\ c \notin {"%", "_"}
          BY <5>1 DEF i, c
        <5>3. Taking(pattern, value, escape, i, from, to) <=> to = from + 1 /\ value[to] = c
          <6>1. CASE Escapes(pattern, i, escape) /\ pattern[i + 1] = c
            BY <6>1 DEF Taking
          <6>2. CASE ~Escapes(pattern, i, escape) /\ pattern[i] = c /\ c \notin {"%", "_"}
            <7>1. pattern[i] # "%" /\ pattern[i] # "_"
              BY <6>2
            <7>2. Taking(pattern, value, escape, i, from, to) <=> to = from + 1 /\ pattern[i] \in {"_", value[to]}
              BY <6>2, <7>1 DEF Taking
            <7>. QED  BY <6>2, <7>1, <7>2
          <6>. QED  BY <5>2, <6>1, <6>2
        <5>. QED  BY <5>3 DEF i, from, to, c
      <4>. QED  BY <4>1, <4>2, Zenon
    <3>. QED  BY <3>1, <3>2, Zenon
  <2>. QED  BY <1>8, <2>1, Zenon
<1>. HIDE DEF n
<1>11. ASSUME Like(pattern, value, escape) PROVE value = id
  <2>1. PICK cut \in [1..n + 1 -> 0..Len(value)] :
          /\ cut[1] = 0 /\ cut[n + 1] = Len(value)
          /\ \A k \in 1..m : cut[start[k + 1]] = cut[start[k]] + 1 /\ value[cut[start[k + 1]]] = id[k]
    BY <1>9, <1>11, Zenon
  <2>. DEFINE P == {k \in 0..m : cut[start[k + 1]] = k}
              prev == [k \in 1..m |-> k - 1]
  <2>2. 0 \in P
    BY <1>1, <2>1
  <2>3. ASSUME NEW k \in 1..m, prev[k] \in P PROVE k \in P
    <3>1. prev[k] = k - 1 /\ (k - 1) + 1 = k /\ k \in 0..m
      BY <1>1
    <3>2. cut[start[k]] = k - 1
      BY <2>3, <3>1
    <3>3. cut[start[k + 1]] = k
      BY <2>1, <3>1, <3>2
    <3>. QED  BY <3>1, <3>3
  <2>4. 0..m \subseteq P
    <3>1. prev \in [1..m -> Nat] /\ \A j \in 1..m : prev[j] < j
      BY <1>1
    <3>. HIDE DEF P, prev
    <3>. QED  BY <1>1, <2>2, <2>3, <3>1, UpwardInduction
  <2>5. \A k \in 1..m : cut[start[k + 1]] = k
    <3>1. \A k \in 1..m : k \in 0..m
      BY <1>1
    <3>. QED  BY <2>4, <3>1
  <2>6. Len(value) = m
    <3>1. m \in P
      <4>. HIDE DEF P
      <4>. QED  BY <1>1, <2>4
    <3>. QED  BY <1>1, <2>1, <3>1
  <2>7. \A k \in 1..m : value[k] = id[k]
    BY <2>1, <2>5, Zenon
  <2>. QED  BY <1>1, <2>6, <2>7 DEF m
<1>12. ASSUME value = id PROVE Like(pattern, value, escape)
  <2>. DEFINE cut == [i \in 1..n + 1 |-> IF \E k \in 1..m + 1 : start[k] = i
                                         THEN (CHOOSE k \in 1..m + 1 : start[k] = i) - 1 ELSE 0]
  <2>1. Len(value) = m
    BY <1>12 DEF m
  <2>2. cut \in [1..n + 1 -> 0..Len(value)]
    <3>1. ASSUME NEW i, \E k \in 1..m + 1 : start[k] = i
          PROVE  (CHOOSE k \in 1..m + 1 : start[k] = i) - 1 \in 0..m
      <4>. DEFINE k == CHOOSE k \in 1..m + 1 : start[k] = i
      <4>1. k \in 1..m + 1
        BY <3>1, Zenon
      <4>2. m \in Nat
        BY <1>1
      <4>. HIDE DEF k
      <4>3. k - 1 \in 0..m
        BY <4>1, <4>2
      <4>. QED  BY <4>3 DEF k
    <3>2. 0 \in 0..m
      BY <1>1
    <3>3. \A i \in 1..n + 1 : (IF \E k \in 1..m + 1 : start[k] = i
                              THEN (CHOOSE k \in 1..m + 1 : start[k] = i) - 1 ELSE 0) \in 0..m
      BY <3>1, <3>2, Zenon
    <3>. QED  BY <2>1, <3>3
  <2>3. ASSUME NEW k \in 1..m + 1 PROVE start[k] \in 1..n + 1 /\ cut[start[k]] = k - 1
    <3>1. start[k] \in 1..n + 1
      <4>1. k = m + 1 \/ k \in 1..m
        BY <1>1
      <4>. QED  BY <1>1, <1>4, <4>1
    <3>2. \A j \in 1..m + 1 : start[j] = start[k] => j = k
      <4>. SUFFICES ASSUME NEW j \in 1..m + 1, start[j] = start[k], j # k PROVE FALSE
        OBVIOUS
      <4>1. j \in 1..k - 1 \/ k \in 1..j - 1
        BY <1>1
      <4>2. start[j] < start[k] \/ start[k] < start[j]
        BY <1>3, <4>1
      <4>. QED  BY <1>1, <4>2
    <3>3. (CHOOSE j \in 1..m + 1 : start[j] = start[k]) = k
      BY <3>2
    <3>. QED  BY <3>1, <3>3
  <2>. HIDE DEF cut
  <2>4. cut[1] = 0 /\ cut[n + 1] = Len(value)
    <3>1. 1 \in 1..m + 1 /\ m + 1 \in 1..m + 1 /\ (m + 1) - 1 = m /\ 1 - 1 = 0
      BY <1>1
    <3>. QED  BY <1>1, <2>1, <2>3, <3>1
  <2>5. ASSUME NEW k \in 1..m
        PROVE  cut[start[k + 1]] = cut[start[k]] + 1 /\ value[cut[start[k + 1]]] = id[k]
    <3>1. k \in 1..m + 1 /\ k + 1 \in 1..m + 1 /\ (k + 1) - 1 = k /\ (k - 1) + 1 = k
      BY <1>1
    <3>2. cut[start[k + 1]] = k /\ cut[start[k]] = k - 1
      BY <2>3, <3>1
    <3>. QED  BY <1>12, <3>1, <3>2, Zenon
  <2>. QED  BY <1>9, <2>2, <2>4, <2>5, Zenon
<1>. QED  BY <1>11, <1>12

\* An identifier that can be told from a pattern.
Expressed(id, escape) == escape = Empty => \A k \in 1..Len(id) : id[k] \notin {"%", "_"}

\* An escaped identifier spells the identifier.
LEMMA EscapedSpells ==
  ASSUME NEW T, NEW id \in Seq(T), NEW escape, Expressed(id, escape)
  PROVE  LET pattern == escape_pattern_metacharacters(id, escape)
         IN  \E S, start : pattern \in Seq(S) /\ Spells(pattern, escape, start, id, Len(id))
<1>. DEFINE pattern == escape_pattern_metacharacters(id, escape)
            m == Len(id)
<1>0. m \in Nat /\ \A k \in 1..m : id[k] \in T
  OBVIOUS
<1>1. CASE escape = Empty
  <2>. DEFINE start == [k \in 1..m + 1 |-> k]
  <2>1. pattern = id
    BY <1>1 DEF escape_pattern_metacharacters
  <2>2. start \in [1..m + 1 -> Nat \ {0}] /\ start[1] = 1 /\ start[m + 1] = Len(id) + 1
    BY <1>0
  <2>3. \A k \in 1..m : start[k] = k /\ start[k + 1] = start[k] + 1
    BY <1>0
  <2>. HIDE DEF start
  <2>4. \A k \in 1..m : ~Escapes(id, start[k], escape) /\ id[k] \notin {"%", "_"}
    BY <1>1 DEF Escapes, Expressed
  <2>5. Spells(id, escape, start, id, m)
    BY <1>0, <2>2, <2>3, <2>4, Zenon DEF Spells
  <2>. HIDE DEF pattern
  <2>. QED  BY <2>1, <2>5 DEF pattern
<1>2. CASE escape # Empty
  <2>. DEFINE e == escape[1]
              special(k) == id[k] \in {e, "%", "_"}
              block(k) == IF special(k) THEN <<e, id[k]>> ELSE <<id[k]>>
              blocks == [k \in 1..m |-> block(k)]
              S == T \cup {e}
  <2>1. pattern = FlattenSeq(blocks)
    BY <1>2 DEF escape_pattern_metacharacters
  <2>. HIDE DEF pattern
  <2>2. \A k \in 1..m : /\ special(k) => /\ block(k) \in Seq(S) /\ Len(block(k)) = 2
                                         /\ block(k)[1] = e /\ block(k)[2] = id[k]
                        /\ ~special(k) => block(k) \in Seq(S) /\ Len(block(k)) = 1 /\ block(k)[1] = id[k]
    <3>. SUFFICES ASSUME NEW k \in 1..m
                  PROVE  /\ special(k) => /\ block(k) \in Seq(S) /\ Len(block(k)) = 2
                                          /\ block(k)[1] = e /\ block(k)[2] = id[k]
                         /\ ~special(k) => block(k) \in Seq(S) /\ Len(block(k)) = 1 /\ block(k)[1] = id[k]
      OBVIOUS
    <3>1. id[k] \in S /\ e \in S
      BY <1>0
    <3>2. CASE special(k)
      <4>1. block(k) = <<e, id[k]>>
        BY <3>2
      <4>. HIDE DEF special, block, S, e
      <4>. QED  BY <3>1, <3>2, <4>1
    <3>3. CASE ~special(k)
      <4>1. block(k) = <<id[k]>>
        BY <3>3
      <4>. HIDE DEF special, block, S, e
      <4>. QED  BY <3>1, <3>3, <4>1
    <3>. QED  BY <3>2, <3>3
  <2>. HIDE DEF block
  <2>3. Len(blocks) = m /\ \A k \in 1..m : blocks[k] = block(k)
    BY <1>0
  <2>. HIDE DEF blocks
  <2>4. Sequences(S, blocks)
    <3>1. \A k \in 1..m : block(k) \in Seq(S)
      BY <2>2, Zenon
    <3>2. blocks \in [1..m -> Seq(S)]
      BY <3>1 DEF blocks
    <3>. HIDE DEF S, m
    <3>. QED  BY <1>0, <3>2 DEF Sequences
  <2>5. pattern \in Seq(S)
    BY <2>1, <2>4, FlattenSeqLays
  <2>6. PICK at : Laid(pattern, 0, blocks, at) /\ Len(pattern) = at[m + 1]
    BY <2>1, <2>3, <2>4, FlattenSeqLays
  <2>. DEFINE n == Len(pattern)
  <2>7. n \in Nat
    BY <2>5
  <2>8. /\ at \in [1..m + 1 -> Nat] /\ at[1] = 0
        /\ \A k \in 1..m : /\ at[k + 1] = at[k] + Len(block(k))
                           /\ \A j \in 1..Len(block(k)) : pattern[0 + at[k] + j] = block(k)[j]
    <3>. DEFINE l == Len(blocks)
    <3>1. /\ at \in [1..l + 1 -> Nat] /\ at[1] = 0
          /\ \A k \in 1..l : /\ at[k + 1] = at[k] + Len(blocks[k])
                             /\ \A j \in 1..Len(blocks[k]) : pattern[0 + at[k] + j] = blocks[k][j]
      BY <2>6, Zenon DEF Laid
    <3>2. l = m
      BY <2>3
    <3>. HIDE DEF l
    <3>3. /\ at \in [1..m + 1 -> Nat]
          /\ \A k \in 1..m : /\ at[k + 1] = at[k] + Len(blocks[k])
                             /\ \A j \in 1..Len(blocks[k]) : pattern[0 + at[k] + j] = blocks[k][j]
      BY <3>1, <3>2
    <3>4. \A k \in 1..m : blocks[k] = block(k)
      BY <2>3
    <3>. QED  BY <3>1, <3>3, <3>4
  <2>. DEFINE start == [k \in 1..m + 1 |-> at[k] + 1]
  <2>9. start \in [1..m + 1 -> Nat \ {0}] /\ start[1] = 1 /\ start[m + 1] = n + 1
    <3>1. 1 \in 1..m + 1 /\ m + 1 \in 1..m + 1
      BY <1>0
    <3>2. \A k \in 1..m + 1 : at[k] + 1 \in Nat \ {0}
      BY <2>8
    <3>. QED  BY <2>6, <2>8, <3>1, <3>2
  <2>10. \A k \in 1..m : /\ start[k] = at[k] + 1 /\ start[k + 1] = at[k + 1] + 1
                         /\ k \in 1..m + 1 /\ k + 1 \in 1..m + 1 /\ at[k] \in Nat /\ at[k + 1] \in Nat
    BY <1>0, <2>8
  <2>. HIDE DEF start, n
  <2>11. ASSUME NEW k \in 1..m, special(k)
         PROVE  start[k + 1] = start[k] + 2 /\ pattern[start[k]] = e /\ pattern[start[k] + 1] = id[k]
    <3>1. at[k + 1] = at[k] + 2 /\ pattern[0 + at[k] + 1] = e /\ pattern[0 + at[k] + 2] = id[k]
      <4>1. Len(block(k)) = 2 /\ block(k)[1] = e /\ block(k)[2] = id[k]
        BY <2>2, <2>11, Zenon
      <4>2. 1 \in 1..2 /\ 2 \in 1..2
        OBVIOUS
      <4>. QED  BY <2>8, <4>1, <4>2, Zenon
    <3>2. 0 + at[k] + 1 = start[k] /\ 0 + at[k] + 2 = start[k] + 1 /\ start[k + 1] = at[k + 1] + 1
      BY <2>10
    <3>3. start[k + 1] = start[k] + 2
      BY <2>10, <3>1
    <3>. QED  BY <3>1, <3>2, <3>3, Zenon
  <2>12. ASSUME NEW k \in 1..m, ~special(k)
         PROVE  start[k + 1] = start[k] + 1 /\ pattern[start[k]] = id[k]
    <3>1. at[k + 1] = at[k] + 1 /\ pattern[0 + at[k] + 1] = id[k]
      <4>1. Len(block(k)) = 1 /\ block(k)[1] = id[k]
        BY <2>2, <2>12, Zenon
      <4>2. 1 \in 1..1
        OBVIOUS
      <4>. QED  BY <2>8, <4>1, <4>2, Zenon
    <3>2. 0 + at[k] + 1 = start[k]
      BY <2>10
    <3>3. start[k + 1] = start[k] + 1
      BY <2>10, <3>1
    <3>. QED  BY <3>1, <3>2, <3>3, Zenon
  <2>13. start \in [1..m + 1 -> Nat] /\ \A k \in 1..m : start[k] < start[k + 1]
    <3>1. ASSUME NEW k \in 1..m PROVE start[k] < start[k + 1]
      <4>1. start[k] = at[k] + 1 /\ at[k] \in Nat
        BY <2>10, Zenon
      <4>2. start[k + 1] = start[k] + 2 \/ start[k + 1] = start[k] + 1
        BY <2>11, <2>12, Zenon
      <4>. QED  BY <4>1, <4>2
    <3>2. start \in [1..m + 1 -> Nat]
      BY <2>9
    <3>. QED  BY <3>1, <3>2
  <2>14. \A k \in 1..m : start[k + 1] <= n + 1
    <3>1. \A k \in 1..m + 1 : \A j \in 1..k - 1 : start[j] < start[k]
      BY <1>0, <2>13, Rise
    <3>. SUFFICES ASSUME NEW k \in 1..m PROVE start[k + 1] <= n + 1
      OBVIOUS
    <3>2. k + 1 \in 1..m + 1 /\ m + 1 \in 1..m + 1 /\ (m + 1) - 1 = m
      BY <1>0
    <3>3. start[k + 1] \in Nat
      BY <2>13, <3>2
    <3>4. CASE k = m
      BY <2>7, <2>9, <3>4 DEF n
    <3>5. CASE k # m
      <4>1. k + 1 \in 1..m
        BY <1>0, <3>5
      <4>2. start[k + 1] < start[m + 1]
        BY <3>1, <3>2, <4>1
      <4>. QED  BY <2>7, <2>9, <3>3, <4>2 DEF n
    <3>. QED  BY <3>4, <3>5
  <2>15. \A k \in 1..m :
           \/ /\ Escapes(pattern, start[k], escape) /\ start[k + 1] = start[k] + 2
              /\ pattern[start[k] + 1] = id[k]
           \/ /\ ~Escapes(pattern, start[k], escape) /\ start[k + 1] = start[k] + 1
              /\ pattern[start[k]] = id[k] /\ id[k] \notin {"%", "_"}
    <3>. SUFFICES ASSUME NEW k \in 1..m
                  PROVE  \/ /\ Escapes(pattern, start[k], escape) /\ start[k + 1] = start[k] + 2
                            /\ pattern[start[k] + 1] = id[k]
                         \/ /\ ~Escapes(pattern, start[k], escape) /\ start[k + 1] = start[k] + 1
                            /\ pattern[start[k]] = id[k] /\ id[k] \notin {"%", "_"}
      OBVIOUS
    <3>1. CASE special(k)
      <4>1. start[k + 1] = start[k] + 2 /\ pattern[start[k]] = e /\ pattern[start[k] + 1] = id[k]
        BY <2>11, <3>1, Zenon
      <4>2. start[k] < n
        <5>1. start[k] + 2 <= n + 1 /\ start[k] \in Nat
          BY <2>10, <2>14, <4>1
        <5>. QED  BY <2>7, <5>1 DEF n
      <4>3. Escapes(pattern, start[k], escape)
        BY <1>2, <4>1, <4>2, Zenon DEF Escapes, n
      <4>. QED  BY <4>1, <4>3, Zenon
    <3>2. CASE ~special(k)
      <4>1. start[k + 1] = start[k] + 1 /\ pattern[start[k]] = id[k]
        BY <2>12, <3>2, Zenon
      <4>2. id[k] # e /\ id[k] \notin {"%", "_"}
        BY <3>2
      <4>3. ~Escapes(pattern, start[k], escape)
        BY <4>1, <4>2, Zenon DEF Escapes
      <4>. QED  BY <4>1, <4>2, <4>3, Zenon
    <3>. QED  BY <3>1, <3>2
  <2>16. Spells(pattern, escape, start, id, m)
    BY <1>0, <2>9, <2>15, Zenon DEF Spells, n
  <2>. QED  BY <2>5, <2>16, Zenon DEF pattern, m
<1>. QED  BY <1>1, <1>2

\* What is spelled is no NULL.
LEMMA SpelledIsThere ==
  ASSUME NEW pattern, NEW escape, NEW start, NEW T, NEW id \in Seq(T), Spells(pattern, escape, start, id, Len(id)),
         \A k \in 1..Len(id) : id[k] # "NULL"
  PROVE  pattern # Null
<1>. SUFFICES ASSUME pattern = Null PROVE FALSE
  OBVIOUS
<1>1. Len(pattern) = 1 /\ pattern[1] = "NULL"
  BY DEF Null
<1>2. start[1] = 1 /\ start[Len(id) + 1] = 2
  <2>1. start[1] = 1 /\ start[Len(id) + 1] = Len(pattern) + 1
    BY Zenon DEF Spells
  <2>. QED  BY <1>1, <2>1
<1>3. Len(id) # 0
  BY <1>2
<1>4. 1 \in 1..Len(id)
  BY <1>3
<1>5. \/ Escapes(pattern, 1, escape)
      \/ pattern[1] = id[1]
  BY <1>2, <1>4, Zenon DEF Spells
<1>. QED  BY <1>1, <1>4, <1>5 DEF Escapes

\* The characters of what an identifier is, in any case.
Letter == Character \cup {"A", "B", "a", "b"}

\* Folding changes no more than the case of letters.
LEMMA FoldIsText ==
  ASSUME NEW text \in Text
  PROVE  LET id == Fold(text, source)
         IN  /\ id \in Seq(Letter) /\ Len(id) = Len(text)
             /\ \A k \in 1..Len(id) : id[k] \in {text[k], "A", "B", "a", "b"}
<1>. DEFINE n == Len(text)
<1>1. n \in Nat /\ text \in [1..n -> Character]
  BY DEF Text
<1>2. ASSUME NEW id \in [1..n -> Letter], \A k \in 1..n : id[k] \in {text[k], "A", "B", "a", "b"}
      PROVE  /\ id \in Seq(Letter) /\ Len(id) = Len(text)
             /\ \A k \in 1..Len(id) : id[k] \in {text[k], "A", "B", "a", "b"}
  <2>. HIDE DEF Letter
  <2>1. id \in Seq(Letter) /\ Len(id) = n
    BY <1>1, <1>2
  <2>. QED  BY <1>2, <2>1
<1>3. \A k \in 1..n : /\ text[k] \in Letter /\ Upper(text[k]) \in Letter /\ Lower(text[k]) \in Letter
                      /\ Upper(text[k]) \in {text[k], "A", "B", "a", "b"}
                      /\ Lower(text[k]) \in {text[k], "A", "B", "a", "b"}
  BY <1>1 DEF Upper, Lower, Letter
<1>4. CASE source.case = "upper"
  <2>. DEFINE id == [k \in 1..n |-> Upper(text[k])]
  <2>1. Fold(text, source) = id
    BY <1>4 DEF Fold, Map
  <2>2. id \in [1..n -> Letter] /\ \A k \in 1..n : id[k] \in {text[k], "A", "B", "a", "b"}
    BY <1>3
  <2>. HIDE DEF id
  <2>. QED  BY <1>2, <2>1, <2>2, Zenon
<1>5. CASE source.case = "lower"
  <2>. DEFINE id == [k \in 1..n |-> Lower(text[k])]
  <2>1. Fold(text, source) = id
    BY <1>5 DEF Fold, Map
  <2>2. id \in [1..n -> Letter] /\ \A k \in 1..n : id[k] \in {text[k], "A", "B", "a", "b"}
    BY <1>3
  <2>. HIDE DEF id
  <2>. QED  BY <1>2, <2>1, <2>2, Zenon
<1>6. CASE source.case # "upper" /\ source.case # "lower"
  <2>1. Fold(text, source) = text
    BY <1>6 DEF Fold
  <2>2. text \in [1..n -> Letter] /\ \A k \in 1..n : text[k] \in {text[k], "A", "B", "a", "b"}
    BY <1>1, <1>3
  <2>. QED  BY <1>2, <2>1, <2>2, Zenon
<1>. QED  BY <1>4, <1>5, <1>6

\* What is between the first and the last character of a text.
LEMMA Inner ==
  ASSUME NEW T, NEW text \in Seq(T), Len(text) >= 2
  PROVE  LET inner == SubSeq(text, 2, Len(text) - 1)
         IN  /\ inner \in Seq(T) /\ Len(inner) = Len(text) - 2
             /\ \A k \in 1..Len(inner) : inner[k] = text[k + 1]
<1>. DEFINE n == Len(text)
            inner == SubSeq(text, 2, n - 1)
<1>1. n \in Nat /\ n >= 2
  OBVIOUS
<1>2. inner \in Seq(T)
  OBVIOUS
<1>3. Len(inner) = n - 2
  <2>1. CASE n = 2
    <3>1. SubSeq(text, 2, 1) = <<>>
      BY <1>1
    <3>2. n - 1 = 1
      BY <2>1
    <3>3. inner = <<>>
      BY <3>1, <3>2, Zenon
    <3>. HIDE DEF inner
    <3>4. Len(inner) = 0
      BY <3>3
    <3>. QED  BY <2>1, <3>4
  <2>2. CASE n # 2
    <3>1. 2 \in Int /\ n - 1 \in Int /\ 2 <= n - 1
      <4>. HIDE DEF n
      <4>. QED  BY <1>1, <2>2
    <3>2. Len(SubSeq(text, 2, n - 1)) = n - 1 - 2 + 1
      BY <3>1
    <3>. QED  BY <1>1, <3>2
  <2>. QED  BY <2>1, <2>2
<1>4. \A k \in 1..n - 2 : inner[k] = text[k + 1]
  OBVIOUS
<1>. QED  BY <1>2, <1>3, <1>4

\* What an identifier denotes is a text, and has no more metacharacters.
LEMMA IdentifiedIs ==
  ASSUME NEW arg \in Text
  PROVE  LET id == Identified(arg)
         IN  /\ id \in Seq(Letter) /\ \A k \in 1..Len(id) : id[k] # "NULL"
             /\ (\A k \in 1..Len(arg) : arg[k] \notin {"%", "_"}) => \A k \in 1..Len(id) : id[k] \notin {"%", "_"}
<1>. DEFINE id == Identified(arg)
<1>0. Len(arg) \in Nat /\ \A k \in 1..Len(arg) : arg[k] \in Character
  BY DEF Text
<1>1. id \in Seq(Letter) /\ \A k \in 1..Len(id) : \E l \in 1..Len(arg) : id[k] \in {arg[l], "A", "B", "a", "b"}
  <2>1. CASE Delimited(arg, source.quotes)
    <3>1. id = SubSeq(arg, 2, Len(arg) - 1)
      BY <2>1 DEF Identified
    <3>2. Len(arg) >= 2
      BY <2>1 DEF Delimited
    <3>. HIDE DEF id
    <3>3. id \in Seq(Character) /\ Len(id) = Len(arg) - 2 /\ \A k \in 1..Len(id) : id[k] = arg[k + 1]
      BY <3>1, <3>2, Inner, Zenon DEF Text
    <3>4. id \in Seq(Letter)
      BY <3>3 DEF Letter
    <3>5. \A k \in 1..Len(id) : k + 1 \in 1..Len(arg) /\ id[k] = arg[k + 1]
      BY <1>0, <3>2, <3>3
    <3>. QED  BY <3>4, <3>5
  <2>2. CASE ~Delimited(arg, source.quotes)
    <3>1. id = Fold(arg, source)
      BY <2>2 DEF Identified
    <3>2. Len(id) = Len(arg)
      BY <3>1, FoldIsText
    <3>. QED  BY <3>1, <3>2, FoldIsText, Zenon
  <2>. QED  BY <2>1, <2>2
<1>. HIDE DEF id
<1>2. \A k \in 1..Len(id) : id[k] # "NULL"
  <2>. SUFFICES ASSUME NEW k \in 1..Len(id) PROVE id[k] # "NULL"
    OBVIOUS
  <2>1. PICK l \in 1..Len(arg) : id[k] \in {arg[l], "A", "B", "a", "b"}
    BY <1>1
  <2>2. arg[l] # "NULL"
    BY <1>0, CollationAssumption
  <2>. QED  BY <2>1, <2>2
<1>3. ASSUME \A k \in 1..Len(arg) : arg[k] \notin {"%", "_"}
      PROVE  \A k \in 1..Len(id) : id[k] \notin {"%", "_"}
  <2>. SUFFICES ASSUME NEW k \in 1..Len(id) PROVE id[k] \notin {"%", "_"}
    OBVIOUS
  <2>1. PICK l \in 1..Len(arg) : id[k] \in {arg[l], "A", "B", "a", "b"}
    BY <1>1
  <2>2. arg[l] \notin {"%", "_"}
    BY <1>3
  <2>. QED  BY <2>1, <2>2
<1>. QED  BY <1>1, <1>2, <1>3 DEF id

\* Normalising an identifier escapes what it denotes.
LEMMA NormalisedIs ==
  ASSUME NEW arg
  PROVE  normalise_identifier(arg, source) = escape_pattern_metacharacters(Identified(arg), source.escape)
<1>1. CASE Delimited(arg, source.quotes)
  BY <1>1 DEF normalise_identifier, strip_delimiters, Identified
<1>2. CASE ~Delimited(arg, source.quotes)
  BY <1>2 DEF normalise_identifier, strip_delimiters, Identified
<1>. QED  BY <1>1, <1>2

\* The columns the arguments restrict.
Restricted == {"TABLE_CAT", "TABLE_SCHEM", "TABLE_NAME", "PKTABLE_CAT", "PKTABLE_SCHEM", "PKTABLE_NAME",
               "FKTABLE_CAT", "FKTABLE_SCHEM", "FKTABLE_NAME", "PROCEDURE_CAT", "PROCEDURE_SCHEM",
               "PROCEDURE_NAME", "COLUMN_NAME"}

\* No argument restricts any other column.
LEMMA ArgumentColumns ==
  ASSUME NEW f \in CatalogFunction, NEW i \in DOMAIN Arguments[f]
  PROVE  Arguments[f][i] \in Restricted
<1>1. f \in {"Tables", "PrimaryKeys", "Statistics", "SpecialColumns", "TablePrivileges"} =>
        Arguments[f] = <<"TABLE_CAT", "TABLE_SCHEM", "TABLE_NAME">>
  BY DEF Arguments, ThreePart
<1>2. f \in {"Columns", "ColumnPrivileges"} =>
        Arguments[f] = <<"TABLE_CAT", "TABLE_SCHEM", "TABLE_NAME", "COLUMN_NAME">>
  BY DEF Arguments, ThreePart
<1>3. f = "ForeignKeys" => Arguments[f] = <<"PKTABLE_CAT", "PKTABLE_SCHEM", "PKTABLE_NAME",
                                            "FKTABLE_CAT", "FKTABLE_SCHEM", "FKTABLE_NAME">>
  BY DEF Arguments
<1>4. f = "Procedures" => Arguments[f] = <<"PROCEDURE_CAT", "PROCEDURE_SCHEM", "PROCEDURE_NAME">>
  BY DEF Arguments
<1>5. f = "ProcedureColumns" =>
        Arguments[f] = <<"PROCEDURE_CAT", "PROCEDURE_SCHEM", "PROCEDURE_NAME", "COLUMN_NAME">>
  BY DEF Arguments
<1>. QED  BY <1>1, <1>2, <1>3, <1>4, <1>5, CatalogFunctions DEF Restricted

\* Where the data source has a place for the name, an object has one.
LEMMA FieldRestricted ==
  ASSUME NEW o \in Objects, NEW column \in Restricted,
         NamesCatalog(column) => source.catalogs, NamesSchema(column) => source.schemas
  PROVE  Field(o, column) \in Text
<1>1. o.catalog \in Text /\ o.schema \in Text /\ o.name \in Text /\ o.foreign \in Text /\ o.column \in Text
  BY ObjectFields
<1>. QED  BY <1>1 DEF Field, NamesCatalog, NamesSchema, Restricted

\* The backend matches what an argument denotes.
LEMMA MatchesDenotes ==
  ASSUME NEW c \in Calls, Expressible(c), NEW i \in DOMAIN c.args, c.args[i] # Unterminated, NEW o \in Objects
  PROVE  LET value == Field(o, Arguments[c.f][i])
         IN  Matches(Normalised(c)[i], value) <=> Denotes(c.args[i], value)
<1>. DEFINE arg == c.args[i]
            column == Arguments[c.f][i]
            value == Field(o, column)
            id == Identified(arg)
            pattern == normalise_identifier(arg, source)
<1>1. Normalised(c)[i] = IF metadata_id /\ arg # Null THEN pattern ELSE arg
  BY DEF Normalised, normalise_catalog_arg
<1>2. CASE arg = Null
  <2>1. Matches(Null, value) /\ Denotes(Null, value)
    BY DEF Matches, Denotes
  <2>. QED  BY <1>1, <1>2, <2>1
<1>3. CASE arg # Null /\ ~metadata_id
  <2>1. Denotes(arg, value) <=> Matches(arg, value)
    BY <1>3 DEF Denotes
  <2>. QED  BY <1>1, <1>3, <2>1
<1>4. CASE arg # Null /\ metadata_id
  <2>1. c.f \in CatalogFunction /\ i \in DOMAIN Arguments[c.f] /\ arg \in Text
    <3>1. c.f \in CatalogFunction /\ c.args \in [DOMAIN Arguments[c.f] -> Text \cup {Null, Unterminated}]
      BY CatalogAssumption
    <3>. QED  BY <1>4, <3>1
  <2>2. value \in Text /\ value # Null
    <3>1. column \in Restricted
      BY <2>1, ArgumentColumns
    <3>2. (NamesCatalog(column) => source.catalogs) /\ (NamesSchema(column) => source.schemas)
      BY <1>4 DEF Expressible
    <3>. QED  BY <3>1, <3>2, FieldRestricted, NullIsNoText, Zenon
  <2>3. id \in Seq(Letter) /\ \A k \in 1..Len(id) : id[k] # "NULL"
    BY <2>1, IdentifiedIs
  <2>4. Expressed(id, source.escape)
    <3>. SUFFICES ASSUME source.escape = Empty
                  PROVE  \A k \in 1..Len(id) : id[k] \notin {"%", "_"}
      BY Zenon DEF Expressed
    <3>1. \A k \in DOMAIN arg : arg[k] \notin {"%", "_"}
      BY <1>4 DEF Expressible
    <3>2. DOMAIN arg = 1..Len(arg)
      BY <2>1 DEF Text
    <3>. QED  BY <2>1, <3>1, <3>2, IdentifiedIs, Zenon
  <2>5. PICK S, start : pattern \in Seq(S) /\ Spells(pattern, source.escape, start, id, Len(id))
    <3>1. pattern = escape_pattern_metacharacters(id, source.escape)
      BY NormalisedIs
    <3>. HIDE DEF id, pattern
    <3>. QED  BY <2>3, <2>4, <3>1, EscapedSpells, Zenon
  <2>. HIDE DEF id, pattern, value
  <2>6. pattern # Null
    BY <2>3, <2>5, SpelledIsThere, Zenon
  <2>7. Like(pattern, value, source.escape) <=> value = id
    <3>1. value \in Seq(Character)
      BY <2>2 DEF Text
    <3>. QED  BY <2>3, <2>5, <3>1, SpelledIsLike, Zenon
  <2>8. Matches(pattern, value) <=> Like(pattern, value, source.escape)
    BY <2>2, <2>6 DEF Matches
  <2>9. Denotes(arg, value) <=> value = Identified(arg)
    BY <1>4, <2>2 DEF Denotes
  <2>. QED  BY <1>1, <1>4, <2>7, <2>8, <2>9 DEF id, value
<1>. QED  BY <1>2, <1>3, <1>4

\* So the objects the backend is asked for are those the arguments denote.
THEOREM AskedIsDenoted ==
  ASSUME NEW c \in Calls, Expressible(c), \A i \in DOMAIN c.args : c.args[i] # Unterminated
  PROVE  Asked(c) = Denoted(c)
<1>. DEFINE types == parse_table_type_list(c.types)
            Unique(o) == c.f = "Statistics" /\ c.option => o.number = <<"1">>
<1>1. DOMAIN Normalised(c) = DOMAIN c.args
  BY DEF Normalised
<1>2. \A o \in Objects : (\A i \in DOMAIN c.args : Matches(Normalised(c)[i], Field(o, Arguments[c.f][i]))) <=>
                         \A i \in DOMAIN c.args : Denotes(c.args[i], Field(o, Arguments[c.f][i]))
  BY MatchesDenotes, Zenon
<1>. DEFINE One(o) == \A i \in DOMAIN c.args : Matches(Normalised(c)[i], Field(o, Arguments[c.f][i]))
            Two(o) == \A i \in DOMAIN c.args : Denotes(c.args[i], Field(o, Arguments[c.f][i]))
<1>3. Asked(c) = {o \in Objects : One(o) /\ (types = {} \/ o.type \in types) /\ Unique(o)}
  BY <1>1, Zenon DEF Asked, Backend
<1>4. Denoted(c) = {o \in Objects : Two(o) /\ (types # {} => o.type \in types) /\ Unique(o)}
  BY Zenon DEF Denoted
<1>. HIDE DEF One, Two, types, Unique
<1>5. \A o \in Objects : One(o) <=> Two(o)
  BY <1>2 DEF One, Two
<1>. QED  BY <1>3, <1>4, <1>5

\* What depends on the data source and the statement's attribute alone stays
\* as they do.
Staying == source' = source /\ metadata_id' = metadata_id

\* So do: the value in a column,
LEMMA FieldStays ==
  ASSUME Staying
  PROVE  \A o, column : Field(o, column)' = Field(o, column)
BY DEF Staying, Field

\* what an argument matches,
LEMMA MatchesStays ==
  ASSUME Staying
  PROVE  \A arg, value : Matches(arg, value)' <=> Matches(arg, value)
BY DEF Staying, Matches

\* what an identifier denotes,
LEMMA IdentifiedStays ==
  ASSUME Staying
  PROVE  \A arg : Identified(arg)' = Identified(arg)
BY DEF Staying, Identified

\* what an argument denotes,
LEMMA DenotesStays ==
  ASSUME Staying
  PROVE  \A arg, value : Denotes(arg, value)' <=> Denotes(arg, value)
BY MatchesStays, IdentifiedStays DEF Staying, Denotes

\* the row of an object,
LEMMA DescribedRowStays ==
  ASSUME Staying
  PROVE  \A o, f : DescribedRow(o, f)' = DescribedRow(o, f)
BY FieldStays DEF DescribedRow

\* the objects that are denoted,
LEMMA DenotedStays ==
  ASSUME Staying
  PROVE  \A c : Denoted(c)' = Denoted(c)
BY FieldStays, DenotesStays DEF Denoted

\* whether a call can be expressed,
LEMMA ExpressibleStays ==
  ASSUME Staying
  PROVE  \A c : Expressible(c)' <=> Expressible(c)
BY DEF Staying, Expressible

\* and the order of rows.
LEMMA InOrderStays ==
  ASSUME Staying
  PROVE  \A r, s, c : InOrder(r, s, c)' <=> InOrder(r, s, c)
BY DEF Staying, InOrder

\* What AnswersItsArguments asks of the rows a call answers.
RightRows(c, rows, listed) ==
  /\ \A i \in 2..Len(rows) : InOrder(rows[i - 1], rows[i], c)
  /\ \A k \in DOMAIN Columns[c.f] :
       /\ Columns[c.f][k][2] = Values[c.f][k][2]
       /\ ~Columns[c.f][k][3] => \A i \in DOMAIN rows : rows[i][k] # Null
  /\ Enumerated(c) = "None" /\ Expressible(c) /\ listed =>
       /\ {rows[i] : i \in DOMAIN rows} = {DescribedRow(o, c.f) : o \in Denoted(c)}
       /\ Len(rows) = Cardinality(Denoted(c))
  /\ Enumerated(c) # "None" =>
       \A i, j \in DOMAIN rows :
         /\ Cardinality({k \in DOMAIN rows[i] : rows[i][k] # Null}) = 1
         /\ i # j => rows[i] # rows[j]

\* A call whose arguments are read answers the right rows.
LEMMA SortsRightRows ==
  ASSUME NEW c \in Calls, NEW outcome, NEW keys, Ordering(c, keys), Unreadable(c) = NoError, NEW listed,
         listed => AsksBackend(c) /\ outcome # "unimplemented"
  PROVE  RightRows(c, sort_rows(Answered(c, outcome), keys, source.nulls), listed)
<1>. DEFINE before == Answered(c, outcome)
            n == Len(before)
            rows == sort_rows(before, keys, source.nulls)
<1>0. c.f \in CatalogFunction
  BY CatalogAssumption
<1>1. /\ n \in Nat /\ \A i \in 1..n : Filled(before[i], c.f)
      /\ Enumerated(c) # "None" => Lists(before, Enumeration(c))
      /\ Enumerated(c) = "None" /\ AsksBackend(c) /\ outcome # "unimplemented" =>
           \E found : Lists(found, Asked(c)) /\ before = [i \in 1..Len(found) |-> DescribedRow(found[i], c.f)]
  BY <1>0, AnsweredRows
<1>. HIDE DEF before
<1>2. /\ Len(rows) = n /\ DOMAIN rows = 1..n
      /\ \A i \in 2..n : InOrder(rows[i - 1], rows[i], c)
      /\ \E at \in [1..n -> 1..n] :
           /\ \A k \in 1..n : rows[k] = before[at[k]]
           /\ \A i \in 1..n : \E k \in 1..n : at[k] = i
           /\ \A k, l \in 1..n : at[k] = at[l] => k = l
  BY <1>0, <1>1, SortedRows
<1>3. PICK at \in [1..n -> 1..n] :
           /\ \A k \in 1..n : rows[k] = before[at[k]]
           /\ \A i \in 1..n : \E k \in 1..n : at[k] = i
           /\ \A k, l \in 1..n : at[k] = at[l] => k = l
  BY <1>2, Zenon
<1>. HIDE DEF rows, n
<1>4. ASSUME NEW k \in DOMAIN Columns[c.f]
      PROVE  /\ Columns[c.f][k][2] = Values[c.f][k][2]
             /\ ~Columns[c.f][k][3] => \A i \in DOMAIN rows : rows[i][k] # Null
  <2>1. Columns[c.f][k][2] = Values[c.f][k][2]
    BY <1>0, ColumnsAlike, Zenon DEF Alike
  <2>2. \A i \in 1..n : ~Columns[c.f][k][3] => before[i][k] # Null
    BY <1>1, Zenon DEF Filled
  <2>3. \A i \in 1..n : at[i] \in 1..n
    BY <1>3
  <2>4. ASSUME ~Columns[c.f][k][3], NEW i \in 1..n PROVE rows[i][k] # Null
    <3>1. rows[i] = before[at[i]]
      BY <1>3
    <3>2. before[at[i]][k] # Null
      BY <2>2, <2>3, <2>4
    <3>. QED  BY <3>1, <3>2
  <2>. QED  BY <1>2, <2>1, <2>4
<1>5. ASSUME Enumerated(c) = "None", Expressible(c), listed
      PROVE  /\ {rows[i] : i \in DOMAIN rows} = {DescribedRow(o, c.f) : o \in Denoted(c)}
             /\ Len(rows) = Cardinality(Denoted(c))
  <2>1. AsksBackend(c) /\ outcome # "unimplemented"
    BY <1>5
  <2>2. \A i \in DOMAIN c.args : c.args[i] # Unterminated
    <3>1. ~(c.f = "SpecialColumns" /\ ~c.option)
      BY <1>5, <2>1 DEF AsksBackend
    <3>. QED  BY <3>1 DEF Unreadable, NoError
  <2>3. Asked(c) = Denoted(c)
    BY <1>5, <2>2, AskedIsDenoted
  <2>4. PICK found : Lists(found, Denoted(c)) /\ before = [i \in 1..Len(found) |-> DescribedRow(found[i], c.f)]
    BY <1>1, <1>5, <2>1, <2>3
  <2>5. Len(found) = Cardinality(Denoted(c)) /\ found \in Seq(Denoted(c))
        /\ \A o \in Denoted(c) : \E i \in 1..Len(found) : found[i] = o
    BY <2>4, ListsCounted, Zenon DEF Lists
  <2>6. Len(found) = n /\ Len(found) \in Nat
    BY <2>4, <2>5 DEF n
  <2>7. \A i \in 1..n : found[i] \in Denoted(c) /\ before[i] = DescribedRow(found[i], c.f)
    BY <2>4, <2>5, <2>6
  <2>8. ASSUME NEW o \in Denoted(c) PROVE \E i \in 1..n : rows[i] = DescribedRow(o, c.f)
    <3>1. PICK j \in 1..n : found[j] = o
      BY <2>5, <2>6
    <3>2. PICK i \in 1..n : at[i] = j
      BY <1>3
    <3>. QED  BY <1>3, <2>7, <3>1, <3>2, Zenon
  <2>9. ASSUME NEW i \in 1..n PROVE \E o \in Denoted(c) : rows[i] = DescribedRow(o, c.f)
    <3>1. at[i] \in 1..n
      BY <1>3
    <3>2. rows[i] = before[at[i]]
      BY <1>3
    <3>3. found[at[i]] \in Denoted(c) /\ before[at[i]] = DescribedRow(found[at[i]], c.f)
      BY <2>7, <3>1
    <3>. QED  BY <3>2, <3>3
  <2>10. {rows[i] : i \in DOMAIN rows} = {DescribedRow(o, c.f) : o \in Denoted(c)}
    <3>. DEFINE all == {rows[i] : i \in 1..n}
                 described == {DescribedRow(o, c.f) : o \in Denoted(c)}
    <3>1. \A row \in all : row \in described
      BY <2>9
    <3>2. \A row \in described : row \in all
      BY <2>8
    <3>. HIDE DEF described
    <3>3. all = described
      BY <3>1, <3>2
    <3>. QED  BY <1>2, <3>3 DEF described
  <2>. QED  BY <1>2, <2>5, <2>6, <2>10
<1>6. ASSUME Enumerated(c) # "None", NEW i \in DOMAIN rows, NEW j \in DOMAIN rows
      PROVE  /\ Cardinality({k \in DOMAIN rows[i] : rows[i][k] # Null}) = 1
             /\ i # j => rows[i] # rows[j]
  <2>1. before \in Seq(Enumeration(c)) /\ \A k, l \in 1..n : before[k] = before[l] => k = l
    BY <1>1, <1>6, Zenon DEF Lists, n
  <2>2. \A k \in 1..n : before[k] \in Enumeration(c)
    BY <2>1 DEF n
  <2>3. i \in 1..n /\ j \in 1..n /\ at[i] \in 1..n /\ at[j] \in 1..n
    BY <1>2, <1>3
  <2>4. rows[i] = before[at[i]] /\ rows[j] = before[at[j]]
    BY <1>3, <2>3
  <2>5. Cardinality({k \in DOMAIN rows[i] : rows[i][k] # Null}) = 1
    BY <1>6, <2>2, <2>3, <2>4, EnumerationRows, Zenon
  <2>6. i # j => rows[i] # rows[j]
    BY <1>3, <2>1, <2>3, <2>4, Zenon
  <2>. QED  BY <2>5, <2>6
<1>7. \A i \in 2..Len(rows) : InOrder(rows[i - 1], rows[i], c)
  BY <1>2
<1>8. RightRows(c, rows, listed)
  BY <1>4, <1>5, <1>6, <1>7, Zenon DEF RightRows
<1>. QED  BY <1>8 DEF rows, before

\* Right rows stay right.
LEMMA RightRowsStay ==
  ASSUME Staying
  PROVE  \A c, rows, listed : RightRows(c, rows, listed)' <=> RightRows(c, rows, listed)
<1>1. \A c : Enumerated(c)' = Enumerated(c)
  BY DEF Enumerated
<1>. SUFFICES ASSUME NEW c, NEW rows, NEW listed
              PROVE  RightRows(c, rows, listed)' <=> RightRows(c, rows, listed)
  OBVIOUS
<1>2. (\A i \in 2..Len(rows) : InOrder(rows[i - 1], rows[i], c))'
        <=> \A i \in 2..Len(rows) : InOrder(rows[i - 1], rows[i], c)
  BY InOrderStays
<1>3. Expressible(c)' <=> Expressible(c)
  BY ExpressibleStays
<1>4. Denoted(c)' = Denoted(c)
  BY DenotedStays
<1>5. {DescribedRow(o, c.f) : o \in Denoted(c)}' = {DescribedRow(o, c.f) : o \in Denoted(c)}
  BY <1>4, DescribedRowStays
<1>. QED  BY <1>1, <1>2, <1>3, <1>4, <1>5, Zenon DEF RightRows

\* AnswersItsArguments is about the call, the rows and the flag it answered.
LEMMA AnswersAre ==
  ASSUME NEW c, NEW rows, NEW listed, answer'.call = c, answer'.rows = rows, answer'.listed = listed,
         RightRows(c, rows, listed)'
  PROVE  AnswersItsArguments'
<1>1. AnswersItsArguments' <=>
        (answer'.f \in CatalogFunction => RightRows(answer.call, answer.rows, answer.listed)')
  BY DEF RightRows, AnswersItsArguments
<1>. QED  BY <1>1

\* What is refused for nothing passed every check.
LEMMA NothingRefused ==
  ASSUME NEW S, NEW checks \in Seq(S), Refusal(checks) = NoError, NEW i \in 1..Len(checks)
  PROVE  checks[i] = NoError
<1>. DEFINE failed == {j \in DOMAIN checks : checks[j] # NoError}
<1>1. CASE failed = {}
  BY <1>1
<1>2. CASE failed # {}
  <2>1. failed \subseteq Nat
    OBVIOUS
  <2>. HIDE DEF failed
  <2>2. Least(failed) \in failed
    BY <1>2, <2>1, LeastIsLeast
  <2>3. Refusal(checks) = checks[Least(failed)]
    BY <1>2 DEF Refusal, failed
  <2>4. checks[Least(failed)] # NoError
    BY <2>2 DEF failed
  <2>. QED  BY <2>3, <2>4
<1>. QED  BY <1>1, <1>2

\* Every catalog function reads its arguments before it asks the backend.
LEMMA ReadBefore ==
  ASSUME NEW c
  PROVE  /\ Refusal(ParametersFirst(c)) = NoError => Unreadable(c) = NoError
         /\ Refusal(CursorFirst(c)) = NoError => Unreadable(c) = NoError
         /\ Refusal(NameChecked(c)) = NoError => Unreadable(c) = NoError
         /\ Refusal(<<InvalidCursor, check_null_table_name(c), Unreadable(c),
                      check_metadata_id_null_catalog(c)>>) = NoError => Unreadable(c) = NoError
<1>. DEFINE a == Unreadable(c)
            b == InvalidCursor
            d == check_null_table_name(c)
            e == check_metadata_id_null_catalog(c)
            S == {a, b, d, e}
<1>0. ParametersFirst(c) = <<a, b, e>> /\ CursorFirst(c) = <<b, a, e>> /\ NameChecked(c) = <<b, d, e, a>>
  BY DEF ParametersFirst, CursorFirst, NameChecked
<1>1. a \in S /\ b \in S /\ d \in S /\ e \in S
  OBVIOUS
<1>. HIDE DEF a, b, d, e, S
<1>2. Refusal(<<a, b, e>>) = NoError => a = NoError
  <2>1. <<a, b, e>> \in Seq(S) /\ 1 \in 1..Len(<<a, b, e>>) /\ <<a, b, e>>[1] = a
    BY <1>1
  <2>. QED  BY <2>1, NothingRefused, Zenon
<1>3. Refusal(<<b, a, e>>) = NoError => a = NoError
  <2>1. <<b, a, e>> \in Seq(S) /\ 2 \in 1..Len(<<b, a, e>>) /\ <<b, a, e>>[2] = a
    BY <1>1
  <2>. QED  BY <2>1, NothingRefused, Zenon
<1>4. Refusal(<<b, d, e, a>>) = NoError => a = NoError
  <2>1. <<b, d, e, a>> \in Seq(S) /\ 4 \in 1..Len(<<b, d, e, a>>) /\ <<b, d, e, a>>[4] = a
    BY <1>1
  <2>. QED  BY <2>1, NothingRefused, Zenon
<1>5. Refusal(<<b, d, a, e>>) = NoError => a = NoError
  <2>1. <<b, d, a, e>> \in Seq(S) /\ 3 \in 1..Len(<<b, d, a, e>>) /\ <<b, d, a, e>>[3] = a
    BY <1>1
  <2>. QED  BY <2>1, NothingRefused, Zenon
<1>. QED  BY <1>0, <1>2, <1>3, <1>4, <1>5, Zenon DEF a, b, d, e

\* A catalog function answers its arguments.
LEMMA AnswersRightly ==
  ASSUME NEW c \in Calls, NEW outcome, NEW checks, NEW keys, Ordering(c, keys),
         Refusal(checks) = NoError => Unreadable(c) = NoError, Answering(c, outcome, checks, keys)
  PROVE  AnswersItsArguments'
<1>. DEFINE error == IF Refusal(checks) # NoError THEN Refusal(checks)
                     ELSE IF AsksBackend(c) THEN Failure(c, outcome) ELSE NoError
            sorted == sort_rows(Answered(c, outcome), keys, source.nulls)
            lists == AsksBackend(c) /\ outcome # "unimplemented"
<1>1. /\ Answers(c.f, "stmt", <<>>, error, Success, [f |-> c.f, call |-> c, rows |-> sorted, listed |-> lists])
      /\ Staying
  BY DEF Answering, Staying
<1>2. answer' = IF error = NoError THEN [f |-> c.f, call |-> c, rows |-> sorted, listed |-> lists]
                ELSE [f |-> "failed"]
  BY <1>1 DEF Answers, NoError
<1>3. CASE error = NoError
  <2>1. Unreadable(c) = NoError
    BY <1>3
  <2>2. PICK rows : rows = sorted
    OBVIOUS
  <2>3. PICK listed \in BOOLEAN : listed = lists
    OBVIOUS
  <2>. HIDE DEF sorted, lists, error
  <2>4. listed => AsksBackend(c) /\ outcome # "unimplemented"
    BY <2>3 DEF lists
  <2>5. RightRows(c, rows, listed)
    BY <2>1, <2>2, <2>4, SortsRightRows DEF sorted
  <2>6. RightRows(c, rows, listed)'
    BY <1>1, <2>5, RightRowsStay
  <2>7. answer'.call = c /\ answer'.rows = rows /\ answer'.listed = listed
    BY <1>2, <1>3, <2>2, <2>3
  <2>. QED  BY <2>6, <2>7, AnswersAre
<1>4. CASE error # NoError
  <2>1. answer'.f = "failed"
    BY <1>2, <1>4
  <2>2. "failed" \notin CatalogFunction
    BY CatalogFunctions
  <2>. QED  BY <2>1, <2>2 DEF AnswersItsArguments
<1>. QED  BY <1>3, <1>4

\* Each of them sorts its rows by the columns it must.
LEMMA CatalogAnswersRightly ==
  ASSUME NEW c \in Calls, NEW outcome,
         \/ sql_tables_w(c, outcome) \/ sql_columns_w(c, outcome) \/ sql_primary_keys_w(c, outcome)
         \/ sql_foreign_keys_w(c, outcome) \/ sql_statistics_w(c, outcome) \/ sql_special_columns_w(c, outcome)
         \/ sql_procedures_w(c, outcome) \/ sql_procedure_columns_w(c, outcome)
         \/ sql_column_privileges_w(c, outcome) \/ sql_table_privileges_w(c, outcome)
  PROVE  AnswersItsArguments'
<1>1. CASE sql_tables_w(c, outcome)
  <2>1. Ordering(c, TABLES_SORT_KEYS)
    BY <1>1, OrderTables DEF sql_tables_w, TABLES_SORT_KEYS
  <2>. QED  BY <1>1, <2>1, ReadBefore, AnswersRightly DEF sql_tables_w
<1>2. CASE sql_columns_w(c, outcome)
  <2>1. Ordering(c, <<0, 1, 2, 16>>)
    BY <1>2, OrderColumns DEF sql_columns_w
  <2>. QED  BY <1>2, <2>1, ReadBefore, AnswersRightly DEF sql_columns_w
<1>3. CASE sql_primary_keys_w(c, outcome)
  <2>1. Ordering(c, <<0, 1, 2, 4>>)
    BY <1>3, OrderPrimaryKeys DEF sql_primary_keys_w
  <2>. QED  BY <1>3, <2>1, ReadBefore, AnswersRightly DEF sql_primary_keys_w
<1>4. CASE sql_foreign_keys_w(c, outcome)
  <2>1. Ordering(c, ForeignKeysSortKeys(c.args[3] # Null))
    <3>1. CASE c.args[3] # Null
      BY <1>4, <3>1, OrderForeignKeysOf DEF sql_foreign_keys_w, ForeignKeysSortKeys
    <3>2. CASE c.args[3] = Null
      BY <1>4, <3>2, OrderForeignKeysTo DEF sql_foreign_keys_w, ForeignKeysSortKeys
    <3>. QED  BY <3>1, <3>2
  <2>. QED  BY <1>4, <2>1, ReadBefore, AnswersRightly DEF sql_foreign_keys_w
<1>5. CASE sql_statistics_w(c, outcome)
  <2>1. Ordering(c, <<3, 6, 4, 5, 7>>)
    BY <1>5, OrderStatistics DEF sql_statistics_w
  <2>. QED  BY <1>5, <2>1, ReadBefore, AnswersRightly DEF sql_statistics_w
<1>6. CASE sql_special_columns_w(c, outcome)
  <2>1. Ordering(c, <<0>>)
    BY <1>6, OrderSpecialColumns DEF sql_special_columns_w
  <2>. QED  BY <1>6, <2>1, ReadBefore, AnswersRightly DEF sql_special_columns_w
<1>7. CASE sql_procedures_w(c, outcome)
  <2>1. Ordering(c, PROCEDURES_SORT_KEYS)
    BY <1>7, OrderProcedures DEF sql_procedures_w, PROCEDURES_SORT_KEYS
  <2>. QED  BY <1>7, <2>1, ReadBefore, AnswersRightly DEF sql_procedures_w
<1>8. CASE sql_procedure_columns_w(c, outcome)
  <2>1. Ordering(c, PROCEDURE_COLUMNS_SORT_KEYS)
    BY <1>8, OrderProcedureColumns DEF sql_procedure_columns_w, PROCEDURE_COLUMNS_SORT_KEYS
  <2>. QED  BY <1>8, <2>1, ReadBefore, AnswersRightly DEF sql_procedure_columns_w
<1>9. CASE sql_column_privileges_w(c, outcome)
  <2>1. Ordering(c, COLUMN_PRIVILEGES_SORT_KEYS)
    BY <1>9, OrderColumnPrivileges DEF sql_column_privileges_w, COLUMN_PRIVILEGES_SORT_KEYS
  <2>. QED  BY <1>9, <2>1, ReadBefore, AnswersRightly DEF sql_column_privileges_w
<1>10. CASE sql_table_privileges_w(c, outcome)
  <2>1. Ordering(c, TABLE_PRIVILEGES_SORT_KEYS)
    BY <1>10, OrderTablePrivileges DEF sql_table_privileges_w, TABLE_PRIVILEGES_SORT_KEYS
  <2>. QED  BY <1>10, <2>1, ReadBefore, AnswersRightly DEF sql_table_privileges_w
<1>. QED  BY <1>1, <1>2, <1>3, <1>4, <1>5, <1>6, <1>7, <1>8, <1>9, <1>10, Zenon

\* No other call answers for a catalog function.
LEMMA NoCatalog ==
  ASSUME NEW f, NEW h, NEW pushed, NEW error, NEW ret, NEW told, told.f \notin CatalogFunction,
         Answers(f, h, pushed, error, ret, told)
  PROVE  AnswersItsArguments'
<1>1. "failed" \notin CatalogFunction
  BY CatalogFunctions
<1>2. answer' = told \/ answer'.f = "failed"
  BY DEF Answers
<1>. QED  BY <1>1, <1>2 DEF AnswersItsArguments

\* The functions that are no catalog functions.
LEMMA OtherFunctions ==
  {"none", "GetTypeInfo", "Fetch", "CloseCursor", "MoreResults", "RowCount", "SetStmtAttr", "NumResultCols",
   "DescribeCol", "ColAttribute", "GetInfo", "GetFunctions", "NativeSql", "GetDiagRec", "GetDiagField"}
    \cap CatalogFunction = {}
BY CatalogFunctions

\* The other calls on a statement.
LEMMA StatementAnswersRightly ==
  ASSUME NEW data_type, NEW outcome, NEW pushed, NEW error, NEW operation, NEW lock_type, NEW value, NEW k, NEW buffer,
         NEW field,
         \/ GetTypeInfo(data_type, outcome) \/ Fetch(pushed, error) \/ CloseCursor \/ MoreResults
         \/ SQLRowCount \/ BulkOperations(operation) \/ SetPos(operation, lock_type) \/ SetMetadataId(value)
         \/ SQLNumResultCols \/ DescribeCol(k, buffer) \/ ColAttribute(k, field, buffer)
  PROVE  AnswersItsArguments'
<1>1. CASE GetTypeInfo(data_type, outcome)
  <2>1. PICK told : told.f = "GetTypeInfo" /\ Answers("GetTypeInfo", "stmt", <<>>, InvalidCursor, Success, told)
    BY <1>1 DEF GetTypeInfo
  <2>. QED  BY <2>1, OtherFunctions, NoCatalog
<1>2. CASE Fetch(pushed, error)
  BY <1>2, OtherFunctions, NoCatalog DEF Fetch
<1>3. CASE CloseCursor
  BY <1>3, OtherFunctions, NoCatalog DEF CloseCursor
<1>4. CASE MoreResults
  BY <1>4, OtherFunctions, NoCatalog DEF MoreResults
<1>5. CASE SQLRowCount
  BY <1>5, OtherFunctions, NoCatalog DEF SQLRowCount
<1>6. CASE BulkOperations(operation)
  BY <1>6, OtherFunctions, NoCatalog DEF BulkOperations, NoAnswer
<1>7. CASE SetPos(operation, lock_type)
  BY <1>7, OtherFunctions, NoCatalog DEF SetPos, NoAnswer
<1>8. CASE SetMetadataId(value)
  BY <1>8, OtherFunctions, NoCatalog DEF SetMetadataId
<1>9. CASE SQLNumResultCols
  BY <1>9, OtherFunctions, NoCatalog DEF SQLNumResultCols
<1>10. CASE DescribeCol(k, buffer)
  <2>1. PICK text, size, failure, written, ret :
          \/ Answers("DescribeCol", "stmt", <<>>, failure, Success, NoAnswer)
          \/ Answers("DescribeCol", "stmt", written, failure, ret,
                     [f |-> "DescribeCol", column |-> k, size |-> size, text |-> text])
    BY <1>10, Zenon DEF DescribeCol
  <2>. QED  BY <2>1, OtherFunctions, NoCatalog DEF NoAnswer
<1>11. CASE ColAttribute(k, field, buffer)
  <2>1. PICK text, told, failure, written, ret :
          \/ Answers("ColAttribute", "stmt", <<>>, failure, Success, NoAnswer)
          \/ Answers("ColAttribute", "stmt", written, failure, ret,
                     [f |-> "ColAttribute", column |-> k, field |-> field, text |-> text])
          \/ Answers("ColAttribute", "stmt", <<>>, failure, Success,
                     [f |-> "ColAttribute", column |-> k, field |-> field, value |-> told])
    BY <1>11, Zenon DEF ColAttribute
  <2>. QED  BY <2>1, OtherFunctions, NoCatalog DEF NoAnswer
<1>. QED  BY <1>1, <1>2, <1>3, <1>4, <1>5, <1>6, <1>7, <1>8, <1>9, <1>10, <1>11

\* The calls on the connection, and the diagnostic functions.
LEMMA ConnectionAnswersRightly ==
  ASSUME NEW t, NEW own, NEW buffer, NEW id, NEW given, NEW length, NEW terminator, NEW h, NEW rec, NEW field,
         \/ GetInfo(t, own, buffer) \/ GetFunctions(id) \/ NativeSql(given, length, terminator, buffer)
         \/ SQLGetDiagRec(h, rec, buffer) \/ SQLGetDiagField(h, rec, field, buffer)
  PROVE  AnswersItsArguments'
<1>1. CASE GetInfo(t, own, buffer)
  <2>1. PICK text, kind, pushed, ret :
          \/ Answers("GetInfo", "conn", pushed, NoError, ret, [f |-> "GetInfo", type |-> t, kind |-> kind, text |-> text])
          \/ Answers("GetInfo", "conn", <<>>, NoError, Success, [f |-> "GetInfo", type |-> t, kind |-> kind])
    BY <1>1, Zenon DEF GetInfo
  <2>. QED  BY <2>1, OtherFunctions, NoCatalog
<1>2. CASE GetFunctions(id)
  <2>1. PICK told : Answers("GetFunctions", "conn", <<>>, NoError, Success, [f |-> "GetFunctions", id |-> id, told |-> told])
    BY <1>2, Zenon DEF GetFunctions
  <2>. QED  BY <2>1, OtherFunctions, NoCatalog
<1>3. CASE NativeSql(given, length, terminator, buffer)
  <2>1. PICK sql, native, text, pushed, error, ret :
          \/ Answers("NativeSql", "conn", <<>>, error, Success, NoAnswer)
          \/ Answers("NativeSql", "conn", pushed, NoError, ret,
                     [f |-> "NativeSql", sql |-> sql, native |-> native, text |-> text])
    BY <1>3, Zenon DEF NativeSql
  <2>. QED  BY <2>1, OtherFunctions, NoCatalog DEF NoAnswer
<1>4. CASE SQLGetDiagRec(h, rec, buffer)
  <2>1. answer'.f = "GetDiagRec"
    BY <1>4 DEF SQLGetDiagRec
  <2>. QED  BY <2>1, OtherFunctions DEF AnswersItsArguments
<1>5. CASE SQLGetDiagField(h, rec, field, buffer)
  <2>1. answer'.f = "GetDiagField"
    BY <1>5 DEF SQLGetDiagField
  <2>. QED  BY <2>1, OtherFunctions DEF AnswersItsArguments
<1>. QED  BY <1>1, <1>2, <1>3, <1>4, <1>5

\* The rows of a catalog function are those of the objects its arguments
\* denote, in order, in every reachable state.
THEOREM AnswersAlwaysItsArguments == Spec => []AnswersItsArguments
<1>0. answer = NoAnswer => AnswersItsArguments
  BY OtherFunctions DEF NoAnswer, AnswersItsArguments
<1>1. Init => AnswersItsArguments
  BY <1>0 DEF Init
<1>2. ASSUME AnswersItsArguments, [Next]_vars PROVE AnswersItsArguments'
  <2>1. ASSUME CatalogNext PROVE AnswersItsArguments'
    <3>1. CASE \E c \in (IF Fresh THEN Calls ELSE FewCalls), outcome \in Outcome :
                 \/ sql_tables_w(c, outcome)
                 \/ sql_columns_w(c, outcome)
                 \/ sql_primary_keys_w(c, outcome)
                 \/ sql_foreign_keys_w(c, outcome)
                 \/ sql_statistics_w(c, outcome)
                 \/ sql_special_columns_w(c, outcome)
                 \/ sql_procedures_w(c, outcome)
                 \/ sql_procedure_columns_w(c, outcome)
                 \/ sql_column_privileges_w(c, outcome)
                 \/ sql_table_privileges_w(c, outcome)
      <4>1. \A c \in (IF Fresh THEN Calls ELSE FewCalls) : c \in Calls
        BY MetadataAssumption
      <4>. QED  BY <3>1, <4>1, CatalogAnswersRightly, Zenon
    <3>2. CASE \E data_type \in {AllTypes} \cup {t.data_type : t \in Types}, outcome \in {"rows", "reversed"} :
                 GetTypeInfo(data_type, outcome)
      BY <3>2, StatementAnswersRightly, Zenon
    <3>. QED  BY <2>1, <3>1, <3>2, Zenon DEF CatalogNext
  <2>2. ASSUME StatementNext PROVE AnswersItsArguments'
    BY <2>2, StatementAnswersRightly, Zenon DEF StatementNext
  <2>3. ASSUME ConnectionNext PROVE AnswersItsArguments'
    <3>1. CASE \/ \E t \in (IF Fresh THEN InfoType \cup RawType ELSE {"DriverName"}), own \in BOOLEAN :
                    GetInfo(t, own, 8)
               \/ \E buffer \in Buffers : GetInfo("DriverName", FALSE, buffer)
      BY <3>1, ConnectionAnswersRightly, Zenon
    <3>2. CASE \E id \in (IF Fresh THEN {999, 2013} \cup {FunctionId[f] : f \in Function} ELSE {}) \cup {0} :
                 GetFunctions(id)
      <4>1. PICK id : GetFunctions(id)
        BY <3>2
      <4>. QED  BY <4>1, ConnectionAnswersRightly
    <3>3. CASE \E text \in (IF Fresh THEN Texts ELSE FewTexts) : NativeSql(text, SQL_NTS, Len(text), 40)
      BY <3>3, ConnectionAnswersRightly, Zenon
    <3>4. CASE \E text \in FewTexts \cup {Null}, buffer \in Buffers :
                 \E length \in {-5, SQL_NTS, Len(text)}, terminator \in {NotTerminated, Len(text)} :
                   NativeSql(text, length, terminator, buffer)
      BY <3>4, ConnectionAnswersRightly, Zenon
    <3>. QED  BY <2>3, <3>1, <3>2, <3>3, <3>4, Zenon DEF ConnectionNext
  <2>4. ASSUME DiagnosticNext PROVE AnswersItsArguments'
    BY <2>4, ConnectionAnswersRightly, Zenon DEF DiagnosticNext
  <2>5. ASSUME Forget PROVE AnswersItsArguments'
    <3>1. answer'.f = "none"
      BY <2>5 DEF Forget, NoAnswer
    <3>. QED  BY <3>1, OtherFunctions DEF AnswersItsArguments
  <2>6. ASSUME UNCHANGED vars PROVE AnswersItsArguments'
    <3>1. Staying /\ answer' = answer
      BY <2>6 DEF vars, Staying
    <3>2. CASE answer.f \in CatalogFunction
      <4>1. RightRows(answer.call, answer.rows, answer.listed)
        BY <1>2, <3>2 DEF AnswersItsArguments, RightRows
      <4>2. PICK c, rows, listed : c = answer.call /\ rows = answer.rows /\ listed = answer.listed
        OBVIOUS
      <4>3. RightRows(c, rows, listed)'
        BY <3>1, <4>1, <4>2, RightRowsStay
      <4>. QED  BY <3>1, <4>2, <4>3, AnswersAre
    <3>3. CASE answer.f \notin CatalogFunction
      BY <3>1, <3>3 DEF AnswersItsArguments
    <3>. QED  BY <3>2, <3>3
  <2>. QED  BY <1>2, <2>1, <2>2, <2>3, <2>4, <2>5, <2>6, Zenon DEF Next
<1>. QED  BY <1>1, <1>2, PTL DEF Spec
=============================================================================
