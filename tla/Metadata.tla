------------------------------- MODULE Metadata -------------------------------
(***************************************************************************)
(* A connection and one of its statements, asked about the data source:    *)
(* the ten catalog functions, SQLGetTypeInfo, the description of their     *)
(* result sets, SQLGetInfo, SQLGetFunctions, SQLNativeSql, and the         *)
(* diagnostics each call leaves.  A result set is the function it answers  *)
(* and how many rows it has.  One call ends before the next begins, and    *)
(* Forget clears what the last one answered.  What the catalog functions   *)
(* note for SQL_ATTR_TXN_ISOLATION is in SessionAttributes, how a deadline *)
(* or SQLCancel reaches the backend in CancelTimeout.                      *)
(***************************************************************************)
EXTENDS CatalogArguments, CatalogRows, ColumnAttributes, Diagnostics, Information, ListedStates,
        SqlText, SupportedFunctions

CONSTANTS
  Sources,           \* the data sources, records as CatalogArguments says
  Objects,           \* external: what there is at the data source
  Types,             \* external: the types SQLGetTypeInfo may tell
  Calls, FewCalls,   \* bounds: catalog calls from fresh handles, and from others
  Texts, FewTexts,   \* bounds: texts for SQLNativeSql, likewise
  Buffers,           \* sizes of the buffers an application gives
  Functions,         \* get_functions
  MaxScan            \* MAX_NTS_SCAN

ASSUME MetadataAssumption ==
  /\ IsFiniteSet(Objects) /\ FewCalls \subseteq Calls /\ FewTexts \subseteq Texts /\ Texts \subseteq Seq(Token)
  /\ MaxScan \in Nat /\ MAX_ESCAPE_DEPTH \in Nat
  /\ Functions \subseteq CORE_EXPORTED_FUNCTIONS
  /\ \A b \in Buffers : b \in Int /\ (b = NullPointer \/ b >= -1)  \* -1 is any negative length

VARIABLES
  source,        \* the data source connected to, or to be connected to
  open,          \* whether the connection is open, and the statement allocated
  metadata_id,   \* SQL_ATTR_METADATA_ID of the statement
  statement,     \* its result set, or NoStatement
  queue,         \* the diagnostics of the two handles
  answer,        \* history: what the last call answered
  ended          \* history: which call left the diagnostics of its handle so

vars == <<source, open, metadata_id, statement, queue, answer, ended>>

NoStatement == [f |-> "none", rows |-> 0]
NoAnswer == [f |-> "none"]
NoCall == [f |-> "none"]
Handle == {"conn", "stmt"}

Init == /\ source \in Sources
        /\ open \in BOOLEAN
        /\ metadata_id = FALSE
        /\ statement = NoStatement
        /\ queue = [h \in Handle |-> <<>>]
        /\ answer = NoAnswer
        /\ ended = NoCall

Fresh == statement = NoStatement /\ \A h \in Handle : queue[h] = <<>>
cursor_open == statement # NoStatement
Dialect == LET openings == {q[1] : q \in source.quotes}
           IN  [quotes |-> [o \in openings |-> CHOOSE c \in {q[2] : q \in source.quotes} :
                                                 <<o, c>> \in source.quotes],
                rewrites |-> source.rewrites]
\* Identifiers are delimited by marks that delimit nothing else: brackets, or
\* the mark that stands for any other such character (with_identifier_quotes).
ASSUME DelimiterAssumption == \A s \in Sources : s.quotes \subseteq {"q", "["} \X {"q", "]"}

-----------------------------------------------------------------------------
\* A fault: the records of the calls before stay.
Kept(records) == records
Cleared(records) == <<>>

\* A call of f on h ends: its records replace the ones before, an error among
\* them its last.
Answers(f, h, pushed, error, ret, told) ==
  /\ queue' = [queue EXCEPT ![h] = Posted(Cleared(@), pushed, error)]
  /\ answer' = IF error = "00000" THEN told ELSE [f |-> "failed"]
  /\ ended' = [f |-> f, handle |-> h, returned |-> ReturnOf(ret, error)]
NoError == "00000"

Forget == /\ answer # NoAnswer
          /\ answer' = NoAnswer
          /\ ended' = NoCall
          /\ UNCHANGED <<source, open, metadata_id, statement, queue>>

-----------------------------------------------------------------------------
\* The catalog functions, by the column each of their arguments restricts.
ThreePart == <<"TABLE_CAT", "TABLE_SCHEM", "TABLE_NAME">>
Arguments ==
  [Tables |-> ThreePart, Columns |-> Append(ThreePart, "COLUMN_NAME"), PrimaryKeys |-> ThreePart,
   ForeignKeys |-> <<"PKTABLE_CAT", "PKTABLE_SCHEM", "PKTABLE_NAME",
                     "FKTABLE_CAT", "FKTABLE_SCHEM", "FKTABLE_NAME">>,
   Statistics |-> ThreePart, SpecialColumns |-> ThreePart,
   Procedures |-> <<"PROCEDURE_CAT", "PROCEDURE_SCHEM", "PROCEDURE_NAME">>,
   ProcedureColumns |-> <<"PROCEDURE_CAT", "PROCEDURE_SCHEM", "PROCEDURE_NAME", "COLUMN_NAME">>,
   ColumnPrivileges |-> Append(ThreePart, "COLUMN_NAME"), TablePrivileges |-> ThreePart]
CatalogFunction == DOMAIN Arguments
NamesCatalog(column) == column \in {"TABLE_CAT", "PKTABLE_CAT", "FKTABLE_CAT", "PROCEDURE_CAT"}
NamesSchema(column) == column \in {"TABLE_SCHEM", "PKTABLE_SCHEM", "FKTABLE_SCHEM", "PROCEDURE_SCHEM"}

\* What there is at the data source, and what it is asked about.
Text == Seq(Character)
ASSUME CatalogAssumption ==
  /\ Objects \subseteq [catalog : Text, schema : Text, name : Text, foreign : Text, column : Text,
                        type : Text, number : Text, kind : Text, other : Text \cup {Null}]
  /\ \A c \in Calls : /\ c.f \in CatalogFunction
                      /\ c.args \in [DOMAIN Arguments[c.f] -> Text \cup {Null, Unterminated}]

\* A call is its function, its arguments, SQLTables' list of types, and the
\* option: SQL_INDEX_UNIQUE, or numbers SQLSpecialColumns knows.
InvalidCursor == IF cursor_open THEN "24000" ELSE NoError
\* parse_filter_param, for the arguments that are read at all.
Unreadable(c) ==
  IF (\E i \in DOMAIN c.args : c.args[i] = Unterminated) /\ ~(c.f = "SpecialColumns" /\ ~c.option)
  THEN "HY090" ELSE NoError
check_null_table_name(c) == IF c.args[3] = Null THEN "HY009" ELSE NoError
check_metadata_id_null_catalog(c) ==
  IF /\ metadata_id /\ source.catalogs
     /\ \E i \in DOMAIN c.args : NamesCatalog(Arguments[c.f][i]) /\ c.args[i] = Null
  THEN "HY009" ELSE NoError

\* What core refuses a call for first, of its checks in the order of the call.
Refusal(checks) == LET failed == {i \in DOMAIN checks : checks[i] # NoError}
                   IN  IF failed = {} THEN NoError ELSE checks[Least(failed)]

Enumerated(c) == IF c.f = "Tables" THEN table_enumeration(c.args, c.types) ELSE "None"

\* Whether the backend is asked at all, and what its failure becomes.
AsksBackend(c) == CASE Enumerated(c) = "Catalogs" -> source.catalogs
                    [] Enumerated(c) = "Schemas" -> source.schemas
                    [] Enumerated(c) = "TableTypes" -> FALSE
                    [] OTHER -> ~(c.f = "SpecialColumns" /\ ~c.option)
Outcome == {"rows", "reversed", "failed", "late", "cancelled", "unimplemented", "panicked"}
Failure(c, outcome) ==
  CASE outcome = "panicked" -> Panicked
    [] outcome = "unimplemented" -> IF c.f \in {"Statistics", "SpecialColumns"} THEN NoError ELSE "HYC00"
    [] outcome = "late" /\ Enumerated(c) = "None" -> "HYT00"
    [] outcome = "cancelled" /\ Enumerated(c) = "None" -> "HY008"
    [] outcome = "failed" \/ (outcome \in {"late", "cancelled"} /\ Enumerated(c) # "None") -> "08S01"
    [] OTHER -> NoError

-----------------------------------------------------------------------------
\* External: the value an object has in a column, and what an argument asks of
\* it.  The backend takes every argument for a pattern; the empty string asks
\* for what has no such name.
Field(o, column) ==
  CASE NamesCatalog(column) -> IF source.catalogs THEN o.catalog ELSE Null
    [] NamesSchema(column) -> IF source.schemas THEN o.schema ELSE Null
    [] column \in {"TABLE_NAME", "PKTABLE_NAME", "PROCEDURE_NAME"} -> o.name
    [] column = "FKTABLE_NAME" -> o.foreign
    [] column \in {"COLUMN_NAME", "PKCOLUMN_NAME", "GRANTEE"} -> o.column
    [] column = "TABLE_TYPE" -> o.type
    [] column \in {"KEY_SEQ", "ORDINAL_POSITION", "NON_UNIQUE", "SCOPE", "COLUMN_TYPE"} -> o.number
    [] column \in {"TYPE", "PRIVILEGE"} -> o.kind
    [] column = "INDEX_NAME" -> o.other
    [] column \in {"INDEX_QUALIFIER", "REMARKS"} -> Null
    [] OTHER -> <<column>>

\* External: each mark of a pattern, an escape and what it escapes being one,
\* takes the part of the text between two cuts.
Escapes(pattern, i, escape) == escape # Empty /\ pattern[i] = escape[1] /\ i < Len(pattern)
Like(pattern, text, escape) ==
  LET n == Len(pattern)
      next == [i \in 1..n |-> IF Escapes(pattern, i, escape) THEN i + 2 ELSE i + 1]
      Takes(i, from, to) ==
        CASE Escapes(pattern, i, escape) -> to = from + 1 /\ text[to] = pattern[i + 1]
          [] ~Escapes(pattern, i, escape) /\ pattern[i] = "%" -> from <= to
          [] OTHER -> to = from + 1 /\ pattern[i] \in {"_", text[to]}
  IN  \E cut \in [1..n + 1 -> 0..Len(text)] :
        /\ cut[1] = 0 /\ cut[n + 1] = Len(text)
        /\ \A i \in Visited(1, next) : Takes(i, cut[i], cut[next[i]])
Matches(arg, value) ==
  CASE arg = Null -> TRUE
    [] arg # Null /\ value = Null -> arg \in {Empty, Wild}
    [] OTHER -> Like(arg, value, source.escape)

Backend(c, args, types) ==
  {o \in Objects : /\ \A i \in DOMAIN args : Matches(args[i], Field(o, Arguments[c.f][i]))
                   /\ types = {} \/ o.type \in types
                   /\ c.f = "Statistics" /\ c.option => o.number = <<"1">>}
Ordered(S, outcome) == IF outcome = "reversed" THEN Reverse(SetToSeq(S)) ELSE SetToSeq(S)

\* into_values: the values of a row struct in the order it pushes them.
into_values(f, ValueOf(_)) == [k \in 1..Len(Values[f]) |-> ValueOf(Values[f][k][1])]

\* The row of an enumeration has one value only.
EnumeratedColumn(kind) == CASE kind = "Catalogs" -> "TABLE_CAT"
                            [] kind = "Schemas" -> "TABLE_SCHEM"
                            [] kind = "TableTypes" -> "TABLE_TYPE"
Enumeration(c) ==
  LET column == EnumeratedColumn(Enumerated(c))
      names == IF AsksBackend(c) \/ Enumerated(c) = "TableTypes" THEN {Field(o, column) : o \in Objects} \ {Null} ELSE {}
      ARow(name) == into_values("Tables", LAMBDA k : IF k = column THEN name ELSE Null)
  IN  {ARow(name) : name \in names}

Normalised(c) == [i \in DOMAIN c.args |-> normalise_catalog_arg(c.args[i], metadata_id, source)]

\* The rows of an answered call, before the sort; none when the function is not
\* implemented or its numbers are unknown.
Answered(c, outcome) ==
  CASE Enumerated(c) # "None" -> Ordered(Enumeration(c), outcome)
    [] Enumerated(c) = "None" /\ (~AsksBackend(c) \/ outcome = "unimplemented") -> <<>>
    [] OTHER -> LET found == Ordered(Backend(c, Normalised(c), parse_table_type_list(c.types)), outcome)
                IN  [i \in DOMAIN found |-> into_values(c.f, LAMBDA k : Field(found[i], k))]

Answering(c, outcome, checks, keys) ==
  LET refusal == Refusal(checks)
      error == IF refusal # NoError THEN refusal
               ELSE IF AsksBackend(c) THEN Failure(c, outcome) ELSE NoError
      rows == sort_rows(Answered(c, outcome), keys, source.nulls)
  IN  /\ open
      /\ Answers(c.f, "stmt", <<>>, error, Success, [f |-> c.f, call |-> c, rows |-> rows,
                                                     listed |-> AsksBackend(c) /\ outcome # "unimplemented"])
      /\ statement' = IF error = NoError THEN [f |-> c.f, rows |-> Len(rows)] ELSE statement
      /\ UNCHANGED <<source, open, metadata_id>>

\* The checks in the order each function makes them, and its sort keys.
ParametersFirst(c) == <<Unreadable(c), InvalidCursor, check_metadata_id_null_catalog(c)>>
CursorFirst(c) == <<InvalidCursor, Unreadable(c), check_metadata_id_null_catalog(c)>>
NameChecked(c) ==
  <<InvalidCursor, check_null_table_name(c), check_metadata_id_null_catalog(c), Unreadable(c)>>
sql_tables_w(c, outcome) == c.f = "Tables" /\ Answering(c, outcome, ParametersFirst(c), TABLES_SORT_KEYS)
sql_columns_w(c, outcome) == c.f = "Columns" /\ Answering(c, outcome, ParametersFirst(c), <<0, 1, 2, 16>>)
sql_primary_keys_w(c, outcome) ==
  c.f = "PrimaryKeys" /\ Answering(c, outcome, CursorFirst(c), <<0, 1, 2, 4>>)
sql_foreign_keys_w(c, outcome) ==
  c.f = "ForeignKeys" /\ Answering(c, outcome, CursorFirst(c), ForeignKeysSortKeys(c.args[3] # Null))
sql_statistics_w(c, outcome) ==
  c.f = "Statistics" /\ Answering(c, outcome, NameChecked(c), <<3, 6, 4, 5, 7>>)
sql_special_columns_w(c, outcome) ==
  c.f = "SpecialColumns" /\ Answering(c, outcome, NameChecked(c), <<0>>)
sql_procedures_w(c, outcome) ==
  c.f = "Procedures" /\ Answering(c, outcome, CursorFirst(c), PROCEDURES_SORT_KEYS)
sql_procedure_columns_w(c, outcome) ==
  c.f = "ProcedureColumns" /\ Answering(c, outcome, CursorFirst(c), PROCEDURE_COLUMNS_SORT_KEYS)
sql_column_privileges_w(c, outcome) ==
  /\ c.f = "ColumnPrivileges"
  /\ Answering(c, outcome, <<InvalidCursor, check_null_table_name(c), Unreadable(c),
                             check_metadata_id_null_catalog(c)>>, COLUMN_PRIVILEGES_SORT_KEYS)
sql_table_privileges_w(c, outcome) ==
  c.f = "TablePrivileges" /\ Answering(c, outcome, CursorFirst(c), TABLE_PRIVILEGES_SORT_KEYS)

\* SQLGetTypeInfo asks the backend for all types, which cannot fail.
AllTypes == <<"all">>
GetTypeInfo(data_type, outcome) ==
  LET selected == Ordered({t \in Types : data_type \in {AllTypes, t.data_type}}, outcome)
      sorted == Sorted(selected, TypePrecedes)
      ARow(t) == into_values("GetTypeInfo", LAMBDA k : CASE k = "DATA_TYPE" -> t.data_type
                                                          [] k = "TYPE_NAME" -> t.name
                                                          [] OTHER -> <<k>>)
      rows == [i \in DOMAIN sorted |-> ARow(sorted[i])]
  IN  /\ open
      /\ Answers("GetTypeInfo", "stmt", <<>>, InvalidCursor, Success,
                 [f |-> "GetTypeInfo", data_type |-> data_type, rows |-> rows])
      /\ statement' = IF cursor_open THEN statement ELSE [f |-> "GetTypeInfo", rows |-> Len(rows)]
      /\ UNCHANGED <<source, open, metadata_id>>

-----------------------------------------------------------------------------
\* External: what the texts a row is written into make of it.  A row is there
\* to fetch while the result set has any.
Fetch(pushed, error) ==
  /\ cursor_open
  /\ statement.rows = 0 => pushed = <<>> /\ error = NoError
  /\ Answers("Fetch", "stmt", pushed, error,
             IF statement.rows = 0 THEN NoData ELSE IF pushed = <<>> THEN Success ELSE Info,
             [f |-> "Fetch"])
  /\ UNCHANGED <<source, open, metadata_id, statement>>

CloseCursor ==
  /\ open
  /\ Answers("CloseCursor", "stmt", <<>>, IF cursor_open THEN NoError ELSE "24000", Success,
             [f |-> "CloseCursor"])
  /\ statement' = NoStatement
  /\ UNCHANGED <<source, open, metadata_id>>

\* There is no next result: the one there is goes, as SQLCloseCursor has it.
MoreResults ==
  /\ open
  /\ Answers("MoreResults", "stmt", <<>>, NoError, NoData, [f |-> "MoreResults"])
  /\ statement' = NoStatement
  /\ UNCHANGED <<source, open, metadata_id>>

\* statement_row_count, of a statement with its rows in core.
RowCount == statement.rows
SQLRowCount ==
  /\ open
  /\ Answers("RowCount", "stmt", <<>>, NoError, Success, [f |-> "RowCount", value |-> RowCount])
  /\ UNCHANGED <<source, open, metadata_id, statement>>

\* Operations and locks by the names the specification has for them.
BulkOperation == {"add", "update_by_bookmark", "delete_by_bookmark", "fetch_by_bookmark"}
BulkOperations(operation) ==
  /\ open
  /\ Answers("BulkOperations", "stmt", <<>>, IF operation \in BulkOperation THEN "HYC00" ELSE "HY092",
             Success, NoAnswer)
  /\ UNCHANGED <<source, open, metadata_id, statement>>
Operation == {"position", "refresh", "update", "delete"}
LockType == {"no_change", "exclusive", "unlock"}
SetPos(operation, lock_type) ==
  /\ open
  /\ Answers("SetPos", "stmt", <<>>,
             IF operation \in Operation /\ lock_type \in LockType THEN "HYC00" ELSE "HY092",
             Success, NoAnswer)
  /\ UNCHANGED <<source, open, metadata_id, statement>>

SetMetadataId(value) ==
  /\ open
  /\ Answers("SetStmtAttr", "stmt", <<>>, NoError, Success, [f |-> "SetStmtAttr"])
  /\ metadata_id' = value
  /\ UNCHANGED <<source, open, statement>>

\* The descriptor of a column of the result set; Width is the widths' part.
Width == 7
ColumnOf(f, k) ==
  LET described == Columns[f][k]
  IN  [name |-> described[1], table_name |-> "", type_name |-> "",
       sql_type |-> IF described[2] = "text" THEN "varchar" ELSE described[2],
       precision |-> IF described[2] = "text" THEN Width ELSE 0, scale |-> 0, nullable |-> described[3]]
Column(k) == ColumnOf(statement.f, k)
ColumnCount == IF cursor_open THEN Len(Columns[statement.f]) ELSE 0
NoSuchColumn(k) == CASE ~cursor_open -> "07005"
                     [] cursor_open /\ (k = 0 \/ k > ColumnCount) -> "07009"
                     [] OTHER -> NoError

SQLNumResultCols ==
  /\ open
  /\ Answers("NumResultCols", "stmt", <<>>, IF cursor_open THEN NoError ELSE "HY010", Success,
             [f |-> "NumResultCols", value |-> ColumnCount])
  /\ UNCHANGED <<source, open, metadata_id, statement>>

\* Text written for the application, with what is told of it.
Told(units, buffer, bytes) ==
  LET written == IF bytes THEN write_bytes(units, buffer) ELSE write_utf16(units, buffer)
  IN  [units |-> units, buffer |-> buffer, bytes |-> bytes,
       ret |-> written.ret, copied |-> written.copied, reported |-> written.reported]

DescribeCol(k, buffer) ==
  LET error == NoSuchColumn(k)
      name == Told(Len(Column(k).name), buffer, FALSE)
      size == ResolvePrecisionUlen(Column(k).precision)
  IN  /\ open
      /\ IF error # NoError THEN Answers("DescribeCol", "stmt", <<>>, error, Success, NoAnswer)
         ELSE Answers("DescribeCol", "stmt", note_truncation(name), error, name.ret,
                      [f |-> "DescribeCol", column |-> k, size |-> size, text |-> name])
      /\ UNCHANGED <<source, open, metadata_id, statement>>

\* A field identifier core does not have comes before anything else.
Identifier == {"Count", "Name", "TypeName", "LocalTypeName", "Length", "Nullable", "ConciseType",
               "Odbc2", "unknown"}
ColAttribute(k, field, buffer) ==
  LET error == CASE field = "Odbc2" -> "HYC00"
                 [] field = "unknown" -> "HY091"
                 [] field = "Count" -> NoError
                 [] OTHER -> NoSuchColumn(k)
      text == Told(Len(ColumnString(Column(k), field)), buffer, TRUE)
  IN  /\ open
      /\ IF error # NoError THEN Answers("ColAttribute", "stmt", <<>>, error, Success, NoAnswer)
         ELSE IF field \in StringAttribute
         THEN Answers("ColAttribute", "stmt", note_truncation(text), error, text.ret,
                      [f |-> "ColAttribute", column |-> k, field |-> field, text |-> text])
         ELSE Answers("ColAttribute", "stmt", <<>>, error, Success,
                      [f |-> "ColAttribute", column |-> k, field |-> field,
                       value |-> IF field = "Count" THEN ColumnCount
                                 ELSE ColumnAttribute(Column(k), ColumnCount, field)])
      /\ UNCHANGED <<source, open, metadata_id, statement>>

-----------------------------------------------------------------------------
\* External: what a backend with an answer of its own says.
Own(t) == IF t \in InfoType THEN <<expected_kind(t), "own">> ELSE Nothing
Units(value) == Len(value[2])
InfoAbout(s, connected, t, own) ==
  info_type_or_default(s, connected, s.catalog, IF own THEN Own(t) ELSE Nothing, Nothing, t)
InfoOf(t, own) == InfoAbout(source, open, t, own)
\* What is told as text is told with its length.
ASSUME LengthAssumption ==
  /\ \A f \in DOMAIN Columns : \A k \in 1..Len(Columns[f]) :
       \A field \in {"Name", "TypeName", "LocalTypeName"} : Len(ColumnString(ColumnOf(f, k), field)) \in Nat
  /\ \A s \in Sources, connected, own \in BOOLEAN, t \in InfoType \cup RawType :
       LET value == InfoAbout(s, connected, t, own)
       IN  value[1] = "String" => Units(value) \in Nat
GetInfo(t, own, buffer) ==
  LET value == InfoOf(t, own)
      text == Told(Units(value), buffer, TRUE)
  IN  /\ IF value[1] = "String"
         THEN Answers("GetInfo", "conn", note_truncation(text), NoError, text.ret,
                      [f |-> "GetInfo", type |-> t, kind |-> value[1], text |-> text])
         ELSE Answers("GetInfo", "conn", <<>>, NoError, Success, [f |-> "GetInfo", type |-> t, kind |-> value[1]])
      /\ UNCHANGED <<source, open, metadata_id, statement>>

GetFunctions(id) ==
  LET told == CASE id = SQL_API_ODBC3_ALL_FUNCTIONS -> AllOdbc3(Functions)
                [] id = SQL_API_ALL_FUNCTIONS -> AllOdbc2(Functions)
                [] OTHER -> IsSupported(Functions, id)
  IN  /\ Answers("GetFunctions", "conn", <<>>, NoError, Success,
                 [f |-> "GetFunctions", id |-> id, told |-> told])
      /\ UNCHANGED <<source, open, metadata_id, statement>>

\* A text argument is the text, its length or SQL_NTS, and where the scan for
\* a terminator ends.
SQL_NTS == -3
NativeSql(given, length, terminator, buffer) ==
  LET read == utf16_to_string(terminator, length, MaxScan)
      sql == SubSeq(given, 1, read.units)
      Given(native) ==
        LET error == IF ~open THEN "08003"
                     ELSE IF given = Null THEN "HY009"
                     ELSE IF length < 0 /\ length # SQL_NTS THEN "HY090"
                     ELSE IF buffer < 0 /\ buffer # NullPointer THEN "HY090"
                     ELSE IF read.state # NoError THEN read.state
                     ELSE IF ~Ok(native) THEN "HY000" ELSE NoError
            units == Len(native.text)
            truncated == buffer # NullPointer /\ buffer <= units /\ (buffer > 0 \/ units > 0)
            ret == IF truncated THEN Info ELSE Success
            text ==
              [units |-> units, buffer |-> buffer, bytes |-> FALSE, ret |-> ret,
               copied |-> IF buffer <= 0 THEN 0 ELSE IF truncated THEN buffer - 1 ELSE units,
               reported |-> units]
        IN  IF error # NoError THEN Answers("NativeSql", "conn", <<>>, error, Success, NoAnswer)
            ELSE Answers("NativeSql", "conn", IF truncated THEN <<"01004">> ELSE <<>>, NoError, ret,
                         [f |-> "NativeSql", sql |-> sql, native |-> native.text, text |-> text])
  IN  Given(translate_escapes(sql, Dialect)) /\ UNCHANGED <<source, open, metadata_id, statement>>

-----------------------------------------------------------------------------
\* The diagnostic functions leave the diagnostics as they are.
SQLGetDiagRec(h, rec, buffer) ==
  /\ open \/ h = "conn"
  /\ answer' = [f |-> "GetDiagRec", h |-> h, rec |-> rec, buffer |-> buffer,
                got |-> GetDiagRec(queue[h], rec, buffer)]
  /\ ended' = NoCall
  /\ UNCHANGED <<source, open, metadata_id, statement, queue>>
SQLGetDiagField(h, rec, field, buffer) ==
  /\ open \/ h = "conn"
  /\ answer' = [f |-> "GetDiagField", h |-> h, rec |-> rec, field |-> field, buffer |-> buffer,
                got |-> GetDiagField(queue[h], h = "stmt", RowCount, rec, field, buffer)]
  /\ ended' = NoCall
  /\ UNCHANGED <<source, open, metadata_id, statement, queue>>

Quiet(h) == queue[h] = <<>>
CatalogNext ==
  \/ \E c \in (IF Fresh THEN Calls ELSE FewCalls), outcome \in Outcome :
       \/ sql_tables_w(c, outcome)
       \/ sql_columns_w(c, outcome)
       \/ sql_primary_keys_w(c, outcome)
       \/ sql_foreign_keys_w(c, outcome)
       \/ sql_statistics_w(c, outcome)
       \/ sql_special_columns_w(c, outcome)
       \/ sql_procedures_w(c, outcome)
       \/ sql_procedure_columns_w(c, outcome)
       \/ sql_column_privileges_w(c, outcome)
       \/ sql_table_privileges_w(c, outcome)
  \/ \E data_type \in {AllTypes} \cup {t.data_type : t \in Types}, outcome \in {"rows", "reversed"} :
       GetTypeInfo(data_type, outcome)
StatementNext ==
  \/ \E pushed \in {<<>>, <<"01004">>, <<"01004", "01004">>}, error \in {NoError, "01S07", "22003"} :
       Fetch(pushed, error)
  \/ CloseCursor
  \/ MoreResults
  \/ SQLRowCount
  \/ SQLNumResultCols
  \/ \E operation \in {"add", "unknown"} : BulkOperations(operation)
  \/ \E operation \in {"update", "unknown"}, lock_type \in {"exclusive", "unknown"} :
       SetPos(operation, lock_type)
  \/ \E value \in BOOLEAN : SetMetadataId(value)
  \/ \E k \in {0, 1, ColumnCount, ColumnCount + 1} :
       \/ \E buffer \in Buffers : DescribeCol(k, buffer)
       \/ \E field \in Identifier : ColAttribute(k, field, 40)
ConnectionNext ==
  \/ \E t \in (IF Fresh THEN InfoType \cup RawType ELSE {"DriverName"}), own \in BOOLEAN : GetInfo(t, own, 8)
  \/ \E buffer \in Buffers : GetInfo("DriverName", FALSE, buffer)
  \/ \E id \in (IF Fresh THEN {999, 2013} \cup {FunctionId[f] : f \in Function} ELSE {}) \cup {0} :
       GetFunctions(id)
  \/ \E text \in (IF Fresh THEN Texts ELSE FewTexts) : NativeSql(text, SQL_NTS, Len(text), 40)
  \/ \E text \in FewTexts \cup {Null}, buffer \in Buffers :
       \E length \in {-5, SQL_NTS, Len(text)}, terminator \in {NotTerminated, Len(text)} :
         NativeSql(text, length, terminator, buffer)
DiagnosticNext ==
  \E h \in Handle, rec \in 0..3 :
    \/ \E buffer \in Buffers : SQLGetDiagRec(h, rec, buffer)
    \/ \E field \in DiagField, buffer \in {-1, 20} : SQLGetDiagField(h, rec, field, buffer)

\* Bound: a call on one handle is made while the other has no diagnostics.
Next == \/ answer = NoAnswer /\ Quiet("conn") /\ (CatalogNext \/ StatementNext)
        \/ answer = NoAnswer /\ Quiet("stmt") /\ ConnectionNext
        \/ answer = NoAnswer /\ DiagnosticNext
        \/ Forget
Spec == Init /\ [][Next]_vars

-----------------------------------------------------------------------------
\* What SQL_ATTR_METADATA_ID and the documentation of each function say, apart
\* from the code: an identifier is itself, delimited as it stands and otherwise
\* in the case of the data source.
Identified(arg) == IF Delimited(arg, source.quotes) THEN SubSeq(arg, 2, Len(arg) - 1) ELSE Fold(arg, source)
Denotes(arg, value) ==
  CASE arg = Null -> TRUE
    [] arg # Null /\ metadata_id -> value # Null /\ value = Identified(arg)
    [] OTHER -> Matches(arg, value)
\* Without an escape character an identifier with a metacharacter cannot be told
\* from a pattern, and a name the data source has no place for denotes nothing.
Expressible(c) ==
  metadata_id => \A i \in DOMAIN c.args :
    /\ source.escape = Empty => \A k \in DOMAIN c.args[i] : c.args[i][k] \notin {"%", "_"}
    /\ c.args[i] # Null => /\ NamesCatalog(Arguments[c.f][i]) => source.catalogs
                           /\ NamesSchema(Arguments[c.f][i]) => source.schemas
Denoted(c) ==
  {o \in Objects : /\ \A i \in DOMAIN c.args : Denotes(c.args[i], Field(o, Arguments[c.f][i]))
                   /\ parse_table_type_list(c.types) # {} => o.type \in parse_table_type_list(c.types)
                   /\ c.f = "Statistics" /\ c.option => o.number = <<"1">>}

\* The columns the documentation of each function orders its rows by.
OrderedBy(c) ==
  CASE c.f = "Tables" -> <<"TABLE_TYPE">> \o ThreePart
    [] c.f = "Columns" -> Append(ThreePart, "ORDINAL_POSITION")
    [] c.f = "PrimaryKeys" -> Append(ThreePart, "KEY_SEQ")
    [] c.f = "ForeignKeys" -> IF c.args[3] # Null
                              THEN <<"FKTABLE_CAT", "FKTABLE_SCHEM", "FKTABLE_NAME", "KEY_SEQ">>
                              ELSE <<"PKTABLE_CAT", "PKTABLE_SCHEM", "PKTABLE_NAME", "KEY_SEQ">>
    [] c.f = "Statistics" -> <<"NON_UNIQUE", "TYPE", "INDEX_QUALIFIER", "INDEX_NAME", "ORDINAL_POSITION">>
    [] c.f = "SpecialColumns" -> <<"SCOPE">>
    [] c.f = "Procedures" -> Arguments["Procedures"]
    [] c.f = "ProcedureColumns" -> Append(Arguments["Procedures"], "COLUMN_TYPE")
    [] c.f = "ColumnPrivileges" -> ThreePart \o <<"COLUMN_NAME", "PRIVILEGE">>
    [] c.f = "TablePrivileges" -> ThreePart \o <<"PRIVILEGE", "GRANTEE">>
Positioned(f, name) == CHOOSE k \in DOMAIN Columns[f] : Columns[f][k][1] = name
InOrder(r, s, c) ==
  \A n \in DOMAIN OrderedBy(c) :
    LET at(m) == Positioned(c.f, OrderedBy(c)[m])
    IN  (\A m \in 1..n - 1 : r[at(m)] = s[at(m)]) => ~ValuePrecedes(s[at(n)], r[at(n)], source.nulls)
DescribedRow(o, f) == [k \in DOMAIN Columns[f] |-> Field(o, Columns[f][k][1])]

\* The rows a catalog function answers are those of exactly the objects its
\* arguments denote, each value under the column described for it, never NULL
\* where the description says so, and in the documented order with NULLs where
\* SQL_NULL_COLLATION puts them; whatever SQL_ATTR_METADATA_ID, the identifier
\* case, the delimiters and the escape character of the data source, and in
\* whatever order the backend returns them (metadata.rs, catalog_ident.rs,
\* catalog_sort.rs, catalog_rows.rs, result_cols.rs).
AnswersItsArguments ==
  answer.f \in CatalogFunction =>
    LET c == answer.call
        rows == answer.rows
    IN  /\ \A i \in 2..Len(rows) : InOrder(rows[i - 1], rows[i], c)
        /\ \A k \in DOMAIN Columns[c.f] :
             /\ Columns[c.f][k][2] = Values[c.f][k][2]
             /\ ~Columns[c.f][k][3] => \A i \in DOMAIN rows : rows[i][k] # Null
        /\ Enumerated(c) = "None" /\ Expressible(c) /\ answer.listed =>
             /\ {rows[i] : i \in DOMAIN rows} = {DescribedRow(o, c.f) : o \in Denoted(c)}
             /\ Len(rows) = Cardinality(Denoted(c))
        /\ Enumerated(c) # "None" =>
             \A i, j \in DOMAIN rows :
               /\ Cardinality({k \in DOMAIN rows[i] : rows[i][k] # Null}) = 1
               /\ i # j => rows[i] # rows[j]

\* SQLGetDiagRec and SQLGetDiagField tell of the last call on the handle and of
\* no call before: a call that succeeds leaves no record, one that fails its
\* error last, one that warns only warnings; every SQLSTATE is one that the
\* specification lists for the function; and the records are numbered one to
\* SQL_DIAG_NUMBER, with NO_DATA past them (panic.rs, handles/diagnostics.rs,
\* ffi/diag.rs, types/diagnostics_table.rs).
DiagnosticsTellLastCall ==
  /\ ended # NoCall =>
       LET records == queue[ended.handle]
           states == {records[i] : i \in DOMAIN records}
       IN  /\ states \subseteq Listed(ended.f)
           /\ ended.returned \in {Success, NoData} => records = <<>>
           /\ ended.returned = Info => records # <<>> /\ states \subseteq Warning
           /\ ended.returned = Error => /\ records # <<>> /\ Last(records) \notin Warning
                                        /\ \A i \in 1..Len(records) - 1 : records[i] \in Warning
  /\ answer.f = "GetDiagRec" =>
       LET got == answer.got
       IN  /\ got.ret \in {Success, Info} <=> answer.rec \in DOMAIN queue[answer.h] /\ answer.buffer # -1
           /\ got.ret \in {Success, Info} => got.state = queue[answer.h][answer.rec]
           /\ got.ret = NoData => answer.rec > Len(queue[answer.h])
  /\ answer.f = "GetDiagField" /\ answer.field = "Number" => answer.got.value = Len(queue[answer.h])

\* What the application is told in one place is what it is told in another: an
\* information type has the type the specification gives it whether the backend
\* answers or not, the answers about catalogs, schemas, procedures and
\* transactions go together, and the three forms of SQLGetFunctions agree on
\* every function, but for the ODBC 2 names the driver manager maps (info.rs,
\* backend.rs, info_type_shape.rs, conformance.rs, function_id.rs).
AnswersAgree ==
  /\ "kind" \in DOMAIN answer =>
       LET t == answer.type
       IN  /\ t \in InfoType => answer.kind = expected_kind(t)
           /\ open /\ t \notin InfoType =>
                answer.kind = IF t \in RawString THEN "String" ELSE IF t \in RawU16 THEN "U16" ELSE "U32"
           /\ open => info_group_consistent([u \in InfoType \cup RawType |-> InfoOf(u, FALSE)])
  /\ answer.f = "GetFunctions" =>
       \A f \in Function :
         LET id == FunctionId[f]
         IN  CASE answer.id = SQL_API_ODBC3_ALL_FUNCTIONS ->
                    <<id \div 16, id % 16>> \in answer.told <=> f \in Functions
               [] answer.id = SQL_API_ALL_FUNCTIONS /\ id < 100 ->
                    id \in answer.told <=> f \in Functions \/ (f \in DOMAIN MappedTo /\ MappedTo[f] \in Functions)
               [] answer.id = id -> answer.told <=> f \in Functions
               [] OTHER -> TRUE
  /\ \/ answer.f = "NumResultCols"
     \/ answer.f = "ColAttribute" /\ answer.field = "Count"
     => answer.value = IF cursor_open THEN Len(Values[statement.f]) ELSE 0

\* A text that has no escape outside of literals, delimited identifiers and
\* comments is left as it is, whatever braces it has inside of them.
PlainTextUnchanged ==
  "native" \in DOMAIN answer /\ (\A i \in Code(answer.sql, Dialect) : answer.sql[i] # "{") =>
    answer.native = answer.sql

\* What SQLNativeSql translates keeps every parameter marker: the statement has
\* as many as the application wrote outside of literals, delimited identifiers
\* and comments, and one without escapes is left as it is.  A line comment in an
\* escape is left out: trimming an escape's body can drop the line end that
\* closes it (escape.rs, ffi/params.rs count_params).
TranslationKeepsMarkers ==
  /\ "native" \in DOMAIN answer =>
       LET sql == answer.sql
           CommentInEscape == \E i, j, k \in DOMAIN sql : i < j /\ j < k /\ sql[i] = "{" /\ sql[j] = "--"
                                                          /\ sql[k] = "}"
       IN  ~CommentInEscape => count_params(answer.native, Dialect) = count_params(sql, Dialect)
  /\ PlainTextUnchanged

\* A text fits the buffer with its terminator, SQL_SUCCESS_WITH_INFO and 01004
\* say that it was cut off and nothing else does, and the length told is the
\* whole text's in the unit of the buffer's own length, so that a buffer of that
\* length and a terminator holds it all (utf16.rs, ffi/info.rs, ffi/diag.rs,
\* ffi/metadata.rs, SQLNativeSql in ffi/connect.rs).
TextFits ==
  LET Fits(text, units, bytes, buffer) ==
        LET room == IF bytes THEN buffer \div 2 ELSE buffer
            enough == text.reported + IF bytes THEN 2 ELSE 1
        IN  /\ text.copied = 0 \/ text.copied < room
            /\ text.ret = Info => buffer # NullPointer /\ (text.copied < units \/ room <= 0)
            /\ text.ret = Success => buffer = NullPointer \/ text.copied = units
            /\ units < IF bytes THEN enough \div 2 ELSE enough
            /\ text.reported <= IF bytes THEN units * 2 ELSE units
  IN  /\ "text" \in DOMAIN answer =>
           LET text == answer.text
           IN  /\ Fits(text, text.units, text.bytes, text.buffer)
               /\ text.ret = Info <=> queue[ended.handle] = <<"01004">>
      /\ answer.f = "GetDiagRec" /\ answer.got.ret \in {Success, Info} =>
           Fits(answer.got.written, MessageUnits, FALSE, answer.buffer)
=============================================================================
