----------------------------- MODULE ListedStates -----------------------------
(***************************************************************************)
(* types/diagnostics_table.rs: the SQLSTATEs the specification lists for   *)
(* each function, apart from which of them are the Driver Manager's.  The     *)
(* conformance tests of src/ read the bodies of the functions for the ones *)
(* they name; what a call really answers, however it comes to it, is here. *)
(***************************************************************************)

\* The rows of every function, Unlisted apart.
Always == {"01000", "HY000", "HY001", "HY013", "HYT01", "IM001"}
Sequence == {"HY010", "HY117"}
Asynchronous == {"HY008", "IM017", "IM018"}

\* SQLGetData, SQLExtendedFetch, SQLFetch and SQLFetchScroll.
ReadingStates == Sequence \cup {"01004", "01S07", "07006", "07009", "08S01", "22002", "22003", "22007",
                                "22012", "22015", "22018", "24000", "HY008"}
GetDataStates == ReadingStates \cup Asynchronous \cup {"HY003", "HY009", "HY090", "HY109", "HYC00"}
FetchStates(f) ==
  CASE f = "ExtendedFetch" -> ReadingStates \cup {"01S01", "01S06", "HY106", "HY107", "HY111", "HYC00", "HYT00"}
    [] f = "Fetch" -> ReadingStates \cup Asynchronous \cup {"01S01", "22001", "40001", "40003", "HY090",
                                                            "HY107", "HYC00", "HYT00"}
    [] f = "FetchScroll" -> ReadingStates \cup Asynchronous
                              \cup {"01S01", "01S06", "22001", "40001", "40003", "HY090", "HY106",
                                    "HY107", "HY111", "HYC00", "HYT00"}

ExecuteStates == Sequence \cup Asynchronous \cup
  {"01001", "01003", "01004", "01006", "01007", "01S02", "01S07", "07002", "07006", "07007", "07S01",
   "08S01", "21S02", "22001", "22002", "22003", "22007", "22008", "22012", "22015", "22018", "22019",
   "22025", "23000", "24000", "40001", "40003", "42000", "44000", "HY090", "HY105", "HY109", "HYC00",
   "HYT00"}
ExecDirectStates == ExecuteStates \cup {"21S01", "34000", "3D000", "3F000", "42S01", "42S02", "42S11",
                                        "42S12", "42S21", "42S22", "HY009"}
BindColStates == Sequence \cup {"07006", "07009", "HY003", "HY090", "HYC00"}

CommonCatalogStates ==
  Sequence \cup Asynchronous \cup {"08S01", "24000", "40001", "40003", "HY009", "HY090", "HYC00", "HYT00"}
CatalogStates(f) ==
  CommonCatalogStates
    \cup CASE f = "Statistics" -> {"HY100", "HY101"}
           [] f = "SpecialColumns" -> {"HY097", "HY098", "HY099"}
           [] OTHER -> {}
GetTypeInfoStates == (CommonCatalogStates \cup {"01S02", "HY004"}) \ {"HY009", "HY090"}

\* The parameters of a statement, and its descriptors.
BindParameterStates == Sequence \cup {"07006", "07009", "HY003", "HY004", "HY009", "HY021", "HY090",
                                      "HY104", "HY105", "HYC00"}
DescStates(f) ==
  Sequence \cup {"08S01"}
    \cup CASE f = "GetDescField" -> {"01004", "07009", "HY007", "HY021", "HY090", "HY091"}
           [] f = "SetDescField" -> {"01S02", "07009", "22001", "HY016", "HY021", "HY090", "HY091",
                                     "HY092", "HY105"}
           [] f = "GetDescRec" -> {"01004", "07009", "HY007"}
           [] f = "SetDescRec" -> {"07009", "HY016", "HY021", "HY090"}
           [] f = "CopyDesc" -> {"HY007", "HY016", "HY021", "HY092"}

\* The description of a result set, and what may be done with it.
DescriptionStates(f) ==
  Sequence \cup Asynchronous
    \cup CASE f = "DescribeCol" -> {"01004", "07005", "07009", "08S01", "HY090"}
           [] f = "ColAttribute" -> {"01004", "07005", "07009", "HY090", "HY091", "HYC00"}
           [] f = "NumResultCols" -> {"08S01"}
ResultStates(f) ==
  Sequence \cup CASE f = "RowCount" -> {}
                  [] f = "MoreResults" -> Asynchronous \cup {"01S02", "08S01", "40001", "40003"}
                  [] f = "CloseCursor" -> {"24000"}
BulkStates == Sequence \cup Asynchronous \cup
  {"01004", "01S01", "01S07", "07006", "07009", "21S02", "22001", "22003", "22007", "22008", "22015",
   "22018", "23000", "24000", "40001", "40003", "42000", "44000", "HY011", "HY090", "HY092", "HYC00",
   "HYT00"}
SetPosStates == BulkStates \cup {"01001", "HY107", "HY109"}

SetStmtAttrStates == Sequence \cup {"01S02", "08S01", "24000", "HY009", "HY011", "HY017", "HY024", "HY090",
                                    "HY092", "HYC00", "S1118"}
ReadAttrStates == Sequence \cup {"01004", "HY090", "HY092", "HYC00"}
GetStmtAttrStates == ReadAttrStates \cup {"24000", "HY109"}
GetConnectAttrStates == ReadAttrStates \cup {"08003", "08S01", "HY114"}
SetConnectAttrStates == Sequence \cup Asynchronous \cup
  {"01S02", "08002", "08003", "08S01", "24000", "25000", "3D000", "HY009", "HY011", "HY024", "HY090",
   "HY092", "HY114", "HY121", "HYC00", "IM009", "S1118"}
NativeSqlStates == Sequence \cup {"01004", "08003", "08S01", "22007", "24000", "HY009", "HY090", "HY109"}
GetInfoStates == Sequence \cup {"01004", "08003", "08S01", "HY024", "HY090", "HY096", "HYC00"}
GetFunctionsStates == Sequence \cup {"08S01", "HY095"}

Unlisted(f) == CASE f = "ProcedureColumns" -> {"HY013"}
                 [] f = "GetFunctions" -> {"IM001"}
                 [] OTHER -> {}
Listed(f) ==
  (Always \ Unlisted(f)) \cup
  CASE f \in {"Fetch", "FetchScroll", "ExtendedFetch"} -> FetchStates(f)
    [] f = "GetData" -> GetDataStates
    [] f = "BindCol" -> BindColStates
    [] f = "Execute" -> ExecuteStates
    [] f = "ExecDirect" -> ExecDirectStates
    [] f \in {"Tables", "Columns", "PrimaryKeys", "ForeignKeys", "Procedures", "ColumnPrivileges",
              "TablePrivileges", "ProcedureColumns", "Statistics", "SpecialColumns"} -> CatalogStates(f)
    [] f = "GetTypeInfo" -> GetTypeInfoStates
    [] f \in {"DescribeCol", "ColAttribute", "NumResultCols"} -> DescriptionStates(f)
    [] f \in {"RowCount", "MoreResults", "CloseCursor"} -> ResultStates(f)
    [] f = "BulkOperations" -> BulkStates
    [] f = "SetPos" -> SetPosStates
    [] f = "BindParameter" -> BindParameterStates
    [] f \in {"GetDescField", "SetDescField", "GetDescRec", "SetDescRec", "CopyDesc"} -> DescStates(f)
    [] f = "SetStmtAttr" -> SetStmtAttrStates
    [] f = "GetStmtAttr" -> GetStmtAttrStates
    [] f = "SetConnectAttr" -> SetConnectAttrStates
    [] f = "GetConnectAttr" -> GetConnectAttrStates
    [] f = "NativeSql" -> NativeSqlStates
    [] f = "GetInfo" -> GetInfoStates
    [] f = "GetFunctions" -> GetFunctionsStates
=============================================================================
