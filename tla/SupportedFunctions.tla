-------------------------- MODULE SupportedFunctions --------------------------
(***************************************************************************)
(* SQLGetFunctions: a backend's set of functions, told one function at a   *)
(* time, as the ODBC 3 bitmap and as the ODBC 2 array.                     *)
(***************************************************************************)
EXTENDS Naturals

\* FunctionId, the SQL_API numbers.
FunctionId ==
  [AllocConnect |-> 1, AllocEnv |-> 2, AllocStmt |-> 3, BindCol |-> 4, Cancel |-> 5,
   ColAttribute |-> 6, Connect |-> 7, DescribeCol |-> 8, Disconnect |-> 9, Error |-> 10,
   ExecDirect |-> 11, Execute |-> 12, Fetch |-> 13, FreeConnect |-> 14, FreeEnv |-> 15,
   FreeStmt |-> 16, GetCursorName |-> 17, NumResultCols |-> 18, Prepare |-> 19, RowCount |-> 20,
   SetCursorName |-> 21, SetParam |-> 22, Transact |-> 23, BulkOperations |-> 24, Columns |-> 40,
   DriverConnect |-> 41, GetConnectOption |-> 42, GetData |-> 43, GetFunctions |-> 44,
   GetInfo |-> 45, GetStmtOption |-> 46, GetTypeInfo |-> 47, ParamData |-> 48, PutData |-> 49,
   SetConnectOption |-> 50, SetStmtOption |-> 51, SpecialColumns |-> 52, Statistics |-> 53,
   Tables |-> 54, BrowseConnect |-> 55, ColumnPrivileges |-> 56, DataSources |-> 57,
   DescribeParam |-> 58, ExtendedFetch |-> 59, ForeignKeys |-> 60, MoreResults |-> 61,
   NativeSql |-> 62, NumParams |-> 63, ParamOptions |-> 64, PrimaryKeys |-> 65,
   ProcedureColumns |-> 66, Procedures |-> 67, SetPos |-> 68, SetScrollOptions |-> 69,
   TablePrivileges |-> 70, Drivers |-> 71, BindParameter |-> 72, AllocHandleStd |-> 73,
   AllocHandle |-> 1001, BindParam |-> 1002, CloseCursor |-> 1003, CopyDesc |-> 1004,
   EndTran |-> 1005, FreeHandle |-> 1006, GetConnectAttr |-> 1007, GetDescField |-> 1008,
   GetDescRec |-> 1009, GetDiagField |-> 1010, GetDiagRec |-> 1011, GetEnvAttr |-> 1012,
   GetStmtAttr |-> 1014, SetConnectAttr |-> 1016, SetDescField |-> 1017, SetDescRec |-> 1018,
   SetEnvAttr |-> 1019, SetStmtAttr |-> 1020, FetchScroll |-> 1021, CancelHandle |-> 1022]
Function == DOMAIN FunctionId

\* The ODBC 2 names, which the driver manager maps onto their successors, and
\* the functions that never reach a driver.
MappedTo ==
  [AllocConnect |-> "AllocHandle", AllocEnv |-> "AllocHandle", AllocStmt |-> "AllocHandle",
   FreeConnect |-> "FreeHandle", FreeEnv |-> "FreeHandle", GetConnectOption |-> "GetConnectAttr",
   SetConnectOption |-> "SetConnectAttr", GetStmtOption |-> "GetStmtAttr",
   SetStmtOption |-> "SetStmtAttr", Error |-> "GetDiagRec", Transact |-> "EndTran"]
CORE_UNEXPORTED_FUNCTIONS ==
  DOMAIN MappedTo \cup {"SetParam", "DataSources", "ParamOptions", "Drivers", "AllocHandleStd",
                        "BindParam", "CancelHandle", "SetScrollOptions"}
CORE_EXPORTED_FUNCTIONS == Function \ CORE_UNEXPORTED_FUNCTIONS

SQL_API_ODBC3_ALL_FUNCTIONS == 999
SQL_API_ALL_FUNCTIONS == 0

\* function_id_from_raw, and whether a single function is supported.
NoFunction == "none"
function_id_from_raw(id) ==
  IF \E f \in Function : FunctionId[f] = id THEN CHOOSE f \in Function : FunctionId[f] = id
  ELSE NoFunction
IsSupported(functions, id) == function_id_from_raw(id) \in functions

\* The bits set in the bitmap's words of sixteen, and the ODBC 2 array's
\* elements that are SQL_TRUE.
AllOdbc3(functions) == {<<FunctionId[f] \div 16, FunctionId[f] % 16>> : f \in functions}
AllOdbc2(functions) ==
  {id \in {FunctionId[f] : f \in functions} : id < 100}
    \cup {FunctionId[f] : f \in {old \in DOMAIN MappedTo : MappedTo[old] \in functions}}
=============================================================================
