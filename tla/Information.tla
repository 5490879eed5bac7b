----------------------------- MODULE Information -----------------------------
(***************************************************************************)
(* What SQLGetInfo and SQLGetFunctions answer.  A backend may decline an   *)
(* information type (NotImplemented); core then derives the answer from    *)
(* what the backend declares elsewhere, layer by layer, and in the end     *)
(* from the shape the type has.  An answer is <<kind, value>>.  A source   *)
(* is the record of CatalogArguments with, besides,                        *)
(*   commit, rollback  cursor_commit_behavior, cursor_rollback_behavior    *)
(*   catalog           the session's current catalog                       *)
(*   transactions      txn_capable is not SQL_TC_NONE                      *)
(***************************************************************************)
EXTENDS Integers, Sequences, FiniteSets

Y(holds) == <<"String", IF holds THEN "Y" ELSE "N">>
String(text) == <<"String", text>>
U16(value) == <<"U16", value>>
U32(value) == <<"U32", value>>
Nothing == <<"none">>

\* InfoType, the types info_type_from_raw names, by the shape expected_kind
\* gives them.
StringShaped ==
  {"DataSourceName", "DriverName", "DriverVer", "ServerName", "SearchPatternEscape", "DbmsName",
   "DbmsVer", "AccessibleTables", "AccessibleProcedures", "DataSourceReadOnly",
   "ExpressionsInOrderBy", "IdentifierQuoteChar", "MultResultSets", "OuterJoins", "SchemaTerm",
   "CatalogNameSeparator", "CatalogTerm", "UserName", "Integrity", "DriverOdbcVer", "ColumnAlias",
   "OrderByColumnsInSelect", "SpecialCharacters", "MaxRowSizeIncludesLong", "NeedLongDataLen",
   "LikeEscapeClause", "XopenCliYear", "DescribeParameter", "CatalogName", "CollationSeq"}
U16Shaped ==
  {"MaxDriverConnections", "MaxConcurrentActivities", "ConcatNullBehavior", "CursorCommitBehaviour",
   "IdentifierCase", "MaxColumnNameLen", "MaxCursorNameLen", "MaxSchemaNameLen", "MaxCatalogNameLen",
   "MaxTableNameLen", "TransactionCapable", "CorrelationName", "NonNullableColumns", "SqlFileUsage",
   "NullCollation", "GroupBy", "SqlQuotedIdentifierCase", "MaxColumnsInGroupBy", "MaxColumnsInIndex",
   "MaxColumnsInOrderBy", "MaxColumnsInSelect", "MaxColumnsInTable", "MaxTablesInSelect",
   "MaxUserNameLen", "CatalogLocation", "ActiveEnvironments", "MaxIdentifierLen"}
U32Shaped ==
  {"DefaultTxnIsolation", "ScrollOptions", "ConvertFunctions", "NumericFunctions", "StringFunctions",
   "SystemFunctions", "TimedateFunctions", "TransactionIsolationProtocol", "GetDataExtensions",
   "AlterTable", "SchemaUsage", "CatalogUsage", "Subqueries", "UnionStatement", "MaxIndexSize",
   "MaxRowSize", "MaxStatementLen", "TimedateAddIntervals", "TimedateDiffIntervals",
   "OuterJoinCapabilities", "SqlConformance", "BatchRowCount", "BatchSupport",
   "DynamicCursorAttributes1", "DynamicCursorAttributes2", "ForwardOnlyCursorAttributes1",
   "ForwardOnlyCursorAttributes2", "KeysetCursorAttributes1", "KeysetCursorAttributes2",
   "OdbcInterfaceConformance", "ParamArrayRowCounts", "ParamArraySelects", "Sql92DatetimeFunctions",
   "Sql92ForeignKeyDeleteRule", "Sql92ForeignKeyUpdateRule", "Sql92Grant",
   "Sql92NumericValueFunctions", "Sql92Predicates", "Sql92RelationalJoinOperators", "Sql92Revoke",
   "Sql92RowValueConstructor", "Sql92StringFunctions", "Sql92ValueExpressions",
   "StaticCursorAttributes1", "StaticCursorAttributes2", "AggregateFunctions", "CursorSensitivity",
   "AsyncMode", "MaxAsyncConcurrentStatements", "AsyncDbcFunctions", "DriverAwarePoolingSupported",
   "AsyncNotification"}
InfoType == StringShaped \cup U16Shaped \cup U32Shaped

\* Raw numbers odbc-sys has no name for, and one that is no type at all.
RawString == {"RowUpdates", "Procedures", "MultipleActiveTxn", "Keywords", "ProcedureTerm",
              "TableTerm", "DatabaseName"}
RawU16 == {"CursorRollbackBehavior", "OdbcApiConformance", "OdbcSagCliConformance",
           "OdbcSqlConformance", "MaxProcedureNameLen"}
Convert == {"ConvertBigint", "ConvertWvarchar", "ConvertGuid"}
RawType == RawString \cup RawU16 \cup Convert \cup {"Unknown"}

expected_kind(t) == IF t \in StringShaped THEN "String" ELSE IF t \in U16Shaped THEN "U16" ELSE "U32"

-----------------------------------------------------------------------------
\* External: what the declarations of the backend say that no other part of
\* core acts on.
YesNoHook == {"ColumnAlias", "OrderByColumnsInSelect", "DataSourceReadOnly", "AccessibleTables",
              "AccessibleProcedures", "Integrity", "ExpressionsInOrderBy"}
TextHook == {"SpecialCharacters", "DbmsName", "DbmsVer"}
U16Hook == {"ConcatNullBehavior", "GroupBy", "CorrelationName", "NonNullableColumns"}
U32Hook == {"Subqueries", "UnionStatement", "ConvertFunctions", "AlterTable", "OuterJoinCapabilities",
            "SqlConformance", "TimedateAddIntervals", "TimedateDiffIntervals"}

IdentifierLength == {"MaxColumnNameLen", "MaxSchemaNameLen", "MaxCatalogNameLen", "MaxTableNameLen",
                     "MaxIdentifierLen"}
ZeroU16 == {"MaxDriverConnections", "MaxConcurrentActivities", "MaxColumnsInGroupBy",
            "MaxColumnsInIndex", "MaxColumnsInOrderBy", "MaxColumnsInSelect", "MaxColumnsInTable",
            "MaxTablesInSelect", "MaxUserNameLen", "ActiveEnvironments"}
ZeroU32 == {"MaxIndexSize", "MaxRowSize", "MaxStatementLen", "BatchSupport", "BatchRowCount",
            "MaxAsyncConcurrentStatements", "DriverAwarePoolingSupported", "DynamicCursorAttributes1",
            "DynamicCursorAttributes2", "KeysetCursorAttributes1", "KeysetCursorAttributes2",
            "StaticCursorAttributes1", "StaticCursorAttributes2"}
FixedU32 == {"CursorSensitivity", "ScrollOptions", "OdbcInterfaceConformance", "AsyncMode",
             "AsyncDbcFunctions", "GetDataExtensions", "ParamArrayRowCounts", "ParamArraySelects",
             "AsyncNotification", "ForwardOnlyCursorAttributes1", "ForwardOnlyCursorAttributes2"}

\* default_get_info, the part that needs no connection and the part that
\* reads the declarations of an open one.
WithoutConnection(source, t) ==
  CASE t = "DriverOdbcVer" -> String("03.80")
    [] t \in {"DataSourceName", "ServerName", "UserName", "CollationSeq"} -> String("")
    [] t \in {"DriverName", "DriverVer"} -> String(t)
    [] t = "XopenCliYear" -> String("1995")
    [] t \in {"DescribeParameter", "LikeEscapeClause"} -> Y(TRUE)
    [] t \in {"MultResultSets", "MaxRowSizeIncludesLong", "NeedLongDataLen"} -> Y(FALSE)
    [] t = "CursorCommitBehaviour" -> U16(source.commit)
    [] t \in IdentifierLength -> U16("128")
    [] t = "MaxCursorNameLen" -> U16("MAX_CURSOR_NAME_LEN")
    [] t \in ZeroU16 -> U16("0")
    [] t \in ZeroU32 -> U32("0")
    [] t \in FixedU32 -> U32(t)
    [] OTHER -> Nothing
FromConnection(source, t) ==
  CASE t = "SearchPatternEscape" -> String(source.escape)
    [] t = "IdentifierQuoteChar" -> String(IF source.quotes = {} THEN "" ELSE "q")
    [] t = "CatalogTerm" -> String(IF source.catalogs THEN "catalog" ELSE "")
    [] t = "SchemaTerm" -> String(IF source.schemas THEN "schema" ELSE "")
    [] t = "CatalogNameSeparator" -> String(IF source.catalogs THEN "." ELSE "")
    [] t = "CatalogName" -> Y(source.catalogs)
    [] t = "CatalogLocation" /\ ~source.catalogs -> U16("0")
    [] t = "CatalogUsage" /\ ~source.catalogs -> U32("0")
    [] t = "SchemaUsage" /\ ~source.schemas -> U32("0")
    [] t \in YesNoHook -> Y(TRUE)
    [] t = "OuterJoins" -> Y(TRUE)
    [] t \in TextHook -> String(t)
    [] t = "NullCollation" -> U16(source.nulls)
    [] t = "IdentifierCase" -> U16(source.case)
    [] t = "TransactionCapable" -> U16(IF source.transactions THEN "2" ELSE "0")
    [] t = "TransactionIsolationProtocol" -> U32(IF source.transactions THEN "8" ELSE "0")
    [] t = "DefaultTxnIsolation" -> U32(IF source.transactions THEN "8" ELSE "0")
    [] t \in U16Hook -> U16(t)
    [] t \in U32Hook -> U32(t)
    [] OTHER -> Nothing
default_get_info(source, connected, t) ==
  IF WithoutConnection(source, t) # Nothing THEN WithoutConnection(source, t)
  ELSE IF connected THEN FromConnection(source, t) ELSE Nothing

common_get_info_raw(source, connected, t) ==
  CASE t = "SqlFileUsage" -> U16("0")
    [] t = "CursorRollbackBehavior" -> U16(source.rollback)
    [] t \in {"RowUpdates", "Procedures"} -> Y(FALSE)
    [] t = "ProcedureTerm" -> String("")
    [] t = "TableTerm" -> String("table")
    [] t = "SqlQuotedIdentifierCase" /\ connected -> U16(t)
    [] t = "MultipleActiveTxn" /\ connected -> Y(TRUE)
    [] t = "Keywords" /\ connected -> String(t)
    [] OTHER -> Nothing

\* info_type_default_response.  current is the current catalog, "" when there
\* is none; raw what get_info_raw answers, Nothing when it declines.
\* A fault: one default for every shape.
ShapelessDefault(t) == U32("0")
ShapedDefault(t) ==
  CASE t \in Convert -> U32("4294967295")
    [] t \in RawU16 -> U16("0")
    [] t \in InfoType -> IF expected_kind(t) = "String" THEN String("") ELSE <<expected_kind(t), "0">>
    [] OTHER -> U32("0")
info_type_default_response(source, connected, current, raw, t) ==
  IF connected /\ raw # Nothing THEN raw
  ELSE IF t = "CursorCommitBehaviour" THEN U16(source.commit)
  ELSE IF t = "DatabaseName" THEN String(current)
  ELSE IF common_get_info_raw(source, connected, t) # Nothing THEN common_get_info_raw(source, connected, t)
  ELSE IF t \in InfoType /\ default_get_info(source, connected, t) # Nothing
       THEN default_get_info(source, connected, t)
  ELSE ShapedDefault(t)

\* info_type_or_default: the backend's own answer first.
info_type_or_default(source, connected, current, own, raw, t) ==
  IF t \in InfoType /\ own # Nothing THEN own
  ELSE info_type_default_response(source, connected, current, raw, t)

\* conformance.rs: the rules that tie the answers of a group together.
info_group_consistent(answer) ==
  LET catalogs == answer["CatalogName"][2] = "Y"
      transactions == answer["TransactionCapable"][2] # "0"
  IN  /\ catalogs <=> answer["CatalogTerm"][2] # ""
      /\ catalogs <=> answer["CatalogNameSeparator"][2] # ""
      /\ ~catalogs => answer["CatalogUsage"][2] = "0" /\ answer["CatalogLocation"][2] = "0"
      /\ answer["SchemaTerm"][2] = "" => answer["SchemaUsage"][2] = "0"
      /\ answer["Procedures"][2] = "Y" => answer["ProcedureTerm"][2] # ""
      /\ transactions <=> answer["TransactionIsolationProtocol"][2] # "0"
      /\ ~transactions => answer["DefaultTxnIsolation"][2] = "0"
=============================================================================
