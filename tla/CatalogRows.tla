----------------------------- MODULE CatalogRows -----------------------------
(***************************************************************************)
(* The result sets of the ten catalog functions and of SQLGetTypeInfo: the *)
(* columns each describes to the application (result_cols.rs, metadata.rs, *)
(* info.rs), the values its row structs turn into (catalog_rows.rs,        *)
(* value.rs), and the columns its rows are sorted by, as written there:    *)
(* zero-based positions.                                                   *)
(***************************************************************************)
EXTENDS Sequences

\* A column: its name, its kind and whether it can be NULL.
Described(name, kind, null) == <<name, kind, null>>
identifier(name) == Described(name, "text", TRUE)
identifierNoNulls(name) == Described(name, "text", FALSE)
smallint(name) == Described(name, "smallint", TRUE)
smallintNoNulls(name) == Described(name, "smallint", FALSE)
integer(name) == Described(name, "integer", TRUE)
integerNoNulls(name) == Described(name, "integer", FALSE)

\* The tail SQLColumns and SQLProcedureColumns share.
AboutAType ==
  <<smallintNoNulls("DATA_TYPE"), identifierNoNulls("TYPE_NAME"), integer("COLUMN_SIZE"),
    integer("BUFFER_LENGTH"), smallint("DECIMAL_DIGITS"), smallint("NUM_PREC_RADIX"),
    smallintNoNulls("NULLABLE"), identifier("REMARKS"), identifier("COLUMN_DEF"),
    smallintNoNulls("SQL_DATA_TYPE"), smallint("SQL_DATETIME_SUB"), integer("CHAR_OCTET_LENGTH"),
    integerNoNulls("ORDINAL_POSITION"), identifier("IS_NULLABLE")>>

Object(catalog, schema, name) == <<identifier(catalog), identifier(schema), identifierNoNulls(name)>>
ATable == Object("TABLE_CAT", "TABLE_SCHEM", "TABLE_NAME")

TablesColumns == <<identifier("TABLE_CAT"), identifier("TABLE_SCHEM"), identifier("TABLE_NAME"),
                   identifier("TABLE_TYPE"), identifier("REMARKS")>>
ColumnsColumns == ATable \o <<identifierNoNulls("COLUMN_NAME")>> \o AboutAType
PrimaryKeysColumns == ATable \o <<identifierNoNulls("COLUMN_NAME"), smallintNoNulls("KEY_SEQ"),
                                  identifier("PK_NAME")>>
ForeignKeysColumns ==
  Object("PKTABLE_CAT", "PKTABLE_SCHEM", "PKTABLE_NAME") \o <<identifierNoNulls("PKCOLUMN_NAME")>>
    \o Object("FKTABLE_CAT", "FKTABLE_SCHEM", "FKTABLE_NAME")
    \o <<identifierNoNulls("FKCOLUMN_NAME"), smallintNoNulls("KEY_SEQ"), smallint("UPDATE_RULE"),
         smallint("DELETE_RULE"), identifier("FK_NAME"), identifier("PK_NAME"),
         smallint("DEFERRABILITY")>>
statistics_columns ==
  ATable \o <<smallint("NON_UNIQUE"), identifier("INDEX_QUALIFIER"), identifier("INDEX_NAME"),
              smallintNoNulls("TYPE"), smallint("ORDINAL_POSITION"), identifier("COLUMN_NAME"),
              identifier("ASC_OR_DESC"), integer("CARDINALITY"), integer("PAGES"),
              identifier("FILTER_CONDITION")>>
special_columns_columns ==
  <<smallint("SCOPE"), identifierNoNulls("COLUMN_NAME"), smallintNoNulls("DATA_TYPE"),
    identifierNoNulls("TYPE_NAME"), integer("COLUMN_SIZE"), integer("BUFFER_LENGTH"),
    smallint("DECIMAL_DIGITS"), smallint("PSEUDO_COLUMN")>>
AProcedure == Object("PROCEDURE_CAT", "PROCEDURE_SCHEM", "PROCEDURE_NAME")
procedures_columns ==
  AProcedure \o <<smallint("NUM_INPUT_PARAMS"), smallint("NUM_OUTPUT_PARAMS"),
                  smallint("NUM_RESULT_SETS"), identifier("REMARKS"), smallint("PROCEDURE_TYPE")>>
procedure_columns_columns ==
  AProcedure \o <<identifierNoNulls("COLUMN_NAME"), smallintNoNulls("COLUMN_TYPE")>> \o AboutAType
Granted == <<identifier("GRANTOR"), identifierNoNulls("GRANTEE"), identifierNoNulls("PRIVILEGE"),
             identifier("IS_GRANTABLE")>>
column_privileges_columns == ATable \o <<identifierNoNulls("COLUMN_NAME")>> \o Granted
table_privileges_columns == ATable \o Granted
type_info_columns ==
  <<identifierNoNulls("TYPE_NAME"), smallintNoNulls("DATA_TYPE"), integer("COLUMN_SIZE"),
    identifier("LITERAL_PREFIX"), identifier("LITERAL_SUFFIX"), identifier("CREATE_PARAMS"),
    smallintNoNulls("NULLABLE"), smallintNoNulls("CASE_SENSITIVE"), smallintNoNulls("SEARCHABLE"),
    smallint("UNSIGNED_ATTRIBUTE"), smallintNoNulls("FIXED_PREC_SCALE"),
    smallint("AUTO_UNIQUE_VALUE"), identifier("LOCAL_TYPE_NAME"), smallint("MINIMUM_SCALE"),
    smallint("MAXIMUM_SCALE"), smallintNoNulls("SQL_DATA_TYPE"), smallint("SQL_DATETIME_SUB"),
    integer("NUM_PREC_RADIX"), smallint("INTERVAL_PRECISION")>>

Columns == [Tables |-> TablesColumns, Columns |-> ColumnsColumns,
            PrimaryKeys |-> PrimaryKeysColumns, ForeignKeys |-> ForeignKeysColumns,
            Statistics |-> statistics_columns, SpecialColumns |-> special_columns_columns,
            Procedures |-> procedures_columns, ProcedureColumns |-> procedure_columns_columns,
            ColumnPrivileges |-> column_privileges_columns,
            TablePrivileges |-> table_privileges_columns, GetTypeInfo |-> type_info_columns]

-----------------------------------------------------------------------------
\* A row's value: the column it is the row struct's field for, its kind and
\* whether the struct lets it be None, which is NULL.
Value(name, kind, optional) == <<name, kind, optional>>
OptStr(name) == Value(name, "text", TRUE)
Str(name) == Value(name, "text", FALSE)
OptI16(name) == Value(name, "smallint", TRUE)
I16(name) == Value(name, "smallint", FALSE)
OptI32(name) == Value(name, "integer", TRUE)
I32(name) == Value(name, "integer", FALSE)

NamedRow(catalog, schema, name) == <<OptStr(catalog), OptStr(schema), Str(name)>>
TableValues == NamedRow("TABLE_CAT", "TABLE_SCHEM", "TABLE_NAME")
PkTableValues == NamedRow("PKTABLE_CAT", "PKTABLE_SCHEM", "PKTABLE_NAME")
FkTableValues == NamedRow("FKTABLE_CAT", "FKTABLE_SCHEM", "FKTABLE_NAME")
ProcedureValues == NamedRow("PROCEDURE_CAT", "PROCEDURE_SCHEM", "PROCEDURE_NAME")
TypeValues ==
  <<I16("DATA_TYPE"), Str("TYPE_NAME"), OptI32("COLUMN_SIZE"), OptI32("BUFFER_LENGTH"),
    OptI16("DECIMAL_DIGITS"), OptI16("NUM_PREC_RADIX"), I16("NULLABLE"), OptStr("REMARKS"),
    OptStr("COLUMN_DEF"), I16("SQL_DATA_TYPE"), OptI16("SQL_DATETIME_SUB"),
    OptI32("CHAR_OCTET_LENGTH"), I32("ORDINAL_POSITION"), OptStr("IS_NULLABLE")>>

TableRow == <<OptStr("TABLE_CAT"), OptStr("TABLE_SCHEM"), OptStr("TABLE_NAME"),
              OptStr("TABLE_TYPE"), OptStr("REMARKS")>>
ColumnRow == TableValues \o <<Str("COLUMN_NAME")>> \o TypeValues
PrimaryKeyRow == TableValues \o <<Str("COLUMN_NAME"), I16("KEY_SEQ"), OptStr("PK_NAME")>>
ForeignKeyRow ==
  PkTableValues \o <<Str("PKCOLUMN_NAME")>> \o FkTableValues \o
    <<Str("FKCOLUMN_NAME"), I16("KEY_SEQ"), OptI16("UPDATE_RULE"), OptI16("DELETE_RULE"),
      OptStr("FK_NAME"), OptStr("PK_NAME"), OptI16("DEFERRABILITY")>>
StatisticsRow ==
  TableValues \o <<OptI16("NON_UNIQUE"), OptStr("INDEX_QUALIFIER"), OptStr("INDEX_NAME"),
    I16("TYPE"), OptI16("ORDINAL_POSITION"), OptStr("COLUMN_NAME"), OptStr("ASC_OR_DESC"),
    OptI32("CARDINALITY"), OptI32("PAGES"), OptStr("FILTER_CONDITION")>>
SpecialColumnRow ==
  <<OptI16("SCOPE"), Str("COLUMN_NAME"), I16("DATA_TYPE"), Str("TYPE_NAME"), OptI32("COLUMN_SIZE"),
    OptI32("BUFFER_LENGTH"), OptI16("DECIMAL_DIGITS"), OptI16("PSEUDO_COLUMN")>>
ProcedureRow ==
  ProcedureValues \o <<OptI16("NUM_INPUT_PARAMS"), OptI16("NUM_OUTPUT_PARAMS"),
    OptI16("NUM_RESULT_SETS"), OptStr("REMARKS"), OptI16("PROCEDURE_TYPE")>>
ProcedureColumnRow ==
  ProcedureValues \o <<Str("COLUMN_NAME"), I16("COLUMN_TYPE")>> \o TypeValues
GrantValues == <<OptStr("GRANTOR"), Str("GRANTEE"), Str("PRIVILEGE"), OptStr("IS_GRANTABLE")>>
ColumnPrivilegeRow == TableValues \o <<Str("COLUMN_NAME")>> \o GrantValues
TablePrivilegeRow == TableValues \o GrantValues
TypeInfoRow ==
  <<Str("TYPE_NAME"), I16("DATA_TYPE"), I32("COLUMN_SIZE"), OptStr("LITERAL_PREFIX"),
    OptStr("LITERAL_SUFFIX"), OptStr("CREATE_PARAMS"), I16("NULLABLE"), I16("CASE_SENSITIVE"),
    I16("SEARCHABLE"), OptI16("UNSIGNED_ATTRIBUTE"), I16("FIXED_PREC_SCALE"),
    OptI16("AUTO_UNIQUE_VALUE"), OptStr("LOCAL_TYPE_NAME"), OptI16("MINIMUM_SCALE"),
    OptI16("MAXIMUM_SCALE"), I16("SQL_DATA_TYPE"), OptI16("SQL_DATETIME_SUB"),
    OptI32("NUM_PREC_RADIX"), OptI16("INTERVAL_PRECISION")>>

Values == [Tables |-> TableRow, Columns |-> ColumnRow, PrimaryKeys |-> PrimaryKeyRow,
           ForeignKeys |-> ForeignKeyRow, Statistics |-> StatisticsRow,
           SpecialColumns |-> SpecialColumnRow, Procedures |-> ProcedureRow,
           ProcedureColumns |-> ProcedureColumnRow, ColumnPrivileges |-> ColumnPrivilegeRow,
           TablePrivileges |-> TablePrivilegeRow, GetTypeInfo |-> TypeInfoRow]

-----------------------------------------------------------------------------
\* What sort_rows is given; SQLForeignKeys' depends on the argument.
TABLES_SORT_KEYS == <<3, 0, 1, 2>>
ForeignKeysSortKeys(pk_table_given) == IF pk_table_given THEN <<4, 5, 6, 8>> ELSE <<0, 1, 2, 8>>
PROCEDURES_SORT_KEYS == <<0, 1, 2>>
PROCEDURE_COLUMNS_SORT_KEYS == <<0, 1, 2, 4>>
COLUMN_PRIVILEGES_SORT_KEYS == <<0, 1, 2, 3, 6>>
TABLE_PRIVILEGES_SORT_KEYS == <<0, 1, 2, 5, 4>>
=============================================================================
