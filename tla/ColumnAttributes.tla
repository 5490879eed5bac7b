-------------------------- MODULE ColumnAttributes --------------------------
(***************************************************************************)
(* What core derives from a backend's description of one column: the       *)
(* sizes, the SQL_DESC_* attributes SQLColAttribute and an IRD read, and   *)
(* the descriptor record SQLCopyDesc makes of it.                          *)
(***************************************************************************)
EXTENDS Integers

CONSTANTS
  MaxI16,                    \* the largest SQLSMALLINT
  PrecisionUndeterminable    \* the u32 a backend reports for an unknown length

ASSUME ColumnAssumption ==
  /\ MaxI16 \in Nat
  /\ PrecisionUndeterminable \in Nat
  /\ PrecisionUndeterminable > MaxI16

NoTotal == -4

CharacterType == {"char", "varchar", "longvarchar", "wchar", "wvarchar", "wlongvarchar"}
BinaryType == {"binary", "varbinary", "longvarbinary"}
DecimalType == {"decimal", "numeric"}
NumericType ==
  DecimalType \cup {"integer", "smallint", "double", "bigint", "tinyint", "real", "float"}
DatetimeType == {"date", "time", "timestamp"}
IntervalType == {"interval_year", "interval_day_to_second"}

-----------------------------------------------------------------------------
\* The family of a type, and its member within it: what SQL_DESC_TYPE and
\* SQL_DESC_DATETIME_INTERVAL_CODE say of SQL_DESC_CONCISE_TYPE.
VerboseType(t) ==
  CASE t \in DatetimeType -> "datetime"
    [] t \in IntervalType -> "interval"
    [] OTHER -> t

DatetimeIntervalSubcode(t) ==
  CASE t = "date" -> 1
    [] t = "time" -> 2
    [] t = "timestamp" -> 3
    [] t = "interval_year" -> 1
    [] t = "interval_day_to_second" -> 10
    [] OTHER -> 0

(***************************************************************************)
(* column_size_formula: a column's own size, from its own precision and    *)
(* scale, or a type's largest, from the data source's.                     *)
(***************************************************************************)
ColumnSize(t, precision, scale) ==
  CASE t = "bit" -> 1
    [] t = "tinyint" -> 3
    [] t = "smallint" -> 5
    [] t = "integer" -> 10
    [] t = "bigint" -> 19
    [] t = "real" -> 7
    [] t \in {"float", "double"} -> 15
    [] t = "date" -> 10
    [] t = "time" -> IF scale = 0 THEN 8 ELSE 9 + scale
    [] t = "timestamp" -> IF scale = 0 THEN 19 ELSE 20 + scale
    [] t = "guid" -> 36
    [] OTHER -> precision

\* The sentinel as SQLColAttribute reports it, and as SQLDescribeCol does.
ResolvePrecisionIsize(p) == IF p = PrecisionUndeterminable THEN NoTotal ELSE p
ResolvePrecisionUlen(p) == IF p = PrecisionUndeterminable THEN 0 ELSE p

\* SQL_DESC_PRECISION: fractional seconds where a type has them.
PrecisionFor(col) ==
  IF col.sql_type \in {"time", "timestamp"} THEN col.scale
  ELSE ResolvePrecisionIsize(col.precision)

\* SQL_DESC_DISPLAY_SIZE, in characters.
DisplaySizeFor(col) ==
  LET t == col.sql_type IN
  IF t \in CharacterType \cup BinaryType /\ col.precision = PrecisionUndeterminable
  THEN NoTotal
  ELSE CASE t \in BinaryType -> 2 * col.precision
         [] t \in DecimalType -> col.precision + 2
         [] t = "integer" -> 11
         [] t = "smallint" -> 6
         [] t = "bigint" -> 20
         [] t = "tinyint" -> 4
         [] t = "real" -> 14
         [] t \in {"float", "double"} -> 24
         [] t = "bit" -> 1
         [] OTHER -> col.precision

\* SQL_DESC_OCTET_LENGTH, in bytes.  It does not know the sentinel.
OctetLengthFor(col) ==
  LET t == col.sql_type IN
  CASE t \in CharacterType -> 4 * col.precision
    [] t \in DecimalType -> 2 * (col.precision + 2)
    [] t = "integer" -> 4
    [] t = "smallint" -> 2
    [] t \in {"bigint", "double"} -> 8
    [] t \in {"tinyint", "bit"} -> 1
    [] t \in {"date", "time"} -> 6
    [] t = "timestamp" -> 16
    [] OTHER -> col.precision

-----------------------------------------------------------------------------
StringAttribute ==
  {"Name", "Label", "BaseColumnName", "TypeName", "TableName", "SchemaName", "CatalogName",
   "LocalTypeName", "BaseTableName", "LiteralPrefix", "LiteralSuffix"}

Flag(b) == IF b THEN 1 ELSE 0

\* get_column_attribute, for the attributes that are numbers or types; a type
\* stands for its number, and "unnamed" for SQL_UNNAMED.
ColumnAttribute(col, count, f) ==
  CASE f = "Count" -> count
    [] f = "ConciseType" -> col.sql_type
    [] f = "Type" -> VerboseType(col.sql_type)
    [] f = "DatetimeIntervalCode" -> DatetimeIntervalSubcode(col.sql_type)
    [] f = "Precision" -> PrecisionFor(col)
    [] f = "Length" -> ResolvePrecisionIsize(col.precision)
    [] f = "Scale" -> col.scale
    [] f = "Nullable" -> col.nullable
    [] f = "DisplaySize" -> DisplaySizeFor(col)
    [] f = "OctetLength" -> OctetLengthFor(col)
    [] f = "Unsigned" -> Flag(col.sql_type \notin NumericType)
    [] f = "CaseSensitive" -> Flag(col.sql_type \in CharacterType)
    [] f \in {"AutoUniqueValue", "FixedPrecScale"} -> 0
    [] f = "Updatable" -> 2
    [] f = "NumPrecRadix" -> IF col.sql_type \in NumericType THEN 10 ELSE 0
    [] f = "Unnamed" -> Flag(col.name = "")

\* get_column_attribute, for the attributes that are strings.
ColumnString(col, f) ==
  CASE f \in {"Name", "Label", "BaseColumnName"} -> col.name
    [] f = "TypeName" -> IF col.type_name = "" THEN col.sql_type ELSE col.type_name
    [] f \in {"TableName", "BaseTableName"} -> col.table_name
    [] f = "LocalTypeName" -> ""

\* The fields of a record an IRD does not define keep their defaults, and what
\* does not fit the record's own types does not get there.
SaturateI16(n) == IF n > MaxI16 THEN MaxI16 ELSE n
RecordFromColumn(col, default) ==
  [default EXCEPT
     !.concise = col.sql_type,
     !.verbose = VerboseType(col.sql_type),
     !.code = DatetimeIntervalSubcode(col.sql_type),
     !.length = IF ResolvePrecisionIsize(col.precision) < 0 THEN 0
                ELSE ResolvePrecisionIsize(col.precision),
     !.octet_length = OctetLengthFor(col),
     !.precision = SaturateI16(PrecisionFor(col)),
     !.scale = SaturateI16(col.scale)]
=============================================================================
