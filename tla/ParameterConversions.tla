------------------------- MODULE ParameterConversions -------------------------
(***************************************************************************)
(* What a bound parameter becomes on its way to the backend: the APD says  *)
(* where and in which C type it lies, the IPD what it is declared to be    *)
(* (params.rs, numeric_convert.rs, param_convert.rs).  The data a refused  *)
(* conversion sends is Nothing: the execution fails.                       *)
(***************************************************************************)
EXTENDS ColumnConversions

SqlInteger == [tinyint |-> "I8", smallint |-> "I16", integer |-> "I32", bigint |-> "I64"]
SqlType == DOMAIN SqlInteger \cup IntervalType
             \cup {"char", "wchar", "decimal", "real", "double", "bit",
                   "date", "time", "timestamp", "guid", "varbinary"}

\* default_c_type_for_parameter.
DefaultCType(sql) ==
  CASE sql = "tinyint" -> "stinyint"
    [] sql = "smallint" -> "sshort"
    [] sql = "integer" -> "slong"
    [] sql = "bigint" -> "sbigint"
    [] sql = "real" -> "float"
    [] sql = "decimal" -> "char"
    [] sql = "varbinary" -> "binary"
    [] OTHER -> sql
ResolveCType(p) == IF p.c = "default" THEN DefaultCType(p.sql) ELSE p.c

NumericCType == IntegerTarget \cup {"float", "double", "numeric"}
IsApproximate(c) == c \in {"float", "double"}

\* fixed_width: the C layout whose width the bytes for a type must have.
FixedLayout == [tinyint |-> "tinyint", smallint |-> "short", integer |-> "long",
                bigint |-> "bigint", real |-> "single", double |-> "double", bit |-> "byte",
                date |-> "date", time |-> "time", timestamp |-> "timestamp"]
BinaryTargetIsSupported(sql) == sql = "varbinary" \/ sql \in DOMAIN FixedLayout

\* parameter_c_type_is_marshalled, numeric_pairing_is_supported: what
\* SQLBindParameter accepts.
PairingIsSupported(c, sql) ==
  /\ c \in NumericCType \cup {"bit", "char", "wchar", "binary", "date", "time", "timestamp",
                             "guid"}
  /\ c = "binary" => BinaryTargetIsSupported(sql)
  /\ c \in NumericCType =>
       IF sql \in IntervalType THEN IsSingleField(sql) /\ ~IsApproximate(c)
       ELSE sql \notin {"date", "time", "timestamp", "guid", "varbinary"}

-----------------------------------------------------------------------------
WholeDigits(n) == Digits(Magnitude(n) \div One)
RequiredScale(n) == OwnScale(n)
\* A number rendered: its sign, at least one whole digit, its point.
RenderedLength(n) ==
  (IF n < 0 THEN 1 ELSE 0) + (IF WholeDigits(n) = 0 THEN 1 ELSE WholeDigits(n))
    + (IF RequiredScale(n) = 0 THEN 0 ELSE 2)
TooLong(length, size) == size > 0 /\ length > size

IntegerOf(sql, n) ==
  IF InRange(Whole(n), DefaultCType(sql)) THEN Number(SqlInteger[sql], WholePart(n))
  ELSE Nothing

ScaleDeclared(p) == p.size > 0 /\ p.scale >= 0
\* The declared scale leaves the rest of the size to the whole digits: the test
\* for a number, then the one for text, which may not lose a fraction either.
DecimalFits(n, p) ==
  ScaleDeclared(p) => WholeDigits(n) <= (IF p.size > p.scale THEN p.size - p.scale ELSE 0)
CheckDeclaredDecimalSize(n, p) ==
  ScaleDeclared(p) => /\ RequiredScale(n) <= p.scale
                      /\ p.scale + WholeDigits(n) <= p.size \/ WholeDigits(n) = 0

\* interval_from_exact: a fraction has nowhere to go, and nothing to warn with.
NumericToInterval(n, p) ==
  LET total == Whole(n) * Leading(p.sql)
      limit == IF IsYearMonth(p.sql) THEN MaxMonths * Leading(p.sql)
               ELSE MaxField * FieldSize[3]
  IN IF \/ n % One # 0
        \/ p.leading > 0 /\ Magnitude(Whole(n)) >= PowerOfTen[p.leading]
        \/ Magnitude(total) > limit
     THEN Refused("22015")
     ELSE Written(Interval(p.sql, total), FALSE)

(***************************************************************************)
(* numeric_to_sql_type: a fraction an exact type cannot hold goes with a   *)
(* warning, a whole digit never does.                                      *)
(***************************************************************************)
NumericToSql(n, p) ==
  LET finite == Magnitude(n) < Infinite
      kept == IF p.scale >= 1 THEN n ELSE WholePart(n)
  IN CASE p.sql \in {"char", "wchar"} ->
            IF TooLong(RenderedLength(n), p.size) THEN Refused("22001")
            ELSE Written([Number("String", n) EXCEPT
                            !.form = IF finite THEN "number" ELSE "infinity"], FALSE)
       [] p.sql \in {"decimal"} \cup DOMAIN SqlInteger \cup IntervalType /\ ~finite ->
            Refused("22003")
       [] p.sql = "decimal" /\ finite ->
            IF ~DecimalFits(n, p) THEN Refused("22003")
            ELSE IF ScaleDeclared(p) THEN Written(Number("Decimal", kept), kept # n)
            ELSE Written(Number("Decimal", n), FALSE)
       [] p.sql \in DOMAIN SqlInteger /\ finite ->
            IF IntegerOf(p.sql, n) = Nothing THEN Refused("22003")
            ELSE Written(IntegerOf(p.sql, n), WholePart(n) # n)
       [] p.sql = "real" ->
            IF finite /\ Magnitude(n) > MaxSingle THEN Refused("22003")
            ELSE Written(Number("F32", n), FALSE)
       [] p.sql = "double" -> Written(Number("F64", n), FALSE)
       [] p.sql = "bit" ->
            IF ~finite \/ n < 0 \/ n >= 2 * One THEN Refused("22003")
            ELSE IF n \in {0, One} THEN Written(Number("Bool", n), FALSE)
            ELSE Refused("22001")
       [] p.sql \in IntervalType /\ finite ->
            IF IsSingleField(p.sql) THEN NumericToInterval(n, p) ELSE Refused("07006")
       [] OTHER -> Refused("07006")

-----------------------------------------------------------------------------
(***************************************************************************)
(* text_to_sql_type: text that spells the declared type, and loses         *)
(* nothing; a lost digit is refused here where a number would warn.        *)
(***************************************************************************)
TextToNumber(text, p) ==
  LET n == text.n
      beyond == Magnitude(n) > MaxDouble
  IN CASE text.form # "number" -> Refused("22018")
       [] text.form = "number" /\ p.sql = "decimal" ->
            IF CheckDeclaredDecimalSize(n, p) THEN Written(Number("Decimal", n), FALSE)
            ELSE Refused("22001")
       [] text.form = "number" /\ p.sql \in DOMAIN SqlInteger ->
            IF n % One # 0 \/ IntegerOf(p.sql, n) = Nothing THEN Refused("22001")
            ELSE Written(IntegerOf(p.sql, n), FALSE)
       [] text.form = "number" /\ p.sql \in {"real", "double"} ->
            IF beyond \/ (p.sql = "real" /\ Magnitude(n) > MaxSingle)
            THEN Refused("22003")
            ELSE Written(Number(IF p.sql = "real" THEN "F32" ELSE "F64", n), FALSE)
       [] text.form = "number" /\ p.sql = "bit" ->
            IF beyond \/ n < 0 \/ n >= 2 * One THEN Refused("22003")
            ELSE IF n \in {0, One} THEN Written(Number("Bool", n), FALSE)
            ELSE Refused("22001")

\* to_date, to_time, to_timestamp over the parsers reading uses.
TextToDate(text) ==
  IF text.time # 0 \/ text.fraction # 0 THEN Refused("22008")
  ELSE Written(Datetime("Date", text.date, 0, 0), FALSE)
TextToTime(text) ==
  IF text.form = "timestamp" /\ text.fraction # 0 THEN Refused("22008")
  ELSE Written(Datetime("Time", 0, text.time, text.fraction), FALSE)
TextToTimestamp(text) ==
  Written(Datetime("Timestamp", IF text.form = "time" THEN Today ELSE text.date,
                   text.time, text.fraction), FALSE)

TextToDatetime(text, sql) ==
  CASE text.form = "baddate" -> Refused("22007")
    [] text.form \notin DatetimeForm \cup {"baddate"} -> Refused("22018")
    [] text.form = "time" /\ sql = "date" -> Refused("22018")
    [] OTHER -> CASE sql = "date" -> TextToDate(text)
                  [] sql = "time" -> TextToTime(text)
                  [] sql = "timestamp" -> TextToTimestamp(text)

\* to_binary: pairs of hexadecimal digits, here those of one image.
Width == [tinyint |-> 1, short |-> 2, long |-> 4, bigint |-> 8, single |-> 4, double |-> 8,
          byte |-> 1, date |-> 6, time |-> 6, timestamp |-> 16, guid |-> 16]
HexToBinary(text, p) ==
  IF text.form # "hex" THEN Refused("22018")
  ELSE IF TooLong(Width[text.unit], p.size) THEN Refused("22001")
  ELSE Written([text EXCEPT !.kind = "Bytes", !.form = "none"], FALSE)

\* length: that of the text, which its number decides when it spells one.
TextLength(text) == IF text.form = "number" THEN RenderedLength(text.n) ELSE 5
TextToSql(text, p) ==
  CASE p.sql \in {"decimal", "real", "double", "bit"} \cup DOMAIN SqlInteger ->
         TextToNumber(text, p)
    [] p.sql \in {"date", "time", "timestamp"} -> TextToDatetime(text, p.sql)
    [] p.sql = "varbinary" -> HexToBinary(text, p)
    [] p.sql \in {"char", "wchar"} /\ TooLong(TextLength(text), p.size) -> Refused("22001")
    [] OTHER -> Written([text EXCEPT !.kind = "String"], FALSE)

-----------------------------------------------------------------------------
(***************************************************************************)
(* binary_to_sql_type: the bytes are the memory of the C type the declared *)
(* type corresponds to, and have its width.  Bytes of another type of that *)
(* width are read as this one; such images are not told apart.             *)
(***************************************************************************)
\* A fault: bytes enough are cut to the width.
AtLeastWidth(image, p) ==
  IF p.sql = "varbinary" THEN ~TooLong(Width[image.unit], p.size)
  ELSE Width[image.unit] >= Width[FixedLayout[p.sql]]
FitsTheType(image, p) ==
  IF p.sql = "varbinary" THEN ~TooLong(Width[image.unit], p.size)
  ELSE Width[image.unit] = Width[FixedLayout[p.sql]]
BinaryToSql(image, p) ==
  CASE ~BinaryTargetIsSupported(p.sql) -> Refused("07006")
    [] BinaryTargetIsSupported(p.sql) /\ ~FitsTheType(image, p) ->
         Refused(IF p.sql = "varbinary" THEN "22001" ELSE "22003")
    [] OTHER ->
         CASE p.sql = "varbinary" -> Written([image EXCEPT !.kind = "Bytes"], FALSE)
           [] p.sql \in DOMAIN SqlInteger -> Written(Number(SqlInteger[p.sql], image.n), FALSE)
           [] p.sql = "real" -> Written(Number("F32", image.n), FALSE)
           [] p.sql = "double" -> Written(Number("F64", image.n), FALSE)
           [] p.sql = "bit" -> Written(Number("Bool", IF image.n = 0 THEN 0 ELSE One), FALSE)
           [] p.sql = "date" -> Written(Datetime("Date", image.date, 0, 0), FALSE)
           [] p.sql = "time" -> Written(Datetime("Time", 0, image.time, 0), FALSE)
           [] p.sql = "timestamp" ->
                Written(Datetime("Timestamp", image.date, image.time, image.fraction), FALSE)

\* The bits of an integer in the application's buffer, and what is read of them:
\* an unsigned type widens.
Wrapped(k, half) == ((k + half) % (2 * half)) - half
InMemory(c, n) ==
  CASE c \in DOMAIN Signed -> One * Wrapped(Whole(n), HalfRange[Signed[c]])
    [] c \in DOMAIN Unsigned -> One * Wrapped(Whole(n), HalfRange[Unsigned[c]])
    [] OTHER -> n
\* A fault: it is read as the signed type of its width.
ReadAsSigned(c, bits) == bits
ReadNumericParam(c, bits) ==
  IF c \in DOMAIN Unsigned /\ bits < 0 THEN bits + One * (2 * HalfRange[Unsigned[c]]) ELSE bits

UndefinedIndicator(p) == p.indicator = "negative"
\* A text has a terminator to stand for its length, bytes have not.
ReadText(p) ==
  IF UndefinedIndicator(p) THEN Refused("HY090") ELSE TextToSql(p.data, p)
ReadBinary(p) ==
  CASE UndefinedIndicator(p) -> Refused("HY090")
    [] p.indicator = "none" -> Written(Blank, FALSE)
    [] p.indicator = "value" -> BinaryToSql(p.data, p)
\* A struct, a GUID and SQL_C_BIT are taken as they lie, whatever is declared.
ReadStruct(c, data) ==
  CASE c = "bit" -> Number("Bool", IF data.n = 0 THEN 0 ELSE One)
    [] c = "date" -> Datetime("Date", data.date, 0, 0)
    [] c = "time" -> Datetime("Time", 0, data.time, 0)
    [] c = "timestamp" -> Datetime("Timestamp", data.date, data.time, data.fraction)
    [] c = "guid" -> [data EXCEPT !.kind = "Guid"]

\* read_param_value: what the buffer and its indicator say.
ReadParamValue(p) ==
  LET c == ResolveCType(p)
  IN IF p.indicator \in {"null", "default"} \/ ~p.pointer THEN Written(Blank, FALSE)
     ELSE
     CASE c \notin CTypes \/ c \in IntervalType -> Refused("07006")
       [] c \in NumericCType -> NumericToSql(ReadNumericParam(c, InMemory(c, p.data.n)), p)
       [] c \in {"char", "wchar"} -> ReadText(p)
       [] c = "binary" -> ReadBinary(p)
       [] OTHER -> Written(ReadStruct(c, p.data), FALSE)
=============================================================================
