-------------------------- MODULE ColumnConversions --------------------------
(***************************************************************************)
(* What becomes of a column's value on its way into the application's      *)
(* buffer of one C type (column_value.rs).  A conversion answers with its  *)
(* SQLSTATE, "00000" for none, and the data written, Nothing for none.     *)
(*                                                                         *)
(* A number is counted in tenths, so that one fractional digit is enough   *)
(* to be lost.  What the four integer widths hold are constants, for the   *)
(* 8, 16, 32 and 64 bits they stand for.  An infinity is a number beyond   *)
(* every other; NaN is refused and delivered where an infinity is.         *)
(***************************************************************************)
EXTENDS Integers

CONSTANTS
  HalfRange,     \* 2^(bits - 1) of each of the four integers
  MaxSingle,     \* the largest finite f32, in tenths
  MaxDouble,     \* the largest finite f64: text may spell more
  Infinite,      \* what "Infinity" spells
  MaxMagnitude,  \* the largest unscaled value of a SQL_NUMERIC_STRUCT
  MaxField,      \* SQLUINTEGER: the largest field of an interval
  MaxMonths,     \* i32: the largest number of months
  Today          \* the current date

One == 10
IntegerWidth == {"tinyint", "short", "long", "bigint"}

\* Every integer has a nearest f32, which is finite.
ASSUME ConversionAssumption ==
  /\ HalfRange \in [IntegerWidth -> Nat \ {0}]
  /\ MaxSingle \in Nat /\ MaxDouble \in Nat /\ Infinite \in Nat
  /\ \A w \in IntegerWidth : One * (2 * HalfRange[w]) <= MaxSingle
  /\ MaxSingle <= MaxDouble /\ MaxDouble < Infinite
  /\ MaxMagnitude \in Nat /\ MaxField \in Nat /\ MaxMonths \in Nat
  /\ Today \in Nat

Magnitude(n) == IF n < 0 THEN -n ELSE n
\* Truncated toward zero to a multiple of step.
Kept(n, step) == IF n < 0 THEN -(((-n) \div step) * step) ELSE (n \div step) * step
WholePart(n) == Kept(n, One)
\* A count of units, toward zero.
Whole(n) == IF n < 0 THEN -((-n) \div One) ELSE n \div One
PowerOfTen[k \in Nat] == IF k = 0 THEN 1 ELSE 10 * PowerOfTen[k - 1]
Digits(k) ==
  CHOOSE d \in 0 .. k : PowerOfTen[d] > k /\ (d = 0 \/ PowerOfTen[d - 1] <= k)

-----------------------------------------------------------------------------
(***************************************************************************)
(* ColumnValue, and the application's data, in one shape.  n: a number, or *)
(* the total of an interval, in months or in tenths of a second.  form:    *)
(* what a text spells.  unit: the interval type, or the layout of bytes.   *)
(***************************************************************************)
Blank == [kind |-> "Null", n |-> 0, date |-> 0, time |-> 0, fraction |-> 0,
          form |-> "none", unit |-> "none"]
Nothing == [Blank EXCEPT !.kind = "Nothing"]
Number(kind, n) == [Blank EXCEPT !.kind = kind, !.n = n]
Interval(unit, n) == [Blank EXCEPT !.kind = "Interval", !.unit = unit, !.n = n]
Datetime(kind, d, t, f) ==
  [Blank EXCEPT !.kind = kind, !.date = d, !.time = t, !.fraction = f]

Written(data, lost) == [state |-> IF lost THEN "01S07" ELSE "00000", data |-> data]
Refused(state) == [state |-> state, data |-> Nothing]
IsRefused(outcome) == outcome.data = Nothing

IntegerKind == [I8 |-> "tinyint", I16 |-> "short", I32 |-> "long", I64 |-> "bigint"]
NumericKind == DOMAIN IntegerKind \cup {"F32", "F64", "Bool", "Decimal"}
Signed == [stinyint |-> "tinyint", sshort |-> "short", slong |-> "long",
           sbigint |-> "bigint"]
Unsigned == [utinyint |-> "tinyint", ushort |-> "short", ulong |-> "long",
             ubigint |-> "bigint"]
IntegerTarget == DOMAIN Signed \cup DOMAIN Unsigned

InRange(k, t) ==
  IF t \in DOMAIN Signed
  THEN -HalfRange[Signed[t]] <= k /\ k < HalfRange[Signed[t]]
  ELSE 0 <= k /\ k < 2 * HalfRange[Unsigned[t]]

\* Why a value has no numeric reading.  Text beyond every double is refused
\* here; "Infinity" is a value a float column really holds.
PivotRefusal(v) ==
  CASE v.kind \notin NumericKind \cup {"String"} -> "07006"
    [] v.kind = "String" /\ v.form \notin {"number", "infinity"} -> "22018"
    [] /\ v.kind = "Decimal" \/ (v.kind = "String" /\ v.form = "number")
       /\ Magnitude(v.n) > MaxDouble -> "22003"
    [] OTHER -> "00000"

\* The whole part is what must fit: the fraction goes first.
WriteInteger(n, target) ==
  IF InRange(Whole(n), target)
  THEN Written(Number("number", WholePart(n)), WholePart(n) # n)
  ELSE Refused("22003")

WriteFloat(n, target) ==
  IF target = "float" /\ MaxSingle < Magnitude(n) /\ Magnitude(n) < Infinite
  THEN Refused("22003")
  ELSE Written(Number("number", n), FALSE)

WriteBit(n) ==
  IF 0 <= n /\ n < 2 * One
  THEN Written(Number("number", WholePart(n)), WholePart(n) # n)
  ELSE Refused("22003")

WritePivot(n, target) ==
  CASE target \in IntegerTarget -> WriteInteger(n, target)
    [] target \in {"float", "double"} -> WriteFloat(n, target)
    [] target = "bit" -> WriteBit(n)

(***************************************************************************)
(* SQL_C_NUMERIC: the value at the precision and scale of the ARD, or at   *)
(* its own when the ARD declares no precision.                             *)
(***************************************************************************)
Scaled(n, scale) ==
  IF scale >= 1 THEN Magnitude(n) * PowerOfTen[scale - 1]
  ELSE Magnitude(n) \div PowerOfTen[1 - scale]
OwnScale(n) == IF n % One = 0 THEN 0 ELSE 1

WriteNumeric(v, ard) ==
  LET declared == ard.precision # 0
      scale == IF declared THEN ard.scale ELSE OwnScale(v.n)
      kept == IF scale >= 1 THEN v.n ELSE Kept(v.n, PowerOfTen[1 - scale])
  IN IF v.kind \notin NumericKind \cup {"String"} THEN Refused("07006")
     ELSE IF (v.kind = "String" /\ v.form # "number") \/ Magnitude(v.n) >= Infinite
     THEN Refused("22018")
     ELSE IF \/ Scaled(v.n, scale) > MaxMagnitude
             \/ declared /\ Digits(Scaled(v.n, scale)) > ard.precision
     THEN Refused("22003")
     ELSE Written(Number("number", kept), kept # v.n)

-----------------------------------------------------------------------------
(***************************************************************************)
(* Intervals.  A type spans its leading to its trailing field, the fields  *)
(* numbered from the coarsest.                                             *)
(***************************************************************************)
Span == [year |-> <<1, 1>>, month |-> <<2, 2>>, year_to_month |-> <<1, 2>>,
         day |-> <<3, 3>>, hour |-> <<4, 4>>, minute |-> <<5, 5>>, second |-> <<6, 6>>,
         day_to_hour |-> <<3, 4>>, day_to_minute |-> <<3, 5>>, day_to_second |-> <<3, 6>>,
         hour_to_minute |-> <<4, 5>>, hour_to_second |-> <<4, 6>>,
         minute_to_second |-> <<5, 6>>]
IntervalType == DOMAIN Span
FieldSize == <<12, 1, 864000, 36000, 600, 10>>
Leading(t) == FieldSize[Span[t][1]]
\* A trailing second carries its fraction.
Trailing(t) == IF Span[t][2] = 6 THEN 1 ELSE FieldSize[Span[t][2]]
IsSingleField(t) == Span[t][1] = Span[t][2]
IsYearMonth(t) == Span[t][2] <= 2

\* split_day_time, split_year_month: the leading field takes all that is
\* coarser, and what is finer than the trailing one is lost.
\* A fault: the precision the ARD declares is not asked.
OverflowsItsField(n, target, precision) ==
  Magnitude(n) \div Leading(target) > MaxField
Overflows(n, target, precision) ==
  LET leading == Magnitude(n) \div Leading(target)
  IN leading > MaxField \/ (precision > 0 /\ leading >= PowerOfTen[precision])
SplitInterval(n, target) == Kept(n, Trailing(target))

WriteInterval(v, target, ard) ==
  CASE v.kind # "Interval" -> Refused("07006")
    [] v.kind = "Interval" /\ IsYearMonth(v.unit) # IsYearMonth(target) -> Refused("07006")
    [] v.kind = "Interval" /\ IsYearMonth(v.unit) = IsYearMonth(target) ->
         IF Overflows(v.n, target, ard.leading) THEN Refused("22015")
         ELSE LET kept == SplitInterval(v.n, target)
              IN Written(Interval(target, kept), kept # v.n)

\* An exact number counts the target's leading field.
WriteNumberAsInterval(v, target, ard) ==
  LET tenths == v.n * Leading(target)
      total == Interval(target, Whole(tenths))
      write == WriteInterval(total, target, ard)
  IN IF IsYearMonth(target) /\ Magnitude(total.n) > MaxMonths THEN Refused("22015")
     ELSE IF write.state = "00000" THEN Written(write.data, tenths % One # 0)
     ELSE write

\* parse_interval_text: y-m, or d hh:mm:ss, of the target's own family.
WriteTextAsInterval(v, target, ard) ==
  IF v.form = "interval" /\ v.unit \in {"year_to_month", "day_to_second"}
     /\ IsYearMonth(v.unit) = IsYearMonth(target)
  THEN WriteInterval([v EXCEPT !.kind = "Interval"], target, ard)
  ELSE Refused("22018")

\* A single field is a count; the two families refuse the others differently.
WriteIntervalAsNumber(v, target, ard) ==
  LET units == Kept(v.n, Leading(v.unit)) \div Leading(v.unit)
      lost == ~IsYearMonth(v.unit) /\ v.n % Leading(v.unit) # 0
      write == IF target = "numeric"
               THEN WriteNumeric(Number("Decimal", units * One), ard)
               ELSE WriteInteger(units * One, target)
  IN IF ~IsSingleField(v.unit)
     THEN Refused(IF IsYearMonth(v.unit) THEN "22015" ELSE "07006")
     ELSE IF write.state = "00000" THEN Written(write.data, lost)
     ELSE write

-----------------------------------------------------------------------------
(***************************************************************************)
(* Dates, times and timestamps, as columns or as the text that spells one. *)
(* "baddate" and "badtime" have the shape, and a field out of range.       *)
(***************************************************************************)
DatetimeKind == {"Date", "Time", "Timestamp", "TimestampTz"}
DatetimeForm == {"date", "time", "timestamp"}
HasDate(v) == v.kind \in DatetimeKind \ {"Time"} \/ v.form \in {"date", "timestamp"}
\* The state for text that does not spell what the target needs.
TextRefusal(v, target) ==
  IF v.form = "baddate" \/ (v.form = "badtime" /\ target # "date") THEN "22007"
  ELSE "22018"

\* A fault: the time lost from a date is looked for in whole seconds only.
WriteDateSeconds(v) ==
  Written(Datetime("date", v.date, 0, 0), v.time # 0)
WriteDate(v) ==
  Written(Datetime("date", v.date, 0, 0), v.time # 0 \/ v.fraction # 0)
WriteTime(v) == Written(Datetime("time", 0, v.time, 0), v.fraction # 0)
\* A time of day takes the current date; a typed one loses its fraction unsaid.
WriteTimestamp(v) ==
  Written(Datetime("timestamp", IF HasDate(v) THEN v.date ELSE Today, v.time,
                   IF v.kind = "Time" THEN 0 ELSE v.fraction), FALSE)

WriteDatetime(v, target) ==
  CASE v.kind \notin DatetimeKind \cup {"String"} -> Refused("07006")
    [] v.kind = "String" /\ v.form \notin DatetimeForm -> Refused(TextRefusal(v, target))
    [] <<v.kind, target>> \in {<<"Time", "date">>, <<"Date", "time">>} -> Refused("07006")
    [] v.kind = "String" /\ v.form = "time" /\ target = "date" -> Refused("22018")
    [] OTHER -> CASE target = "date" -> WriteDate(v)
                  [] target = "time" -> WriteTime(v)
                  [] target = "timestamp" -> WriteTimestamp(v)

-----------------------------------------------------------------------------
\* What a rendered value spells.
FormOf(v) ==
  CASE v.kind = "String" -> v.form
    [] v.kind \in NumericKind -> IF Magnitude(v.n) < Infinite THEN "number" ELSE "infinity"
    [] v.kind = "Date" -> "date"
    [] v.kind = "Time" -> "time"
    [] v.kind \in {"Timestamp", "TimestampTz"} -> "timestamp"
    [] v.kind = "Interval" -> "interval"
    [] v.kind = "Bytes" -> "hex"
    [] OTHER -> "words"
WriteText(v) == Written([v EXCEPT !.kind = "text", !.form = FormOf(v)], FALSE)

\* SQL_C_BINARY: a number's little-endian image, the text of all else.  The
\* build's own byte order, which parameters are read in, is the same one.
LayoutOf(v) ==
  CASE v.kind \in DOMAIN IntegerKind -> IntegerKind[v.kind]
    [] v.kind = "F32" -> "single"
    [] v.kind = "F64" -> "double"
    [] v.kind = "Bool" -> "byte"
    [] v.kind = "Bytes" -> v.unit
    [] v.kind = "Guid" -> "guid"
    [] OTHER -> "text"
WriteBinary(v) ==
  Written([v EXCEPT !.kind = "image", !.unit = LayoutOf(v),
                    !.form = IF LayoutOf(v) = "text" THEN FormOf(v) ELSE "none"], FALSE)

\* SQL_C_DEFAULT: the C type the value itself suggests.
DefaultTarget(v) ==
  CASE v.kind = "I8" -> "stinyint"
    [] v.kind = "I16" -> "sshort"
    [] v.kind = "I32" -> "slong"
    [] v.kind = "I64" -> "sbigint"
    [] v.kind = "F32" -> "float"
    [] v.kind = "F64" -> "double"
    [] v.kind = "Bool" -> "bit"
    [] v.kind = "Date" -> "date"
    [] v.kind = "Time" -> "time"
    [] v.kind \in {"Timestamp", "TimestampTz"} -> "timestamp"
    [] v.kind = "Guid" -> "guid"
    [] v.kind = "Bytes" -> "binary"
    [] OTHER -> "wchar"

CTypes == IntegerTarget \cup IntervalType
            \cup {"float", "double", "bit", "numeric", "date", "time", "timestamp",
                  "char", "wchar", "binary", "guid"}

\* write_fixed_or_chunked, into a buffer with room.
WriteNamed(v, target, ard) ==
  CASE target \in {"char", "wchar"} -> WriteText(v)
    [] target = "binary" -> WriteBinary(v)
    [] target = "numeric" /\ v.kind # "Interval" -> WriteNumeric(v, ard)
    [] target \in IntervalType ->
         CASE v.kind \in DOMAIN IntegerKind \cup {"Decimal"} ->
                WriteNumberAsInterval(v, target, ard)
           [] v.kind = "String" -> WriteTextAsInterval(v, target, ard)
           [] OTHER -> WriteInterval(v, target, ard)
    [] target = "guid" ->
         IF v.kind = "Guid" THEN Written([v EXCEPT !.kind = "guid"], FALSE)
         ELSE Refused("07006")
    [] v.kind = "Interval" /\ target \in IntegerTarget \cup {"numeric"} ->
         WriteIntervalAsNumber(v, target, ard)
    [] \/ target \in {"float", "double", "bit"}
       \/ v.kind # "Interval" /\ target \in IntegerTarget ->
         IF PivotRefusal(v) # "00000" THEN Refused(PivotRefusal(v))
         ELSE WritePivot(v.n, target)
    [] OTHER -> WriteDatetime(v, target)

WriteColumnValue(v, target, ard) ==
  IF v.kind = "Null" THEN Written(Blank, FALSE)
  ELSE WriteNamed(v, IF target = "default" THEN DefaultTarget(v) ELSE target, ard)
=============================================================================
