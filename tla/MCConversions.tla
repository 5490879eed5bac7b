---- MODULE MCConversions ----
\* Every number at the edges of the four widths, with and without a fraction,
\* as every C type that holds it; the literals the parsers tell apart.
EXTENDS Conversions

MCHalfRange == [tinyint |-> 4, short |-> 8, long |-> 16, bigint |-> 32]
Edge == {-33, -32, -16, -9, -8, -4, -1, 0, 1, 2, 3, 7, 8, 15, 31, 63}
Numbers == {One * k : k \in Edge} \cup {-45, -5, 5, 15, 45, 325}
Float == Numbers \cup {650, Infinite}
Double == Float \cup {-750}

Texts == {[Blank EXCEPT !.kind = "text", !.form = "number", !.n = n]
            : n \in Numbers \cup {650, -750, 950}}
  \cup {[Blank EXCEPT !.kind = "text", !.form = form] : form \in {"baddate", "badtime", "words"}}
  \cup {[Blank EXCEPT !.kind = "text", !.form = "infinity", !.n = Infinite]}
  \cup {[Datetime("text", d, t, f) EXCEPT !.form = "timestamp"] : d \in {1}, t \in 0 .. 1, f \in 0 .. 1}
  \cup {[Datetime("text", 1, 0, 0) EXCEPT !.form = "date"]}
  \cup {[Datetime("text", 0, t, f) EXCEPT !.form = "time"] : t \in 0 .. 1, f \in 0 .. 1}
  \cup {[Interval("year_to_month", 18) EXCEPT !.kind = "text", !.form = "interval"],
        [Interval("day_to_second", -900005) EXCEPT !.kind = "text", !.form = "interval"]}

\* The memory of a number of one layout, and of the structs.
Image(layout, n) == [Number("image", n) EXCEPT !.unit = layout]
SignedOf == [tinyint |-> "stinyint", short |-> "sshort", long |-> "slong", bigint |-> "sbigint"]
Images ==
  UNION {{Image(w, n) : n \in {m \in Numbers : m % One = 0 /\ InRange(Whole(m), SignedOf[w])}}
           : w \in IntegerWidth}
  \cup {Image("single", n) : n \in Float} \cup {Image("double", n) : n \in Double}
  \cup {Image("byte", n) : n \in {0, One}}
  \cup {[Datetime("image", 1, t, t) EXCEPT !.unit = "timestamp"] : t \in 0 .. 1}
  \cup {[Datetime("image", 1, 0, 0) EXCEPT !.unit = "date"],
        [Datetime("image", 0, 1, 0) EXCEPT !.unit = "time"],
        [Blank EXCEPT !.kind = "image", !.unit = "guid"]}
\* Of two layouts of one width only the integer and the bit are told apart.
Meant(image, sql) ==
  sql \in DOMAIN FixedLayout =>
    \/ FixedLayout[sql] = image.unit \/ Width[FixedLayout[sql]] # Width[image.unit]
    \/ sql \in {"bit", "tinyint"}

DataOf(c) ==
  CASE c \in IntegerTarget -> {Number("number", n) : n \in {m \in Numbers : m % One = 0 /\ InRange(Whole(m), c)}}
    [] c = "float" -> {Number("number", n) : n \in Float}
    [] c = "double" -> {Number("number", n) : n \in Double}
    [] c = "numeric" -> {Number("number", n) : n \in Numbers}
    [] c = "bit" -> {Number("number", n) : n \in {0, One}}
    [] c \in {"char", "wchar"} -> Texts
    [] c \in {"date", "time", "timestamp"} ->
         {Datetime(c, IF c = "time" THEN 0 ELSE 1, IF c = "date" THEN 0 ELSE t,
                   IF c = "timestamp" THEN t ELSE 0) : t \in 0 .. 1}
    [] c = "binary" -> Images
    [] OTHER -> {[Blank EXCEPT !.kind = "guid"]}

CInput == {"stinyint", "utinyint", "sshort", "ubigint", "float", "double", "numeric",
           "bit", "char", "date", "time", "timestamp", "guid"}
Plain == SqlType \ ({"wchar", "integer", "varbinary"} \cup {"day_to_hour", "day_to_minute", "hour_to_second",
                                  "minute_to_second", "minute"})
Sizes(sql) == IF sql = "varbinary" THEN {<<0, 0>>, <<1, 0>>, <<4, 0>>}
              ELSE IF sql = "decimal" THEN {<<0, 0>>, <<1, 0>>, <<2, 1>>, <<1, 1>>, <<1, 2>>, <<2, -1>>}
              ELSE IF sql = "char" THEN {<<0, 0>>, <<2, 0>>, <<4, 0>>} ELSE {<<0, 0>>}
Leadings(sql) == IF sql \in IntervalType THEN {0, 1} ELSE {0}
Given(c, data, sql, sz, leading) ==
  [c |-> c, data |-> data, sql |-> sql, size |-> sz[1], scale |-> sz[2],
   leading |-> leading, indicator |-> "value", pointer |-> TRUE]

AllParameters ==
  UNION {UNION {{Given(c, data, sql, sz, leading)
                  : data \in DataOf(c), sz \in Sizes(sql), leading \in Leadings(sql)}
                : sql \in Plain} : c \in CInput}
  \cup {Given("binary", image, sql, sz, 0) : image \in Images, sql \in {"varbinary"},
                                             sz \in Sizes("varbinary")}
  \cup {Given("binary", image, sql, <<0, 0>>, 0)
          : image \in Images, sql \in DOMAIN FixedLayout}
  \cup {Given("char", [Image(w, One) EXCEPT !.kind = "text", !.form = form], "varbinary", sz, 0)
          : w \in {"tinyint", "long"}, form \in {"hex", "words"}, sz \in Sizes("varbinary")}
  \cup {[Given("binary", Image("short", One), "smallint", <<0, 0>>, 0)
           EXCEPT !.indicator = i] : i \in {"none", "null", "negative"}}
  \cup {Given("default", data, sql, <<0, 0>>, 0)
          : data \in {Number("number", One)}, sql \in {"smallint", "real", "year"}}
  \cup {[Given("char", CHOOSE t \in Texts : t.form = "words", "char", <<0, 0>>, 0)
           EXCEPT !.indicator = i, !.pointer = given]
          : i \in {"value", "null", "default", "negative"}, given \in BOOLEAN}

MCParameters == {p \in AllParameters : p.c = "binary" => Meant(p.data, p.sql)}

MCColumns ==
  {Blank, [Blank EXCEPT !.kind = "Guid"], [Image("long", One) EXCEPT !.kind = "Bytes"],
   Datetime("TimestampTz", 1, 1, 1), Datetime("TimestampTz", 1, 0, 1)}
  \cup {Datetime("Timestamp", 1, t, f) : t \in 0 .. 1, f \in 0 .. 1}
  \cup {Datetime("Time", 0, t, f) : t \in 0 .. 1, f \in 0 .. 1}
  \cup {Number("F64", n) : n \in Double} \cup {Number("Decimal", n) : n \in Numbers \cup {950, 128}}
  \cup {Interval("year", n) : n \in {0, -24, 132}}
  \cup {Interval(u, n) : u \in {"month", "year_to_month"}, n \in {0, 1, -18, 132}}
  \cup {Interval(u, n) : u \in {"day", "hour", "second", "day_to_second", "hour_to_minute"},
                         n \in {0, 5, -600, 36000, -900005, 9504000}}
Targets == {"stinyint", "utinyint", "sshort", "ulong", "sbigint", "float", "double", "bit",
            "numeric", "date", "time", "timestamp", "char", "binary", "guid", "default",
            "year", "month", "year_to_month", "day", "hour", "second", "hour_to_minute",
            "day_to_second"}
Plainest == [precision |-> 0, scale |-> 0, leading |-> 0]
Declared == {[precision |-> 1, scale |-> 1, leading |-> 1],
             [precision |-> 2, scale |-> -1, leading |-> 2]}
\* Only a number and an interval are read by what the descriptor declares.
MCReads == (Targets \X {Plainest})
  \cup (({"numeric", "default"} \cup (Targets \cap IntervalType)) \X Declared)
====
