---- MODULE MCRetrieval ----
\* Rows of two columns: text longer than a buffer, in bytes and in wide units;
\* a number of two whole digits and a fraction; bytes; an interval; a value its
\* C type holds less of; NULL; a value the backend fails to give.
EXTENDS Retrieval

Value == [kind |-> "text", chars |-> 4, wide |-> 3, bytes |-> 4, whole |-> 0,
          natural |-> "wchar", width |-> 0, fixed |-> "22018", warns |-> FALSE]
Text == Value
WarnedText == [Value EXCEPT !.warns = TRUE]
Decimal == [Value EXCEPT !.kind = "number", !.whole = 2, !.wide = 4, !.fixed = "01S07"]
WarnedDouble == [Decimal EXCEPT !.natural = "fixed", !.width = 3, !.fixed = "00000", !.warns = TRUE]
Bytes == [Value EXCEPT !.kind = "bytes", !.wide = 4, !.bytes = 2, !.fixed = "07006"]
IntervalValue == [Value EXCEPT !.kind = "interval", !.whole = 2, !.wide = 4, !.bytes = 3, !.fixed = "00000"]
Timestamp == [Value EXCEPT !.kind = "datetime", !.wide = 4, !.natural = "fixed", !.width = 2,
                           !.fixed = "01S07", !.warns = TRUE]
Null == [Value EXCEPT !.kind = "null"]
Failed == [Value EXCEPT !.kind = "failing"]

MCRows == {<<Text, Decimal>>, <<WarnedText, Bytes>>, <<WarnedDouble, IntervalValue>>,
           <<Timestamp, Null>>, <<Decimal, Failed>>}

To(c, size) == [c |-> c, size |-> size, pointer |-> TRUE, indicator |-> TRUE]
MCBindings ==
  {<<To("wchar", 6), To("char", 3)>>, <<To("fixed", 0), To("default", 2)>>,
   <<To("wchar", 20), [To("char", 0) EXCEPT !.pointer = FALSE]>>,
   <<Unbound, [To("char", 9) EXCEPT !.indicator = FALSE]>>}

\* Every C type, in the lengths that matter to it, of both columns; and, of each
\* argument, what is refused or does without.
MCRequests ==
  ({1, 2} \X {"char", "wchar", "binary"} \X {0, 2, 4} \X {TRUE})
  \cup ({1, 2} \X {"fixed", "default"} \X {2} \X {TRUE}) \cup {<<2, "char", 2, FALSE>>}
  \cup {<<0, "char", 4, TRUE>>, <<3, "char", 4, TRUE>>, <<2, "unknown", 4, TRUE>>, <<1, "char", -1, TRUE>>}
====
