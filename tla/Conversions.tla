----------------------------- MODULE Conversions -----------------------------
(***************************************************************************)
(* A value's way through core: bound as a parameter of one C type and      *)
(* declared as one SQL type, converted when the statement executes, stored *)
(* by the backend as it was sent, and read back into a buffer of a C type  *)
(* of the application's choice.  The backend also yields values of its     *)
(* own.                                                                    *)
(***************************************************************************)
EXTENDS ParameterConversions, ListedStates

CONSTANTS
  Parameters,  \* the bindings the application makes
  Columns,     \* the values the backend yields of its own
  Reads        \* the C types it reads into, each with the precision, scale and
               \* leading precision its ARD declares

IsData(d) ==
  /\ d = [kind |-> d.kind, n |-> d.n, date |-> d.date, time |-> d.time,
          fraction |-> d.fraction, form |-> d.form, unit |-> d.unit]
  /\ d.n \in Int /\ d.date \in Nat /\ d.time \in Nat /\ d.fraction \in Nat

\* A ColumnValue: a text spells something, an interval of years has no months.
ColumnKind ==
  NumericKind \cup DatetimeKind \cup {"Null", "String", "Interval", "Bytes", "Guid"}
IsColumnValue(v) ==
  /\ IsData(v) /\ v.kind \in ColumnKind
  /\ v.kind \in NumericKind => v = Number(v.kind, v.n)
  /\ v.kind = "Bool" => v.n \in {0, One}
  /\ v.kind # "String" => v.form = "none"
  /\ v.kind = "Interval" => /\ v.unit \in IntervalType
                            /\ v.unit = "year" => v.n % FieldSize[1] = 0
  /\ v.kind = "Bytes" => v.unit \in DOMAIN Width

\* The C type of the number bytes are the image of.
TypeOfLayout == [tinyint |-> "stinyint", short |-> "sshort", long |-> "slong",
                 bigint |-> "sbigint", single |-> "float", double |-> "double"]

\* What lies in a buffer of one C type.  Bytes are the image of the type they
\* are declared as, or have another width; of two types of one width only the
\* integer and the bit are told apart.
IsText(d) ==
  /\ d.kind = "text"
  /\ d.form = "date" => d.time = 0 /\ d.fraction = 0
  /\ d.form = "hex" => d.unit \in DOMAIN Width
IsImage(d, sql) ==
  /\ d.kind = "image" /\ d.form = "none" /\ d.unit \in DOMAIN Width
  /\ d.unit \in IntegerWidth => d.n % One = 0 /\ InRange(Whole(d.n), TypeOfLayout[d.unit])
  /\ d.unit = "single" => Magnitude(d.n) <= MaxSingle \/ Magnitude(d.n) >= Infinite
  /\ sql \in DOMAIN FixedLayout =>
       \/ FixedLayout[sql] = d.unit \/ Width[FixedLayout[sql]] # Width[d.unit]
       \/ sql \in {"bit", "tinyint"}
LiesIn(d, c, sql) ==
  /\ c \in NumericCType \cup {"bit"} => d = Number("number", d.n)
  /\ c \in IntegerTarget => d.n % One = 0 /\ InRange(Whole(d.n), c)
  /\ c \in {"char", "wchar"} => IsText(d)
  /\ c \in DatetimeForm \cup {"guid"} => d.kind = c /\ d.form = "none"
  /\ c = "binary" => IsImage(d, sql)

IsParameter(p) ==
  /\ p = [c |-> p.c, data |-> p.data, sql |-> p.sql, size |-> p.size, scale |-> p.scale,
          leading |-> p.leading, indicator |-> p.indicator, pointer |-> p.pointer]
  /\ p.c \in CTypes \cup {"default"} /\ p.sql \in SqlType
  /\ p.size \in Int /\ p.scale \in Int /\ p.leading \in Int
  /\ p.indicator \in {"value", "none", "null", "default", "negative"}
  /\ p.pointer \in BOOLEAN
  /\ IsData(p.data) /\ LiesIn(p.data, ResolveCType(p), p.sql)

ASSUME ValueAssumption ==
  /\ \A p \in Parameters : IsParameter(p)
  /\ \A v \in Columns : IsColumnValue(v)
  /\ Reads \subseteq (CTypes \cup {"default"})
                 \X [precision : Int, scale : Int, leading : Int]

VARIABLES
  bound,   \* the APD and IPD records of the parameter, Unbound for none
  sent,    \* what the last execution made of it
  column,  \* the value the backend holds
  read     \* what the last SQLGetData read, and how

vars == <<bound, sent, column, read>>

Unbound == [c |-> "none"]
Unsent == [state |-> "unsent", data |-> Nothing]
Unread == [target |-> "none", ard |-> "none", state |-> "unread", data |-> Nothing]

Init == bound = Unbound /\ sent = Unsent /\ column = Blank /\ read = Unread

\* SQLBindParameter.
BindParameter(p) ==
  /\ bound = Unbound /\ column = Blank /\ read = Unread
  /\ PairingIsSupported(ResolveCType(p), p.sql)
  /\ bound' = p
  /\ UNCHANGED <<sent, column, read>>

\* SQLExecDirectW: collect_params, and the value is the backend's.
Execute ==
  /\ bound # Unbound /\ sent = Unsent
  /\ sent' = ReadParamValue(bound)
  /\ column' = IF IsRefused(sent') THEN column ELSE sent'.data
  /\ UNCHANGED <<bound, read>>

\* A query whose result the application did not send.
Fetch(v) ==
  /\ bound = Unbound /\ column = Blank /\ read = Unread
  /\ column' = v
  /\ UNCHANGED <<bound, sent, read>>

\* SQLGetData into a buffer with room.
GetData(target, ard) ==
  /\ read = Unread
  /\ bound # Unbound => sent # Unsent /\ ~IsRefused(sent)
  /\ LET outcome == WriteColumnValue(column, target, ard)
     IN read' = [target |-> target, ard |-> ard,
                 state |-> outcome.state, data |-> outcome.data]
  /\ UNCHANGED <<bound, sent, column>>

\* The cursor is closed and the parameter unbound.
StartOver ==
  /\ sent # Unsent \/ read # Unread \/ column # Blank
  /\ bound' = Unbound /\ sent' = Unsent /\ column' = Blank /\ read' = Unread

Next ==
  \/ \E p \in Parameters : BindParameter(p)
  \/ Execute
  \/ \E v \in Columns : Fetch(v)
  \/ \E how \in Reads : GetData(how[1], how[2])
  \/ StartOver

Spec == Init /\ [][Next]_vars

-----------------------------------------------------------------------------
IsNumber(v) == v.kind \in NumericKind \cup {"number"} \/ v.form = "number"
IsDatetime(v) == v.kind \in DatetimeKind \cup {"date", "time", "timestamp"}
                   \/ v.form \in DatetimeForm
IsInterval(v) == v.kind = "Interval" \/ v.form = "interval"
WasRead == ~IsRefused(read)
RoundTrip == bound # Unbound /\ WasRead
Unwarned == sent.state = "00000" /\ read.state = "00000"

\* Toward zero, by less than one unit of what the target keeps.
TowardZero(x, y, unit) ==
  /\ Magnitude(y) <= Magnitude(x) /\ Magnitude(x) - Magnitude(y) < unit
  /\ y # 0 => (x < 0) = (y < 0)

\* What each conversion may answer, whichever of the calls that take it makes it.
Documented(states, calls) == \A f \in calls : states \subseteq Listed(f)
StatesListed ==
  /\ sent.state \in {"unsent", "00000"} \/ Documented({sent.state}, {"ExecDirect", "Execute"})
  /\ read.state \in {"unread", "00000"} \/ Documented({read.state}, {"GetData", "Fetch", "FetchScroll"})

\* A number bound in one C type, declared as any SQL type and read as any other
\* is the same number, or one of the two calls warned of a lost fraction and
\* what was lost is less than one, toward zero (less than ten or a hundred at
\* a negative scale the ARD asked for).
NumbersSurvive ==
  RoundTrip /\ ResolveCType(bound) # "bit" /\ IsNumber(bound.data) /\ bound.indicator = "value"
            /\ bound.pointer /\ IsNumber(read.data) =>
    IF Unwarned THEN read.data.n = bound.data.n
    ELSE TowardZero(bound.data.n, read.data.n,
                    IF read.target = "numeric" /\ read.ard.scale < 0
                    THEN PowerOfTen[1 - read.ard.scale] ELSE One)

DatetimeRead ==
  WasRead /\ read.state = "00000" /\ IsDatetime(column) /\ IsDatetime(read.data) =>
    /\ read.data.time = column.time
    /\ \/ read.data.fraction = column.fraction
       \/ column.kind = "Time" /\ read.target = "timestamp"
    /\ HasDate(column) /\ read.target # "time" => read.data.date = column.date
    /\ ~HasDate(column) /\ read.target = "timestamp" => read.data.date = Today

TextSent ==
  bound # Unbound /\ sent # Unsent /\ ~IsRefused(sent) /\ sent.data.kind # "Null"
    /\ ResolveCType(bound) \in {"char", "wchar"} /\ IsDatetime(bound.data) =>
    /\ sent.data.time = bound.data.time /\ sent.data.fraction = bound.data.fraction
    /\ bound.data.form # "time" /\ bound.sql # "time" => sent.data.date = bound.data.date

\* A time of day and its fraction are not lost without a warning, and a date is
\* not replaced.  A timestamp's date is dropped from a time, and a time
\* column's fraction from a timestamp, because the ODBC tables say so.  Text
\* that denotes one reaches the backend whole, in the parts its declared type
\* has, or the execution is refused.
DatetimesSurvive == DatetimeRead /\ TextSent

\* An interval read as another interval type, or as a number, is the same span
\* of time unless the call warned; what it lost is below the target's trailing
\* field and toward zero; it is within the leading precision asked for, and it
\* never crosses from one family into the other.
IntervalsSurvive ==
  /\ WasRead /\ IsInterval(column) /\ read.target \in IntervalType =>
       /\ IsYearMonth(column.unit) = IsYearMonth(read.target)
       /\ IF read.state = "00000" THEN read.data.n = column.n
          ELSE TowardZero(column.n, read.data.n, Trailing(read.target))
       /\ read.ard.leading > 0 =>
            Magnitude(read.data.n) < PowerOfTen[read.ard.leading] * Leading(read.target)
  /\ WasRead /\ column.kind = "Interval" /\ IsNumber(read.data) =>
       /\ IsSingleField(column.unit)
       /\ read.state = "00000" => read.data.n * Leading(column.unit) = column.n * One

(***************************************************************************)
(* The same value may take several routes through several tables, and they *)
(* agree.  A number bound as a number and the same number bound as text    *)
(* are both sent unchanged, or neither is.  The bytes of a number are sent *)
(* as what the number itself would be, or refused.  What SQLGetData wrote  *)
(* as SQL_C_BINARY is the value it came from when it is bound as that, and *)
(* bytes read as text are those bytes when the text is sent.  A refusal is *)
(* one the specification lists for each of the calls that may give it.     *)
(***************************************************************************)
AsText(p) == [p EXCEPT !.c = "char", !.data.kind = "text", !.data.form = "number"]
NumberAsText ==
  bound # Unbound /\ sent # Unsent /\ ResolveCType(bound) \in NumericCType
    /\ bound.indicator = "value" /\ Magnitude(bound.data.n) <= MaxDouble
    /\ bound.sql \notin IntervalType =>
    /\ sent.state = "00000" <=> ReadParamValue(AsText(bound)).state = "00000"
    /\ sent.state = "00000" => sent.data = ReadParamValue(AsText(bound)).data

AsNumber(p) == [p EXCEPT !.c = TypeOfLayout[p.data.unit],
                         !.data = Number("number", p.data.n)]
NumberAsBytes ==
  bound # Unbound /\ sent.state = "00000" /\ ResolveCType(bound) = "binary"
    /\ bound.indicator = "value" /\ bound.pointer
    /\ bound.data.unit \in DOMAIN TypeOfLayout /\ bound.sql \notin {"varbinary", "bit"} =>
    sent.data = ReadParamValue(AsNumber(bound)).data

SqlOf(kind) == CHOOSE sql \in DOMAIN FixedLayout :
                 \/ sql \in DOMAIN SqlInteger /\ SqlInteger[sql] = kind
                 \/ <<sql, kind>> \in {<<"real", "F32">>, <<"double", "F64">>, <<"bit", "Bool">>}
Bound(c, data, sql) == [c |-> c, data |-> data, sql |-> sql, size |-> 0, scale |-> 0,
                        leading |-> 0, indicator |-> "value", pointer |-> TRUE]
ReadBack ==
  WasRead =>
    /\ read.target = "binary" /\ column.kind \in NumericKind \ {"Decimal"} =>
         ReadParamValue(Bound("binary", read.data, SqlOf(column.kind))).data = column
    /\ read.target \in {"char", "binary"} /\ column.kind = "Bytes" =>
         ReadParamValue(Bound(read.target, read.data, "varbinary")).data = column

RoutesAgree == NumberAsText /\ NumberAsBytes /\ ReadBack /\ StatesListed
=============================================================================
