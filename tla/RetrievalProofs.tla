--------------------------- MODULE RetrievalProofs ---------------------------
(***************************************************************************)
(* Proofs about how a row reaches the application, for any number of       *)
(* columns and any rows, bindings and requests.  The position SQLGetData   *)
(* keeps and what it has given belong together: the position is as far as  *)
(* the parts reach, and what is cached is the value of the row the cursor  *)
(* is still on.                                                            *)
(***************************************************************************)
EXTENDS Retrieval, FiniteSetTheorems, WellFoundedInduction, TLAPS

HasWhole(v, c, delivered) ==
  v.kind \in {"number", "interval"} /\ TargetOf(v, c) \in {"char", "wchar"} =>
    delivered = 0 \/ delivered >= v.whole

\* So much of a value of its C type c is a beginning of it, all of it when done.
IsPart(v, c, delivered, done) ==
  /\ delivered <= Length(v, c)
  /\ done => v.kind = "null" \/ delivered = Length(v, c)
  /\ HasWhole(v, c, delivered)

\* What position and given have to do with each other, and with the row.
Agree(p, g, r) ==
  /\ g.value = r[p.column] /\ g.value.kind # "failing"
  /\ g.units = [i \in 1 .. p.delivered |-> i]
  /\ g.value.warns => g.warned
  /\ p.cached # NoCache => p.cached.value = g.value /\ Cacheable(g.value, p.cached.c)
  /\ g.c # "mixed" => IsPart(g.value, g.c, p.delivered, p.done)

Assembled ==
  /\ given.column = position.column
  /\ position # NoPosition => row # NoRow /\ Agree(position, given, row)

IInv == TypeOK /\ Assembled /\ ReturnTellsWhatArrived

-----------------------------------------------------------------------------
(***************************************************************************)
(* The writers.                                                            *)
(***************************************************************************)
LEMMA MinOfTwo ==
  ASSUME NEW a \in Int, NEW b \in Int
  PROVE  Min({a, b}) = IF a <= b THEN a ELSE b
<1> DEFINE least == IF a <= b THEN a ELSE b
<1>1. least \in {a, b} /\ \A y \in {a, b} : least <= y
  OBVIOUS
<1>2. \A x \in {a, b} : (\A y \in {a, b} : x <= y) => x = least
  OBVIOUS
<1>. QED  BY <1>1, <1>2, Zenon DEF Min

\* Some units of a value of so many, after the first offset: up to its end, or
\* as many as there is room for.
Written(total, c, w, size, offset) ==
  /\ w.state \in {"00000", "01004"} /\ w.delivered \in Nat /\ w.chunkable = TRUE
  /\ offset <= total => offset + w.delivered <= total
  /\ offset <= total /\ w.state = "00000" => offset + w.delivered = total
  /\ \/ w.delivered = 0 \/ offset + w.delivered = total
     \/ size >= UnitSize(c) /\ w.delivered = Capacity(c, size)

LEMMA UnitsWritten ==
  ASSUME NEW total \in Nat, NEW offset \in Nat, NEW c \in {"char", "wchar", "binary"},
         NEW buffer, buffer.size \in Nat, buffer.pointer
  PROVE  Written(total, c, WriteUnits(total, c, buffer, offset), buffer.size, offset)
<1> DEFINE remaining == IF total > offset THEN total - offset ELSE 0
           room == Capacity(c, buffer.size)
           copied == Min({remaining, room})
           w == WriteUnits(total, c, buffer, offset)
<1>1. remaining \in Nat /\ room \in Int
  BY DEF Capacity, UnitSize
<1>2. copied = IF remaining <= room THEN remaining ELSE room
  BY <1>1, MinOfTwo
<1>3. CASE buffer.size < UnitSize(c)
  <2>1. w = Outcome("01004", 0, TRUE)
    BY <1>3 DEF WriteUnits
  <2>2. w.state = "01004" /\ w.delivered = 0 /\ w.chunkable = TRUE
    BY <2>1 DEF Outcome
  <2>. HIDE DEF w
  <2>3. Written(total, c, w, buffer.size, offset)
    BY <1>1, <1>3, <2>2 DEF Written
  <2>. QED  BY <2>3 DEF w
<1>4. CASE ~(buffer.size < UnitSize(c))
  <2>1. room >= 0
    BY <1>4 DEF Capacity, UnitSize
  <2>2. w = Outcome(IF copied < remaining THEN "01004" ELSE "00000", copied, TRUE)
    BY <1>4 DEF WriteUnits
  <2>3. /\ w.state = IF copied < remaining THEN "01004" ELSE "00000"
        /\ w.delivered = copied /\ w.chunkable = TRUE
    BY <2>2 DEF Outcome
  <2>4. buffer.size >= UnitSize(c)
    BY <1>4 DEF UnitSize
  <2>. HIDE DEF w, copied, room
  <2>5. Written(total, c, w, buffer.size, offset)
    BY <1>1, <1>2, <2>1, <2>3, <2>4 DEF Written, room
  <2>. QED  BY <2>5 DEF w
<1>. QED  BY <1>3, <1>4

LEMMA TargetIs ==
  ASSUME NEW v \in ColumnValue, NEW c \in CType \cup {"default"}
  PROVE  /\ TargetOf(v, c) \in CType /\ Length(v, c) \in Nat
         /\ Length(v, c) = CASE TargetOf(v, c) = "char" -> v.chars
                             [] TargetOf(v, c) = "wchar" -> v.wide
                             [] TargetOf(v, c) = "binary" -> v.bytes
                             [] OTHER -> 0
         /\ Length(v, TargetOf(v, c)) = Length(v, c)
BY DEF TargetOf, Length, ColumnValue, CType

(***************************************************************************)
(* What is written of a value under a C type named: some units, or all of  *)
(* it, or a refusal.                                                       *)
(***************************************************************************)
Named(v, t, w, buffer, offset) ==
  \/ Stops(w) /\ w.state \in {"22003", v.fixed}
  \/ /\ t # "fixed" /\ ~Stops(w)
     /\ Written(Length(v, t), t, w, buffer.size, offset)
     /\ t \in {"char", "wchar"} => ~WholeDigitsCut(v, t, buffer)
  \/ t = "fixed" /\ ~Stops(w) /\ w.state = "00000" /\ w.delivered = 0 /\ w.chunkable = FALSE

LEMMA NamedWritten ==
  ASSUME NEW v \in ColumnValue, NEW t \in CType, NEW offset \in Nat,
         NEW buffer, buffer.size \in Nat, buffer.pointer
  PROVE  Named(v, t, WriteNamed(v, t, buffer, offset), buffer, offset)
<1> DEFINE w == WriteNamed(v, t, buffer, offset)
<1>0. Length(v, t) \in Nat
  BY TargetIs DEF CType
<1>1. CASE t \in {"char", "wchar"}
  <2>1. w = IF WholeDigitsCut(v, t, buffer) THEN Outcome("22003", 0, FALSE)
            ELSE WriteUnits(Length(v, t), t, buffer, offset)
    BY <1>1 DEF WriteNamed
  <2>2. CASE WholeDigitsCut(v, t, buffer)
    BY <2>1, <2>2 DEF Outcome, Stops, Named
  <2>3. CASE ~WholeDigitsCut(v, t, buffer)
    <3>1. w = WriteUnits(Length(v, t), t, buffer, offset)
      BY <2>1, <2>3
    <3>2. Written(Length(v, t), t, w, buffer.size, offset)
      BY <1>1, <3>1, <1>0, UnitsWritten
    <3>3. ~Stops(w)
      BY <3>2 DEF Written, Stops
    <3>. QED  BY <1>1, <2>3, <3>2, <3>3 DEF Named
  <2>. QED  BY <2>2, <2>3
<1>2. CASE t = "binary"
  <2>1. Length(v, t) = v.bytes
    BY <1>2, TargetIs DEF TargetOf
  <2>2. w = IF v.kind = "interval" /\ buffer.pointer /\ buffer.size < v.bytes
            THEN Outcome("22003", 0, FALSE)
            ELSE WriteUnits(Length(v, t), t, buffer, offset)
    BY <1>2, <2>1 DEF WriteNamed
  <2>3. CASE w = Outcome("22003", 0, FALSE)
    BY <2>3 DEF Outcome, Stops, Named
  <2>4. CASE w = WriteUnits(Length(v, t), t, buffer, offset)
    <3>1. Written(Length(v, t), t, w, buffer.size, offset)
      BY <1>2, <2>4, <1>0, UnitsWritten
    <3>2. ~Stops(w)
      BY <3>1 DEF Written, Stops
    <3>. QED  BY <1>2, <3>1, <3>2 DEF Named
  <2>. QED  BY <2>2, <2>3, <2>4
<1>3. CASE t = "fixed"
  <2>1. w = Outcome(v.fixed, 0, FALSE)
    BY <1>3 DEF WriteNamed
  <2>2. w.state = v.fixed /\ w.delivered = 0 /\ w.chunkable = FALSE
    BY <2>1 DEF Outcome
  <2>3. Stops(w) \/ (v.fixed = "00000" /\ ~Stops(w))
    BY <2>2 DEF Stops, ColumnValue
  <2>. HIDE DEF w
  <2>4. Named(v, t, w, buffer, offset)
    BY <1>3, <2>2, <2>3 DEF Named
  <2>. QED  BY <2>4 DEF w
<1>. QED  BY <1>1, <1>2, <1>3 DEF CType

LEMMA WholeKept ==
  ASSUME NEW v \in ColumnValue, HasWholeDigits(v), NEW t \in {"char", "wchar"},
         NEW offset \in Nat, NEW buffer, buffer.size \in Nat, buffer.pointer,
         v.kind \in {"number", "interval"}, ~WholeDigitsCut(v, t, buffer),
         NEW w, Written(Length(v, t), t, w, buffer.size, offset), offset = 0 \/ offset >= v.whole
  PROVE  offset + w.delivered = 0 \/ offset + w.delivered >= v.whole
<1>1. v.whole \in Nat /\ v.whole <= Length(v, t)
  BY TargetIs DEF HasWholeDigits, TargetOf, CType, ColumnValue
<1>2. buffer.size >= UnitSize(t) => Capacity(t, buffer.size) >= v.whole
  BY <1>1 DEF WholeDigitsCut, UnitSize, Capacity
<1>3. Length(v, t) \in Nat
  BY TargetIs DEF CType
<1>. QED  BY <1>1, <1>2, <1>3 DEF Written

(***************************************************************************)
(* One write of SQLGetData or SQLFetch: it stops, or adds a part.          *)
(***************************************************************************)
Wrote(v, c, w, offset) ==
  \/ Stops(w) /\ w.state \in {"07006", "22003", v.fixed}
  \/ /\ ~Stops(w) /\ w.delivered \in Nat
     /\ w.state = "00000" \/ (w.state = "01004" /\ w.chunkable = TRUE)
     /\ IsPart(v, c, offset, FALSE) => IsPart(v, c, offset + w.delivered, IsDone(w))

LEMMA ValueWritten ==
  ASSUME NEW v \in ColumnValue, HasWholeDigits(v), NEW c \in CType \cup {"default"},
         NEW offset \in Nat, NEW buffer, buffer.size \in Nat, buffer.pointer
  PROVE  Wrote(v, c, WriteColumnValueAt(v, c, buffer, offset), offset)
<1> DEFINE w == WriteColumnValueAt(v, c, buffer, offset)
           t == TargetOf(v, c)
<1>1. /\ t \in CType /\ Length(v, c) \in Nat /\ Length(v, t) = Length(v, c)
      /\ t = "fixed" => Length(v, c) = 0
  BY TargetIs DEF CType
<1>2. CASE v.kind = "null"
  <2>1. w = Outcome("00000", 0, FALSE)
    BY <1>2 DEF WriteColumnValueAt
  <2>2. w.state = "00000" /\ w.delivered = 0 /\ w.chunkable = FALSE /\ ~Stops(w)
    BY <2>1 DEF Outcome, Stops
  <2>. HIDE DEF w
  <2>3. Wrote(v, c, w, offset)
    BY <1>2, <2>2 DEF Wrote, IsPart, HasWhole
  <2>. QED  BY <2>3 DEF w
<1>3. CASE w = Outcome("07006", 0, FALSE)
  BY <1>3 DEF Outcome, Stops, Wrote
<1>4. CASE v.kind # "null" /\ w = WriteNamed(v, t, buffer, offset)
  <2>. HIDE DEF t
  <2>1. CASE Stops(w) /\ w.state \in {"22003", v.fixed}
    BY <2>1 DEF Wrote
  <2>2. CASE /\ t # "fixed" /\ ~Stops(w)
             /\ Written(Length(v, t), t, w, buffer.size, offset)
             /\ t \in {"char", "wchar"} => ~WholeDigitsCut(v, t, buffer)
    <3>. HIDE DEF w
    <3>1. /\ w.state \in {"00000", "01004"} /\ w.delivered \in Nat /\ w.chunkable = TRUE
          /\ offset <= Length(v, c) => offset + w.delivered <= Length(v, c)
          /\ offset <= Length(v, c) /\ w.state = "00000" => offset + w.delivered = Length(v, c)
      BY <1>1, <2>2 DEF Written
    <3>2. HasWhole(v, c, offset) => HasWhole(v, c, offset + w.delivered)
      BY <2>2, WholeKept DEF HasWhole, t
    <3>3. Wrote(v, c, w, offset)
      BY <2>2, <3>1, <3>2 DEF Wrote, IsPart, IsDone
    <3>. QED  BY <3>3 DEF w
  <2>3. CASE t = "fixed" /\ ~Stops(w) /\ w.state = "00000" /\ w.delivered = 0 /\ w.chunkable = FALSE
    <3>. HIDE DEF w
    <3>1. ~Stops(w) /\ HasWhole(v, c, offset)
      BY <2>3 DEF Stops, HasWhole, t
    <3>2. Wrote(v, c, w, offset)
      BY <1>1, <2>3, <3>1 DEF Wrote, IsPart
    <3>. QED  BY <3>2 DEF w
  <2>4. Named(v, t, w, buffer, offset)
    BY <1>1, <1>4, NamedWritten
  <2>. QED  BY <2>1, <2>2, <2>3, <2>4 DEF Named
<1>5. \/ v.kind = "null"
      \/ w = Outcome("07006", 0, FALSE)
      \/ v.kind # "null" /\ w = WriteNamed(v, t, buffer, offset)
  BY DEF WriteColumnValueAt
<1>. QED  BY <1>2, <1>3, <1>4, <1>5

-----------------------------------------------------------------------------
(***************************************************************************)
(* What SQLGetData leaves of a column: the parts given so far and the one  *)
(* just written belong to the position it keeps.                           *)
(***************************************************************************)
First(n) == [i \in 1 .. n |-> i]

LEMMA PartsAppend ==
  ASSUME NEW at, at.delivered \in Nat, NEW n \in Nat, NEW units,
         units = First(at.delivered)
  PROVE  units \o Parts(at, n) = First(at.delivered + n)
<1> DEFINE m == at.delivered
           more == Parts(at, n)
           both == units \o more
<1>1. more = [i \in 1 .. n |-> m + i]
  BY DEF Parts
<1>0. m \in Nat /\ units = [i \in 1 .. m |-> i]
  BY DEF First
<1>. HIDE DEF more, m
<1>2. units \in Seq(Nat) /\ Len(units) = m /\ more \in Seq(Nat) /\ Len(more) = n
  <2>1. units \in Seq(Nat) /\ Len(units) = m
    BY <1>0
  <2>2. more \in Seq(Nat) /\ Len(more) = n
    BY <1>0, <1>1
  <2>. QED  BY <2>1, <2>2
<1>3. both \in Seq(Nat) /\ Len(both) = m + n
  BY <1>2
<1>4. \A i \in 1 .. m + n : both[i] = i
  <2>1. \A i \in 1 .. m : both[i] = units[i]
    BY <1>0, <1>2
  <2>2. \A i \in m + 1 .. m + n : both[i] = more[i - m]
    BY <1>0, <1>2
  <2>3. \A i \in m + 1 .. m + n : i - m \in 1 .. n /\ more[i - m] = i
    BY <1>0, <1>1
  <2>. HIDE DEF both
  <2>. QED  BY <1>0, <2>1, <2>2, <2>3
<1>5. DOMAIN both = 1 .. m + n
  BY <1>3
<1>. HIDE DEF both
<1>6. both = [i \in DOMAIN both |-> both[i]]
  BY <1>3
<1>7. both = [i \in 1 .. m + n |-> i]
  BY <1>4, <1>5, <1>6
<1>. QED  BY <1>7 DEF both, more, m, First

\* Where the parts of a column go on: after those of this column.
Resumes(column, at) ==
  /\ at.column = column /\ at.delivered \in Nat
  /\ IF position.column = column THEN at = position
     ELSE at.delivered = 0 /\ at.done = FALSE /\ at.cached = NoCache

LEMMA ResumesAt ==
  ASSUME TypeOK, NEW column \in Column
  PROVE  Resumes(column, ResumeAt(column))
BY ColumnsAssumption DEF TypeOK, Position, NoPosition, ResumeAt, Resumes, Column

\* A part of v, of so many units, that goes on where at says.
Delivers(column, at, c, v, delivered, done, cached, warned) ==
  /\ column \in Column /\ Resumes(column, at) /\ c \in CType \cup {"default"}
  /\ v \in ColumnValue /\ v.kind # "failing" /\ row # NoRow /\ v = row[column]
  /\ delivered \in Nat /\ done \in BOOLEAN
  /\ IsPart(v, c, at.delivered, FALSE) => IsPart(v, c, at.delivered + delivered, done)
  /\ cached \in Cache \cup {NoCache}
  /\ cached # NoCache => cached.value = v /\ Cacheable(v, cached.c)
  /\ warned \in BOOLEAN /\ (v.warns => warned \/ position.column = column)
  /\ position' = [column |-> column, delivered |-> at.delivered + delivered, done |-> done,
                  cached |-> cached]
  /\ GiveParts(column, c, at, v, delivered, warned) /\ row' = row

LEMMA DeliverKeeps ==
  ASSUME TypeOK, Assembled, NEW column, NEW at, NEW c, NEW v, NEW delivered, NEW done,
         NEW cached, NEW warned, Delivers(column, at, c, v, delivered, done, cached, warned)
  PROVE  Assembled' /\ position' \in Position /\ given' \in Given
<1>. USE DEF Delivers
<1> DEFINE m == at.delivered + delivered
           p == [column |-> column, delivered |-> m, done |-> done, cached |-> cached]
<1>1. at.delivered \in Nat /\ m \in Nat
  BY DEF Resumes
<1>2. /\ p.column = column /\ p.delivered = m /\ p.done = done /\ p.cached = cached
      /\ p \in Position /\ position' = p /\ p # NoPosition
  BY <1>1, ColumnsAssumption DEF Position, NoPosition, Column
<1>3. [i \in 1 .. m |-> i] \in Seq(Nat)
  BY <1>1
<1>. HIDE DEF p
<1>4. CASE Continued(column)
  <2>1. /\ given.column = column /\ position.column = column
        /\ given \in Given /\ position \in Position /\ position # NoPosition /\ at = position
    BY <1>4, ColumnsAssumption
       DEF Continued, Assembled, TypeOK, Resumes, Nothing, NoPosition, Column, Position, Given
  <2>2. Agree(position, given, row)
    BY <2>1 DEF Assembled
  <2> DEFINE g == [given EXCEPT !.units = @ \o Parts(at, delivered), !.warned = @ \/ warned,
                                !.c = IF @ = c THEN c ELSE "mixed", !.value = v]
  <2>3. given' = g
    BY <1>4 DEF GiveParts
  <2>4. given.units \o Parts(at, delivered) = [i \in 1 .. m |-> i]
    <3>1. given.units = First(at.delivered)
      BY <2>1, <2>2 DEF Agree, First
    <3>2. given.units \o Parts(at, delivered) = First(at.delivered + delivered)
      BY <1>1, <3>1, PartsAppend, Zenon
    <3>. QED  BY <3>2 DEF First
  <2>5. /\ g.column = column /\ g.units = [i \in 1 .. m |-> i] /\ g.warned = (given.warned \/ warned)
        /\ g.c = (IF given.c = c THEN c ELSE "mixed") /\ g.value = v
    BY <2>1, <2>4 DEF Given
  <2>6. g \in Given
    BY <1>3, <2>1, <2>4 DEF Given, CType
  <2>. HIDE DEF g, m
  <2>7. v.warns => g.warned
    <3>1. given.value = v /\ (given.value.warns => given.warned)
      BY <2>1, <2>2 DEF Agree
    <3>. QED  BY <2>5, <3>1, Zenon
  <2>8. g.c # "mixed" => IsPart(v, g.c, m, done)
    <3>1. SUFFICES ASSUME g.c # "mixed"  PROVE IsPart(v, c, m, done) /\ g.c = c
      OBVIOUS
    <3>2. g.c = c /\ given.c = c /\ c # "mixed"
      BY <2>5, <3>1 DEF CType
    <3>3. IsPart(v, c, at.delivered, FALSE)
      BY <2>1, <2>2, <3>2 DEF Agree, IsPart
    <3>. QED  BY <3>2, <3>3 DEF m
  <2>9. Agree(p, g, row)
    BY <1>2, <2>5, <2>7, <2>8 DEF Agree
  <2>. QED  BY <1>2, <2>3, <2>5, <2>6, <2>9 DEF Assembled
<1>5. CASE ~Continued(column)
  <2>1. position.column # column /\ at.delivered = 0
    BY <1>5 DEF Continued, Assembled, Resumes
  <2> DEFINE g == [column |-> column, c |-> c, units |-> Parts(at, delivered),
                   warned |-> warned, value |-> v]
  <2>2. given' = g
    BY <1>5 DEF GiveParts
  <2>3. Parts(at, delivered) = [i \in 1 .. m |-> i]
    BY <2>1 DEF Parts
  <2>4. /\ g.column = column /\ g.units = [i \in 1 .. m |-> i] /\ g.warned = warned
        /\ g.c = c /\ g.value = v
    BY <2>3
  <2>5. g \in Given
    BY <1>3, <2>3 DEF Given
  <2>6. IsPart(v, c, m, done)
    BY <2>1, TargetIs DEF IsPart, HasWhole
  <2>. HIDE DEF g, m
  <2>7. Agree(p, g, row)
    BY <1>2, <2>1, <2>4, <2>6 DEF Agree
  <2>. QED  BY <1>2, <2>2, <2>4, <2>5, <2>7 DEF Assembled
<1>. QED  BY <1>4, <1>5

FetchState == {"01S07", "07006", "22002", "22003", "22007", "22015", "22018", "24000", "HY000"}
GetDataState == FetchState \cup {"07009", "HY003", "HY090"}

\* How a call of SQLGetData can end.
Gives(column) ==
  \/ \E state \in GetDataState : Answer("GetData", column, state, 0)
  \/ AnswerNoData("GetData", column) /\ position' # NoPosition /\ position'.done
     /\ position'.column = column
  \/ \E state \in {"00000", "01004"}, n \in {0, 1} :
       /\ Answer("GetData", column, state, n)
       /\ position' # NoPosition /\ (state = "00000" => position'.done)

LEMMA LosesPosition ==
  ASSUME NEW column, NEW state \in GetDataState, LosePosition(column, state)
  PROVE  /\ position' \in Position \cup {NoPosition} /\ given' \in Given \cup {Nothing}
         /\ Assembled' /\ Gives(column)
<1>1. position' = NoPosition /\ given' = Nothing /\ Answer("GetData", column, state, 0)
  BY DEF LosePosition
<1>2. Assembled'
  BY <1>1 DEF Assembled, NoPosition, Nothing
<1>. QED  BY <1>1, <1>2 DEF Gives

LEMMA PositionIs ==
  ASSUME NEW column \in Column, NEW delivered, NEW done, NEW cached, NEW p,
         p = [column |-> column, delivered |-> delivered, done |-> done, cached |-> cached]
  PROVE  p # NoPosition /\ p.done = done /\ p.column = column
BY ColumnsAssumption DEF NoPosition, Column

(***************************************************************************)
(* A part of a value an earlier call converted.                            *)
(***************************************************************************)
LEMMA CachedPartKeeps ==
  ASSUME TypeOK, Assembled, NEW column \in Column, NEW at, Resumes(column, at),
         NEW c \in CType \cup {"default"}, at.cached.c = c,
         NEW buffer, buffer.size \in Nat, buffer.pointer,
         GetCachedPart(column, c, at, buffer), row' = row
  PROVE  Assembled' /\ position' \in Position /\ given' \in Given /\ Gives(column)
<1>1. at.cached # NoCache
  BY DEF NoCache, CType
<1>2. position.column = column /\ at = position
  BY <1>1 DEF Resumes
<1>3. /\ position \in Position /\ position # NoPosition
      /\ at.cached \in Cache /\ at.delivered \in Nat
  BY <1>1, <1>2, ColumnsAssumption DEF TypeOK, Position, NoPosition, Column
<1> DEFINE v == at.cached.value
           w == WriteUnits(Length(v, c), c, buffer, at.delivered)
<1>4. Agree(position, given, row) /\ row # NoRow
  BY <1>3 DEF Assembled
<1>5. /\ v \in ColumnValue /\ v = row[column] /\ v.kind \in {"text", "bytes"}
      /\ c \in {"char", "wchar", "binary"} /\ Cacheable(v, c)
  BY <1>1, <1>2, <1>3, <1>4 DEF Agree, Cache, Cacheable
<1>6. Length(v, c) \in Nat
  BY <1>5, TargetIs DEF CType
<1>. HIDE DEF v
<1>7. Written(Length(v, c), c, w, buffer.size, at.delivered)
  BY <1>3, <1>5, <1>6, UnitsWritten
<1>8. /\ position' = [at EXCEPT !.delivered = @ + w.delivered, !.done = IsDone(w)]
      /\ GiveParts(column, c, at, v, w.delivered, FALSE)
      /\ Answer("GetData", column, w.state, 0)
  BY DEF GetCachedPart, v
<1>. HIDE DEF w
<1>9. IsDone(w) \in BOOLEAN /\ w.delivered \in Nat /\ w.state \in {"00000", "01004"}
  BY <1>7 DEF IsDone, Written
<1>10. IsPart(v, c, at.delivered, FALSE) => IsPart(v, c, at.delivered + w.delivered, IsDone(w))
  BY <1>5, <1>7 DEF Written, IsPart, IsDone, HasWhole
<1>11. position' = [column |-> column, delivered |-> at.delivered + w.delivered,
                    done |-> IsDone(w), cached |-> at.cached]
  BY <1>2, <1>3, <1>8 DEF Position
<1>12. at.cached \in Cache \cup {NoCache} /\ at.cached.value = v /\ Cacheable(v, at.cached.c)
  BY <1>3, <1>5 DEF v
<1>13. Assembled' /\ position' \in Position /\ given' \in Given
  <2>1. Delivers(column, at, c, v, w.delivered, IsDone(w), at.cached, FALSE)
    BY <1>2, <1>4, <1>5, <1>8, <1>9, <1>10, <1>11, <1>12 DEF Delivers
  <2>. QED  BY <2>1, DeliverKeeps
<1>14. position' # NoPosition /\ position'.done = IsDone(w)
  BY <1>11, PositionIs
<1>15. Gives(column)
  BY <1>8, <1>9, <1>14 DEF Gives, IsDone
<1>. QED  BY <1>13, <1>15

LEMMA RowIs ==
  ASSUME TypeOK, row # NoRow, NEW column \in Column
  PROVE  row[column] \in ColumnValue /\ HasWholeDigits(row[column])
BY RowsAssumption DEF TypeOK

(***************************************************************************)
(* A value taken from the backend, or what was lost with it.               *)
(***************************************************************************)
LEMMA ValueKeeps ==
  ASSUME TypeOK, Assembled, NEW column \in Column, NEW at, Resumes(column, at),
         NEW c \in CType \cup {"default"},
         NEW buffer, buffer.size \in Nat, buffer.pointer,
         GetValue(column, c, at, buffer), row' = row
  PROVE  /\ position' \in Position \cup {NoPosition} /\ given' \in Given \cup {Nothing}
         /\ Assembled' /\ Gives(column) /\ pending' \in BOOLEAN
<1> DEFINE v == IF row = NoRow THEN Failing ELSE row[column]
           w == WriteColumnValueAt(v, c, buffer, at.delivered)
           warned == v.warns \/ pending
<1>1. \/ LosePosition(column, "HY000") /\ UNCHANGED pending
      \/ LosePosition(column, "22002") /\ pending' = warned
      \/ v.kind # "failing" /\ Stops(w) /\ LosePosition(column, w.state) /\ pending' = warned
      \/ /\ v.kind # "failing" /\ ~Stops(w)
         /\ position' = [column |-> column, delivered |-> at.delivered + w.delivered,
                         done |-> IsDone(w),
                         cached |-> IF Cacheable(v, c) THEN [c |-> c, value |-> v]
                                    ELSE at.cached]
         /\ GiveParts(column, c, at, v, w.delivered, warned)
         /\ Answer("GetData", column, w.state, IF warned THEN 1 ELSE 0)
         /\ pending' = FALSE
  BY DEF GetValue
<1>2. pending' \in BOOLEAN
  BY <1>1, Zenon DEF TypeOK
<1>3. CASE LosePosition(column, "HY000") \/ LosePosition(column, "22002")
  BY <1>2, <1>3, LosesPosition DEF GetDataState, FetchState
<1>4. CASE v.kind # "failing"
  <2>1. row # NoRow /\ v = row[column]
    BY <1>4 DEF Failing
  <2>2. v \in ColumnValue /\ HasWholeDigits(v) /\ at.delivered \in Nat
    BY <2>1, RowIs DEF Resumes
  <2>. HIDE DEF v
  <2>3. Wrote(v, c, w, at.delivered)
    BY <2>2, ValueWritten
  <2>. HIDE DEF w
  <2>4. CASE Stops(w) /\ LosePosition(column, w.state)
    <3>1. w.state \in GetDataState
      BY <2>2, <2>3, <2>4 DEF Wrote, ColumnValue, Stops, GetDataState, FetchState
    <3>. QED  BY <1>2, <2>4, <3>1, LosesPosition
  <2>5. ASSUME /\ ~Stops(w)
               /\ position' = [column |-> column, delivered |-> at.delivered + w.delivered,
                               done |-> IsDone(w),
                               cached |-> IF Cacheable(v, c) THEN [c |-> c, value |-> v]
                                          ELSE at.cached]
               /\ GiveParts(column, c, at, v, w.delivered, warned)
               /\ Answer("GetData", column, w.state, IF warned THEN 1 ELSE 0)
        PROVE  Assembled' /\ position' \in Position /\ given' \in Given /\ Gives(column)
    <3> DEFINE cached == IF Cacheable(v, c) THEN [c |-> c, value |-> v] ELSE at.cached
    <3>1. /\ w.state \in {"00000", "01004"} /\ w.delivered \in Nat /\ IsDone(w) \in BOOLEAN
          /\ w.state = "00000" => IsDone(w)
          /\ IsPart(v, c, at.delivered, FALSE) =>
               IsPart(v, c, at.delivered + w.delivered, IsDone(w))
      BY <2>3, <2>5 DEF Wrote, IsDone
    <3>2. warned \in BOOLEAN
      BY <2>2 DEF ColumnValue, TypeOK
    <3>3. v.warns => warned
      BY Zenon
    <3>. HIDE DEF warned
    <3>4. cached \in Cache \cup {NoCache} /\ (cached # NoCache => cached.value = v /\ Cacheable(v, cached.c))
      <4>1. CASE Cacheable(v, c)
        <5>1. cached = [c |-> c, value |-> v] /\ c \in CType
          BY <4>1 DEF Cacheable, CType
        <5>. QED  BY <2>2, <4>1, <5>1 DEF Cache
      <4>2. CASE ~Cacheable(v, c)
        <5>1. cached = at.cached
          BY <4>2
        <5>2. at.cached = NoCache \/ (position.column = column /\ at = position)
          BY DEF Resumes
        <5>3. CASE at = position /\ position.column = column
          <6>1. position \in Position /\ position # NoPosition
            BY <5>3, ColumnsAssumption DEF TypeOK, NoPosition, Column
          <6>2. Agree(position, given, row) /\ given.value = v
            BY <2>1, <5>3, <6>1 DEF Assembled, Agree
          <6>. QED  BY <5>1, <5>3, <6>1, <6>2 DEF Agree, Position
        <5>. QED  BY <5>1, <5>2, <5>3
      <4>. QED  BY <4>1, <4>2
    <3>5. position' = [column |-> column, delivered |-> at.delivered + w.delivered,
                       done |-> IsDone(w), cached |-> cached]
      BY <2>5
    <3>. HIDE DEF cached
    <3>6. Assembled' /\ position' \in Position /\ given' \in Given
      <4>1. GiveParts(column, c, at, v, w.delivered, warned)
        BY <2>5
      <4>2. v.warns => warned \/ position.column = column
        BY <3>3, Zenon
      <4>3. Delivers(column, at, c, v, w.delivered, IsDone(w), cached, warned)
        BY <1>4, <2>1, <2>2, <3>1, <3>2, <3>4, <3>5, <4>1, <4>2 DEF Delivers
      <4>. QED  BY <4>3, DeliverKeeps
    <3>7. position' # NoPosition /\ position'.done = IsDone(w)
      BY <3>5, PositionIs
    <3>8. Gives(column)
      BY <2>5, <3>1, <3>7 DEF Gives
    <3>. QED  BY <3>6, <3>8
  <2>. QED  BY <1>1, <1>2, <1>3, <2>4, <2>5
<1>. QED  BY <1>1, <1>3, <1>4

LEMMA GetDataKeeps ==
  ASSUME TypeOK, Assembled, NEW column \in Nat, NEW c \in CType \cup {"default", "unknown"},
         NEW size \in Int, NEW indicator \in BOOLEAN, GetData(column, c, size, indicator)
  PROVE  TypeOK' /\ Assembled' /\ Gives(column)
<1> DEFINE at == ResumeAt(column)
           buffer == [size |-> size, pointer |-> TRUE, indicator |-> indicator]
<1>1. UNCHANGED <<open, row, bound, memory, report>>
  BY DEF GetData
<1>2. \/ /\ BadArgument(column, c, size) # "00000"
         /\ Answer("GetData", column, BadArgument(column, c, size), 0)
         /\ UNCHANGED <<position, given, pending>>
      \/ /\ BadArgument(column, c, size) = "00000"
         /\ \/ /\ at.done /\ position' = at
               /\ AnswerNoData("GetData", column) /\ UNCHANGED <<given, pending>>
            \/ at.cached.c = c /\ GetCachedPart(column, c, at, buffer)
            \/ GetValue(column, c, at, buffer)
  BY Zenon DEF GetData
<1>3. /\ BadArgument(column, c, size) \in {"00000", "24000", "07009", "HY090", "HY003"}
      /\ BadArgument(column, c, size) = "00000" =>
           column \in Column /\ size \in Nat /\ c \in CType \cup {"default"}
  BY ColumnsAssumption DEF BadArgument, Column
<1>4. SUFFICES /\ position' \in Position \cup {NoPosition} /\ given' \in Given \cup {Nothing}
               /\ Assembled' /\ Gives(column) /\ pending' \in BOOLEAN
  BY <1>1 DEF TypeOK
<1>5. CASE /\ BadArgument(column, c, size) # "00000"
           /\ Answer("GetData", column, BadArgument(column, c, size), 0)
           /\ UNCHANGED <<position, given, pending>>
  <2>1. Gives(column)
    BY <1>3, <1>5 DEF Gives, GetDataState, FetchState
  <2>. QED  BY <1>1, <1>5, <2>1 DEF TypeOK, Assembled
<1>6. CASE BadArgument(column, c, size) = "00000"
  <2>1. column \in Column /\ c \in CType \cup {"default"} /\ Resumes(column, at)
    BY <1>3, <1>6, ResumesAt
  <2>2. buffer.size \in Nat /\ buffer.pointer
    BY <1>3, <1>6
  <2>. HIDE DEF at, buffer
  <2>3. CASE /\ at.done /\ position' = at
             /\ AnswerNoData("GetData", column) /\ UNCHANGED <<given, pending>>
    <3>1. position.column = column /\ at = position
      BY <2>1, <2>3 DEF Resumes
    <3>2. position # NoPosition
      BY <2>1, <3>1, ColumnsAssumption DEF NoPosition, Column
    <3>. QED  BY <1>1, <2>3, <3>1, <3>2 DEF Gives, TypeOK, Assembled
  <2>4. CASE at.cached.c = c /\ GetCachedPart(column, c, at, buffer)
    <3>1. pending' \in BOOLEAN
      BY <2>4 DEF GetCachedPart, TypeOK
    <3>. QED  BY <1>1, <2>1, <2>2, <2>4, <3>1, CachedPartKeeps
  <2>5. CASE GetValue(column, c, at, buffer)
    BY <1>1, <2>1, <2>2, <2>5, ValueKeeps
  <2>. QED  BY <1>2, <1>6, <2>3, <2>4, <2>5
<1>. QED  BY <1>2, <1>5, <1>6

-----------------------------------------------------------------------------
(***************************************************************************)
(* The other calls, none of which gives a part of a column: they forget    *)
(* the position and what was given with it, or leave both and the row.     *)
(***************************************************************************)
LEMMA ForgetKeeps ==
  ASSUME position' = NoPosition, given' = Nothing
  PROVE  Assembled'
BY DEF Assembled, NoPosition, Nothing

LEMMA LeaveKeeps ==
  ASSUME Assembled, UNCHANGED <<position, given, row>>
  PROVE  Assembled'
BY DEF Assembled

(***************************************************************************)
(* A set of columns has a least one: the shortest of the intervals that    *)
(* end in it.                                                              *)
(***************************************************************************)
LEMMA MinIn ==
  ASSUME NEW S \in SUBSET Column, S # {}
  PROVE  Min(S) \in S /\ \A y \in S : Min(S) <= y
<1> DEFINE Upto == {1 .. x : x \in S}
           R == StrictSubsetOrdering(Nat)
<1>1. S \subseteq Nat \ {0}
  BY ColumnsAssumption DEF Column
<1>2. Upto \subseteq FiniteSubsetsOf(Nat) /\ Upto # {}
  <2>1. ASSUME NEW x \in S PROVE 1 .. x \in FiniteSubsetsOf(Nat)
    BY <1>1, FS_Interval DEF FiniteSubsetsOf
  <2>. QED  BY <2>1
<1>3. IsWellFoundedOn(R, FiniteSubsetsOf(Nat))
  BY FS_StrictSubsetOrderingWellFounded
<1>. HIDE DEF R
<1>4. PICK T \in Upto : \A U \in Upto : ~(<<U, T>> \in R)
  BY <1>2, <1>3, WFMin
<1>5. PICK x \in S : T = 1 .. x
  OBVIOUS
<1>6. ASSUME NEW y \in S, y < x
      PROVE  <<1 .. y, 1 .. x>> \in R
  <2>1. 1 .. y \subseteq 1 .. x /\ x \in 1 .. x /\ x \notin 1 .. y
    BY <1>1, <1>6
  <2>2. 1 .. y \in SUBSET Nat /\ 1 .. x \in SUBSET Nat
    BY <1>1
  <2>3. 1 .. y # 1 .. x
    BY <2>1, Zenon
  <2>. HIDE DEF Upto
  <2>4. /\ <<1 .. y, 1 .. x>> \in (SUBSET Nat) \X (SUBSET Nat)
        /\ <<1 .. y, 1 .. x>>[1] = 1 .. y /\ <<1 .. y, 1 .. x>>[2] = 1 .. x
    BY <2>2
  <2>. QED  BY <2>1, <2>3, <2>4, Zenon DEF R, StrictSubsetOrdering
<1>7. \A y \in S : ~(y < x)
  BY <1>4, <1>5, <1>6
<1>8. \A y \in S : x <= y
  BY <1>1, <1>7
<1>. QED  BY <1>8, Zenon DEF Min

-----------------------------------------------------------------------------
(***************************************************************************)
(* What a call answers.                                                    *)
(***************************************************************************)
RecordsOf(state, warnings) ==
  (IF state = "00000" THEN {} ELSE {state}) \cup (IF warnings = 0 THEN {} ELSE {"01S07"})
ReturnOf(state, warnings) ==
  IF state = "00000" /\ warnings > 0 THEN "SUCCESS_WITH_INFO" ELSE Return(state)

LEMMA RecordsAre ==
  ASSUME NEW op, NEW column, NEW state, NEW warnings \in Nat,
         Answer(op, column, state, warnings)
  PROVE  /\ last'.op = op /\ last'.column = column
         /\ last'.ret = ReturnOf(state, warnings) /\ Records' = RecordsOf(state, warnings)
<1> DEFINE head == IF state = "00000" THEN <<>> ELSE <<state>>
           tail == [i \in 1 .. warnings |-> "01S07"]
           S == {state, "01S07"}
           both == head \o tail
<1>1. /\ last'.op = op /\ last'.column = column
      /\ last'.ret = ReturnOf(state, warnings) /\ last'.diagnostics = both
  BY DEF Answer, ReturnOf
<1>2. head \in Seq(S) /\ tail \in Seq(S) /\ Len(tail) = warnings
  <2>1. head \in Seq(S)
    <3>1. <<>> \in Seq(S) /\ <<state>> \in Seq(S)
      OBVIOUS
    <3>. QED  BY <3>1
  <2>2. tail \in Seq(S) /\ Len(tail) = warnings
    OBVIOUS
  <2>. QED  BY <2>1, <2>2
<1>3. CASE state = "00000"
  <2>1. both = tail
    BY <1>2, <1>3
  <2>2. {tail[i] : i \in DOMAIN tail} = IF warnings = 0 THEN {} ELSE {"01S07"}
    <3>1. warnings # 0 => 1 \in DOMAIN tail
      OBVIOUS
    <3>. QED  BY <3>1
  <2>3. Records' = {tail[i] : i \in DOMAIN tail}
    BY <1>1, <2>1 DEF Records
  <2>. HIDE DEF tail
  <2>. QED  BY <1>1, <1>3, <2>2, <2>3 DEF RecordsOf
<1>4. CASE state # "00000"
  <2>1. head = <<state>>
    BY <1>4
  <2>2. both \in Seq(S) /\ Len(both) = 1 + warnings
    BY <1>2, <2>1
  <2>3. DOMAIN both = 1 .. 1 + warnings
    BY <2>2
  <2>4. both[1] = state
    BY <1>2, <2>1
  <2>5. \A i \in 2 .. 1 + warnings : both[i] = "01S07"
    BY <1>2, <2>1
  <2>6. Records' = {both[i] : i \in DOMAIN both}
    BY <1>1 DEF Records
  <2>. HIDE DEF both
  <2>7. {both[i] : i \in DOMAIN both} = {state} \cup (IF warnings = 0 THEN {} ELSE {"01S07"})
    <3>1. warnings # 0 => 2 \in DOMAIN both
      BY <2>3
    <3>2. 1 \in DOMAIN both
      BY <2>3
    <3>3. \A i \in DOMAIN both : i = 1 \/ (i \in 2 .. 1 + warnings /\ warnings # 0)
      BY <2>3
    <3>4. warnings # 0 => both[2] = "01S07"
      BY <2>5
    <3>. QED  BY <2>4, <2>5, <3>1, <3>2, <3>3, <3>4
  <2>. QED  BY <1>1, <1>4, <2>6, <2>7 DEF RecordsOf
<1>. QED  BY <1>3, <1>4

\* The return and the records of a call fit each other, and its function.
Fits ==
  /\ last.op # "none" => Records \subseteq Listed(last.op)
  /\ last.ret \in {"SUCCESS", "NO_DATA"} <=> Records = {}
  /\ last.ret = "SUCCESS_WITH_INFO" <=> Records # {} /\ Records \subseteq {"01004", "01S07"}

LEMMA AnswerFits ==
  ASSUME NEW op, NEW column, NEW state, NEW warnings \in Nat,
         Answer(op, column, state, warnings),
         state = "00000" \/ state \in Listed(op),
         warnings = 0 \/ (state \in {"00000", "01004"} /\ "01S07" \in Listed(op))
  PROVE  Fits'
<1>1. /\ last'.op = op /\ last'.ret = ReturnOf(state, warnings)
      /\ Records' = RecordsOf(state, warnings)
  BY RecordsAre
<1>2. Records' \subseteq Listed(last'.op)
  BY <1>1 DEF RecordsOf
<1>3. last'.ret \in {"SUCCESS", "NO_DATA"} <=> state = "00000" /\ warnings = 0
  BY <1>1 DEF ReturnOf, Return
<1>4. last'.ret = "SUCCESS_WITH_INFO" <=>
        (state = "00000" /\ warnings # 0) \/ state \in {"01004", "01S07"}
  BY <1>1 DEF ReturnOf, Return
<1>5. Records' = {} <=> state = "00000" /\ warnings = 0
  BY <1>1 DEF RecordsOf
<1>6. Records' # {} /\ Records' \subseteq {"01004", "01S07"} <=>
        (state = "00000" /\ warnings # 0) \/ state \in {"01004", "01S07"}
  BY <1>1 DEF RecordsOf
<1>. QED  BY <1>2, <1>3, <1>4, <1>5, <1>6 DEF Fits

LEMMA NoDataFits ==
  ASSUME NEW op, NEW column, AnswerNoData(op, column)
  PROVE  Fits' /\ last'.op = op /\ last'.column = column /\ last'.ret = "NO_DATA"
<1>1. /\ last'.op = op /\ last'.column = column /\ last'.ret = "NO_DATA"
      /\ last'.diagnostics = <<>>
  BY DEF AnswerNoData
<1>2. Records' = {}
  BY <1>1 DEF Records
<1>. QED  BY <1>1, <1>2 DEF Fits

LEMMA ListedWhereRead ==
  /\ GetDataState \cup {"01004"} \subseteq Listed("GetData")
  /\ \A op \in {"Fetch", "FetchScroll", "ExtendedFetch"} :
       FetchState \cup {"01004", "HY010"} \subseteq Listed(op)
  /\ \A op \in {"FetchScroll", "ExtendedFetch"} : "HY106" \in Listed(op)
<1>. USE DEF FetchState, GetDataState, Always, Sequence, Asynchronous, ReadingStates,
             GetDataStates, FetchStates
<1>1. ASSUME NEW f, f = "GetData" PROVE GetDataState \cup {"01004"} \subseteq Listed(f)
  BY <1>1 DEF Listed, Unlisted
<1>2. ASSUME NEW f, f = "Fetch" PROVE FetchState \cup {"01004", "HY010"} \subseteq Listed(f)
  BY <1>2 DEF Listed, Unlisted
<1>3. ASSUME NEW f, f = "FetchScroll"
      PROVE  FetchState \cup {"01004", "HY010", "HY106"} \subseteq Listed(f)
  BY <1>3 DEF Listed, Unlisted
<1>4. ASSUME NEW f, f = "ExtendedFetch"
      PROVE  FetchState \cup {"01004", "HY010", "HY106"} \subseteq Listed(f)
  BY <1>4 DEF Listed, Unlisted
<1>. QED  BY <1>1, <1>2, <1>3, <1>4

(***************************************************************************)
(* SQLGetData: the application that is told of no loss has everything.     *)
(***************************************************************************)
LEMMA DoneHasAll ==
  ASSUME NEW p \in Position, NEW g, NEW r, Agree(p, g, r), p.done, g.c # "mixed"
  PROVE  /\ g.value.kind = "null" \/ Len(g.units) = Length(g.value, g.c)
         /\ g.value.warns => g.warned
<1>1. p.delivered \in Nat /\ g.units = [i \in 1 .. p.delivered |-> i]
  BY DEF Position, Agree
<1>2. Len(g.units) = p.delivered
  BY <1>1
<1>3. IsPart(g.value, g.c, p.delivered, p.done)
  BY DEF Agree
<1>4. g.value.kind = "null" \/ Len(g.units) = Length(g.value, g.c)
  BY <1>2, <1>3 DEF IsPart
<1>5. g.value.warns => g.warned
  BY Zenon DEF Agree
<1>. QED  BY <1>4, <1>5

LEMMA GetDataTells ==
  ASSUME NEW column, TypeOK', Assembled', Gives(column)
  PROVE  ReturnTellsWhatArrived'
<1>1. CASE \E state \in GetDataState : Answer("GetData", column, state, 0)
  <2>1. PICK state \in GetDataState : Answer("GetData", column, state, 0)
    BY <1>1
  <2>2. state \notin {"00000", "01004"}
    BY DEF GetDataState, FetchState
  <2>3. Fits'
    BY <2>1, <2>2, AnswerFits, ListedWhereRead
  <2>4. last'.op = "GetData" /\ last'.ret \notin {"SUCCESS", "NO_DATA"}
    BY <2>1, <2>2, RecordsAre DEF ReturnOf, Return
  <2>. QED  BY <2>3, <2>4 DEF ReturnTellsWhatArrived, Fits
<1>2. ASSUME position' # NoPosition, position'.done
      PROVE  /\ given'.column = position'.column
             /\ Reading' => HasAll' /\ (given'.value.warns => given'.warned)
  <2>1. position' \in Position /\ Agree(position', given', row')
    BY <1>2 DEF TypeOK, Assembled
  <2>2. given'.column = position'.column
    BY DEF Assembled
  <2>3. given'.c # "mixed" => HasAll' /\ (given'.value.warns => given'.warned)
    BY <1>2, <2>1, DoneHasAll DEF HasAll
  <2>. QED  BY <2>2, <2>3 DEF Reading
<1>3. CASE AnswerNoData("GetData", column) /\ position' # NoPosition /\ position'.done
           /\ position'.column = column
  <2>1. /\ Fits' /\ last'.op = "GetData" /\ last'.column = column /\ last'.ret = "NO_DATA"
    BY <1>3, NoDataFits
  <2>. QED  BY <1>2, <1>3, <2>1 DEF ReturnTellsWhatArrived, Fits
<1>4. CASE \E state \in {"00000", "01004"}, n \in {0, 1} :
             /\ Answer("GetData", column, state, n)
             /\ position' # NoPosition /\ (state = "00000" => position'.done)
  <2>1. PICK state \in {"00000", "01004"}, n \in {0, 1} :
             /\ Answer("GetData", column, state, n)
             /\ position' # NoPosition /\ (state = "00000" => position'.done)
    BY <1>4
  <2>2. "01S07" \in Listed("GetData") /\ "01004" \in Listed("GetData")
    BY ListedWhereRead DEF GetDataState, FetchState
  <2>3. Fits'
    BY <2>1, <2>2, AnswerFits
  <2>4. /\ last'.op = "GetData" /\ last'.ret # "NO_DATA"
        /\ last'.ret = "SUCCESS" => state = "00000"
    BY <2>1, RecordsAre DEF ReturnOf, Return
  <2>5. last'.ret = "SUCCESS" => (Reading' => HasAll' /\ (given'.value.warns => given'.warned))
    BY <1>2, <2>1, <2>4
  <2>. QED  BY <2>3, <2>4, <2>5 DEF ReturnTellsWhatArrived, Fits
<1>. QED  BY <1>1, <1>3, <1>4 DEF Gives

-----------------------------------------------------------------------------
(***************************************************************************)
(* The loop over the bound columns.                                        *)
(***************************************************************************)
WriteState(v) == {"00000", "01004", "07006", "22003", v.fixed}

LEMMA StateWritten ==
  ASSUME NEW v \in ColumnValue, NEW c \in CType \cup {"default"}, NEW buffer
  PROVE  WriteColumnValueAt(v, c, buffer, 0).state \in WriteState(v)
<1> DEFINE t == TargetOf(v, c)
           w == WriteColumnValueAt(v, c, buffer, 0)
<1>1. t \in CType
  BY TargetIs
<1>. HIDE DEF t
<1>2. ASSUME NEW total
      PROVE  WriteUnits(total, t, buffer, 0).state \in {"00000", "01004"}
  BY DEF WriteUnits, Outcome
<1>3. WriteNamed(v, t, buffer, 0).state \in WriteState(v)
  <2>1. \/ \E total : WriteNamed(v, t, buffer, 0) = WriteUnits(total, t, buffer, 0)
        \/ WriteNamed(v, t, buffer, 0) = Outcome("22003", 0, FALSE)
        \/ WriteNamed(v, t, buffer, 0) = Outcome(v.fixed, 0, FALSE)
    BY <1>1 DEF WriteNamed, CType
  <2>. QED  BY <1>2, <2>1 DEF WriteState, Outcome
<1>4. \/ w = Outcome("00000", 0, FALSE) \/ w = Outcome("07006", 0, FALSE)
      \/ w = WriteNamed(v, t, buffer, 0)
  BY DEF WriteColumnValueAt, t
<1>. QED  BY <1>3, <1>4 DEF WriteState, Outcome

LEMMA BoundState ==
  ASSUME TypeOK, NEW r \in Rows, NEW c \in Column, IsBound(c)
  PROVE  ReadBound(r, c).state \in FetchState \cup {"00000", "01004"}
<1>1. r[c] \in ColumnValue
  BY RowsAssumption
<1>2. bound[c] \in Binding
  BY BindingsAssumption DEF TypeOK, IsBound
<1>3. bound[c].c \in CType \cup {"default"}
  BY <1>2 DEF Binding
<1>4. WriteColumnValueAt(r[c], bound[c].c, bound[c], 0).state \in WriteState(r[c])
  BY <1>1, <1>3, StateWritten
<1>5. \/ ReadBound(r, c) = Outcome("HY000", 0, FALSE) \/ ReadBound(r, c) = Outcome("22002", 0, FALSE)
      \/ ReadBound(r, c) = WriteColumnValueAt(r[c], bound[c].c, bound[c], 0)
  BY DEF ReadBound
<1>6. r[c].fixed \in {"00000", "01S07", "07006", "22003", "22007", "22015", "22018"}
  BY <1>1 DEF ColumnValue
<1>. QED  BY <1>4, <1>5, <1>6 DEF WriteState, Outcome, FetchState

\* A row that answers SQL_SUCCESS left every bound column whole, and no warning.
RowArrived ==
  /\ report = [rows |-> 1, status |-> "SUCCESS"]
  /\ \A c \in Column : IsBound(c) => memory[c] = "whole" /\ ~row[c].warns

LEMMA FetchRowTells ==
  ASSUME TypeOK, NEW op \in {"Fetch", "FetchScroll", "ExtendedFetch"}, NEW r \in Rows,
         FetchRow(op, r), bound' = bound
  PROVE  /\ Fits' /\ last'.op = op /\ last'.ret # "NO_DATA"
         /\ last'.ret = "SUCCESS" => RowArrived'
         /\ row' \in Rows /\ pending' \in BOOLEAN
<1> DEFINE stopped == {c \in Column : IsBound(c) /\ Stops(ReadBound(r, c))}
           stop == IF stopped = {} THEN ColumnCount + 1 ELSE Min(stopped)
           reached == {c \in Column : IsBound(c) /\ c <= stop}
           taken == WarningsTaken(r, reached, stop)
           truncated == \E c \in reached : ReadBound(r, c).state = "01004"
<1>1. /\ row' = r
      /\ memory' = [c \in Column |-> IF c \in reached THEN Left(ReadBound(r, c)) ELSE "untouched"]
      /\ \/ /\ stopped = {}
            /\ report' = [rows |-> 1, status |-> IF truncated \/ taken # {}
                                                 THEN "SUCCESS_WITH_INFO" ELSE "SUCCESS"]
            /\ Answer(op, 0, IF truncated THEN "01004" ELSE "00000", Cardinality(taken))
            /\ pending' = (pending /\ reached = {})
         \/ /\ stopped # {}
            /\ Answer(op, stop, ReadBound(r, stop).state, 0)
            /\ pending' = (r[stop].warns \/ (pending /\ stop = Min(reached)))
  BY Zenon DEF FetchRow
<1>2. FetchState \cup {"01004"} \subseteq Listed(op)
  BY ListedWhereRead
<1>3. ColumnCount \in Nat
  BY ColumnsAssumption
<1>4. CASE stopped = {}
  <2>1. stop = ColumnCount + 1
    BY <1>4
  <2>2. reached = {c \in Column : IsBound(c)}
    BY <1>3, <2>1 DEF Column
  <2>3. taken \subseteq Column /\ IsFiniteSet(Column)
    <3>1. IsFiniteSet(Column)
      BY <1>3, FS_Interval DEF Column
    <3>. QED  BY <3>1 DEF WarningsTaken
  <2>4. IsFiniteSet(taken) /\ Cardinality(taken) \in Nat
    BY <2>3, FS_Subset, FS_CardinalityType
  <2>5. Cardinality(taken) = 0 => taken = {}
    BY <2>4, FS_EmptySet
  <2>6. \A c \in Column : IsBound(c) => c < stop
    BY <1>3, <2>1 DEF Column
  <2>7. taken = {} => \A c \in Column : IsBound(c) => ~r[c].warns
    BY <2>2, <2>6 DEF WarningsTaken
  <2>8. ~truncated => \A c \in Column : IsBound(c) => Left(ReadBound(r, c)) = "whole"
    <3>1. \A c \in Column : IsBound(c) => ReadBound(r, c).state \in {"00000", "01004"}
      BY <1>4 DEF Stops
    <3>. QED  BY <2>2, <3>1 DEF Left
  <2>. HIDE DEF taken, stopped, reached, stop, truncated
  <2>9. /\ report' = [rows |-> 1, status |-> IF truncated \/ taken # {}
                                             THEN "SUCCESS_WITH_INFO" ELSE "SUCCESS"]
        /\ Answer(op, 0, IF truncated THEN "01004" ELSE "00000", Cardinality(taken))
        /\ pending' = (pending /\ reached = {})
    BY <1>1, <1>4
  <2>10. Fits'
    <3>1. "01S07" \in Listed(op) /\ "01004" \in Listed(op)
      BY <1>2 DEF FetchState
    <3> DEFINE state == IF truncated THEN "01004" ELSE "00000"
    <3>2. state \in {"00000", "01004"} /\ Answer(op, 0, state, Cardinality(taken))
      BY <2>9
    <3>. HIDE DEF state
    <3>. QED  BY <2>4, <3>1, <3>2, AnswerFits
  <2>11. /\ last'.op = op
         /\ last'.ret = ReturnOf(IF truncated THEN "01004" ELSE "00000", Cardinality(taken))
    BY <2>4, <2>9, RecordsAre
  <2>12. last'.ret # "NO_DATA" /\ (last'.ret = "SUCCESS" => ~truncated /\ taken = {})
    BY <2>4, <2>5, <2>11 DEF ReturnOf, Return
  <2>13. last'.ret = "SUCCESS" => RowArrived'
    <3>1. SUFFICES ASSUME ~truncated, taken = {} PROVE RowArrived'
      BY <2>12
    <3>2. report' = [rows |-> 1, status |-> "SUCCESS"]
      BY <2>9, <3>1
    <3>3. \A c \in Column : IsBound(c) => memory'[c] = "whole" /\ ~row'[c].warns
      BY <1>1, <2>2, <2>7, <2>8, <3>1
    <3>. QED  BY <3>2, <3>3 DEF RowArrived, IsBound
  <2>. QED  BY <1>1, <2>9, <2>10, <2>11, <2>12, <2>13 DEF TypeOK
<1>5. CASE stopped # {}
  <2>1. stop \in stopped
    BY <1>5, MinIn
  <2>2. stop \in Column /\ IsBound(stop) /\ Stops(ReadBound(r, stop))
    BY <2>1
  <2>. HIDE DEF stopped, stop, reached, taken, truncated
  <2>3. ReadBound(r, stop).state \in FetchState
    BY <2>2, BoundState DEF Stops
  <2>4. /\ Answer(op, stop, ReadBound(r, stop).state, 0)
        /\ pending' = (r[stop].warns \/ (pending /\ stop = Min(reached)))
    BY <1>1, <1>5
  <2>5. Fits'
    BY <1>2, <2>3, <2>4, AnswerFits
  <2>6. last'.op = op /\ last'.ret \notin {"NO_DATA", "SUCCESS"}
    BY <2>3, <2>4, RecordsAre DEF ReturnOf, Return, FetchState
  <2>7. pending' \in BOOLEAN
    BY <2>4, Zenon DEF TypeOK
  <2>. QED  BY <1>1, <2>5, <2>6, <2>7
<1>. QED  BY <1>4, <1>5

(***************************************************************************)
(* Whatever fetches, whatever else is called.                              *)
(***************************************************************************)
LEMMA ErrorFits ==
  ASSUME NEW op \in {"Fetch", "FetchScroll", "ExtendedFetch"},
         NEW state \in {"HY010", "24000", "HY000", "HY106"}, state \in Listed(op), Answer(op, 0, state, 0)
  PROVE  Fits' /\ last'.op = op /\ last'.ret \notin {"SUCCESS", "NO_DATA"}
<1>1. Fits'
  BY AnswerFits
<1>2. last'.op = op /\ last'.ret = ReturnOf(state, 0)
  BY RecordsAre
<1>. QED  BY <1>1, <1>2 DEF ReturnOf, Return

LEMMA FetchKeeps ==
  ASSUME TypeOK, Assembled, NEW op \in {"Fetch", "FetchScroll", "ExtendedFetch"},
         FetchWithReport(op) \/ (op # "Fetch" /\ FetchElsewhere(op))
  PROVE  (TypeOK /\ Assembled /\ ReturnTellsWhatArrived)'
<1>1. /\ "HY010" \in Listed(op) /\ "24000" \in Listed(op) /\ "HY000" \in Listed(op)
      /\ op # "Fetch" => "HY106" \in Listed(op)
  BY ListedWhereRead DEF FetchState
<1>2. SUFFICES /\ TypeOK' /\ Assembled' /\ Fits' /\ last'.op = op
               /\ last'.ret = "SUCCESS" => RowArrived'
  BY DEF ReturnTellsWhatArrived, Fits, RowArrived
<1>3. CASE \E state \in {"HY010", "24000", "HY106"} :
             /\ Answer(op, 0, state, 0) /\ state \in Listed(op)
             /\ UNCHANGED <<open, row, pending, bound, position, given>>
  <2>1. PICK state \in {"HY010", "24000", "HY106"} :
             /\ Answer(op, 0, state, 0) /\ state \in Listed(op)
             /\ UNCHANGED <<open, row, pending, bound, position, given>>
    BY <1>3
  <2>2. Fits' /\ last'.op = op /\ last'.ret \notin {"SUCCESS", "NO_DATA"}
    BY <2>1, ErrorFits
  <2>3. Assembled'
    BY <2>1, LeaveKeeps
  <2>4. TypeOK'
    BY <2>1 DEF TypeOK
  <2>. QED  BY <2>2, <2>3, <2>4
<1>4. CASE /\ position' = NoPosition /\ given' = Nothing
           /\ \/ \E r \in Rows : FetchRow(op, r)
              \/ row' = NoRow /\ AnswerNoData(op, 0) /\ UNCHANGED pending
              \/ row' = NoRow /\ Answer(op, 0, "HY000", 0) /\ UNCHANGED pending
           /\ UNCHANGED <<open, bound>>
  <2>1. Assembled'
    BY <1>4, ForgetKeeps
  <2>2. row' \in Rows \cup {NoRow} /\ pending' \in BOOLEAN => TypeOK'
    BY <1>4 DEF TypeOK
  <2>3. CASE \E r \in Rows : FetchRow(op, r)
    <3>1. PICK r \in Rows : FetchRow(op, r)
      BY <2>3
    <3>2. /\ Fits' /\ last'.op = op /\ (last'.ret = "SUCCESS" => RowArrived')
          /\ row' \in Rows /\ pending' \in BOOLEAN
      BY <1>4, <3>1, FetchRowTells
    <3>. QED  BY <2>1, <2>2, <3>2
  <2>4. CASE row' = NoRow /\ AnswerNoData(op, 0) /\ UNCHANGED pending
    <3>1. Fits' /\ last'.op = op /\ last'.ret = "NO_DATA"
      BY <2>4, NoDataFits
    <3>2. TypeOK'
      BY <2>2, <2>4 DEF TypeOK
    <3>. QED  BY <2>1, <3>1, <3>2
  <2>5. CASE row' = NoRow /\ Answer(op, 0, "HY000", 0) /\ UNCHANGED pending
    <3>1. Fits' /\ last'.op = op /\ last'.ret \notin {"SUCCESS", "NO_DATA"}
      BY <1>1, <2>5, ErrorFits
    <3>2. TypeOK'
      BY <2>2, <2>5 DEF TypeOK
    <3>. QED  BY <2>1, <3>1, <3>2
  <2>. QED  BY <1>4, <2>3, <2>4, <2>5
<1>5. \/ /\ \E state \in {"HY010", "24000"} : Answer(op, 0, state, 0)
         /\ UNCHANGED <<open, row, pending, bound, position, given>>
      \/ /\ position' = NoPosition /\ given' = Nothing
         /\ \/ \E r \in Rows : FetchRow(op, r)
            \/ row' = NoRow /\ AnswerNoData(op, 0) /\ UNCHANGED pending
            \/ row' = NoRow /\ Answer(op, 0, "HY000", 0) /\ UNCHANGED pending
         /\ UNCHANGED <<open, bound>>
      \/ /\ op # "Fetch" /\ Answer(op, 0, "HY106", 0)
         /\ UNCHANGED <<open, row, pending, bound, position, given>>
  BY Zenon DEF FetchWithReport, FetchElsewhere
<1>. QED  BY <1>1, <1>3, <1>4, <1>5

LEMMA PlainCallTells ==
  ASSUME NEW op \in {"BindCol", "ExecDirect", "CloseCursor"}, Answer(op, 0, "00000", 0)
  PROVE  ReturnTellsWhatArrived'
<1>1. Fits'
  BY AnswerFits
<1>2. last'.op = op
  BY RecordsAre
<1>. QED  BY <1>1, <1>2 DEF Fits, ReturnTellsWhatArrived

-----------------------------------------------------------------------------
LEMMA InitKeeps == Init => IInv
<1>. SUFFICES ASSUME Init PROVE IInv
  OBVIOUS
<1>1. TypeOK
  BY DEF Init, TypeOK
<1>2. Assembled
  BY DEF Init, Assembled, NoPosition, Nothing
<1>3. /\ last.op = "none" /\ last.ret = "SUCCESS" /\ last.diagnostics = <<>>
  BY DEF Init
<1>4. Records = {}
  BY <1>3 DEF Records
<1>5. ReturnTellsWhatArrived
  BY <1>3, <1>4 DEF ReturnTellsWhatArrived
<1>. QED  BY <1>1, <1>2, <1>5 DEF IInv

LEMMA NextKeeps == IInv /\ [Next]_vars => IInv'
<1>. SUFFICES ASSUME IInv, [Next]_vars PROVE IInv'
  OBVIOUS
<1>0. TypeOK /\ Assembled /\ ReturnTellsWhatArrived
  BY DEF IInv
<1>1. ASSUME NEW b \in Bindings, BindColumns(b) PROVE IInv'
  <2>1. /\ bound' = b /\ Answer("BindCol", 0, "00000", 0)
        /\ UNCHANGED <<open, row, pending, position, given>>
    BY <1>1 DEF BindColumns
  <2>2. TypeOK'
    BY <1>0, <2>1 DEF TypeOK
  <2>3. Assembled'
    BY <1>0, <2>1, LeaveKeeps
  <2>. QED  BY <2>1, <2>2, <2>3, PlainCallTells DEF IInv
<1>2. ASSUME ExecDirect \/ CloseCursor PROVE IInv'
  <2>1. /\ open' \in BOOLEAN /\ row' = NoRow /\ position' = NoPosition /\ given' = Nothing
        /\ pending' = FALSE /\ bound' = bound
        /\ Answer("ExecDirect", 0, "00000", 0) \/ Answer("CloseCursor", 0, "00000", 0)
    BY <1>2 DEF ExecDirect, CloseCursor
  <2>2. TypeOK'
    BY <1>0, <2>1 DEF TypeOK
  <2>3. Assembled'
    BY <2>1, ForgetKeeps
  <2>. QED  BY <2>1, <2>2, <2>3, PlainCallTells DEF IInv
<1>3. ASSUME Fetch \/ FetchScroll \/ ExtendedFetch PROVE IInv'
  <2>1. \E op \in {"Fetch", "FetchScroll", "ExtendedFetch"} :
          FetchWithReport(op) \/ (op # "Fetch" /\ FetchElsewhere(op))
    BY <1>3 DEF Fetch, FetchScroll, ExtendedFetch
  <2>. QED  BY <1>0, <2>1, FetchKeeps DEF IInv
<1>4. ASSUME NEW q \in Requests, GetData(q[1], q[2], q[3], q[4]) PROVE IInv'
  <2>1. /\ q[1] \in Nat /\ q[2] \in CType \cup {"default", "unknown"}
        /\ q[3] \in Int /\ q[4] \in BOOLEAN
    BY RequestsAssumption
  <2>2. TypeOK' /\ Assembled' /\ Gives(q[1])
    BY <1>0, <1>4, <2>1, GetDataKeeps
  <2>. QED  BY <2>2, GetDataTells DEF IInv
<1>5. CASE UNCHANGED vars
  <2>1. TypeOK'
    BY <1>0, <1>5 DEF TypeOK, vars
  <2>2. Assembled'
    BY <1>0, <1>5, LeaveKeeps DEF vars
  <2>3. ReturnTellsWhatArrived'
    BY <1>0, <1>5 DEF ReturnTellsWhatArrived, vars, Records, Reading, HasAll, IsBound
  <2>. QED  BY <2>1, <2>2, <2>3 DEF IInv
<1>. QED  BY <1>1, <1>2, <1>3, <1>4, <1>5 DEF Next

\* In every state the program can reach, what it keeps and what it has given
\* belong together.
LEMMA Inductive == Spec => []IInv
BY InitKeeps, NextKeeps, PTL DEF Spec

LEMMA InvariantAssembles == IInv => PartsAssemble
<1>. SUFFICES ASSUME IInv, Reading
              PROVE  /\ given.units = [i \in 1 .. Len(given.units) |-> i]
                     /\ row # NoRow /\ given.value = row[given.column]
                     /\ WholeDigitsKept
  BY DEF PartsAssemble
<1>1. TypeOK /\ Assembled /\ given # Nothing /\ given.c # "mixed"
  BY DEF IInv, Reading
<1>2. given \in Given /\ given.column = position.column
  BY <1>1 DEF TypeOK, Assembled
<1>3. position # NoPosition
  BY <1>2, ColumnsAssumption DEF Given, NoPosition, Column
<1>4. position \in Position /\ row # NoRow /\ Agree(position, given, row)
  BY <1>1, <1>3 DEF TypeOK, Assembled
<1>5. position.delivered \in Nat /\ given.units = [i \in 1 .. position.delivered |-> i]
  BY <1>4 DEF Position, Agree
<1>6. Len(given.units) = position.delivered
  BY <1>5
<1>7. HasWhole(given.value, given.c, position.delivered)
  BY <1>1, <1>4 DEF Agree, IsPart
<1>8. WholeDigitsKept
  BY <1>6, <1>7 DEF WholeDigitsKept, HasWhole
<1>9. given.value = row[given.column]
  BY <1>2, <1>4 DEF Agree
<1>. QED  BY <1>4, <1>5, <1>6, <1>8, <1>9

-----------------------------------------------------------------------------
\* Whatever the result set, the bindings and the requests are, the position
\* SQLGetData keeps and the records SQLFetch reads keep their types.
THEOREM TypeCorrect == Spec => []TypeOK
BY Inductive, PTL DEF IInv

\* The parts SQLGetData returns of a column are, one after the other, the
\* beginning of the value the current row has there: however the application
\* orders its calls, mixes columns, C types, buffer lengths and fetches, no unit
\* comes twice, is left out, or is of another column or an earlier row, and the
\* digits of a whole part are never what a short buffer cuts.
THEOREM PartsAlwaysAssemble == Spec => []PartsAssemble
BY Inductive, InvariantAssembles, PTL

\* What a call returns tells what the application has: SQL_NO_DATA only after
\* the last unit of the column, SQL_SUCCESS only when every bound column arrived
\* whole or the column read is all there, no warning of the backend untold, and
\* records that are the warnings or the error the return stands for, each of a
\* SQLSTATE listed for the function.
THEOREM ReturnAlwaysTells == Spec => []ReturnTellsWhatArrived
BY Inductive, PTL DEF IInv

=============================================================================
