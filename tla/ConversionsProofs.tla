-------------------------- MODULE ConversionsProofs --------------------------
(***************************************************************************)
(* Proofs about a value's way in and out, for every parameter, column and  *)
(* target, and for every width of the integers.  Made says what each       *)
(* variable was made from; the properties then follow from what the two    *)
(* tables of conversions do, one lemma for each way through a table: what  *)
(* a conversion delivers of a value (Delivers, CountDelivered, Carries)    *)
(* and what it sends of one (SentNumber, SentText, SentAs).  Powers of ten *)
(* are a recursive function, whose existence is proved first.              *)
(***************************************************************************)
EXTENDS Conversions, WellFoundedInduction, TLAPS

-----------------------------------------------------------------------------
(***************************************************************************)
(* The natural numbers: every set of them has a least, and one that has 0  *)
(* and every successor has them all.                                       *)
(***************************************************************************)
LEMMA Smallest ==
  ASSUME NEW T, T \subseteq Nat, T # {}
  PROVE  \E x \in T : \A y \in T : x <= y
<1>. DEFINE Below == OpToRel(<, Nat)
<1>1. \E x \in T : \A y \in T : ~ (<<y, x>> \in Below)
  BY NatLessThanWellFounded, WFMin, Zenon
<1>2. \A x, y \in Nat : <<y, x>> \in Below <=> y < x
  BY DEF OpToRel
<1>. HIDE DEF Below
<1>3. \A x, y \in Nat : ~ (y < x) <=> x <= y
  OBVIOUS
<1>. QED  BY <1>1, <1>2, <1>3, Zenon

\* Induction over a set of naturals.
LEMMA Induction ==
  ASSUME NEW S, 0 \in S, \A k \in Nat : k \in S => k + 1 \in S
  PROVE  Nat \subseteq S
<1>. DEFINE T == Nat \ S
<1>1. SUFFICES ASSUME T # {}  PROVE FALSE
  OBVIOUS
<1>2. PICK x \in T : \A y \in T : x <= y
  BY <1>1, Smallest
<1>3. x # 0 /\ x \in Nat
  OBVIOUS
<1>4. x - 1 \in Nat /\ x - 1 \notin T
  BY <1>2, <1>3
<1>. QED  BY <1>3, <1>4

(***************************************************************************)
(* The powers of ten up to n, as a function: there is one, and only one.   *)
(***************************************************************************)
Powers(g, n) ==
  /\ g \in [0 .. n -> Nat \ {0}]
  /\ \A k \in 0 .. n : g[k] = IF k = 0 THEN 1 ELSE 10 * g[k - 1]

LEMMA PowersExist == \A n \in Nat : \E g : Powers(g, n)
<1>. DEFINE S == {n \in Nat : \E g : Powers(g, n)}
<1>1. 0 \in S
  <2>1. Powers([k \in 0 .. 0 |-> 1], 0)
    BY DEF Powers
  <2>. QED  BY <2>1
<1>2. ASSUME NEW n \in Nat, n \in S  PROVE n + 1 \in S
  <2>1. PICK g : Powers(g, n)
    BY <1>2
  <2>. DEFINE h == [k \in 0 .. n + 1 |-> IF k = n + 1 THEN 10 * g[n] ELSE g[k]]
  <2>2. g[n] \in Nat \ {0} /\ \A k \in 0 .. n : g[k] \in Nat \ {0}
    BY <2>1 DEF Powers
  <2>3. h \in [0 .. n + 1 -> Nat \ {0}]
    BY <2>2
  <2>4. ASSUME NEW k \in 0 .. n + 1  PROVE h[k] = IF k = 0 THEN 1 ELSE 10 * h[k - 1]
    <3>1. CASE k = n + 1
      BY <3>1
    <3>2. CASE k \in 0 .. n
      BY <2>1, <3>2 DEF Powers
    <3>. QED  BY <3>1, <3>2
  <2>5. Powers(h, n + 1)
    <3>. HIDE DEF h
    <3>. QED  BY <2>3, <2>4 DEF Powers
  <2>. QED  BY <2>5
<1>3. Nat \subseteq S
  <2>. HIDE DEF S
  <2>. QED  BY <1>1, <1>2, Induction
<1>. QED  BY <1>3

LEMMA PowersAgree ==
  ASSUME NEW m \in Nat, NEW n \in Nat, NEW g, NEW h, Powers(g, m), Powers(h, n)
  PROVE  \A k \in Nat : k <= m /\ k <= n => g[k] = h[k]
<1>. DEFINE S == {k \in Nat : k <= m /\ k <= n => g[k] = h[k]}
<1>1. 0 \in S
  BY DEF Powers
<1>2. ASSUME NEW k \in Nat, k \in S  PROVE k + 1 \in S
  <2>1. SUFFICES ASSUME k + 1 <= m, k + 1 <= n  PROVE g[k + 1] = h[k + 1]
    OBVIOUS
  <2>2. g[k + 1] = 10 * g[k] /\ h[k + 1] = 10 * h[k]
    BY <2>1 DEF Powers
  <2>3. g[k] = h[k]
    BY <1>2, <2>1
  <2>. QED  BY <2>2, <2>3
<1>3. Nat \subseteq S
  <2>. HIDE DEF S
  <2>. QED  BY <1>1, <1>2, Induction
<1>. QED  BY <1>3

LEMMA PowerOfTenIs ==
  /\ PowerOfTen \in [Nat -> Nat \ {0}]
  /\ \A k \in Nat : PowerOfTen[k] = IF k = 0 THEN 1 ELSE 10 * PowerOfTen[k - 1]
<1>. DEFINE Up(n) == CHOOSE g : Powers(g, n)
            f == [k \in Nat |-> Up(k)[k]]
<1>1. \A n \in Nat : Powers(Up(n), n)
  BY PowersExist
<1>. HIDE DEF Up
<1>2. f \in [Nat -> Nat \ {0}]
  BY <1>1 DEF Powers
<1>3. ASSUME NEW k \in Nat  PROVE f[k] = IF k = 0 THEN 1 ELSE 10 * f[k - 1]
  <2>1. CASE k = 0
    BY <1>1, <2>1 DEF Powers
  <2>2. CASE k # 0
    <3>1. k - 1 \in Nat
      BY <2>2
    <3>2. Up(k)[k] = 10 * Up(k)[k - 1]
      BY <1>1, <2>2 DEF Powers
    <3>3. Up(k)[k - 1] = Up(k - 1)[k - 1]
      BY <1>1, <3>1, PowersAgree
    <3>. QED  BY <2>2, <3>1, <3>2, <3>3
  <2>. QED  BY <2>1, <2>2
<1>4. f = [k \in Nat |-> IF k = 0 THEN 1 ELSE 10 * f[k - 1]]
  BY <1>2, <1>3
<1>. HIDE DEF f
<1>5. PowerOfTen = [k \in Nat |-> IF k = 0 THEN 1 ELSE 10 * PowerOfTen[k - 1]]
  BY <1>4, Zenon DEF PowerOfTen
<1>6. \A k \in Nat : PowerOfTen[k] = IF k = 0 THEN 1 ELSE 10 * PowerOfTen[k - 1]
  BY <1>5
<1>. DEFINE S == {k \in Nat : PowerOfTen[k] \in Nat \ {0}}
<1>7. 0 \in S
  BY <1>6
<1>8. ASSUME NEW k \in Nat, k \in S  PROVE k + 1 \in S
  <2>1. PowerOfTen[k + 1] = 10 * PowerOfTen[k]
    BY <1>6
  <2>. QED  BY <1>8, <2>1
<1>9. Nat \subseteq S
  <2>. HIDE DEF S
  <2>. QED  BY <1>7, <1>8, Induction
<1>. QED  BY <1>5, <1>6, <1>9

-----------------------------------------------------------------------------
(***************************************************************************)
(* Division, and truncation toward zero.                                   *)
(***************************************************************************)
LEMMA Quotient ==
  ASSUME NEW m \in Int, NEW s \in Nat \ {0}
  PROVE  /\ m \div s \in Int /\ (m \div s) * s \in Int
         /\ m \in Nat => m \div s \in Nat /\ (m \div s) * s \in Nat
         /\ (m \div s) * s <= m /\ m < (m \div s) * s + s
         /\ m % s = m - (m \div s) * s
<1>. DEFINE q == m \div s
            r == m % s
<1>1. q \in Int /\ r \in 0 .. s - 1 /\ m = s * q + r
  BY Z3
<1>2. m \in Nat => q \in Nat
  BY Z3
<1>. HIDE DEF q, r
<1>3. s * q = q * s /\ q * s \in Int
  BY <1>1, Z3
<1>4. q \in Nat => q * s \in Nat
  BY <1>1, Z3
<1>5. q * s <= m /\ m < q * s + s /\ r = m - q * s
  BY <1>1, <1>3
<1>. QED  BY <1>1, <1>2, <1>3, <1>4, <1>5 DEF q, r

LEMMA MultipleOf ==
  ASSUME NEW q \in Int, NEW s \in Nat \ {0}
  PROVE  (q * s) \div s = q /\ (q * s) % s = 0 /\ q * s \in Int
<1>. DEFINE m == q * s
            p == m \div s
<1>1. m \in Int
  BY Z3
<1>2. p \in Int /\ p * s \in Int /\ p * s <= m /\ m < p * s + s /\ m % s = m - p * s
  BY <1>1, Quotient
<1>. HIDE DEF p
<1>3. ASSUME p < q  PROVE FALSE
  <2>1. p + 1 <= q /\ (p + 1) * s = p * s + s
    BY <1>2, <1>3, Z3
  <2>2. (p + 1) * s <= q * s
    BY <1>2, <2>1, Z3
  <2>. QED  BY <1>1, <1>2, <2>1, <2>2
<1>4. ASSUME q < p  PROVE FALSE
  <2>1. q + 1 <= p /\ (q + 1) * s = q * s + s
    BY <1>2, <1>4, Z3
  <2>2. (q + 1) * s <= p * s
    BY <1>2, <2>1, Z3
  <2>. QED  BY <1>1, <1>2, <2>1, <2>2
<1>5. p = q
  BY <1>2, <1>3, <1>4
<1>. QED  BY <1>1, <1>2, <1>5 DEF p

LEMMA KeptIs ==
  ASSUME NEW n \in Int, NEW s \in Nat \ {0}
  PROVE  /\ Kept(n, s) \in Int
         /\ TowardZero(n, Kept(n, s), s)
         /\ n % s = 0 => Kept(n, s) = n
         /\ (Kept(n, s) \div s) * s = Kept(n, s) /\ Kept(n, s) \div s \in Int
<1>. DEFINE m == Magnitude(n)
            q == m \div s
<1>1. m \in Nat /\ m = IF n < 0 THEN -n ELSE n
  BY DEF Magnitude
<1>. HIDE DEF m
<1>2. q \in Nat /\ q * s \in Nat /\ q * s <= m /\ m < q * s + s /\ m % s = m - q * s
  <2>1. m \in Int /\ m \in Nat
    BY <1>1
  <2>. QED  BY <2>1, Quotient
<1>3. Kept(n, s) = IF n < 0 THEN -(q * s) ELSE q * s
  BY <1>1 DEF Kept, q
<1>. HIDE DEF q
<1>4. Magnitude(Kept(n, s)) = q * s
  BY <1>2, <1>3 DEF Magnitude
<1>5. Magnitude(n) = m
  BY <1>1 DEF Magnitude
<1>6. TowardZero(n, Kept(n, s), s)
  BY <1>1, <1>2, <1>3, <1>4, <1>5 DEF TowardZero
<1>7. ASSUME n % s = 0  PROVE m % s = 0
  <2>. DEFINE k == n \div s
  <2>1. k \in Int /\ n = k * s
    BY <1>7, Quotient
  <2>. HIDE DEF k
  <2>2. -k \in Int /\ (-k) * s = -n
    BY <2>1, Z3
  <2>3. (-n) % s = 0
    BY <2>2, MultipleOf
  <2>. QED  BY <1>1, <1>7, <2>3
<1>8. n % s = 0 => Kept(n, s) = n
  BY <1>1, <1>2, <1>3, <1>7
<1>9. -q \in Int /\ (-q) * s = -(q * s)
  BY <1>2, Z3
<1>10. (-(q * s)) \div s = -q /\ (q * s) \div s = q
  BY <1>2, <1>9, MultipleOf
<1>11. (Kept(n, s) \div s) * s = Kept(n, s) /\ Kept(n, s) \div s \in Int
  <2>1. CASE n < 0
    <3>1. Kept(n, s) = -(q * s) /\ Kept(n, s) \div s = -q
      BY <1>3, <1>10, <2>1
    <3>. QED  BY <1>9, <3>1
  <2>2. CASE ~(n < 0)
    <3>1. Kept(n, s) = q * s /\ Kept(n, s) \div s = q
      BY <1>3, <1>10, <2>2
    <3>. QED  BY <1>2, <3>1
  <2>. QED  BY <2>1, <2>2
<1>. QED  BY <1>2, <1>3, <1>6, <1>8, <1>11

\* Truncating to tens first changes nothing for a coarser step.
LEMMA KeptTwice ==
  ASSUME NEW n \in Int, NEW t \in Nat \ {0}
  PROVE  /\ 10 * t \in Nat \ {0}
         /\ Kept(Kept(n, 10), 10 * t) = Kept(n, 10 * t)
         /\ Kept(n, 10) % 10 = 0
         /\ Kept(n, 10) % 10 = 0 => Kept(Kept(n, 10), 10) = Kept(n, 10)
<1>. DEFINE m == Magnitude(n)
            a == m \div 10
            s == 10 * t
            b == a \div t
<1>1. m \in Nat /\ m = IF n < 0 THEN -n ELSE n
  BY DEF Magnitude
<1>2. s \in Nat \ {0}
  BY Z3
<1>. HIDE DEF m
<1>3. a \in Nat /\ a * 10 <= m /\ m < a * 10 + 10
  BY <1>1
<1>4. Kept(n, 10) = IF n < 0 THEN -(a * 10) ELSE a * 10
  BY <1>1 DEF Kept
<1>. HIDE DEF a
<1>5. b \in Nat /\ b * t \in Nat /\ b * t <= a /\ a < b * t + t
  <2>1. a \in Int /\ a \in Nat
    BY <1>3
  <2>. QED  BY <2>1, Quotient
<1>. HIDE DEF b
<1>6. b * s = 10 * (b * t) /\ b * s \in Nat
  BY <1>5, Z3
<1>7. b * s <= a * 10 /\ a * 10 < b * s + s
  BY <1>3, <1>5, <1>6
<1>8. b * s <= m /\ m < b * s + s
  BY <1>1, <1>3, <1>5, <1>6
<1>. HIDE DEF s
<1>9. ASSUME NEW x \in Nat, b * s <= x, x < b * s + s  PROVE x \div s = b
  <2>. DEFINE q == x \div s
  <2>1. q \in Nat /\ q * s \in Nat /\ q * s <= x /\ x < q * s + s
    BY <1>2, Quotient
  <2>. HIDE DEF q
  <2>2. ASSUME q < b  PROVE FALSE
    <3>1. q + 1 <= b /\ (q + 1) * s = q * s + s
      BY <1>2, <1>5, <2>1, <2>2, Z3
    <3>2. (q + 1) * s <= b * s
      BY <1>2, <1>5, <2>1, <3>1, Z3
    <3>. QED  BY <1>9, <1>2, <1>6, <2>1, <3>1, <3>2
  <2>3. ASSUME b < q  PROVE FALSE
    <3>1. b + 1 <= q /\ (b + 1) * s = b * s + s
      BY <1>2, <1>5, <2>1, <2>3, Z3
    <3>2. (b + 1) * s <= q * s
      BY <1>2, <1>5, <2>1, <3>1, Z3
    <3>. QED  BY <1>9, <1>2, <1>6, <2>1, <3>1, <3>2
  <2>. QED  BY <1>5, <2>1, <2>2, <2>3 DEF q
<1>10. m \div s = b /\ (a * 10) \div s = b
  BY <1>1, <1>3, <1>7, <1>8, <1>9
<1>11. Kept(n, s) = IF n < 0 THEN -(b * s) ELSE b * s
  BY <1>1, <1>10 DEF Kept
<1>12. Kept(Kept(n, 10), s) = IF n < 0 THEN -(b * s) ELSE b * s
  <2>1. CASE n < 0 /\ a # 0
    <3>1. Kept(n, 10) < 0 /\ -Kept(n, 10) = a * 10
      BY <1>3, <1>4, <2>1
    <3>. QED  BY <1>10, <2>1, <3>1 DEF Kept
  <2>2. CASE n < 0 /\ a = 0
    <3>1. Kept(n, 10) = 0 /\ a * 10 = 0
      BY <1>3, <1>4, <2>2
    <3>2. b * s = 0
      BY <1>5, <1>6, <2>2
    <3>. QED  BY <1>10, <2>2, <3>1, <3>2 DEF Kept
  <2>3. CASE ~(n < 0)
    <3>1. Kept(n, 10) = a * 10 /\ ~(Kept(n, 10) < 0)
      BY <1>3, <1>4, <2>3
    <3>. QED  BY <1>10, <2>3, <3>1 DEF Kept
  <2>. QED  BY <2>1, <2>2, <2>3
<1>13. Kept(n, 10) % 10 = 0
  BY <1>3, <1>4
<1>14. Kept(n, 10) \in Int
  BY <1>3, <1>4
<1>15. Kept(Kept(n, 10), 10) = Kept(n, 10)
  BY <1>13, <1>14, KeptIs
<1>. QED  BY <1>2, <1>11, <1>12, <1>13, <1>15 DEF s

LEMMA WholeIs ==
  ASSUME NEW n \in Int
  PROVE  /\ Whole(n) \in Int
         /\ WholePart(n) \in Int
         /\ WholePart(n) = One * Whole(n)
         /\ WholePart(n) % One = 0
         /\ n % One = 0 <=> WholePart(n) = n
<1>1. Whole(n) \in Int /\ WholePart(n) = 10 * Whole(n)
  BY DEF Whole, WholePart, Kept, One
<1>2. n % 10 = 0 <=> WholePart(n) = n
  BY DEF WholePart, Kept, One
<1>. QED  BY <1>1, <1>2 DEF One

-----------------------------------------------------------------------------
(***************************************************************************)
(* Values as records, and what each kind of them is.                       *)
(***************************************************************************)
SendStates == {"00000", "01S07", "07006", "22001", "22003", "22007", "22008", "22015", "22018",
               "HY090"}
Sends(o) == o.state \in SendStates /\ (IsRefused(o) \/ IsColumnValue(o.data))

LEMMA BlankIs ==
  /\ Blank = [kind |-> "Null", n |-> 0, date |-> 0, time |-> 0, fraction |-> 0,
              form |-> "none", unit |-> "none"]
  /\ IsData(Blank)
  /\ Nothing = [kind |-> "Nothing", n |-> 0, date |-> 0, time |-> 0, fraction |-> 0,
                form |-> "none", unit |-> "none"]
  /\ IsData(Nothing)
  /\ Blank # Nothing
<1>1. Blank = [kind |-> "Null", n |-> 0, date |-> 0, time |-> 0, fraction |-> 0,
              form |-> "none", unit |-> "none"]
  BY DEF Blank
<1>2. Nothing = [Blank EXCEPT !.kind = "Nothing"]
  BY DEF Nothing
<1>3. Nothing = [kind |-> "Nothing", n |-> 0, date |-> 0, time |-> 0, fraction |-> 0,
                form |-> "none", unit |-> "none"]
  BY <1>1, <1>2
<1>. QED  BY <1>1, <1>3 DEF IsData

LEMMA NumberIs ==
  ASSUME NEW kind, NEW n \in Int
  PROVE  /\ Number(kind, n) = [kind |-> kind, n |-> n, date |-> 0, time |-> 0, fraction |-> 0,
                               form |-> "none", unit |-> "none"]
         /\ IsData(Number(kind, n))
<1>. DEFINE v1 == [Blank EXCEPT !.kind = kind]
<1>1. v1 = [kind |-> kind, n |-> 0, date |-> 0, time |-> 0,
          fraction |-> 0, form |-> "none", unit |-> "none"]
  BY BlankIs
<1>. HIDE DEF v1
<1>. DEFINE v2 == [v1 EXCEPT !.n = n]
<1>2. v2 = [kind |-> kind, n |-> n, date |-> 0, time |-> 0,
          fraction |-> 0, form |-> "none", unit |-> "none"]
  BY <1>1
<1>3. Number(kind, n) = v2
  BY DEF Number, v1
<1>. QED  BY <1>2, <1>3 DEF IsData

LEMMA DatetimeIs ==
  ASSUME NEW kind, NEW d \in Nat, NEW t \in Nat, NEW f \in Nat
  PROVE  /\ Datetime(kind, d, t, f) = [kind |-> kind, n |-> 0, date |-> d, time |-> t, fraction |-> f,
                               form |-> "none", unit |-> "none"]
         /\ IsData(Datetime(kind, d, t, f))
<1>. DEFINE v1 == [Blank EXCEPT !.kind = kind]
<1>1. v1 = [kind |-> kind, n |-> 0, date |-> 0, time |-> 0,
          fraction |-> 0, form |-> "none", unit |-> "none"]
  BY BlankIs
<1>. HIDE DEF v1
<1>. DEFINE v2 == [v1 EXCEPT !.date = d]
<1>2. v2 = [kind |-> kind, n |-> 0, date |-> d, time |-> 0,
          fraction |-> 0, form |-> "none", unit |-> "none"]
  BY <1>1
<1>. HIDE DEF v2
<1>. DEFINE v3 == [v2 EXCEPT !.time = t]
<1>3. v3 = [kind |-> kind, n |-> 0, date |-> d, time |-> t,
          fraction |-> 0, form |-> "none", unit |-> "none"]
  BY <1>2
<1>. HIDE DEF v3
<1>. DEFINE v4 == [v3 EXCEPT !.fraction = f]
<1>4. v4 = [kind |-> kind, n |-> 0, date |-> d, time |-> t,
          fraction |-> f, form |-> "none", unit |-> "none"]
  BY <1>3
<1>5. Datetime(kind, d, t, f) = v4
  BY DEF Datetime, v1, v2, v3
<1>. QED  BY <1>4, <1>5 DEF IsData

LEMMA IntervalIs ==
  ASSUME NEW unit, NEW n \in Int
  PROVE  /\ Interval(unit, n) = [kind |-> "Interval", n |-> n, date |-> 0, time |-> 0, fraction |-> 0,
                               form |-> "none", unit |-> unit]
         /\ IsData(Interval(unit, n))
<1>. DEFINE v1 == [Blank EXCEPT !.kind = "Interval"]
<1>1. v1 = [kind |-> "Interval", n |-> 0, date |-> 0, time |-> 0,
          fraction |-> 0, form |-> "none", unit |-> "none"]
  BY BlankIs
<1>. HIDE DEF v1
<1>. DEFINE v2 == [v1 EXCEPT !.unit = unit]
<1>2. v2 = [kind |-> "Interval", n |-> 0, date |-> 0, time |-> 0,
          fraction |-> 0, form |-> "none", unit |-> unit]
  BY <1>1
<1>. HIDE DEF v2
<1>. DEFINE v3 == [v2 EXCEPT !.n = n]
<1>3. v3 = [kind |-> "Interval", n |-> n, date |-> 0, time |-> 0,
          fraction |-> 0, form |-> "none", unit |-> unit]
  BY <1>2
<1>4. Interval(unit, n) = v3
  BY DEF Interval, v1, v2
<1>. QED  BY <1>3, <1>4 DEF IsData

LEMMA NumericKinds ==
  NumericKind = {"I8", "I16", "I32", "I64", "F32", "F64", "Bool", "Decimal"}
BY DEF NumericKind, IntegerKind

LEMMA SqlIntegers == DOMAIN SqlInteger = {"tinyint", "smallint", "integer", "bigint"}
  /\ \A sql \in DOMAIN SqlInteger : SqlInteger[sql] \in {"I8", "I16", "I32", "I64"}
BY DEF SqlInteger

LEMMA NumberIsValue ==
  ASSUME NEW kind \in NumericKind, NEW n \in Int, kind = "Bool" => n \in {0, One}
  PROVE  IsColumnValue(Number(kind, n)) /\ Number(kind, n) # Nothing
<1>2. kind # "String" /\ kind # "Interval" /\ kind # "Nothing" /\ kind # "Bytes"
  BY NumericKinds
<1>. QED  BY <1>2, NumberIs, BlankIs DEF IsColumnValue, ColumnKind


LEMMA IntervalTypes ==
  IntervalType = {"year", "month", "year_to_month", "day", "hour", "minute", "second",
                  "day_to_hour", "day_to_minute", "day_to_second", "hour_to_minute",
                  "hour_to_second", "minute_to_second"}
BY DEF IntervalType, Span

LEMMA DatetimeIsValue ==
  ASSUME NEW kind \in DatetimeKind, NEW d \in Nat, NEW t \in Nat, NEW f \in Nat
  PROVE  IsColumnValue(Datetime(kind, d, t, f)) /\ Datetime(kind, d, t, f) # Nothing
<1>1. kind \notin {"String", "Interval", "Bool", "Nothing", "Bytes"} /\ kind \notin NumericKind
  BY NumericKinds DEF DatetimeKind
<1>. DEFINE v == Datetime(kind, d, t, f)
<1>2. IsData(v) /\ v.kind = kind /\ v.form = "none"
  BY <1>1, DatetimeIs
<1>. HIDE DEF v
<1>3. v # Nothing
  BY <1>1, <1>2, BlankIs
<1>4. IsColumnValue(v)
  BY <1>1, <1>2 DEF IsColumnValue, ColumnKind
<1>. QED  BY <1>3, <1>4 DEF v

LEMMA IntervalIsValue ==
  ASSUME NEW unit \in IntervalType, NEW n \in Int, unit = "year" => n % 12 = 0
  PROVE  IsColumnValue(Interval(unit, n)) /\ Interval(unit, n) # Nothing
<1>2. "Interval" \notin NumericKind
  BY NumericKinds
<1>. QED  BY <1>2, IntervalIs, BlankIs DEF IsColumnValue, ColumnKind, FieldSize

-----------------------------------------------------------------------------
(***************************************************************************)
(* Reading.  An interval as another interval, as a number, and from a      *)
(* number.                                                                 *)
(***************************************************************************)
LEMMA FieldsOf ==
  ASSUME NEW t \in IntervalType
  PROVE  /\ Leading(t) \in Nat \ {0} /\ Trailing(t) \in Nat \ {0}
         /\ IsYearMonth(t) \in BOOLEAN /\ IsSingleField(t) \in BOOLEAN
         /\ IsYearMonth(t) /\ IsSingleField(t) => /\ Leading(t) = 12 => t = "year"
                                                  /\ Leading(t) \in {1, 12}
         /\ t = "year" => Leading(t) = 12
<1>1. CASE t = "year"
  BY <1>1 DEF Leading, Trailing, IsYearMonth, IsSingleField, Span, FieldSize
<1>2. CASE t = "month"
  BY <1>2 DEF Leading, Trailing, IsYearMonth, IsSingleField, Span, FieldSize
<1>3. CASE t = "year_to_month"
  BY <1>3 DEF Leading, Trailing, IsYearMonth, IsSingleField, Span, FieldSize
<1>4. CASE t = "day"
  BY <1>4 DEF Leading, Trailing, IsYearMonth, IsSingleField, Span, FieldSize
<1>5. CASE t = "hour"
  BY <1>5 DEF Leading, Trailing, IsYearMonth, IsSingleField, Span, FieldSize
<1>6. CASE t = "minute"
  BY <1>6 DEF Leading, Trailing, IsYearMonth, IsSingleField, Span, FieldSize
<1>7. CASE t = "second"
  BY <1>7 DEF Leading, Trailing, IsYearMonth, IsSingleField, Span, FieldSize
<1>8. CASE t \in {"day_to_hour", "day_to_minute", "day_to_second"}
  BY <1>8 DEF Leading, Trailing, IsYearMonth, IsSingleField, Span, FieldSize
<1>9. CASE t \in {"hour_to_minute", "hour_to_second", "minute_to_second"}
  BY <1>9 DEF Leading, Trailing, IsYearMonth, IsSingleField, Span, FieldSize
<1>. QED  BY <1>1, <1>2, <1>3, <1>4, <1>5, <1>6, <1>7, <1>8, <1>9, IntervalTypes

Ard == [precision : Int, scale : Int, leading : Int]
ReadStates == {"00000", "01S07", "07006", "22003", "22007", "22015", "22018"}

LEMMA OneIs == One \in Nat \ {0} /\ One = 10
BY DEF One

LEMMA MagnitudeIs ==
  ASSUME NEW n \in Int
  PROVE  Magnitude(n) \in Nat /\ Magnitude(n) = IF n < 0 THEN -n ELSE n
BY DEF Magnitude

(***************************************************************************)
(* An interval into an interval type of its own family.                    *)
(***************************************************************************)
LEMMA IntervalIntoInterval ==
  ASSUME NEW v, IsData(v), v.kind = "Interval", v.unit \in IntervalType,
         NEW t \in IntervalType, NEW ard \in Ard
  PROVE  LET o == WriteInterval(v, t, ard)
         IN /\ o.state \in ReadStates
            /\ IsRefused(o) => o.state \notin {"00000", "01S07"}
            /\ ~IsRefused(o) =>
                 /\ IsYearMonth(v.unit) = IsYearMonth(t)
                 /\ o.data = Interval(t, Kept(v.n, Trailing(t)))
                 /\ Kept(v.n, Trailing(t)) \in Int
                 /\ TowardZero(v.n, Kept(v.n, Trailing(t)), Trailing(t))
                 /\ o.state = (IF Kept(v.n, Trailing(t)) # v.n THEN "01S07" ELSE "00000")
                 /\ ard.leading > 0 => Magnitude(Kept(v.n, Trailing(t)))
                                         < PowerOfTen[ard.leading] * Leading(t)
<1>. DEFINE o == WriteInterval(v, t, ard)
            L == Leading(t)
            k == Kept(v.n, Trailing(t))
<1>1. /\ v.n \in Int /\ L \in Nat \ {0} /\ Trailing(t) \in Nat \ {0}
      /\ IsYearMonth(t) \in BOOLEAN /\ IsYearMonth(v.unit) \in BOOLEAN
  BY FieldsOf DEF IsData
<1>2. k \in Int /\ TowardZero(v.n, k, Trailing(t))
  BY <1>1, KeptIs
<1>3. Interval(t, k) # Nothing
  BY <1>2, IntervalIs, BlankIs
<1>. HIDE DEF k, L
<1>4. CASE IsYearMonth(v.unit) # IsYearMonth(t)
  <2>1. o = Refused("07006")
    BY <1>4 DEF WriteInterval
  <2>. QED  BY <2>1 DEF Refused, IsRefused, ReadStates
<1>5. CASE IsYearMonth(v.unit) = IsYearMonth(t) /\ Overflows(v.n, t, ard.leading)
  <2>1. o = Refused("22015")
    BY <1>5 DEF WriteInterval
  <2>. QED  BY <2>1 DEF Refused, IsRefused, ReadStates
<1>6. CASE IsYearMonth(v.unit) = IsYearMonth(t) /\ ~Overflows(v.n, t, ard.leading)
  <2>1. o = Written(Interval(t, k), k # v.n)
    BY <1>6 DEF WriteInterval, SplitInterval, k
  <2>2. o.data = Interval(t, k) /\ o.state = IF k # v.n THEN "01S07" ELSE "00000"
    BY <2>1 DEF Written
  <2>3. ASSUME ard.leading > 0  PROVE Magnitude(k) < PowerOfTen[ard.leading] * L
    <3>. DEFINE q == Magnitude(v.n) \div L
                p == PowerOfTen[ard.leading]
    <3>1. ard.leading \in Nat /\ p \in Nat \ {0}
      BY <2>3, PowerOfTenIs DEF Ard
    <3>2. ~(q >= p)
      BY <1>6, <2>3 DEF Overflows, L
    <3>3. Magnitude(v.n) \in Nat /\ Magnitude(k) \in Nat /\ Magnitude(k) <= Magnitude(v.n)
      BY <1>1, <1>2, MagnitudeIs DEF TowardZero
    <3>4. q \in Nat /\ q * L \in Nat /\ Magnitude(v.n) < q * L + L
      <4>1. Magnitude(v.n) \in Int
        BY <3>3
      <4>. QED  BY <1>1, <3>3, <4>1, Quotient
    <3>. HIDE DEF q, p
    <3>5. q + 1 <= p /\ (q + 1) * L = q * L + L
      BY <1>1, <3>1, <3>2, <3>4, Z3
    <3>6. (q + 1) * L <= p * L /\ p * L \in Nat
      BY <1>1, <3>1, <3>4, <3>5, Z3
    <3>7. Magnitude(k) < p * L
      BY <1>1, <3>3, <3>4, <3>5, <3>6
    <3>. QED  BY <3>7 DEF p
  <2>. QED  BY <1>2, <1>3, <1>6, <2>2, <2>3 DEF IsRefused, ReadStates, k, L
<1>. QED  BY <1>1, <1>4, <1>5, <1>6 DEF k, L

(***************************************************************************)
(* A number n delivered as a number: whole, or truncated to what the       *)
(* target keeps, which the state tells.                                    *)
(***************************************************************************)
Delivered(n, t, ard) ==
  {n, WholePart(n)}
    \cup IF t = "numeric" /\ ard.scale < 0 THEN {Kept(n, PowerOfTen[1 - ard.scale])} ELSE {}
Delivers(o, n, t, ard) ==
  \E m \in Delivered(n, t, ard) :
    /\ m \in Int /\ o.data = Number("number", m)
    /\ o.state = IF m # n THEN "01S07" ELSE "00000"

Targets == {"float", "double", "bit"} \cup IntegerTarget

LEMMA PivotDelivers ==
  ASSUME NEW n \in Int, NEW t \in Targets, NEW ard \in Ard
  PROVE  LET o == WritePivot(n, t)
         IN o.state \in ReadStates /\ (IsRefused(o) \/ Delivers(o, n, t, ard))
<1>1. WholePart(n) \in Int
  BY WholeIs
<1>2. /\ "float" \notin IntegerTarget /\ "double" \notin IntegerTarget /\ "bit" \notin IntegerTarget
      /\ t # "numeric"
  BY DEF IntegerTarget, Signed, Unsigned, Targets
<1>. DEFINE o == WritePivot(n, t)
<1>3. SUFFICES o.state \in ReadStates /\ (IsRefused(o) \/ Delivers(o, n, t, ard))
  OBVIOUS
<1>4. CASE t \in IntegerTarget
  <2>1. o = WriteInteger(n, t)
    BY <1>2, <1>4 DEF WritePivot
  <2>2. CASE InRange(Whole(n), t)
    <3>1. o = Written(Number("number", WholePart(n)), WholePart(n) # n)
      BY <2>1, <2>2 DEF WriteInteger
    <3>. QED  BY <1>1, <3>1 DEF Written, Refused, IsRefused, Delivers, Delivered, ReadStates
  <2>3. CASE ~InRange(Whole(n), t)
    <3>1. o = Refused("22003")
      BY <2>1, <2>3 DEF WriteInteger
    <3>. QED  BY <3>1 DEF Written, Refused, IsRefused, ReadStates
  <2>. QED  BY <2>2, <2>3
<1>5. CASE t \in {"float", "double"}
  <2>1. o = WriteFloat(n, t)
    BY <1>2, <1>5 DEF WritePivot
  <2>2. o = Refused("22003") \/ o = Written(Number("number", n), FALSE)
    BY <2>1 DEF WriteFloat
  <2>. QED  BY <2>2 DEF Written, Refused, IsRefused, Delivers, Delivered, ReadStates
<1>6. CASE t = "bit"
  <2>1. o = WriteBit(n)
    BY <1>2, <1>6 DEF WritePivot
  <2>2. o = Refused("22003") \/ o = Written(Number("number", WholePart(n)), WholePart(n) # n)
    BY <2>1 DEF WriteBit
  <2>. QED  BY <1>1, <2>2 DEF Written, Refused, IsRefused, Delivers, Delivered, ReadStates
<1>. QED  BY <1>4, <1>5, <1>6 DEF Targets

LEMMA NumericDelivers ==
  ASSUME NEW v, IsData(v), NEW ard \in Ard
  PROVE  LET o == WriteNumeric(v, ard)
         IN /\ o.state \in ReadStates
            /\ \/ IsRefused(o)
               \/ /\ Delivers(o, v.n, "numeric", ard)
                  /\ v.kind \in NumericKind \/ (v.kind = "String" /\ v.form = "number")
<1>. DEFINE o == WriteNumeric(v, ard)
            scale == IF ard.precision # 0 THEN ard.scale ELSE OwnScale(v.n)
            kept == IF scale >= 1 THEN v.n ELSE Kept(v.n, PowerOfTen[1 - scale])
<1>1. v.n \in Int /\ ard.scale \in Int
  BY DEF IsData, Ard
<1>2. /\ o = Refused("07006") \/ o = Refused("22018") \/ o = Refused("22003")
           \/ o = Written(Number("number", kept), kept # v.n)
      /\ o = Written(Number("number", kept), kept # v.n) =>
           IsRefused(o) \/ v.kind \in NumericKind \/ (v.kind = "String" /\ v.form = "number")
  BY DEF WriteNumeric, Refused, IsRefused
<1>3. kept \in Int /\ kept \in Delivered(v.n, "numeric", ard)
  <2>1. PowerOfTen[1] = 10 /\ PowerOfTen[0] = 1
    BY PowerOfTenIs
  <2>2. CASE ard.precision # 0 /\ ard.scale >= 1
    BY <1>1, <2>2 DEF Delivered
  <2>3. CASE ard.precision # 0 /\ ard.scale = 0
    <3>1. kept = WholePart(v.n)
      BY <2>1, <2>3 DEF WholePart, One
    <3>. QED  BY <1>1, <3>1, WholeIs DEF Delivered
  <2>4. CASE ard.precision # 0 /\ ard.scale < 0
    <3>1. 1 - ard.scale \in Nat /\ kept = Kept(v.n, PowerOfTen[1 - ard.scale])
      BY <1>1, <2>4
    <3>2. PowerOfTen[1 - ard.scale] \in Nat \ {0}
      BY <3>1, PowerOfTenIs
    <3>3. kept \in Int
      BY <1>1, <3>1, <3>2, KeptIs
    <3>. QED  BY <2>4, <3>1, <3>3 DEF Delivered
  <2>5. CASE ard.precision = 0
    <3>1. kept = v.n \/ kept = WholePart(v.n)
      BY <2>1, <2>5 DEF WholePart, One, OwnScale
    <3>. QED  BY <1>1, <3>1, WholeIs DEF Delivered
  <2>. QED  BY <1>1, <2>2, <2>3, <2>4, <2>5
<1>. HIDE DEF kept
<1>4. CASE o = Written(Number("number", kept), kept # v.n)
  <2>1. o.data = Number("number", kept) /\ o.state = IF kept # v.n THEN "01S07" ELSE "00000"
    BY <1>4 DEF Written
  <2>2. Delivers(o, v.n, "numeric", ard)
    BY <1>3, <2>1 DEF Delivers
  <2>. QED  BY <1>2, <1>4, <2>1, <2>2 DEF ReadStates
<1>5. CASE o \in {Refused("07006"), Refused("22018"), Refused("22003")}
  BY <1>5 DEF Written, Refused, IsRefused, ReadStates
<1>. QED  BY <1>2, <1>4, <1>5

(***************************************************************************)
(* An interval delivered as the count of its one field.                    *)
(***************************************************************************)
CountDelivered(o, v, t, ard) ==
  \E u \in Int :
    /\ u * Leading(v.unit) = Kept(v.n, Leading(v.unit))
    /\ \E m \in Delivered(u * One, t, ard) :
         /\ m \in Int /\ o.data = Number("number", m)
         /\ o.state = "00000" <=>
              m = u * One /\ (IsYearMonth(v.unit) \/ v.n % Leading(v.unit) = 0)

LEMMA IntervalIntoNumber ==
  ASSUME NEW v, IsColumnValue(v), v.kind = "Interval",
         NEW t \in IntegerTarget \cup {"numeric"}, NEW ard \in Ard
  PROVE  LET o == WriteIntervalAsNumber(v, t, ard)
         IN /\ o.state \in ReadStates
            /\ \/ IsRefused(o)
               \/ /\ IsSingleField(v.unit)
                  /\ CountDelivered(o, v, t, ard)
<1>. DEFINE o == WriteIntervalAsNumber(v, t, ard)
            L == Leading(v.unit)
            u == Kept(v.n, L) \div L
            w == IF t = "numeric" THEN WriteNumeric(Number("Decimal", u * One), ard)
                 ELSE WriteInteger(u * One, t)
            lost == ~IsYearMonth(v.unit) /\ v.n % L # 0
<1>1. v.n \in Int /\ v.unit \in IntervalType
  BY DEF IsColumnValue, IsData
<1>2. L \in Nat \ {0} /\ IsYearMonth(v.unit) \in BOOLEAN
  BY <1>1, FieldsOf
<1>3. u \in Int /\ u * L = Kept(v.n, L)
  BY <1>1, <1>2, KeptIs
<1>4. CASE ~IsSingleField(v.unit)
  <2>1. o = Refused("22015") \/ o = Refused("07006")
    BY <1>4 DEF WriteIntervalAsNumber
  <2>. QED  BY <2>1 DEF Refused, IsRefused, ReadStates
<1>5. CASE IsSingleField(v.unit)
  <2>1. o = IF w.state = "00000" THEN Written(w.data, lost) ELSE w
    BY <1>5 DEF WriteIntervalAsNumber
  <2>. HIDE DEF o, lost
  <2>2. w.state \in ReadStates /\ (IsRefused(w) \/ Delivers(w, u * One, t, ard))
    <3>1. u * One \in Int
      BY <1>3 DEF One
    <3>. HIDE DEF u
    <3>2. CASE t = "numeric"
      <4>. DEFINE d == Number("Decimal", u * One)
      <4>1. IsData(d) /\ d.n = u * One
        BY <3>1, NumberIs
      <4>. HIDE DEF d
      <4>2. w = WriteNumeric(d, ard)
        BY <3>2 DEF d
      <4>. QED  BY <3>2, <4>1, <4>2, NumericDelivers
    <3>3. CASE t \in IntegerTarget
      <4>1. "numeric" \notin IntegerTarget /\ "float" \notin IntegerTarget
            /\ "double" \notin IntegerTarget /\ "bit" \notin IntegerTarget
        BY DEF IntegerTarget, Signed, Unsigned
      <4>2. w = WritePivot(u * One, t)
        BY <3>3, <4>1 DEF WritePivot
      <4>. QED  BY <3>1, <3>3, <4>2, PivotDelivers DEF Targets
    <3>. QED  BY <3>2, <3>3
  <2>. HIDE DEF w
  <2>3. CASE IsRefused(w)
    <3>1. IsRefused(o) /\ o.state \in ReadStates
      BY <2>1, <2>2, <2>3 DEF Written, IsRefused, ReadStates
    <3>. QED  BY <3>1 DEF o
  <2>4. CASE Delivers(w, u * One, t, ard)
    <3>1. PICK m \in Delivered(u * One, t, ard) :
            /\ m \in Int /\ w.data = Number("number", m)
            /\ w.state = IF m # u * One THEN "01S07" ELSE "00000"
      BY <2>4 DEF Delivers
    <3>2. o.data = Number("number", m)
      BY <2>1, <3>1 DEF Written
    <3>3. o.state \in ReadStates
      BY <2>1, <2>2 DEF Written, ReadStates
    <3>4. o.state = "00000" <=> m = u * One /\ ~lost
      BY <2>1, <3>1 DEF Written
    <3>. QED  BY <1>3, <1>5, <3>1, <3>2, <3>3, <3>4 DEF o, lost, CountDelivered
  <2>. QED  BY <2>2, <2>3, <2>4
<1>. QED  BY <1>4, <1>5

LEMMA NumberIntoInterval ==
  ASSUME NEW v, IsColumnValue(v), NEW t \in IntervalType, NEW ard \in Ard
  PROVE  LET o == WriteNumberAsInterval(v, t, ard)
         IN /\ o.state \in ReadStates
            /\ IsRefused(o) \/ \E m \in Int : o.data = Interval(t, m)
<1>. DEFINE o == WriteNumberAsInterval(v, t, ard)
            tenths == v.n * Leading(t)
            total == Interval(t, Whole(tenths))
            w == WriteInterval(total, t, ard)
<1>1. tenths \in Int
  <2>1. v.n \in Int /\ Leading(t) \in Nat \ {0}
    BY FieldsOf DEF IsColumnValue, IsData
  <2>. QED  BY <2>1, Z3
<1>2. Whole(tenths) \in Int
  BY <1>1, WholeIs
<1>3. IsData(total) /\ total.kind = "Interval" /\ total.unit = t
  BY <1>2, IntervalIs
<1>4. \/ o = Refused("22015")
      \/ o = w /\ w.state # "00000"
      \/ o = Written(w.data, tenths % One # 0)
  BY Zenon DEF WriteNumberAsInterval
<1>. HIDE DEF total, tenths, o
<1>5. /\ w.state \in ReadStates
      /\ IsRefused(w) \/ \E m \in Int : w.data = Interval(t, m)
  BY <1>3, IntervalIntoInterval
<1>. HIDE DEF w
<1>6. CASE o = Refused("22015")
  BY <1>6 DEF Refused, IsRefused, ReadStates, o
<1>7. CASE o = w
  BY <1>5, <1>7 DEF o
<1>8. CASE o = Written(w.data, tenths % One # 0)
  <2>1. o.data = w.data /\ o.state \in ReadStates
    BY <1>8 DEF Written, ReadStates
  <2>. QED  BY <1>5, <2>1 DEF o, IsRefused
<1>. QED  BY <1>4, <1>6, <1>7, <1>8

LEMMA WriteDatetimeIs ==
  ASSUME NEW v, IsColumnValue(v), NEW t \in DatetimeForm
  PROVE  LET o == WriteDatetime(v, t)
         IN /\ o.state \in ReadStates
            /\ \/ IsRefused(o)
               \/ /\ v.kind \in DatetimeKind \/ (v.kind = "String" /\ v.form \in DatetimeForm)
                  /\ \/ t = "date" /\ o = WriteDate(v) /\ HasDate(v)
                     \/ t = "time" /\ o = WriteTime(v) /\ v.kind # "Date"
                     \/ t = "timestamp" /\ o = WriteTimestamp(v)
<1>. DEFINE o == WriteDatetime(v, t)
<1>1. t \in {"date", "time", "timestamp"} /\ "String" \notin DatetimeKind
  BY DEF DatetimeForm, DatetimeKind
<1>2. CASE v.kind \notin DatetimeKind \cup {"String"}
  <2>1. o = Refused("07006")
    BY <1>2, <1>1 DEF WriteDatetime, DatetimeKind
  <2>. QED  BY <2>1 DEF Refused, IsRefused, ReadStates
<1>3. CASE v.kind = "String" /\ v.form \notin DatetimeForm
  <2>1. o = Refused(TextRefusal(v, t))
    BY <1>3, <1>1 DEF WriteDatetime, DatetimeForm
  <2>. QED  BY <2>1 DEF Refused, IsRefused, ReadStates, TextRefusal
<1>4. CASE <<v.kind, t>> \in {<<"Time", "date">>, <<"Date", "time">>}
  <2>1. o = Refused("07006")
    BY <1>4, <1>1 DEF WriteDatetime, DatetimeKind
  <2>. QED  BY <2>1 DEF Refused, IsRefused, ReadStates
<1>5. CASE v.kind = "String" /\ v.form = "time" /\ t = "date"
  <2>1. o = Refused("22018")
    BY <1>5, <1>1 DEF WriteDatetime, DatetimeForm
  <2>. QED  BY <2>1 DEF Refused, IsRefused, ReadStates
<1>6. CASE /\ v.kind \in DatetimeKind \cup {"String"}
           /\ ~(v.kind = "String" /\ v.form \notin DatetimeForm)
           /\ <<v.kind, t>> \notin {<<"Time", "date">>, <<"Date", "time">>}
           /\ ~(v.kind = "String" /\ v.form = "time" /\ t = "date")
  <2>1. \/ t = "date" /\ o = WriteDate(v)
        \/ t = "time" /\ o = WriteTime(v)
        \/ t = "timestamp" /\ o = WriteTimestamp(v)
    BY <1>6, <1>1 DEF WriteDatetime
  <2>2. o.state \in ReadStates
    BY <2>1 DEF WriteDate, WriteTime, WriteTimestamp, Written, ReadStates
  <2>3. v.kind \in DatetimeKind \/ (v.kind = "String" /\ v.form \in DatetimeForm)
    BY <1>6
  <2>4. t = "date" => HasDate(v)
    BY <1>6, <2>3 DEF HasDate, DatetimeForm, DatetimeKind
  <2>. QED  BY <1>6, <2>1, <2>2, <2>3, <2>4
<1>. QED  BY <1>2, <1>3, <1>4, <1>5, <1>6

(***************************************************************************)
(* The ways a value is written, by the buffer's type and the value's.      *)
(***************************************************************************)
LEMMA WaysToWrite ==
  ASSUME NEW v, IsColumnValue(v), NEW t \in CTypes, NEW ard
  PROVE  LET o == WriteNamed(v, t, ard)
         IN \/ t \in {"char", "wchar"} /\ o = WriteText(v)
            \/ t = "binary" /\ o = WriteBinary(v)
            \/ t = "numeric" /\ v.kind # "Interval" /\ o = WriteNumeric(v, ard)
            \/ /\ t \in IntervalType /\ v.kind \in DOMAIN IntegerKind \cup {"Decimal"}
               /\ o = WriteNumberAsInterval(v, t, ard)
            \/ t \in IntervalType /\ v.kind = "String" /\ o = WriteTextAsInterval(v, t, ard)
            \/ t \in IntervalType /\ v.kind # "String" /\ o = WriteInterval(v, t, ard)
            \/ /\ t = "guid"
               /\ o = IF v.kind = "Guid" THEN Written([v EXCEPT !.kind = "guid"], FALSE)
                      ELSE Refused("07006")
            \/ /\ v.kind = "Interval" /\ t \in IntegerTarget \cup {"numeric"}
               /\ o = WriteIntervalAsNumber(v, t, ard)
            \/ /\ t \in Targets /\ (v.kind = "Interval" => t \notin IntegerTarget)
               /\ o = IF PivotRefusal(v) # "00000" THEN Refused(PivotRefusal(v))
                      ELSE WritePivot(v.n, t)
            \/ t \in DatetimeForm /\ o = WriteDatetime(v, t)
<1>1. /\ IntegerTarget = {"stinyint", "sshort", "slong", "sbigint",
                          "utinyint", "ushort", "ulong", "ubigint"}
      /\ DOMAIN IntegerKind = {"I8", "I16", "I32", "I64"}
  BY DEF IntegerTarget, Signed, Unsigned, IntegerKind
<1>2. CASE t \in {"char", "wchar"}
  BY <1>2, <1>1, IntervalTypes DEF WriteNamed
<1>3. CASE t = "binary"
  BY <1>3, <1>1, IntervalTypes DEF WriteNamed
<1>4. CASE t = "numeric" /\ v.kind # "Interval"
  BY <1>4, <1>1, IntervalTypes DEF WriteNamed
<1>5. CASE t \in IntervalType
  <2>1. CASE v.kind \in DOMAIN IntegerKind \cup {"Decimal"}
    BY <1>5, <2>1, <1>1, IntervalTypes DEF WriteNamed
  <2>2. CASE v.kind = "String"
    BY <1>5, <2>2, <1>1, IntervalTypes DEF WriteNamed
  <2>3. CASE v.kind \notin DOMAIN IntegerKind \cup {"Decimal", "String"}
    BY <1>5, <2>3, <1>1, IntervalTypes DEF WriteNamed
  <2>. QED  BY <2>1, <2>2, <2>3
<1>6. CASE t = "guid"
  BY <1>6, <1>1, IntervalTypes DEF WriteNamed
<1>7. CASE t \in IntegerTarget \cup {"numeric"} /\ v.kind = "Interval"
  BY <1>7, <1>1, IntervalTypes DEF WriteNamed
<1>8. CASE t \in Targets /\ (v.kind = "Interval" => t \notin IntegerTarget)
  BY <1>8, <1>1, IntervalTypes DEF WriteNamed, Targets
<1>9. CASE t \in DatetimeForm
  BY <1>9, <1>1, IntervalTypes DEF WriteNamed, DatetimeForm
<1>10. t \in IntegerTarget \cup IntervalType \cup {"float", "double", "bit", "numeric"}
              \cup {"char", "wchar", "binary", "guid"} \cup DatetimeForm
  BY DEF CTypes, DatetimeForm
<1>. QED  BY <1>2, <1>3, <1>4, <1>5, <1>6, <1>7, <1>8, <1>9, <1>10 DEF Targets

-----------------------------------------------------------------------------
(***************************************************************************)
(* Reading as text and as bytes.                                           *)
(***************************************************************************)
LEMMA TextIs ==
  ASSUME NEW v, IsData(v), NEW kind, NEW form
  PROVE  [v EXCEPT !.kind = kind, !.form = form]
           = [kind |-> kind, n |-> v.n, date |-> v.date, time |-> v.time,
              fraction |-> v.fraction, form |-> form, unit |-> v.unit]
<1>1. v = [kind |-> v.kind, n |-> v.n, date |-> v.date, time |-> v.time,
           fraction |-> v.fraction, form |-> v.form, unit |-> v.unit]
  BY DEF IsData
<1>. DEFINE a == [v EXCEPT !.kind = kind]
<1>2. a = [kind |-> kind, n |-> v.n, date |-> v.date, time |-> v.time,
           fraction |-> v.fraction, form |-> v.form, unit |-> v.unit]
  BY <1>1
<1>. HIDE DEF a
<1>3. [a EXCEPT !.form = form]
           = [kind |-> kind, n |-> v.n, date |-> v.date, time |-> v.time,
              fraction |-> v.fraction, form |-> form, unit |-> v.unit]
  BY <1>2
<1>. QED  BY <1>3 DEF a

LEMMA KindIs ==
  ASSUME NEW v, IsData(v), NEW kind
  PROVE  [v EXCEPT !.kind = kind]
           = [kind |-> kind, n |-> v.n, date |-> v.date, time |-> v.time,
              fraction |-> v.fraction, form |-> v.form, unit |-> v.unit]
<1>1. v = [kind |-> v.kind, n |-> v.n, date |-> v.date, time |-> v.time,
           fraction |-> v.fraction, form |-> v.form, unit |-> v.unit]
  BY DEF IsData
<1>. QED  BY <1>1

LEMMA ImageIs ==
  ASSUME NEW v, IsData(v), NEW kind, NEW unit, NEW form
  PROVE  [v EXCEPT !.kind = kind, !.unit = unit, !.form = form]
           = [kind |-> kind, n |-> v.n, date |-> v.date, time |-> v.time,
              fraction |-> v.fraction, form |-> form, unit |-> unit]
<1>1. v = [kind |-> v.kind, n |-> v.n, date |-> v.date, time |-> v.time,
           fraction |-> v.fraction, form |-> v.form, unit |-> v.unit]
  BY DEF IsData
<1>. DEFINE a == [v EXCEPT !.kind = kind]
<1>2. a = [kind |-> kind, n |-> v.n, date |-> v.date, time |-> v.time,
           fraction |-> v.fraction, form |-> v.form, unit |-> v.unit]
  BY <1>1
<1>. HIDE DEF a
<1>. DEFINE b == [a EXCEPT !.unit = unit]
<1>3. b = [kind |-> kind, n |-> v.n, date |-> v.date, time |-> v.time,
           fraction |-> v.fraction, form |-> v.form, unit |-> unit]
  BY <1>2
<1>. HIDE DEF b
<1>4. [b EXCEPT !.form = form]
           = [kind |-> kind, n |-> v.n, date |-> v.date, time |-> v.time,
              fraction |-> v.fraction, form |-> form, unit |-> unit]
  BY <1>3
<1>. QED  BY <1>4 DEF a, b

(***************************************************************************)
(* Text and bytes carry all there is of the value.                         *)
(***************************************************************************)
Carries(d, v) ==
  d.n = v.n /\ d.date = v.date /\ d.time = v.time /\ d.fraction = v.fraction

LEMMA TextCarries ==
  ASSUME NEW v, IsColumnValue(v)
  PROVE  LET o == WriteText(v)
         IN /\ o.state = "00000" /\ Carries(o.data, v) /\ IsData(o.data)
            /\ o.data.kind = "text" /\ o.data.form = FormOf(v) /\ o.data.unit = v.unit
<1>1. IsData(v)
  BY DEF IsColumnValue
<1>2. WriteText(v).data = [v EXCEPT !.kind = "text", !.form = FormOf(v)]
  BY DEF WriteText, Written
<1>3. WriteText(v).state = "00000"
  BY DEF WriteText, Written
<1>4. WriteText(v).data = [kind |-> "text", n |-> v.n, date |-> v.date, time |-> v.time,
              fraction |-> v.fraction, form |-> FormOf(v), unit |-> v.unit]
  BY <1>1, <1>2, TextIs
<1>. DEFINE d == WriteText(v).data
<1>. HIDE DEF d
<1>5. /\ Carries(d, v) /\ d.kind = "text" /\ d.form = FormOf(v) /\ d.unit = v.unit
      /\ d = [kind |-> d.kind, n |-> d.n, date |-> d.date, time |-> d.time,
               fraction |-> d.fraction, form |-> d.form, unit |-> d.unit]
  BY <1>4 DEF Carries, d
<1>6. IsData(d)
  BY <1>1, <1>5 DEF Carries, IsData
<1>. QED  BY <1>3, <1>5, <1>6 DEF d

LEMMA ImageCarries ==
  ASSUME NEW v, IsColumnValue(v)
  PROVE  LET o == WriteBinary(v)
         IN /\ o.state = "00000" /\ Carries(o.data, v) /\ IsData(o.data)
            /\ o.data.kind = "image" /\ o.data.unit = LayoutOf(v)
            /\ o.data.form = IF LayoutOf(v) = "text" THEN FormOf(v) ELSE "none"
<1>1. IsData(v)
  BY DEF IsColumnValue
<1>. DEFINE form == IF LayoutOf(v) = "text" THEN FormOf(v) ELSE "none"
<1>2. WriteBinary(v).data = [v EXCEPT !.kind = "image", !.unit = LayoutOf(v), !.form = form]
  BY DEF WriteBinary, Written
<1>3. WriteBinary(v).state = "00000"
  BY DEF WriteBinary, Written
<1>. HIDE DEF form
<1>. DEFINE unit == LayoutOf(v)
<1>. HIDE DEF unit
<1>4. [v EXCEPT !.kind = "image", !.unit = unit, !.form = form]
        = [kind |-> "image", n |-> v.n, date |-> v.date, time |-> v.time,
           fraction |-> v.fraction, form |-> form, unit |-> unit]
  BY <1>1, ImageIs
<1>. DEFINE d == WriteBinary(v).data
<1>5. d = [kind |-> "image", n |-> v.n, date |-> v.date, time |-> v.time,
              fraction |-> v.fraction, form |-> form, unit |-> unit]
  BY <1>2, <1>4, Zenon DEF unit
<1>. HIDE DEF d
<1>6. Carries(d, v) /\ d.kind = "image" /\ d.unit = unit /\ d.form = form
  BY <1>5 DEF Carries
<1>7. IsData(d)
  BY <1>1, <1>5 DEF IsData
<1>. QED  BY <1>3, <1>6, <1>7, Zenon DEF d, form, unit

(***************************************************************************)
(* What is spelled is of the value's own kind.                             *)
(***************************************************************************)
LEMMA FormIs ==
  ASSUME NEW v, IsColumnValue(v)
  PROVE  /\ FormOf(v) \in DatetimeForm =>
              v.kind \in DatetimeKind \/ (v.kind = "String" /\ v.form \in DatetimeForm)
         /\ FormOf(v) = "number" =>
              v.kind \in NumericKind \/ (v.kind = "String" /\ v.form = "number")
         /\ v.kind = "Interval" => FormOf(v) = "interval"
         /\ v.kind = "Bytes" => FormOf(v) = "hex"
<1>1. v.kind \in {"I8", "I16", "I32", "I64", "F32", "F64", "Bool", "Decimal",
                  "Date", "Time", "Timestamp", "TimestampTz",
                  "Null", "String", "Interval", "Bytes", "Guid"}
  BY NumericKinds DEF IsColumnValue, ColumnKind, DatetimeKind
<1>2. CASE v.kind \in NumericKind
  <2>1. FormOf(v) = IF Magnitude(v.n) < Infinite THEN "number" ELSE "infinity"
    BY <1>2, NumericKinds DEF FormOf
  <2>. QED  BY <1>2, <2>1, NumericKinds DEF DatetimeForm
<1>3. CASE v.kind = "String"
  <2>1. FormOf(v) = v.form
    BY <1>3, NumericKinds DEF FormOf
  <2>. QED  BY <1>3, <2>1
<1>4. CASE v.kind \in {"Date", "Time", "Timestamp", "TimestampTz"}
  <2>1. FormOf(v) \in {"date", "time", "timestamp"}
    BY <1>4, NumericKinds DEF FormOf
  <2>. QED  BY <1>4, <2>1 DEF DatetimeKind
<1>5. CASE v.kind \in {"Null", "Guid"}
  <2>1. FormOf(v) = "words"
    BY <1>5, NumericKinds DEF FormOf
  <2>. QED  BY <1>5, <2>1 DEF DatetimeForm
<1>6. CASE v.kind = "Interval"
  <2>1. FormOf(v) = "interval"
    BY <1>6, NumericKinds DEF FormOf
  <2>. QED  BY <1>6, <2>1 DEF DatetimeForm
<1>7. CASE v.kind = "Bytes"
  <2>1. FormOf(v) = "hex"
    BY <1>7, NumericKinds DEF FormOf
  <2>. QED  BY <1>7, <2>1 DEF DatetimeForm
<1>. QED  BY <1>1, <1>2, <1>3, <1>4, <1>5, <1>6, <1>7, NumericKinds

LEMMA TextIntoInterval ==
  ASSUME NEW v, IsColumnValue(v), v.kind = "String", NEW t \in IntervalType, NEW ard \in Ard
  PROVE  LET o == WriteTextAsInterval(v, t, ard)
             w == [v EXCEPT !.kind = "Interval"]
         IN /\ o.state \in ReadStates
            /\ \/ IsRefused(o)
               \/ /\ v.form = "interval" /\ v.unit \in IntervalType
                  /\ o = WriteInterval(w, t, ard)
                  /\ IsData(w) /\ w.kind = "Interval" /\ w.unit = v.unit /\ w.n = v.n
<1>. DEFINE o == WriteTextAsInterval(v, t, ard)
            w == [v EXCEPT !.kind = "Interval"]
<1>1. IsData(v)
  BY DEF IsColumnValue
<1>2. w = [kind |-> "Interval", n |-> v.n, date |-> v.date, time |-> v.time,
              fraction |-> v.fraction, form |-> v.form, unit |-> v.unit]
  BY <1>1, KindIs
<1>3. IsData(w) /\ w.kind = "Interval" /\ w.unit = v.unit /\ w.n = v.n
  <2>. HIDE DEF w
  <2>. QED  BY <1>1, <1>2 DEF IsData
<1>4. CASE /\ v.form = "interval" /\ v.unit \in {"year_to_month", "day_to_second"}
           /\ IsYearMonth(v.unit) = IsYearMonth(t)
  <2>1. o = WriteInterval(w, t, ard)
    BY <1>4 DEF WriteTextAsInterval
  <2>2. v.unit \in IntervalType
    BY <1>4, IntervalTypes
  <2>. HIDE DEF w, o
  <2>3. o.state \in ReadStates
    BY <1>3, <2>1, <2>2, IntervalIntoInterval
  <2>. QED  BY <1>3, <1>4, <2>1, <2>2, <2>3 DEF w, o
<1>5. CASE ~(/\ v.form = "interval" /\ v.unit \in {"year_to_month", "day_to_second"}
             /\ IsYearMonth(v.unit) = IsYearMonth(t))
  <2>1. o = Refused("22018")
    BY <1>5, Zenon DEF WriteTextAsInterval
  <2>2. o.state \in ReadStates /\ IsRefused(o)
    BY <2>1 DEF Refused, IsRefused, ReadStates
  <2>. QED  BY <2>2
<1>. QED  BY <1>4, <1>5

(***************************************************************************)
(* What a fixed-length buffer gets of a value that is not an interval, by  *)
(* the kinds it may then be of.                                            *)
(***************************************************************************)
LEMMA ColumnIsDatetime ==
  ASSUME NEW v, IsColumnValue(v)
  PROVE  IsDatetime(v) => v.kind \in DatetimeKind \/ (v.kind = "String" /\ v.form \in DatetimeForm)
BY NumericKinds DEF IsDatetime, IsColumnValue, ColumnKind, DatetimeKind, DatetimeForm

LEMMA NumbersAreNoDatetimes ==
  ASSUME NEW n \in Int
  PROVE  ~IsDatetime(Number("number", n)) /\ IsNumber(Number("number", n))
BY NumberIs DEF IsDatetime, IsNumber, DatetimeKind, DatetimeForm

LEMMA IntervalsAreNeither ==
  ASSUME NEW t, NEW n \in Int
  PROVE  ~IsDatetime(Interval(t, n)) /\ ~IsNumber(Interval(t, n))
BY IntervalIs, NumericKinds DEF IsDatetime, IsNumber, DatetimeKind, DatetimeForm

LEMMA ReadsDatetime ==
  ASSUME NEW v, IsColumnValue(v), NEW t \in CTypes, NEW ard \in Ard,
         IsDatetime(v),
         ~IsRefused(WriteNamed(v, t, ard)), WriteNamed(v, t, ard).state = "00000",
         IsDatetime(WriteNamed(v, t, ard).data)
  PROVE  LET d == WriteNamed(v, t, ard).data
         IN /\ d.time = v.time
            /\ d.fraction = v.fraction \/ (v.kind = "Time" /\ t = "timestamp")
            /\ HasDate(v) /\ t # "time" => d.date = v.date
            /\ ~HasDate(v) /\ t = "timestamp" => d.date = Today
<1>. DEFINE o == WriteNamed(v, t, ard)
<1>1. /\ v.kind \in DatetimeKind \/ (v.kind = "String" /\ v.form \in DatetimeForm)
      /\ IsData(v)
  BY ColumnIsDatetime DEF IsColumnValue
<1>2. /\ v.kind # "Interval" /\ v.kind \notin NumericKind /\ v.kind # "Guid"
      /\ v.kind = "String" => v.form # "interval" /\ v.form # "number"
      /\ v.kind \notin DOMAIN IntegerKind \cup {"Decimal"}
  BY <1>1, NumericKinds DEF DatetimeKind, DatetimeForm, NumericKind
<1>3. t \in DatetimeForm => t \notin IntervalType
  BY IntervalTypes DEF DatetimeForm
<1>4. CASE t \in {"char", "wchar"} /\ o = WriteText(v)
  BY <1>4, TextCarries DEF Carries
<1>5. CASE t = "binary" /\ o = WriteBinary(v)
  BY <1>5, ImageCarries DEF Carries
<1>6. CASE o = WriteNumeric(v, ard)
  BY <1>1, <1>2, <1>6, NumericDelivers
<1>7. CASE t \in IntervalType /\ v.kind = "String" /\ o = WriteTextAsInterval(v, t, ard)
  BY <1>2, <1>7, TextIntoInterval
<1>8. CASE t \in IntervalType /\ v.kind # "String" /\ o = WriteInterval(v, t, ard)
  <2>1. o = Refused("07006")
    BY <1>2, <1>8 DEF WriteInterval
  <2>. QED  BY <2>1 DEF IsRefused, Refused
<1>9. CASE o = IF v.kind = "Guid" THEN Written([v EXCEPT !.kind = "guid"], FALSE)
               ELSE Refused("07006")
  <2>1. o = Refused("07006")
    BY <1>2, <1>9
  <2>. QED  BY <2>1 DEF IsRefused, Refused
<1>10. CASE /\ t \in Targets
            /\ o = IF PivotRefusal(v) # "00000" THEN Refused(PivotRefusal(v))
                   ELSE WritePivot(v.n, t)
  <2>1. v.n \in Int
    BY <1>1 DEF IsData
  <2>2. CASE o = Refused(PivotRefusal(v))
    BY <2>2 DEF IsRefused, Refused
  <2>3. CASE o = WritePivot(v.n, t)
    <3>1. Delivers(o, v.n, t, ard)
      BY <1>10, <2>1, <2>3, PivotDelivers
    <3>2. PICK m \in Int : o.data = Number("number", m)
      BY <3>1 DEF Delivers
    <3>. QED  BY <3>2, NumbersAreNoDatetimes
  <2>. QED  BY <1>10, <2>2, <2>3
<1>11. CASE t \in DatetimeForm /\ o = WriteDatetime(v, t)
  <2>0. v.date \in Nat /\ v.time \in Nat /\ v.fraction \in Nat /\ Today \in Nat
    BY <1>1, ConversionAssumption DEF IsData
  <2>1. CASE t = "date" /\ o = WriteDate(v) /\ HasDate(v)
    <3>1. ~(v.time # 0 \/ v.fraction # 0) /\ o.data = Datetime("date", v.date, 0, 0)
      BY <2>1 DEF WriteDate, Written
    <3>. QED  BY <2>0, <2>1, <3>1, DatetimeIs
  <2>2. CASE t = "time" /\ o = WriteTime(v)
    <3>1. ~(v.fraction # 0) /\ o.data = Datetime("time", 0, v.time, 0)
      BY <2>2 DEF WriteTime, Written
    <3>. QED  BY <2>0, <2>2, <3>1, DatetimeIs
  <2>3. CASE t = "timestamp" /\ o = WriteTimestamp(v)
    <3>1. o.data = Datetime("timestamp", IF HasDate(v) THEN v.date ELSE Today, v.time,
                            IF v.kind = "Time" THEN 0 ELSE v.fraction)
      BY <2>3 DEF WriteTimestamp, Written
    <3>2. /\ (IF HasDate(v) THEN v.date ELSE Today) \in Nat
          /\ (IF v.kind = "Time" THEN 0 ELSE v.fraction) \in Nat
      BY <2>0
    <3>3. /\ o.data.time = v.time /\ o.data.date = IF HasDate(v) THEN v.date ELSE Today
          /\ o.data.fraction = IF v.kind = "Time" THEN 0 ELSE v.fraction
      BY <2>0, <3>1, <3>2, DatetimeIs
    <3>. QED  BY <2>3, <3>3
  <2>. QED  BY <1>11, <2>1, <2>2, <2>3, WriteDatetimeIs
<1>. QED  BY <1>2, <1>4, <1>5, <1>6, <1>7, <1>8, <1>9, <1>10, <1>11, WaysToWrite

LEMMA ReadsNumber ==
  ASSUME NEW v, IsColumnValue(v), v.kind # "Interval", NEW t \in CTypes, NEW ard \in Ard,
         ~IsRefused(WriteNamed(v, t, ard)), IsNumber(WriteNamed(v, t, ard).data)
  PROVE  LET o == WriteNamed(v, t, ard)
         IN \E m \in Delivered(v.n, t, ard) :
              /\ m \in Int /\ o.data.n = m
              /\ o.state = IF m # v.n THEN "01S07" ELSE "00000"
<1>. DEFINE o == WriteNamed(v, t, ard)
            G == \E m \in Delivered(v.n, t, ard) :
                   /\ m \in Int /\ o.data.n = m
                   /\ o.state = IF m # v.n THEN "01S07" ELSE "00000"
<1>1. IsData(v) /\ v.n \in Int
  BY DEF IsColumnValue, IsData
<1>2. SUFFICES G
  OBVIOUS
<1>3. ASSUME o.state = "00000", o.data.n = v.n  PROVE G
  BY <1>1, <1>3 DEF Delivered
<1>4. ASSUME Delivers(o, v.n, t, ard)  PROVE G
  BY <1>4, NumberIs DEF Delivers
<1>5. CASE t \in {"char", "wchar"} /\ o = WriteText(v)
  BY <1>3, <1>5, TextCarries DEF Carries
<1>6. CASE t = "binary" /\ o = WriteBinary(v)
  BY <1>3, <1>6, ImageCarries DEF Carries
<1>7. CASE t = "numeric" /\ o = WriteNumeric(v, ard)
  BY <1>1, <1>4, <1>7, NumericDelivers
<1>8. CASE t \in IntervalType /\ o = WriteNumberAsInterval(v, t, ard)
  <2>1. PICK m \in Int : o.data = Interval(t, m)
    BY <1>8, NumberIntoInterval
  <2>. QED  BY <2>1, IntervalsAreNeither
<1>9. CASE t \in IntervalType /\ v.kind = "String" /\ o = WriteTextAsInterval(v, t, ard)
  <2>. DEFINE w == [v EXCEPT !.kind = "Interval"]
  <2>1. /\ o = WriteInterval(w, t, ard) /\ v.unit \in IntervalType
        /\ IsData(w) /\ w.kind = "Interval" /\ w.unit = v.unit
    BY <1>9, TextIntoInterval
  <2>. HIDE DEF w
  <2>2. o.data = Interval(t, Kept(w.n, Trailing(t))) /\ Kept(w.n, Trailing(t)) \in Int
    BY <1>9, <2>1, IntervalIntoInterval
  <2>. QED  BY <2>2, IntervalsAreNeither
<1>10. CASE t \in IntervalType /\ v.kind # "String" /\ o = WriteInterval(v, t, ard)
  <2>1. o = Refused("07006")
    BY <1>10 DEF WriteInterval
  <2>. QED  BY <2>1 DEF IsRefused, Refused
<1>11. CASE o = IF v.kind = "Guid" THEN Written([v EXCEPT !.kind = "guid"], FALSE)
                ELSE Refused("07006")
  <2>1. CASE v.kind = "Guid"
    <3>1. o.data = [kind |-> "guid", n |-> v.n, date |-> v.date, time |-> v.time,
              fraction |-> v.fraction, form |-> v.form, unit |-> v.unit]
      BY <1>1, <1>11, <2>1, KindIs DEF Written
    <3>2. v.form = "none"
      BY <2>1 DEF IsColumnValue
    <3>3. ~IsNumber(o.data)
      <4>. DEFINE d == o.data
      <4>1. d.kind = "guid" /\ d.form = "none"
        BY <3>1, <3>2
      <4>. HIDE DEF d
      <4>2. ~IsNumber(d)
        BY <4>1, NumericKinds DEF IsNumber
      <4>. QED  BY <4>2 DEF d
    <3>. QED  BY <3>3
  <2>2. CASE v.kind # "Guid"
    <3>1. o = Refused("07006")
      BY <1>11, <2>2
    <3>. QED  BY <3>1 DEF IsRefused, Refused
  <2>. QED  BY <2>1, <2>2
<1>12. CASE /\ t \in Targets
            /\ o = IF PivotRefusal(v) # "00000" THEN Refused(PivotRefusal(v))
                   ELSE WritePivot(v.n, t)
  <2>1. CASE o = Refused(PivotRefusal(v))
    BY <2>1 DEF IsRefused, Refused
  <2>2. CASE o = WritePivot(v.n, t)
    BY <1>1, <1>4, <1>12, <2>2, PivotDelivers
  <2>. QED  BY <1>12, <2>1, <2>2
<1>13. CASE t \in DatetimeForm /\ o = WriteDatetime(v, t)
  <2>0. v.date \in Nat /\ v.time \in Nat /\ v.fraction \in Nat /\ Today \in Nat
    BY <1>1, ConversionAssumption DEF IsData
  <2>1. \E kind \in DatetimeForm : \E a, b, c \in Nat : o.data = Datetime(kind, a, b, c)
    <3>1. (IF HasDate(v) THEN v.date ELSE Today) \in Nat
          /\ (IF v.kind = "Time" THEN 0 ELSE v.fraction) \in Nat
      BY <2>0
    <3>2. CASE t = "date" /\ o = WriteDate(v)
      <4>1. o.data = Datetime("date", v.date, 0, 0)
        BY <3>2 DEF WriteDate, Written
      <4>. QED  BY <2>0, <4>1 DEF DatetimeForm
    <3>3. CASE t = "time" /\ o = WriteTime(v)
      <4>1. o.data = Datetime("time", 0, v.time, 0)
        BY <3>3 DEF WriteTime, Written
      <4>. QED  BY <2>0, <4>1 DEF DatetimeForm
    <3>4. CASE t = "timestamp" /\ o = WriteTimestamp(v)
      <4>1. o.data = Datetime("timestamp", IF HasDate(v) THEN v.date ELSE Today, v.time,
                              IF v.kind = "Time" THEN 0 ELSE v.fraction)
        BY <3>4 DEF WriteTimestamp, Written
      <4>. QED  BY <2>0, <3>1, <4>1 DEF DatetimeForm
    <3>. QED  BY <1>13, <3>2, <3>3, <3>4, WriteDatetimeIs
  <2>2. PICK kind \in DatetimeForm, a \in Nat, b \in Nat, c \in Nat : o.data = Datetime(kind, a, b, c)
    BY <2>1
  <2>3. ~IsNumber(Datetime(kind, a, b, c))
    BY DatetimeIs, NumericKinds DEF IsNumber, DatetimeForm
  <2>. QED  BY <2>2, <2>3
<1>. QED  BY <1>5, <1>6, <1>7, <1>8, <1>9, <1>10, <1>11, <1>12, <1>13, WaysToWrite

-----------------------------------------------------------------------------
(***************************************************************************)
(* What a read of an interval delivers, and what any read may answer.      *)
(***************************************************************************)
LEMMA ReadsInterval ==
  ASSUME NEW v, IsColumnValue(v), IsInterval(v), NEW t \in IntervalType, NEW ard \in Ard,
         ~IsRefused(WriteNamed(v, t, ard))
  PROVE  LET o == WriteNamed(v, t, ard)
         IN /\ IsYearMonth(v.unit) = IsYearMonth(t)
            /\ IF o.state = "00000" THEN o.data.n = v.n
               ELSE TowardZero(v.n, o.data.n, Trailing(t))
            /\ ard.leading > 0 =>
                 Magnitude(o.data.n) < PowerOfTen[ard.leading] * Leading(t)
<1>. DEFINE o == WriteNamed(v, t, ard)
<1>1. IsData(v) /\ (v.kind = "Interval" \/ v.kind = "String")
  BY DEF IsColumnValue, IsInterval
<1>2. t \in CTypes
  BY DEF CTypes
<1>3. /\ t \notin {"char", "wchar", "binary", "numeric", "guid"} /\ t \notin IntegerTarget
      /\ t \notin Targets /\ t \notin DatetimeForm
  BY IntervalTypes DEF IntegerTarget, Signed, Unsigned, Targets, DatetimeForm
<1>4. PICK w : /\ IsData(w) /\ w.kind = "Interval" /\ w.unit = v.unit /\ w.n = v.n
               /\ v.unit \in IntervalType /\ o = WriteInterval(w, t, ard)
  <2>1. CASE v.kind = "Interval"
    <3>1. o = WriteInterval(v, t, ard)
      <4>1. v.kind \notin DOMAIN IntegerKind \cup {"Decimal"}
        BY <2>1 DEF IntegerKind
      <4>. QED  BY <1>2, <1>3, <2>1, <4>1, WaysToWrite
    <3>. QED  BY <1>1, <2>1, <3>1 DEF IsColumnValue
  <2>2. CASE v.kind = "String"
    <3>1. o = WriteTextAsInterval(v, t, ard)
      <4>1. v.kind \notin DOMAIN IntegerKind \cup {"Decimal"}
        BY <2>2 DEF IntegerKind
      <4>. QED  BY <1>2, <1>3, <2>2, <4>1, WaysToWrite
    <3>. QED  BY <2>2, <3>1, TextIntoInterval
  <2>. QED  BY <1>1, <2>1, <2>2
<1>. DEFINE k == Kept(w.n, Trailing(t))
<1>5. /\ IsYearMonth(v.unit) = IsYearMonth(t)
      /\ o.data = Interval(t, k) /\ k \in Int /\ TowardZero(v.n, k, Trailing(t))
      /\ o.state = (IF k # v.n THEN "01S07" ELSE "00000")
      /\ ard.leading > 0 => Magnitude(k) < PowerOfTen[ard.leading] * Leading(t)
  <2>. HIDE DEF o
  <2>. QED  BY <1>4, IntervalIntoInterval DEF o
<1>. HIDE DEF k
<1>6. o.data.n = k
  BY <1>5, IntervalIs
<1>. QED  BY <1>5, <1>6

LEMMA ReadsIntervalAsNumber ==
  ASSUME NEW v, IsColumnValue(v), v.kind = "Interval", NEW t \in CTypes, NEW ard \in Ard,
         ~IsRefused(WriteNamed(v, t, ard)), IsNumber(WriteNamed(v, t, ard).data)
  PROVE  IsSingleField(v.unit) /\ CountDelivered(WriteNamed(v, t, ard), v, t, ard)
<1>. DEFINE o == WriteNamed(v, t, ard)
<1>1. IsData(v) /\ v.n \in Int /\ v.unit \in IntervalType
  BY DEF IsColumnValue, IsData
<1>2. v.kind \notin NumericKind /\ v.kind \notin DOMAIN IntegerKind \cup {"Decimal"}
  BY NumericKinds DEF IntegerKind
<1>3. CASE t \in {"char", "wchar"} /\ o = WriteText(v)
  <2>1. o.data.kind = "text" /\ o.data.form = "interval"
    BY <1>3, TextCarries, FormIs
  <2>. QED  BY <2>1, NumericKinds DEF IsNumber
<1>4. CASE t = "binary" /\ o = WriteBinary(v)
  <2>1. o.data.kind = "image" /\ o.data.form \in {"interval", "none"}
    BY <1>4, ImageCarries, FormIs
  <2>. QED  BY <2>1, NumericKinds DEF IsNumber
<1>5. CASE t \in IntervalType /\ o = WriteInterval(v, t, ard)
  <2>1. o.data = Interval(t, Kept(v.n, Trailing(t))) /\ Kept(v.n, Trailing(t)) \in Int
    BY <1>1, <1>5, IntervalIntoInterval
  <2>. QED  BY <2>1, IntervalsAreNeither
<1>6. CASE o = Refused("07006")
  BY <1>6 DEF IsRefused, Refused
<1>7. CASE t \in IntegerTarget \cup {"numeric"} /\ o = WriteIntervalAsNumber(v, t, ard)
  BY <1>7, IntervalIntoNumber
<1>8. CASE t \in Targets /\ o = IF PivotRefusal(v) # "00000" THEN Refused(PivotRefusal(v))
                                ELSE WritePivot(v.n, t)
  <2>1. PivotRefusal(v) = "07006"
    BY <1>2 DEF PivotRefusal
  <2>. QED  BY <1>8, <2>1 DEF IsRefused, Refused
<1>9. CASE t \in DatetimeForm /\ o = WriteDatetime(v, t)
  <2>1. v.kind \notin DatetimeKind
    BY DEF DatetimeKind
  <2>. QED  BY <1>9, <2>1, WriteDatetimeIs
<1>. QED  BY <1>2, <1>3, <1>4, <1>5, <1>6, <1>7, <1>8, <1>9, WaysToWrite

LEMMA ReadAnswers ==
  ASSUME NEW v, IsColumnValue(v), NEW t \in CTypes, NEW ard \in Ard
  PROVE  WriteNamed(v, t, ard).state \in ReadStates
<1>. DEFINE o == WriteNamed(v, t, ard)
<1>1. IsData(v) /\ v.n \in Int
  BY DEF IsColumnValue, IsData
<1>2. CASE o = WriteText(v)
  BY <1>2, TextCarries DEF ReadStates
<1>3. CASE o = WriteBinary(v)
  BY <1>3, ImageCarries DEF ReadStates
<1>4. CASE o = WriteNumeric(v, ard)
  BY <1>1, <1>4, NumericDelivers
<1>5. CASE t \in IntervalType /\ o = WriteNumberAsInterval(v, t, ard)
  BY <1>5, NumberIntoInterval
<1>6. CASE t \in IntervalType /\ v.kind = "String" /\ o = WriteTextAsInterval(v, t, ard)
  BY <1>6, TextIntoInterval
<1>7. CASE t \in IntervalType /\ o = WriteInterval(v, t, ard)
  <2>1. CASE v.kind = "Interval"
    <3>1. v.unit \in IntervalType
      BY <2>1 DEF IsColumnValue
    <3>. QED  BY <1>1, <1>7, <2>1, <3>1, IntervalIntoInterval
  <2>2. CASE v.kind # "Interval"
    <3>1. o = Refused("07006")
      BY <1>7, <2>2 DEF WriteInterval
    <3>. QED  BY <3>1 DEF Refused, ReadStates
  <2>. QED  BY <2>1, <2>2
<1>8. CASE o = IF v.kind = "Guid" THEN Written([v EXCEPT !.kind = "guid"], FALSE)
               ELSE Refused("07006")
  <2>1. CASE v.kind = "Guid"
    <3>. DEFINE d == [v EXCEPT !.kind = "guid"]
    <3>1. o = Written(d, FALSE)
      BY <1>8, <2>1
    <3>. HIDE DEF d
    <3>2. o.state = "00000"
      BY <3>1 DEF Written
    <3>. QED  BY <3>2 DEF ReadStates
  <2>2. CASE v.kind # "Guid"
    BY <1>8, <2>2 DEF Refused, ReadStates
  <2>. QED  BY <2>1, <2>2
<1>9. CASE v.kind = "Interval" /\ t \in IntegerTarget \cup {"numeric"}
             /\ o = WriteIntervalAsNumber(v, t, ard)
  BY <1>9, IntervalIntoNumber
<1>10. CASE t \in Targets /\ o = IF PivotRefusal(v) # "00000" THEN Refused(PivotRefusal(v))
                                ELSE WritePivot(v.n, t)
  <2>1. CASE PivotRefusal(v) # "00000"
    <3>1. PivotRefusal(v) \in {"07006", "22018", "22003"}
      BY <2>1 DEF PivotRefusal
    <3>2. o = Refused(PivotRefusal(v))
      BY <1>10, <2>1
    <3>. QED  BY <3>1, <3>2 DEF Refused, ReadStates
  <2>2. CASE PivotRefusal(v) = "00000"
    BY <1>1, <1>10, <2>2, PivotDelivers
  <2>. QED  BY <2>1, <2>2
<1>11. CASE t \in DatetimeForm /\ o = WriteDatetime(v, t)
  BY <1>11, WriteDatetimeIs
<1>. QED  BY <1>2, <1>3, <1>4, <1>5, <1>6, <1>7, <1>8, <1>9, <1>10, <1>11, WaysToWrite

(***************************************************************************)
(* The two's complement of a width holds every number in its range.        *)
(***************************************************************************)
LEMMA Remainder ==
  ASSUME NEW x \in Int, NEW q \in Int, NEW s \in Nat \ {0}, q * s <= x, x < q * s + s
  PROVE  x % s = x - q * s
<1>. DEFINE p == x \div s
<1>1. p \in Int /\ p * s \in Int /\ p * s <= x /\ x < p * s + s /\ x % s = x - p * s
  BY Quotient
<1>. HIDE DEF p
<1>2. q * s \in Int
  BY MultipleOf
<1>3. ASSUME p < q  PROVE FALSE
  <2>1. p + 1 <= q /\ (p + 1) * s = p * s + s
    BY <1>1, <1>3, Z3
  <2>2. (p + 1) * s <= q * s
    BY <1>1, <2>1, Z3
  <2>. QED  BY <1>1, <1>2, <2>1, <2>2
<1>4. ASSUME q < p  PROVE FALSE
  <2>1. q + 1 <= p /\ (q + 1) * s = q * s + s
    BY <1>1, <1>4, Z3
  <2>2. (q + 1) * s <= p * s
    BY <1>1, <2>1, Z3
  <2>. QED  BY <1>1, <1>2, <2>1, <2>2
<1>5. p = q
  BY <1>1, <1>3, <1>4
<1>. QED  BY <1>1, <1>5

LEMMA WrappedIs ==
  ASSUME NEW k \in Int, NEW h \in Nat \ {0}
  PROVE  /\ -h <= k /\ k < h => Wrapped(k, h) = k
         /\ h <= k /\ k < 2 * h => Wrapped(k, h) = k - 2 * h
<1>. DEFINE x == k + h
            s == 2 * h
<1>1. x \in Int /\ s \in Nat \ {0} /\ s = h + h /\ 0 * s = 0 /\ 1 * s = s
  OBVIOUS
<1>2. Wrapped(k, h) = (x % s) - h
  BY DEF Wrapped
<1>. HIDE DEF x, s
<1>3. ASSUME 0 <= x, x < s  PROVE x % s = x
  <2>1. x % s = x - 0 * s
    BY <1>1, <1>3, Remainder
  <2>. QED  BY <1>1, <2>1
<1>4. ASSUME s <= x, x < s + s  PROVE x % s = x - s
  <2>1. x % s = x - 1 * s
    BY <1>1, <1>4, Remainder
  <2>. QED  BY <1>1, <2>1
<1>5. ASSUME -h <= k, k < h  PROVE Wrapped(k, h) = k
  <2>1. x % s = x
    BY <1>1, <1>3, <1>5 DEF x
  <2>. QED  BY <1>2, <2>1 DEF x
<1>6. ASSUME h <= k, k < 2 * h  PROVE Wrapped(k, h) = k - 2 * h
  <2>1. x % s = x - s
    BY <1>1, <1>4, <1>6 DEF x
  <2>. QED  BY <1>1, <1>2, <2>1 DEF x
<1>. QED  BY <1>5, <1>6

LEMMA MemoryKeeps ==
  ASSUME NEW c \in NumericCType, NEW n \in Int,
         c \in IntegerTarget => n % One = 0 /\ InRange(Whole(n), c)
  PROVE  ReadNumericParam(c, InMemory(c, n)) = n
<1>. DEFINE k == Whole(n)
<1>1. /\ DOMAIN Signed = {"stinyint", "sshort", "slong", "sbigint"}
      /\ DOMAIN Unsigned = {"utinyint", "ushort", "ulong", "ubigint"}
      /\ \A s \in DOMAIN Signed : Signed[s] \in IntegerWidth
      /\ \A s \in DOMAIN Unsigned : Unsigned[s] \in IntegerWidth
  BY DEF Signed, Unsigned, IntegerWidth
<1>2. \A w \in IntegerWidth : HalfRange[w] \in Nat \ {0}
  BY ConversionAssumption
<1>3. c \in IntegerTarget => n = One * k /\ k \in Int
  BY WholeIs
<1>. HIDE DEF k
<1>4. CASE c \in DOMAIN Signed
  <2>. DEFINE h == HalfRange[Signed[c]]
  <2>1. h \in Nat \ {0}
    BY <1>1, <1>2, <1>4
  <2>2. c \in IntegerTarget /\ c \notin DOMAIN Unsigned
    BY <1>1, <1>4 DEF IntegerTarget
  <2>3. -h <= k /\ k < h
    BY <1>4, <2>2 DEF InRange, k
  <2>4. InMemory(c, n) = One * Wrapped(k, h)
    BY <1>4, <2>2 DEF InMemory, k
  <2>. HIDE DEF h
  <2>5. Wrapped(k, h) = k
    BY <1>3, <2>1, <2>2, <2>3, WrappedIs
  <2>. QED  BY <1>3, <2>2, <2>4, <2>5 DEF ReadNumericParam
<1>5. CASE c \in DOMAIN Unsigned
  <2>. DEFINE h == HalfRange[Unsigned[c]]
  <2>1. h \in Nat \ {0}
    BY <1>1, <1>2, <1>5
  <2>2. c \in IntegerTarget /\ c \notin DOMAIN Signed
    BY <1>1, <1>5 DEF IntegerTarget
  <2>3. 0 <= k /\ k < 2 * h
    BY <1>5, <2>2 DEF InRange, k
  <2>. DEFINE b == InMemory(c, n)
  <2>4. b = One * Wrapped(k, h)
    BY <1>5, <2>2 DEF InMemory, k
  <2>5. ReadNumericParam(c, b) = IF b < 0 THEN b + One * (2 * h) ELSE b
    BY <1>5 DEF ReadNumericParam
  <2>. HIDE DEF h, b
  <2>6. CASE k < h
    <3>1. Wrapped(k, h) = k
      BY <1>3, <2>1, <2>2, <2>3, <2>6, WrappedIs
    <3>2. b = n /\ ~(b < 0)
      BY <1>3, <2>2, <2>3, <2>4, <3>1 DEF One
    <3>. QED  BY <2>5, <3>2 DEF b
  <2>7. CASE h <= k
    <3>1. Wrapped(k, h) = k - 2 * h
      BY <1>3, <2>1, <2>2, <2>3, <2>7, WrappedIs
    <3>2. b < 0 /\ b + One * (2 * h) = n
      BY <1>3, <2>1, <2>2, <2>3, <2>4, <3>1 DEF One
    <3>. QED  BY <2>5, <3>2 DEF b
  <2>. QED  BY <1>3, <2>1, <2>2, <2>6, <2>7
<1>6. CASE c \notin DOMAIN Signed /\ c \notin DOMAIN Unsigned
  BY <1>6 DEF InMemory, ReadNumericParam
<1>. QED  BY <1>4, <1>5, <1>6

(***************************************************************************)
(* A number sent as what the parameter is declared to be.                  *)
(***************************************************************************)
SentAsNumber(o, n) ==
  \E m \in {n, WholePart(n)} :
    /\ m \in Int /\ o.data.n = m /\ o.data.kind \notin {"Interval", "Null", "Nothing"}
    /\ o.state = IF m # n THEN "01S07" ELSE "00000"
SentAsInterval(o, n) ==
  \E unit \in IntervalType :
    /\ IsSingleField(unit) /\ n % One = 0
    /\ o.data = Interval(unit, Whole(n) * Leading(unit)) /\ o.state = "00000"
SentNumber(o, n) ==
  IF IsRefused(o) THEN o.state # "00000" ELSE SentAsNumber(o, n) \/ SentAsInterval(o, n)

LEMMA RefusedSends ==
  ASSUME NEW o, NEW n, NEW s \in SendStates \ {"00000"}, o = Refused(s)
  PROVE  Sends(o) /\ SentNumber(o, n)
BY DEF Refused, IsRefused, Sends, SentNumber

LEMMA NumberSends ==
  ASSUME NEW n \in Int, NEW m \in {n, WholePart(n)}, NEW kind \in NumericKind, NEW o,
         kind = "Bool" => m \in {0, One},
         o.data = Number(kind, m), o.state = IF m # n THEN "01S07" ELSE "00000"
  PROVE  Sends(o) /\ SentNumber(o, n)
<1>1. m \in Int
  BY WholeIs
<1>2. IsColumnValue(Number(kind, m)) /\ Number(kind, m) # Nothing
  BY <1>1, NumberIsValue
<1>3. o.data.n = m /\ o.data.kind = kind /\ kind \notin {"Interval", "Null", "Nothing"}
  BY <1>1, NumberIs, NumericKinds
<1>4. Sends(o)
  BY <1>2 DEF Sends, SendStates
<1>5. SentAsNumber(o, n) /\ ~IsRefused(o)
  BY <1>1, <1>2, <1>3 DEF SentAsNumber, IsRefused
<1>. QED  BY <1>4, <1>5 DEF SentNumber

-----------------------------------------------------------------------------
(***************************************************************************)
(* Sending.  A number as each SQL type.                                    *)
(***************************************************************************)
LEMMA SqlTypesDiffer ==
  /\ DOMAIN SqlInteger = {"tinyint", "smallint", "integer", "bigint"}
  /\ DOMAIN SqlInteger \cap IntervalType = {}
  /\ {"char", "wchar", "decimal", "real", "double", "bit", "date", "time", "timestamp",
      "guid", "varbinary"} \cap (DOMAIN SqlInteger \cup IntervalType) = {}
BY IntervalTypes, SqlIntegers

LEMMA FormSet ==
  ASSUME NEW v, IsData(v), NEW form
  PROVE  [v EXCEPT !.form = form]
           = [kind |-> v.kind, n |-> v.n, date |-> v.date, time |-> v.time,
              fraction |-> v.fraction, form |-> form, unit |-> v.unit]
<1>1. v = [kind |-> v.kind, n |-> v.n, date |-> v.date, time |-> v.time,
           fraction |-> v.fraction, form |-> v.form, unit |-> v.unit]
  BY DEF IsData
<1>. QED  BY <1>1

LEMMA IntegerOfIs ==
  ASSUME NEW n \in Int, NEW sql \in DOMAIN SqlInteger
  PROVE  /\ IntegerOf(sql, n) # Nothing =>
              /\ IntegerOf(sql, n) = Number(SqlInteger[sql], WholePart(n))
              /\ InRange(Whole(n), DefaultCType(sql))
         /\ InRange(Whole(n), DefaultCType(sql)) =>
              IntegerOf(sql, n) = Number(SqlInteger[sql], WholePart(n)) /\ IntegerOf(sql, n) # Nothing
<1>1. WholePart(n) \in Int /\ SqlInteger[sql] \in NumericKind \ {"Bool"}
  BY WholeIs, SqlIntegers, NumericKinds
<1>2. Number(SqlInteger[sql], WholePart(n)) # Nothing
  BY <1>1, NumberIsValue
<1>. QED  BY <1>2 DEF IntegerOf

LEMMA IntervalSends ==
  ASSUME NEW n \in Int, NEW p, p.sql \in IntervalType, IsSingleField(p.sql)
  PROVE  Sends(NumericToInterval(n, p)) /\ SentNumber(NumericToInterval(n, p), n)
<1>. DEFINE o == NumericToInterval(n, p)
            total == Whole(n) * Leading(p.sql)
<1>1. Leading(p.sql) \in Nat \ {0} /\ Whole(n) \in Int
      /\ (p.sql = "year" => Leading(p.sql) = 12)
  BY FieldsOf, WholeIs
<1>2. total \in Int /\ (p.sql = "year" => total % 12 = 0)
  BY <1>1, MultipleOf
<1>3. o = Refused("22015") \/ (n % One = 0 /\ o = Written(Interval(p.sql, total), FALSE))
  BY DEF NumericToInterval
<1>. HIDE DEF total
<1>4. CASE o = Refused("22015")
  BY <1>4, RefusedSends DEF SendStates
<1>5. CASE n % One = 0 /\ o = Written(Interval(p.sql, total), FALSE)
  <2>1. o.data = Interval(p.sql, total) /\ o.state = "00000"
    BY <1>5 DEF Written
  <2>2. IsColumnValue(o.data) /\ o.data # Nothing
    BY <1>2, <2>1, IntervalIsValue
  <2>3. SentAsInterval(o, n)
    BY <1>5, <2>1 DEF SentAsInterval, total
  <2>. HIDE DEF o
  <2>. QED  BY <2>1, <2>2, <2>3 DEF Sends, SendStates, SentNumber, IsRefused, o
<1>. QED  BY <1>3, <1>4, <1>5

LEMMA StringSends ==
  ASSUME NEW n \in Int, NEW form, NEW o,
         o = Written([Number("String", n) EXCEPT !.form = form], FALSE)
  PROVE  Sends(o) /\ SentNumber(o, n)
<1>. DEFINE v == Number("String", n)
            d == [v EXCEPT !.form = form]
<1>1. IsData(v) /\ v.kind = "String" /\ v.n = n
  BY NumberIs
<1>2. v.date \in Nat /\ v.time \in Nat /\ v.fraction \in Nat
  BY <1>1 DEF IsData
<1>. HIDE DEF v
<1>3. d = [kind |-> "String", n |-> n, date |-> v.date, time |-> v.time,
           fraction |-> v.fraction, form |-> form, unit |-> v.unit]
  BY <1>1, FormSet
<1>4. o.data = d /\ o.state = "00000"
  BY DEF Written, v
<1>. HIDE DEF d
<1>5. IsData(d) /\ d.kind = "String" /\ d.n = n
  BY <1>2, <1>3 DEF IsData
<1>6. IsColumnValue(d)
  BY <1>5, NumericKinds DEF IsColumnValue, ColumnKind
<1>7. d # Nothing
  BY <1>5, BlankIs
<1>8. SentAsNumber(o, n)
  BY <1>4, <1>5 DEF SentAsNumber
<1>. QED  BY <1>4, <1>6, <1>7, <1>8 DEF Sends, SendStates, SentNumber, IsRefused

LEMMA NumericSends ==
  ASSUME NEW n \in Int, NEW p, IsParameter(p)
  PROVE  Sends(NumericToSql(n, p)) /\ SentNumber(NumericToSql(n, p), n)
<1>. DEFINE o == NumericToSql(n, p)
            finite == Magnitude(n) < Infinite
            kept == IF p.scale >= 1 THEN n ELSE WholePart(n)
            G == Sends(o) /\ SentNumber(o, n)
<1>1. SUFFICES G
  OBVIOUS
<1>2. p.sql \in SqlType
  BY DEF IsParameter
<1>3. ASSUME NEW s \in SendStates \ {"00000"}, o = Refused(s)  PROVE G
  <2>. HIDE DEF o
  <2>. QED  BY <1>3, RefusedSends
<1>4. ASSUME NEW m \in {n, WholePart(n)}, NEW kind \in NumericKind,
             kind = "Bool" => m \in {0, One},
             o.data = Number(kind, m), o.state = IF m # n THEN "01S07" ELSE "00000"
      PROVE  G
  <2>. HIDE DEF o
  <2>. QED  BY <1>4, NumberSends
<1>5. CASE p.sql \in {"char", "wchar"}
  <2>1. \/ o = Refused("22001")
        \/ o = Written([Number("String", n) EXCEPT
                          !.form = IF finite THEN "number" ELSE "infinity"], FALSE)
    BY <1>5, SqlTypesDiffer DEF NumericToSql
  <2>2. CASE o = Refused("22001")
    BY <1>3, <2>2 DEF SendStates
  <2>. DEFINE form == IF finite THEN "number" ELSE "infinity"
  <2>. HIDE DEF form, o
  <2>3. CASE o = Written([Number("String", n) EXCEPT !.form = form], FALSE)
    BY <2>3, StringSends
  <2>. QED  BY <2>1, <2>2, <2>3 DEF form, o
<1>6. CASE p.sql \in {"decimal"} \cup DOMAIN SqlInteger \cup IntervalType /\ ~finite
  <2>1. o = Refused("22003")
    BY <1>6, SqlTypesDiffer DEF NumericToSql
  <2>. QED  BY <1>3, <2>1 DEF SendStates
<1>7. CASE p.sql = "decimal" /\ finite
  <2>1. \/ o = Refused("22003") \/ o = Written(Number("Decimal", kept), kept # n)
        \/ o = Written(Number("Decimal", n), FALSE)
    BY <1>7, SqlTypesDiffer DEF NumericToSql
  <2>2. CASE o = Refused("22003")
    BY <1>3, <2>2 DEF SendStates
  <2>3. CASE o = Written(Number("Decimal", kept), kept # n)
    <3>1. o.data = Number("Decimal", kept) /\ o.state = IF kept # n THEN "01S07" ELSE "00000"
      BY <2>3 DEF Written
    <3>2. kept \in {n, WholePart(n)} /\ "Decimal" \in NumericKind
      BY NumericKinds
    <3>. QED  BY <1>4, <3>1, <3>2
  <2>4. CASE o = Written(Number("Decimal", n), FALSE)
    <3>1. o.data = Number("Decimal", n) /\ o.state = IF n # n THEN "01S07" ELSE "00000"
      BY <2>4 DEF Written
    <3>. QED  BY <1>4, <3>1, NumericKinds
  <2>. QED  BY <2>1, <2>2, <2>3, <2>4
<1>8. CASE p.sql \in DOMAIN SqlInteger /\ finite
  <2>1. \/ o = Refused("22003")
        \/ o = Written(IntegerOf(p.sql, n), WholePart(n) # n) /\ IntegerOf(p.sql, n) # Nothing
    BY <1>8, SqlTypesDiffer DEF NumericToSql
  <2>2. CASE o = Refused("22003")
    BY <1>3, <2>2 DEF SendStates
  <2>3. CASE o = Written(IntegerOf(p.sql, n), WholePart(n) # n) /\ IntegerOf(p.sql, n) # Nothing
    <3>1. IntegerOf(p.sql, n) = Number(SqlInteger[p.sql], WholePart(n))
      BY <1>8, <2>3, IntegerOfIs
    <3>2. o.data = Number(SqlInteger[p.sql], WholePart(n))
          /\ o.state = IF WholePart(n) # n THEN "01S07" ELSE "00000"
      BY <2>3, <3>1 DEF Written
    <3>3. SqlInteger[p.sql] \in NumericKind /\ SqlInteger[p.sql] # "Bool"
      BY <1>8, SqlIntegers, NumericKinds
    <3>. QED  BY <1>4, <3>2, <3>3
  <2>. QED  BY <2>1, <2>2, <2>3
<1>9. CASE p.sql = "real"
  <2>1. o = Refused("22003") \/ o = Written(Number("F32", n), FALSE)
    BY <1>9, SqlTypesDiffer DEF NumericToSql
  <2>2. CASE o = Refused("22003")
    BY <1>3, <2>2 DEF SendStates
  <2>3. CASE o = Written(Number("F32", n), FALSE)
    <3>1. o.data = Number("F32", n) /\ o.state = IF n # n THEN "01S07" ELSE "00000"
      BY <2>3 DEF Written
    <3>. QED  BY <1>4, <3>1, NumericKinds
  <2>. QED  BY <2>1, <2>2, <2>3
<1>10. CASE p.sql = "double"
  <2>1. o = Written(Number("F64", n), FALSE)
    BY <1>10, SqlTypesDiffer DEF NumericToSql
  <2>2. o.data = Number("F64", n) /\ o.state = IF n # n THEN "01S07" ELSE "00000"
    BY <2>1 DEF Written
  <2>. QED  BY <1>4, <2>2, NumericKinds
<1>11. CASE p.sql = "bit"
  <2>1. \/ o = Refused("22003") \/ o = Refused("22001")
        \/ n \in {0, One} /\ o = Written(Number("Bool", n), FALSE)
    BY <1>11, SqlTypesDiffer DEF NumericToSql
  <2>2. CASE o = Refused("22003")
    BY <1>3, <2>2 DEF SendStates
  <2>3. CASE o = Refused("22001")
    BY <1>3, <2>3 DEF SendStates
  <2>4. CASE n \in {0, One} /\ o = Written(Number("Bool", n), FALSE)
    <3>1. o.data = Number("Bool", n) /\ o.state = IF n # n THEN "01S07" ELSE "00000"
      BY <2>4 DEF Written
    <3>. QED  BY <1>4, <2>4, <3>1, NumericKinds
  <2>. QED  BY <2>1, <2>2, <2>3, <2>4
<1>12. CASE p.sql \in IntervalType /\ finite
  <2>1. o = IF IsSingleField(p.sql) THEN NumericToInterval(n, p) ELSE Refused("07006")
    BY <1>12, SqlTypesDiffer DEF NumericToSql
  <2>2. CASE IsSingleField(p.sql)
    BY <1>12, <2>1, <2>2, IntervalSends
  <2>3. CASE ~IsSingleField(p.sql)
    BY <1>3, <2>1, <2>3 DEF SendStates
  <2>. QED  BY <2>2, <2>3
<1>13. CASE p.sql \in {"date", "time", "timestamp", "guid", "varbinary"}
  <2>1. o = Refused("07006")
    BY <1>13, SqlTypesDiffer DEF NumericToSql
  <2>. QED  BY <1>3, <2>1 DEF SendStates
<1>. QED  BY <1>2, <1>5, <1>6, <1>7, <1>8, <1>9, <1>10, <1>11, <1>12, <1>13 DEF SqlType

(***************************************************************************)
(* Text that spells a date or a time reaches the backend whole.            *)
(***************************************************************************)
SentDatetime(o, text, sql) ==
  ~IsRefused(o) =>
    /\ o.data.time = text.time /\ o.data.fraction = text.fraction
    /\ text.form # "time" /\ sql # "time" => o.data.date = text.date
SentText(o, text, sql) ==
  /\ Sends(o)
  /\ text.form = "number" => SentNumber(o, text.n)
  /\ text.form \in DatetimeForm /\ (text.form = "date" => text.time = 0 /\ text.fraction = 0) =>
       SentDatetime(o, text, sql)

LEMMA RefusedText ==
  ASSUME NEW o, NEW text, NEW sql, NEW s \in SendStates \ {"00000"}, o = Refused(s)
  PROVE  SentText(o, text, sql)
<1>1. Sends(o) /\ SentNumber(o, text.n)
  BY RefusedSends
<1>2. IsRefused(o)
  BY DEF Refused, IsRefused
<1>. QED  BY <1>1, <1>2 DEF SentText, SentDatetime

LEMMA StringText ==
  ASSUME NEW text, IsData(text), NEW o, NEW sql,
         o = Written([text EXCEPT !.kind = "String"], FALSE)
  PROVE  SentText(o, text, sql)
<1>. DEFINE d == [text EXCEPT !.kind = "String"]
<1>1. d = [kind |-> "String", n |-> text.n, date |-> text.date, time |-> text.time,
           fraction |-> text.fraction, form |-> text.form, unit |-> text.unit]
  BY KindIs
<1>2. o.data = d /\ o.state = "00000"
  BY DEF Written
<1>. HIDE DEF d
<1>3. IsData(d) /\ Carries(d, text) /\ d.kind = "String" /\ d.n \in Int
  BY <1>1 DEF IsData, Carries
<1>4. IsColumnValue(d) /\ d # Nothing
  BY <1>3, NumericKinds, BlankIs DEF IsColumnValue, ColumnKind
<1>5. Sends(o) /\ ~IsRefused(o)
  BY <1>2, <1>4 DEF Sends, SendStates, IsRefused
<1>6. SentAsNumber(o, text.n)
  BY <1>2, <1>3 DEF SentAsNumber, Carries
<1>7. SentDatetime(o, text, sql)
  BY <1>2, <1>3 DEF SentDatetime, Carries
<1>. QED  BY <1>5, <1>6, <1>7 DEF SentText, SentNumber

LEMMA NumberText ==
  ASSUME NEW text, IsData(text), NEW p, IsParameter(p),
         p.sql \in {"decimal", "real", "double", "bit"} \cup DOMAIN SqlInteger
  PROVE  SentText(TextToNumber(text, p), text, p.sql)
<1>. DEFINE o == TextToNumber(text, p)
            n == text.n
            G == SentText(o, text, p.sql)
<1>0. n \in Int
  BY DEF IsData
<1>1. SUFFICES G
  OBVIOUS
<1>2. ASSUME NEW s \in SendStates \ {"00000"}, o = Refused(s)  PROVE G
  <2>. HIDE DEF o
  <2>. QED  BY <1>2, RefusedText
<1>3. CASE text.form # "number"
  <2>1. o = Refused("22018")
    BY <1>3 DEF TextToNumber
  <2>. QED  BY <1>2, <2>1 DEF SendStates
<1>4. CASE text.form = "number"
  <2>1. ASSUME NEW kind \in NumericKind, kind = "Bool" => n \in {0, One},
               o = Written(Number(kind, n), FALSE)
        PROVE  G
    <3>1. o.data = Number(kind, n) /\ o.state = IF n # n THEN "01S07" ELSE "00000"
      BY <2>1 DEF Written
    <3>. HIDE DEF o, n
    <3>2. Sends(o) /\ SentNumber(o, n)
      BY <1>0, <2>1, <3>1, NumberSends
    <3>. QED  BY <1>4, <3>2 DEF SentText, DatetimeForm, n
  <2>2. CASE p.sql = "decimal"
    <3>1. o = Written(Number("Decimal", n), FALSE) \/ o = Refused("22001")
      BY <1>4, <2>2, SqlTypesDiffer DEF TextToNumber
    <3>. QED  BY <1>2, <2>1, <3>1, NumericKinds DEF SendStates
  <2>3. CASE p.sql \in DOMAIN SqlInteger
    <3>1. \/ o = Refused("22001")
          \/ /\ n % One = 0 /\ IntegerOf(p.sql, n) # Nothing
             /\ o = Written(IntegerOf(p.sql, n), FALSE)
      BY <1>4, <2>3, SqlTypesDiffer DEF TextToNumber
    <3>2. CASE o = Refused("22001")
      BY <1>2, <3>2 DEF SendStates
    <3>3. CASE /\ n % One = 0 /\ IntegerOf(p.sql, n) # Nothing
               /\ o = Written(IntegerOf(p.sql, n), FALSE)
      <4>1. IntegerOf(p.sql, n) = Number(SqlInteger[p.sql], n)
        BY <1>0, <2>3, <3>3, IntegerOfIs, WholeIs
      <4>2. SqlInteger[p.sql] \in NumericKind /\ SqlInteger[p.sql] # "Bool"
        BY <2>3, SqlIntegers, NumericKinds
      <4>. QED  BY <2>1, <3>3, <4>1, <4>2
    <3>. QED  BY <3>1, <3>2, <3>3
  <2>4. CASE p.sql \in {"real", "double"}
    <3>1. \/ o = Refused("22003") \/ o = Written(Number("F32", n), FALSE)
          \/ o = Written(Number("F64", n), FALSE)
      BY <1>4, <2>4, SqlTypesDiffer DEF TextToNumber
    <3>. QED  BY <1>2, <2>1, <3>1, NumericKinds DEF SendStates
  <2>5. CASE p.sql = "bit"
    <3>1. \/ o = Refused("22003") \/ o = Refused("22001")
          \/ n \in {0, One} /\ o = Written(Number("Bool", n), FALSE)
      BY <1>4, <2>5, SqlTypesDiffer DEF TextToNumber
    <3>. QED  BY <1>2, <2>1, <3>1, NumericKinds DEF SendStates
  <2>. QED  BY <2>2, <2>3, <2>4, <2>5
<1>. QED  BY <1>3, <1>4

LEMMA DatetimeText ==
  ASSUME NEW text, IsData(text), NEW sql \in {"date", "time", "timestamp"}
  PROVE  SentText(TextToDatetime(text, sql), text, sql)
<1>. DEFINE o == TextToDatetime(text, sql)
            G == SentText(o, text, sql)
<1>1. SUFFICES G
  OBVIOUS
<1>2. ASSUME NEW s \in SendStates \ {"00000"}, o = Refused(s)  PROVE G
  <2>. HIDE DEF o
  <2>. QED  BY <1>2, RefusedText
<1>3. CASE text.form = "baddate"
  <2>1. o = Refused("22007")
    BY <1>3, Zenon DEF TextToDatetime, DatetimeForm
  <2>. QED  BY <1>2, <2>1 DEF SendStates
<1>4. CASE text.form \notin DatetimeForm \cup {"baddate"}
  <2>1. o = Refused("22018")
    BY <1>4, SMT DEF TextToDatetime, DatetimeForm
  <2>. QED  BY <1>2, <2>1 DEF SendStates
<1>5. CASE text.form = "time" /\ sql = "date"
  <2>1. o = Refused("22018")
    BY <1>5, SMT DEF TextToDatetime, DatetimeForm
  <2>. QED  BY <1>2, <2>1 DEF SendStates
<1>6. CASE text.form \in DatetimeForm /\ ~(text.form = "time" /\ sql = "date")
  <2>0. /\ text.date \in Nat /\ text.time \in Nat /\ text.fraction \in Nat /\ Today \in Nat
        /\ text.form # "number"
    BY <1>6, ConversionAssumption DEF IsData, DatetimeForm
  <2>1. \/ sql = "date" /\ o = TextToDate(text)
        \/ sql = "time" /\ o = TextToTime(text)
        \/ sql = "timestamp" /\ o = TextToTimestamp(text)
    BY <1>6, SMT DEF TextToDatetime, DatetimeForm
  <2>2. ASSUME NEW kind \in DatetimeKind, NEW d \in Nat, NEW t \in Nat, NEW f \in Nat,
               o = Written(Datetime(kind, d, t, f), FALSE),
               t = text.time, f = text.fraction,
               text.form # "time" /\ sql # "time" => d = text.date
        PROVE  G
    <3>1. o.data = Datetime(kind, d, t, f) /\ o.state = "00000"
      BY <2>2 DEF Written
    <3>2. IsColumnValue(o.data) /\ o.data # Nothing
          /\ o.data.date = d /\ o.data.time = t /\ o.data.fraction = f
      BY <3>1, DatetimeIsValue, DatetimeIs
    <3>. HIDE DEF o
    <3>3. Sends(o)
      BY <3>1, <3>2 DEF Sends, SendStates
    <3>. QED  BY <2>0, <2>2, <3>2, <3>3 DEF SentText, SentDatetime
  <2>3. CASE sql = "date" /\ o = TextToDate(text)
    <3>1. \/ o = Refused("22008")
          \/ /\ text.time = 0 /\ text.fraction = 0
             /\ o = Written(Datetime("Date", text.date, 0, 0), FALSE)
      BY <2>0, <2>3 DEF TextToDate
    <3>2. CASE o = Refused("22008")
      BY <1>2, <3>2 DEF SendStates
    <3>3. CASE /\ text.time = 0 /\ text.fraction = 0
               /\ o = Written(Datetime("Date", text.date, 0, 0), FALSE)
      BY <2>0, <2>2, <3>3 DEF DatetimeKind
    <3>. QED  BY <3>1, <3>2, <3>3
  <2>4. CASE sql = "time" /\ o = TextToTime(text)
    <3>1. \/ o = Refused("22008")
          \/ o = Written(Datetime("Time", 0, text.time, text.fraction), FALSE)
      BY <2>4 DEF TextToTime
    <3>2. CASE o = Refused("22008")
      BY <1>2, <3>2 DEF SendStates
    <3>3. CASE o = Written(Datetime("Time", 0, text.time, text.fraction), FALSE)
      BY <2>0, <2>2, <2>4, <3>3 DEF DatetimeKind
    <3>. QED  BY <3>1, <3>2, <3>3
  <2>5. CASE sql = "timestamp" /\ o = TextToTimestamp(text)
    <3>. DEFINE d == IF text.form = "time" THEN Today ELSE text.date
    <3>1. o = Written(Datetime("Timestamp", d, text.time, text.fraction), FALSE)
      BY <2>5 DEF TextToTimestamp
    <3>2. d \in Nat /\ (text.form # "time" => d = text.date)
      BY <2>0
    <3>. HIDE DEF d
    <3>. QED  BY <2>0, <2>2, <2>5, <3>1, <3>2 DEF DatetimeKind
  <2>. QED  BY <2>1, <2>3, <2>4, <2>5
<1>. QED  BY <1>3, <1>4, <1>5, <1>6

LEMMA BytesSend ==
  ASSUME NEW v, IsData(v), v.unit \in DOMAIN Width, NEW o,
         o = Written([v EXCEPT !.kind = "Bytes", !.form = "none"], FALSE)
  PROVE  /\ Sends(o) /\ ~IsRefused(o)
         /\ o.data = [kind |-> "Bytes", n |-> v.n, date |-> v.date, time |-> v.time,
                      fraction |-> v.fraction, form |-> "none", unit |-> v.unit]
<1>. DEFINE d == [v EXCEPT !.kind = "Bytes", !.form = "none"]
<1>1. d = [kind |-> "Bytes", n |-> v.n, date |-> v.date, time |-> v.time,
           fraction |-> v.fraction, form |-> "none", unit |-> v.unit]
  BY TextIs
<1>2. o.data = d /\ o.state = "00000"
  BY DEF Written
<1>. HIDE DEF d
<1>3. IsData(d) /\ d.kind = "Bytes" /\ d.form = "none" /\ d.unit \in DOMAIN Width
  BY <1>1 DEF IsData
<1>4. IsColumnValue(d) /\ d # Nothing
  BY <1>3, NumericKinds, BlankIs DEF IsColumnValue, ColumnKind
<1>. QED  BY <1>1, <1>2, <1>4 DEF Sends, SendStates, IsRefused

LEMMA TextSends ==
  ASSUME NEW text, IsData(text), IsText(text), NEW p, IsParameter(p)
  PROVE  SentText(TextToSql(text, p), text, p.sql)
<1>. DEFINE o == TextToSql(text, p)
            G == SentText(o, text, p.sql)
<1>1. SUFFICES G
  OBVIOUS
<1>2. ASSUME NEW s \in SendStates \ {"00000"}, o = Refused(s)  PROVE G
  <2>. HIDE DEF o
  <2>. QED  BY <1>2, RefusedText
<1>3. CASE p.sql \in {"decimal", "real", "double", "bit"} \cup DOMAIN SqlInteger
  <2>0. p.sql \notin {"date", "time", "timestamp"} /\ p.sql # "varbinary"
        /\ p.sql \notin {"char", "wchar"}
    BY <1>3, SqlTypesDiffer
  <2>1. o = TextToNumber(text, p)
    BY <1>3, <2>0, Zenon DEF TextToSql
  <2>. QED  BY <1>3, <2>1, NumberText
<1>4. CASE p.sql \in {"date", "time", "timestamp"}
  <2>0. p.sql \notin {"decimal", "real", "double", "bit"} \cup DOMAIN SqlInteger
        /\ p.sql # "varbinary" /\ p.sql \notin {"char", "wchar"}
    BY <1>4, SqlTypesDiffer
  <2>1. o = TextToDatetime(text, p.sql)
    BY <1>4, <2>0, Zenon DEF TextToSql
  <2>. QED  BY <1>4, <2>1, DatetimeText
<1>5. CASE p.sql = "varbinary"
  <2>1. o = HexToBinary(text, p)
    BY <1>5, SqlTypesDiffer, SMT DEF TextToSql
  <2>2. \/ o = Refused("22018") \/ o = Refused("22001")
        \/ text.form = "hex" /\ o = Written([text EXCEPT !.kind = "Bytes", !.form = "none"], FALSE)
    <3>. HIDE DEF o
    <3>. QED  BY <2>1, Zenon DEF HexToBinary
  <2>3. CASE o = Refused("22018")
    BY <1>2, <2>3 DEF SendStates
  <2>4. CASE o = Refused("22001")
    BY <1>2, <2>4 DEF SendStates
  <2>5. CASE text.form = "hex" /\ o = Written([text EXCEPT !.kind = "Bytes", !.form = "none"], FALSE)
    <3>1. Sends(o)
      <4>. HIDE DEF o
      <4>1. text.unit \in DOMAIN Width
        BY <2>5 DEF IsText
      <4>. QED  BY <2>5, <4>1, BytesSend
    <3>. HIDE DEF o
    <3>. QED  BY <2>5, <3>1 DEF SentText, DatetimeForm
  <2>. QED  BY <2>2, <2>3, <2>4, <2>5
<1>6. CASE p.sql \in {"char", "wchar"} /\ TooLong(TextLength(text), p.size)
  <2>1. o = Refused("22001")
    BY <1>6, SqlTypesDiffer, SMT DEF TextToSql
  <2>. QED  BY <1>2, <2>1 DEF SendStates
<1>7. CASE /\ p.sql \notin {"decimal", "real", "double", "bit"} \cup DOMAIN SqlInteger
           /\ p.sql \notin {"date", "time", "timestamp", "varbinary"}
           /\ ~(p.sql \in {"char", "wchar"} /\ TooLong(TextLength(text), p.size))
  <2>. DEFINE d == [text EXCEPT !.kind = "String"]
  <2>1. o = Written(d, FALSE)
    <3>1. d = [text EXCEPT !.kind = "String"]
      OBVIOUS
    <3>. QED  BY <1>7, Zenon DEF TextToSql
  <2>. HIDE DEF o
  <2>. QED  BY <2>1, StringText
<1>. QED  BY <1>3, <1>4, <1>5, <1>6, <1>7

-----------------------------------------------------------------------------
(***************************************************************************)
(* Bytes as each SQL type, and the structs.                                *)
(***************************************************************************)
LEMMA Layouts ==
  DOMAIN FixedLayout = {"tinyint", "smallint", "integer", "bigint", "real", "double", "bit",
                        "date", "time", "timestamp"}
BY DEF FixedLayout

LEMMA ValueSends ==
  ASSUME NEW d, IsColumnValue(d), d # Nothing
  PROVE  Sends(Written(d, FALSE)) /\ Written(d, FALSE).data = d /\ Written(d, FALSE).state = "00000"
BY DEF Written, Sends, SendStates

(***************************************************************************)
(* What the bytes of a parameter are sent as.                              *)
(***************************************************************************)
SentAs(o, d) == o.state = "00000" /\ o.data = d

LEMMA WrittenIs ==
  ASSUME NEW o, NEW d, o = Written(d, FALSE)
  PROVE  SentAs(o, d)
BY DEF Written, SentAs

LEMMA WaysToSendBinary ==
  ASSUME NEW image, NEW p
  PROVE  LET o == BinaryToSql(image, p)
         IN IF ~BinaryTargetIsSupported(p.sql) \/ ~FitsTheType(image, p)
            THEN \E s \in {"07006", "22001", "22003"} : o = Refused(s)
            ELSE  \/ p.sql = "varbinary" /\ SentAs(o, [image EXCEPT !.kind = "Bytes"])
                  \/ /\ p.sql \in DOMAIN SqlInteger
                     /\ SentAs(o, Number(SqlInteger[p.sql], image.n))
                  \/ p.sql = "real" /\ SentAs(o, Number("F32", image.n))
                  \/ p.sql = "double" /\ SentAs(o, Number("F64", image.n))
                  \/ /\ p.sql = "bit"
                     /\ SentAs(o, Number("Bool", IF image.n = 0 THEN 0 ELSE One))
                  \/ p.sql = "date" /\ SentAs(o, Datetime("Date", image.date, 0, 0))
                  \/ p.sql = "time" /\ SentAs(o, Datetime("Time", 0, image.time, 0))
                  \/ /\ p.sql = "timestamp"
                     /\ SentAs(o, Datetime("Timestamp", image.date, image.time, image.fraction))
<1>. DEFINE o == BinaryToSql(image, p)
<1>1. CASE ~BinaryTargetIsSupported(p.sql)
  <2>1. o = Refused("07006")
    BY <1>1, Zenon DEF BinaryToSql
  <2>. QED  BY <1>1, <2>1
<1>2. CASE BinaryTargetIsSupported(p.sql) /\ ~FitsTheType(image, p)
  <2>1. o = Refused(IF p.sql = "varbinary" THEN "22001" ELSE "22003")
    BY <1>2, Zenon DEF BinaryToSql
  <2>. QED  BY <1>2, <2>1
<1>3. CASE BinaryTargetIsSupported(p.sql) /\ FitsTheType(image, p)
  <2>1. p.sql = "varbinary" \/ p.sql \in DOMAIN FixedLayout
    BY <1>3 DEF BinaryTargetIsSupported
  <2>2. CASE p.sql = "varbinary"
    <3>1. p.sql \notin DOMAIN SqlInteger
      BY <2>2, SqlIntegers
    <3>2. o = Written([image EXCEPT !.kind = "Bytes"], FALSE)
      BY <1>3, <2>2, <3>1, Zenon DEF BinaryToSql
    <3>3. SentAs(o, [image EXCEPT !.kind = "Bytes"])
      BY <3>2, WrittenIs, Zenon
    <3>. QED  BY <1>3, <2>2, <3>3, Zenon
  <2>3. CASE p.sql \in DOMAIN SqlInteger
    <3>1. p.sql \notin {"varbinary", "real", "double", "bit", "date", "time", "timestamp"}
      BY <2>3, SqlIntegers
    <3>2. o = Written(Number(SqlInteger[p.sql], image.n), FALSE)
      BY <1>3, <2>3, <3>1, Zenon DEF BinaryToSql
    <3>3. SentAs(o, Number(SqlInteger[p.sql], image.n))
      BY <3>2, WrittenIs, Zenon
    <3>. QED  BY <1>3, <2>3, <3>3, Zenon
  <2>4. CASE p.sql \in {"real", "double", "bit", "date", "time", "timestamp"}
    <3>1. p.sql # "varbinary" /\ p.sql \notin DOMAIN SqlInteger
      BY <2>4, SqlIntegers
    <3>2. CASE p.sql = "real"
      <4>1. o = Written(Number("F32", image.n), FALSE)
        BY <1>3, <3>1, <3>2, Zenon DEF BinaryToSql
      <4>3. SentAs(o, Number("F32", image.n))
        BY <4>1, WrittenIs, Zenon
      <4>. QED  BY <1>3, <3>2, <4>3, Zenon
    <3>3. CASE p.sql = "double"
      <4>1. o = Written(Number("F64", image.n), FALSE)
        BY <1>3, <3>1, <3>3, Zenon DEF BinaryToSql
      <4>3. SentAs(o, Number("F64", image.n))
        BY <4>1, WrittenIs, Zenon
      <4>. QED  BY <1>3, <3>3, <4>3, Zenon
    <3>4. CASE p.sql = "bit"
      <4>1. o = Written(Number("Bool", IF image.n = 0 THEN 0 ELSE One), FALSE)
        BY <1>3, <3>1, <3>4, Zenon DEF BinaryToSql
      <4>3. SentAs(o, Number("Bool", IF image.n = 0 THEN 0 ELSE One))
        BY <4>1, WrittenIs, Zenon
      <4>. QED  BY <1>3, <3>4, <4>3, Zenon
    <3>5. CASE p.sql = "date"
      <4>1. o = Written(Datetime("Date", image.date, 0, 0), FALSE)
        BY <1>3, <3>1, <3>5, Zenon DEF BinaryToSql
      <4>3. SentAs(o, Datetime("Date", image.date, 0, 0))
        BY <4>1, WrittenIs, Zenon
      <4>. QED  BY <1>3, <3>5, <4>3, Zenon
    <3>6. CASE p.sql = "time"
      <4>1. o = Written(Datetime("Time", 0, image.time, 0), FALSE)
        BY <1>3, <3>1, <3>6, Zenon DEF BinaryToSql
      <4>3. SentAs(o, Datetime("Time", 0, image.time, 0))
        BY <4>1, WrittenIs, Zenon
      <4>. QED  BY <1>3, <3>6, <4>3, Zenon
    <3>7. CASE p.sql = "timestamp"
      <4>1. o = Written(Datetime("Timestamp", image.date, image.time, image.fraction), FALSE)
        BY <1>3, <3>1, <3>7, Zenon DEF BinaryToSql
      <4>3. SentAs(o, Datetime("Timestamp", image.date, image.time, image.fraction))
        BY <4>1, WrittenIs, Zenon
      <4>. QED  BY <1>3, <3>7, <4>3, Zenon
    <3>. QED  BY <2>4, <3>2, <3>3, <3>4, <3>5, <3>6, <3>7
  <2>. QED  BY <2>1, <2>2, <2>3, <2>4, Layouts, SqlIntegers
<1>. QED  BY <1>1, <1>2, <1>3

LEMMA BytesIs ==
  ASSUME NEW image, IsData(image), image.form = "none", image.unit \in DOMAIN Width
  PROVE  /\ IsColumnValue([image EXCEPT !.kind = "Bytes"])
         /\ [image EXCEPT !.kind = "Bytes"] # Nothing
         /\ [image EXCEPT !.kind = "Bytes"]
              = [kind |-> "Bytes", n |-> image.n, date |-> image.date, time |-> image.time,
                 fraction |-> image.fraction, form |-> "none", unit |-> image.unit]
<1>. DEFINE d == [image EXCEPT !.kind = "Bytes"]
<1>1. d = [kind |-> "Bytes", n |-> image.n, date |-> image.date, time |-> image.time,
           fraction |-> image.fraction, form |-> "none", unit |-> image.unit]
  BY KindIs
<1>. HIDE DEF d
<1>2. IsData(d) /\ d.kind = "Bytes" /\ d.form = "none" /\ d.unit \in DOMAIN Width
  BY <1>1 DEF IsData
<1>3. IsColumnValue(d) /\ d # Nothing
  BY <1>2, NumericKinds, BlankIs DEF IsColumnValue, ColumnKind
<1>. QED  BY <1>1, <1>3 DEF d

LEMMA BinarySends ==
  ASSUME NEW image, IsData(image), image.form = "none", image.unit \in DOMAIN Width, NEW p, IsParameter(p)
  PROVE  Sends(BinaryToSql(image, p))
<1>. DEFINE o == BinaryToSql(image, p)
<1>1. /\ image.n \in Int /\ image.date \in Nat /\ image.time \in Nat /\ image.fraction \in Nat
  BY DEF IsData
<1>0. SUFFICES Sends(o)
  OBVIOUS
<1>. HIDE DEF o
<1>2. ASSUME NEW s \in {"07006", "22001", "22003"}, o = Refused(s)  PROVE Sends(o)
  BY <1>2, RefusedSends DEF SendStates
<1>3. ASSUME NEW kind \in NumericKind, NEW n \in Int, kind = "Bool" => n \in {0, One},
             SentAs(o, Number(kind, n))
      PROVE  Sends(o)
  BY <1>3, NumberIsValue DEF SentAs, Sends, SendStates
<1>4. ASSUME NEW kind \in DatetimeKind, NEW d \in Nat, NEW t \in Nat, NEW f \in Nat,
             SentAs(o, Datetime(kind, d, t, f))
      PROVE  Sends(o)
  BY <1>4, DatetimeIsValue DEF SentAs, Sends, SendStates
<1>. DEFINE b == [image EXCEPT !.kind = "Bytes"]
            bit == IF image.n = 0 THEN 0 ELSE One
<1>5. \/ \E s \in {"07006", "22001", "22003"} : o = Refused(s)
      \/ SentAs(o, b)
      \/ p.sql \in DOMAIN SqlInteger /\ SentAs(o, Number(SqlInteger[p.sql], image.n))
      \/ SentAs(o, Number("F32", image.n)) \/ SentAs(o, Number("F64", image.n)) \/ SentAs(o, Number("Bool", bit))
      \/ SentAs(o, Datetime("Date", image.date, 0, 0)) \/ SentAs(o, Datetime("Time", 0, image.time, 0))
      \/ SentAs(o, Datetime("Timestamp", image.date, image.time, image.fraction))
  BY WaysToSendBinary, Zenon DEF o
<1>6. SentAs(o, b) => Sends(o)
  <2>1. IsColumnValue(b)
    BY BytesIs
  <2>. HIDE DEF b
  <2>. QED  BY <2>1 DEF SentAs, Sends, SendStates
<1>7. bit \in {0, One} /\ bit \in Int
  BY OneIs
<1>. HIDE DEF b, bit
<1>8. CASE p.sql \in DOMAIN SqlInteger /\ SentAs(o, Number(SqlInteger[p.sql], image.n))
  <2>1. SqlInteger[p.sql] \in NumericKind /\ SqlInteger[p.sql] # "Bool"
    BY <1>8, SqlIntegers, NumericKinds
  <2>. QED  BY <1>1, <1>3, <1>8, <2>1
<1>9. CASE SentAs(o, Number("F32", image.n)) \/ SentAs(o, Number("F64", image.n)) \/ SentAs(o, Number("Bool", bit))
  BY <1>1, <1>3, <1>7, <1>9, NumericKinds
<1>10. CASE \/ SentAs(o, Datetime("Date", image.date, 0, 0)) \/ SentAs(o, Datetime("Time", 0, image.time, 0))
            \/ SentAs(o, Datetime("Timestamp", image.date, image.time, image.fraction))
  BY <1>1, <1>4, <1>10 DEF DatetimeKind
<1>. QED  BY <1>2, <1>5, <1>6, <1>8, <1>9, <1>10

LEMMA StructSends ==
  ASSUME NEW c \in {"bit", "date", "time", "timestamp", "guid"},
         NEW d, IsData(d), d.form = "none"
  PROVE  Sends(Written(ReadStruct(c, d), FALSE))
<1>1. d.n \in Int /\ d.date \in Nat /\ d.time \in Nat /\ d.fraction \in Nat
  BY DEF IsData
<1>. DEFINE v == ReadStruct(c, d)
<1>2. SUFFICES IsColumnValue(v) /\ v # Nothing
  BY ValueSends
<1>3. CASE c = "bit"
  <2>. DEFINE n == IF d.n = 0 THEN 0 ELSE One
  <2>1. n \in {0, One} /\ n \in Int
    BY OneIs
  <2>2. v = Number("Bool", n)
    BY <1>3, Zenon DEF ReadStruct
  <2>. HIDE DEF n, v
  <2>. QED  BY <2>1, <2>2, NumberIsValue, NumericKinds
<1>4. CASE c = "date"
  <2>1. v = Datetime("Date", d.date, 0, 0)
    BY <1>4, Zenon DEF ReadStruct
  <2>. QED  BY <1>1, <2>1, DatetimeIsValue DEF DatetimeKind
<1>5. CASE c = "time"
  <2>1. v = Datetime("Time", 0, d.time, 0)
    BY <1>5, Zenon DEF ReadStruct
  <2>. QED  BY <1>1, <2>1, DatetimeIsValue DEF DatetimeKind
<1>6. CASE c = "timestamp"
  <2>1. v = Datetime("Timestamp", d.date, d.time, d.fraction)
    BY <1>6, Zenon DEF ReadStruct
  <2>. QED  BY <1>1, <2>1, DatetimeIsValue DEF DatetimeKind
<1>7. CASE c = "guid"
  <2>. DEFINE g == [d EXCEPT !.kind = "Guid"]
  <2>1. v = g
    BY <1>7, Zenon DEF ReadStruct
  <2>2. g = [kind |-> "Guid", n |-> d.n, date |-> d.date, time |-> d.time,
             fraction |-> d.fraction, form |-> d.form, unit |-> d.unit]
    BY KindIs
  <2>. HIDE DEF g
  <2>3. IsData(g) /\ g.kind = "Guid" /\ g.form = "none"
    BY <1>1, <2>2 DEF IsData
  <2>4. IsColumnValue(g) /\ g # Nothing
    BY <2>3, NumericKinds, BlankIs DEF IsColumnValue, ColumnKind
  <2>. HIDE DEF v
  <2>. QED  BY <2>1, <2>4
<1>. QED  BY <1>3, <1>4, <1>5, <1>6, <1>7

-----------------------------------------------------------------------------
(***************************************************************************)
(* A parameter, whatever its C type.                                       *)
(***************************************************************************)
LEMMA CTypesDiffer ==
  /\ IntegerTarget = {"stinyint", "sshort", "slong", "sbigint",
                      "utinyint", "ushort", "ulong", "ubigint"}
  /\ NumericCType = IntegerTarget \cup {"float", "double", "numeric"}
  /\ NumericCType \subseteq CTypes /\ NumericCType \cap IntervalType = {}
  /\ {"bit", "char", "wchar", "binary", "date", "time", "timestamp", "guid"} \subseteq CTypes
  /\ {"bit", "char", "wchar", "binary", "date", "time", "timestamp", "guid"}
        \cap (NumericCType \cup IntervalType) = {}
<1>1. IntegerTarget = {"stinyint", "sshort", "slong", "sbigint",
                      "utinyint", "ushort", "ulong", "ubigint"}
  BY DEF IntegerTarget, Signed, Unsigned
<1>2. NumericCType = IntegerTarget \cup {"float", "double", "numeric"}
  BY DEF NumericCType
<1>3. NumericCType \subseteq CTypes
      /\ {"bit", "char", "wchar", "binary", "date", "time", "timestamp", "guid"} \subseteq CTypes
  BY <1>2 DEF CTypes
<1>. QED  BY <1>1, <1>2, <1>3, IntervalTypes

(***************************************************************************)
(* What read_param_value does, by the C type bound.                        *)
(***************************************************************************)
IsGiven(p) == p.indicator \notin {"null", "default"} /\ p.pointer

LEMMA WaysToSend ==
  ASSUME NEW p, IsParameter(p), PairingIsSupported(ResolveCType(p), p.sql)
  PROVE  LET o == ReadParamValue(p)
             c == ResolveCType(p)
         IN /\ ~IsGiven(p) => SentAs(o, Blank)
            /\ IsGiven(p) =>
                 \/ c \in NumericCType /\ o = NumericToSql(p.data.n, p)
                 \/ c \in {"char", "wchar"} /\ o = ReadText(p)
                 \/ c = "binary" /\ o = ReadBinary(p)
                 \/ /\ c \in {"bit", "date", "time", "timestamp", "guid"}
                    /\ o = Written(ReadStruct(c, p.data), FALSE)
<1>. DEFINE o == ReadParamValue(p)
            c == ResolveCType(p)
<1>1. /\ c \in NumericCType \cup {"bit", "char", "wchar", "binary", "date", "time", "timestamp",
                             "guid"}
      /\ c \in CTypes /\ c \notin IntervalType
  BY CTypesDiffer DEF PairingIsSupported
<1>2. /\ p.data.n \in Int /\ LiesIn(p.data, c, p.sql) /\ p.pointer \in BOOLEAN
  BY DEF IsParameter, IsData
<1>3. CASE ~IsGiven(p)
  <2>1. p.indicator \in {"null", "default"} \/ ~p.pointer
    BY <1>3 DEF IsGiven
  <2>2. o = Written(Blank, FALSE)
    BY <2>1, Zenon DEF ReadParamValue
  <2>. QED  BY <1>3, <2>2, WrittenIs, Zenon
<1>4. CASE IsGiven(p)
  <2>1. ~(p.indicator \in {"null", "default"} \/ ~p.pointer)
    BY <1>4 DEF IsGiven
  <2>2. CASE c \in NumericCType
    <3>1. c \notin {"char", "wchar", "binary"}
      BY <2>2, CTypesDiffer
    <3>2. o = NumericToSql(ReadNumericParam(c, InMemory(c, p.data.n)), p)
      BY <1>1, <2>1, <2>2, <3>1, Zenon DEF ReadParamValue
    <3>3. ReadNumericParam(c, InMemory(c, p.data.n)) = p.data.n
      <4>. HIDE DEF c
      <4>1. c \in IntegerTarget => p.data.n % One = 0 /\ InRange(Whole(p.data.n), c)
        BY <1>2 DEF LiesIn
      <4>. QED  BY <1>2, <2>2, <4>1, MemoryKeeps
    <3>. QED  BY <1>4, <2>2, <3>2, <3>3, Zenon
  <2>3. CASE c \in {"char", "wchar"}
    <3>1. c \notin NumericCType /\ c # "binary"
      BY <2>3, CTypesDiffer
    <3>2. o = ReadText(p)
      BY <1>1, <2>1, <2>3, <3>1, Zenon DEF ReadParamValue
    <3>. QED  BY <1>4, <2>3, <3>2, Zenon
  <2>4. CASE c = "binary"
    <3>1. c \notin NumericCType /\ c \notin {"char", "wchar"}
      BY <2>4, CTypesDiffer
    <3>2. o = ReadBinary(p)
      BY <1>1, <2>1, <2>4, <3>1, Zenon DEF ReadParamValue
    <3>. QED  BY <1>4, <2>4, <3>2, Zenon
  <2>5. CASE c \in {"bit", "date", "time", "timestamp", "guid"}
    <3>1. c \notin NumericCType /\ c \notin {"char", "wchar", "binary"}
      BY <2>5, CTypesDiffer
    <3>2. o = Written(ReadStruct(c, p.data), FALSE)
      BY <1>1, <2>1, <2>5, <3>1, Zenon DEF ReadParamValue
    <3>. QED  BY <1>4, <2>5, <3>2, Zenon
  <2>. QED  BY <1>1, <2>2, <2>3, <2>4, <2>5
<1>. QED  BY <1>3, <1>4

LEMMA BlankSends ==
  ASSUME NEW o, SentAs(o, Blank)
  PROVE  Sends(o) /\ o.data.kind = "Null" /\ ~IsRefused(o)
<1>1. Blank.kind = "Null" /\ Blank.form = "none" /\ Blank # Nothing /\ IsData(Blank)
  BY BlankIs
<1>2. IsColumnValue(Blank)
  BY <1>1, NumericKinds DEF IsColumnValue, ColumnKind
<1>. QED  BY <1>1, <1>2 DEF SentAs, Sends, SendStates, IsRefused

LEMMA ParameterSends ==
  ASSUME NEW p, IsParameter(p), PairingIsSupported(ResolveCType(p), p.sql)
  PROVE  LET o == ReadParamValue(p)
             c == ResolveCType(p)
         IN /\ Sends(o)
            /\ c # "bit" /\ IsNumber(p.data) /\ p.indicator = "value" /\ p.pointer =>
                 SentNumber(o, p.data.n)
            /\ c \in {"char", "wchar"} /\ IsDatetime(p.data) /\ ~IsRefused(o)
                 /\ o.data.kind # "Null" => SentDatetime(o, p.data, p.sql)
<1>. DEFINE o == ReadParamValue(p)
            c == ResolveCType(p)
            G == /\ Sends(o)
                 /\ c # "bit" /\ IsNumber(p.data) /\ p.indicator = "value" /\ p.pointer =>
                      SentNumber(o, p.data.n)
                 /\ c \in {"char", "wchar"} /\ IsDatetime(p.data) /\ ~IsRefused(o)
                      /\ o.data.kind # "Null" => SentDatetime(o, p.data, p.sql)
<1>1. SUFFICES G
  OBVIOUS
<1>2. IsData(p.data) /\ p.data.n \in Int /\ LiesIn(p.data, c, p.sql)
  BY DEF IsParameter, IsData
<1>3. /\ ~IsGiven(p) => SentAs(o, Blank)
      /\ IsGiven(p) =>
           \/ c \in NumericCType /\ o = NumericToSql(p.data.n, p)
           \/ c \in {"char", "wchar"} /\ o = ReadText(p)
           \/ c = "binary" /\ o = ReadBinary(p)
           \/ /\ c \in {"bit", "date", "time", "timestamp", "guid"}
              /\ o = Written(ReadStruct(c, p.data), FALSE)
  BY WaysToSend
<1>4. p.indicator = "value" /\ p.pointer => IsGiven(p)
  BY DEF IsGiven
<1>. HIDE DEF o, c
<1>5. CASE ~IsGiven(p)
  BY <1>3, <1>4, <1>5, BlankSends
<1>6. CASE c \in NumericCType /\ o = NumericToSql(p.data.n, p)
  <2>1. Sends(o) /\ SentNumber(o, p.data.n)
    BY <1>2, <1>6, NumericSends
  <2>2. c \notin {"char", "wchar"}
    BY <1>6, CTypesDiffer
  <2>. QED  BY <2>1, <2>2
<1>7. CASE c \in {"char", "wchar"} /\ o = ReadText(p)
  <2>1. IsText(p.data)
    BY <1>2, <1>7 DEF LiesIn
  <2>2. CASE UndefinedIndicator(p)
    <3>1. o = Refused("HY090")
      BY <1>7, <2>2, Zenon DEF ReadText
    <3>2. Sends(o) /\ SentNumber(o, p.data.n) /\ IsRefused(o)
      BY <3>1, RefusedSends DEF SendStates, IsRefused, Refused
    <3>. QED  BY <3>2
  <2>3. CASE ~UndefinedIndicator(p)
    <3>1. o = TextToSql(p.data, p)
      BY <1>7, <2>3, Zenon DEF ReadText
    <3>2. SentText(o, p.data, p.sql)
      BY <1>2, <2>1, <3>1, TextSends
    <3>3. IsNumber(p.data) => p.data.form = "number"
      BY <2>1, NumericKinds DEF IsText, IsNumber
    <3>4. IsDatetime(p.data) =>
            /\ p.data.form \in DatetimeForm
            /\ p.data.form = "date" => p.data.time = 0 /\ p.data.fraction = 0
      BY <2>1 DEF IsText, IsDatetime, DatetimeKind
    <3>. QED  BY <3>2, <3>3, <3>4 DEF SentText
  <2>. QED  BY <2>2, <2>3
<1>8. CASE c = "binary" /\ o = ReadBinary(p)
  <2>1. p.data.kind = "image" /\ p.data.form = "none" /\ p.data.unit \in DOMAIN Width
    BY <1>2, <1>8 DEF LiesIn, IsImage
  <2>2. ~IsNumber(p.data) /\ c \notin {"char", "wchar"}
    BY <1>8, <2>1, NumericKinds DEF IsNumber
  <2>3. CASE UndefinedIndicator(p)
    <3>1. o = Refused("HY090")
      BY <1>8, <2>3 DEF ReadBinary, UndefinedIndicator
    <3>. QED  BY <2>2, <3>1, RefusedSends DEF SendStates
  <2>4. CASE p.indicator = "none"
    <3>1. o = Written(Blank, FALSE)
      BY <1>8, <2>4, Zenon DEF ReadBinary, UndefinedIndicator
    <3>2. SentAs(o, Blank)
      BY <3>1, WrittenIs, Zenon
    <3>. QED  BY <2>2, <3>2, BlankSends
  <2>5. CASE p.indicator = "value"
    <3>1. o = BinaryToSql(p.data, p)
      BY <1>8, <2>5 DEF ReadBinary, UndefinedIndicator
    <3>. QED  BY <1>2, <2>1, <2>2, <3>1, BinarySends
  <2>6. CASE p.indicator \in {"null", "default"}
    BY <1>5, <2>6 DEF IsGiven
  <2>. QED  BY <2>3, <2>4, <2>5, <2>6 DEF UndefinedIndicator, IsParameter
<1>9. CASE /\ c \in {"bit", "date", "time", "timestamp", "guid"}
           /\ o = Written(ReadStruct(c, p.data), FALSE)
  <2>1. p.data.form = "none" /\ (c # "bit" => p.data.kind = c)
    <3>1. CASE c = "bit"
      <4>1. p.data = Number("number", p.data.n)
        BY <1>2, <3>1 DEF LiesIn
      <4>. DEFINE n == p.data.n
      <4>2. Number("number", n).form = "none"
        <5>. HIDE DEF n
        <5>1. n \in Int
          BY <1>2 DEF n
        <5>. QED  BY <5>1, NumberIs
      <4>. QED  BY <3>1, <4>1, <4>2
    <3>2. CASE c \in {"date", "time", "timestamp", "guid"}
      BY <1>2, <3>2 DEF LiesIn, DatetimeForm
    <3>. QED  BY <1>9, <3>1, <3>2
  <2>2. c # "bit" => ~IsNumber(p.data)
    BY <1>9, <2>1, NumericKinds DEF IsNumber
  <2>3. Sends(o)
    <3>1. Sends(Written(ReadStruct(c, p.data), FALSE))
      BY <1>2, <1>9, <2>1, StructSends
    <3>. QED  BY <1>9, <3>1, Zenon
  <2>4. c \notin {"char", "wchar"}
    BY <1>9
  <2>. QED  BY <2>2, <2>3, <2>4
<1>. QED  BY <1>3, <1>5, <1>6, <1>7, <1>8, <1>9

(***************************************************************************)
(* The inductive invariant: each variable holds what the step that set it  *)
(* left, of the variables it was made from.                                *)
(***************************************************************************)
ParameterBound ==
  bound # Unbound => IsParameter(bound) /\ PairingIsSupported(ResolveCType(bound), bound.sql)
SentFromBound == sent # Unsent => bound # Unbound /\ sent = ReadParamValue(bound)
ColumnHeld == IsColumnValue(column) /\ (~IsRefused(sent) => column = sent.data)
ReadFromColumn ==
  read # Unread =>
    /\ read.target \in CTypes \cup {"default"} /\ read.ard \in Ard
    /\ read.state = WriteColumnValue(column, read.target, read.ard).state
    /\ read.data = WriteColumnValue(column, read.target, read.ard).data
    /\ bound # Unbound => sent # Unsent /\ ~IsRefused(sent)
Made == ParameterBound /\ SentFromBound /\ ColumnHeld /\ ReadFromColumn

LEMMA BlankIsValue == IsColumnValue(Blank) /\ IsRefused(Unsent) /\ IsRefused(Unread)
<1>1. Blank.kind = "Null" /\ Blank.form = "none" /\ IsData(Blank)
  BY BlankIs
<1>. QED  BY <1>1, NumericKinds DEF IsColumnValue, ColumnKind, IsRefused, Unsent, Unread

LEMMA MadeInit == Init => Made
BY BlankIsValue DEF Init, Made, ParameterBound, SentFromBound, ColumnHeld, ReadFromColumn

LEMMA MadeNext == Made /\ [Next]_vars => Made'
<1>. SUFFICES ASSUME Made, [Next]_vars  PROVE Made'
  OBVIOUS
<1>. USE DEF Made
<1>1. ASSUME NEW p \in Parameters, BindParameter(p)  PROVE Made'
  <2>1. IsParameter(p) /\ PairingIsSupported(ResolveCType(p), p.sql) /\ bound' = p
        /\ sent' = sent /\ column' = column /\ read' = read
        /\ bound = Unbound /\ read = Unread /\ sent = Unsent
    BY <1>1, ValueAssumption DEF BindParameter, SentFromBound
  <2>2. ParameterBound'
    BY <2>1 DEF ParameterBound
  <2>3. SentFromBound' /\ ColumnHeld' /\ ReadFromColumn'
    BY <2>1 DEF SentFromBound, ColumnHeld, ReadFromColumn
  <2>. QED  BY <2>2, <2>3
<1>2. ASSUME Execute  PROVE Made'
  <2>1. /\ bound # Unbound /\ sent = Unsent /\ sent' = ReadParamValue(bound)
        /\ column' = (IF IsRefused(sent') THEN column ELSE sent'.data)
        /\ bound' = bound /\ read' = read
    BY <1>2 DEF Execute
  <2>2. Sends(sent')
    BY <2>1, ParameterSends DEF ParameterBound
  <2>3. read = Unread
    BY <2>1 DEF ReadFromColumn
  <2>4. ColumnHeld'
    BY <2>1, <2>2 DEF ColumnHeld, Sends
  <2>5. SentFromBound' /\ ParameterBound' /\ ReadFromColumn'
    BY <2>1, <2>3 DEF SentFromBound, ParameterBound, ReadFromColumn
  <2>. QED  BY <2>4, <2>5
<1>3. ASSUME NEW v \in Columns, Fetch(v)  PROVE Made'
  <2>1. /\ bound = Unbound /\ read = Unread /\ column' = v /\ IsColumnValue(v)
        /\ bound' = bound /\ sent' = sent /\ read' = read /\ sent = Unsent
    BY <1>3, ValueAssumption DEF Fetch, SentFromBound
  <2>2. ColumnHeld'
    BY <2>1, BlankIsValue DEF ColumnHeld
  <2>3. SentFromBound' /\ ParameterBound' /\ ReadFromColumn'
    BY <2>1 DEF SentFromBound, ParameterBound, ReadFromColumn
  <2>. QED  BY <2>2, <2>3
<1>4. ASSUME NEW how \in Reads, GetData(how[1], how[2])  PROVE Made'
  <2>1. how[1] \in CTypes \cup {"default"} /\ how[2] \in Ard
    BY ValueAssumption DEF Ard
  <2>. DEFINE target == how[1]
              ard == how[2]
              o == WriteColumnValue(column, target, ard)
  <2>2. /\ bound # Unbound => sent # Unsent /\ ~IsRefused(sent)
        /\ bound' = bound /\ sent' = sent /\ column' = column
        /\ read' = [target |-> target, ard |-> ard, state |-> o.state, data |-> o.data]
    BY <1>4 DEF GetData
  <2>. HIDE DEF target, ard
  <2>. DEFINE r == read'
  <2>3. r.target = target /\ r.ard = ard /\ r.state = o.state /\ r.data = o.data
    BY <2>2
  <2>4. ReadFromColumn'
    BY <2>1, <2>2, <2>3 DEF ReadFromColumn, target, ard
  <2>5. SentFromBound' /\ ParameterBound' /\ ColumnHeld'
    BY <2>2 DEF SentFromBound, ParameterBound, ColumnHeld
  <2>. QED  BY <2>4, <2>5
<1>5. ASSUME StartOver  PROVE Made'
  BY <1>5, BlankIsValue
  DEF StartOver, ParameterBound, SentFromBound, ColumnHeld, ReadFromColumn
<1>6. ASSUME UNCHANGED vars  PROVE Made'
  BY <1>6 DEF vars, ParameterBound, SentFromBound, ColumnHeld, ReadFromColumn
<1>. QED  BY <1>1, <1>2, <1>3, <1>4, <1>5, <1>6 DEF Next

\* Every step of a value's way leaves the variables as Made says: what was sent
\* is what read_param_value makes of the parameter bound, what was read is what
\* write_column_value makes of the column, and both are well formed.
THEOREM ConversionsMade == Spec => []Made
BY MadeInit, MadeNext, PTL DEF Spec

LEMMA DefaultTargets ==
  ASSUME NEW v, IsColumnValue(v)
  PROVE  /\ DefaultTarget(v) \in CTypes /\ DefaultTarget(v) # "numeric"
         /\ DefaultTarget(v) = "time" => v.kind = "Time"
         /\ DefaultTarget(v) = "timestamp" => v.kind # "Time"
<1>1. v.kind \in {"I8", "I16", "I32", "I64", "F32", "F64", "Bool", "Decimal",
                  "Date", "Time", "Timestamp", "TimestampTz",
                  "Null", "String", "Interval", "Bytes", "Guid"}
  BY NumericKinds DEF IsColumnValue, ColumnKind, DatetimeKind
<1>2. {"stinyint", "sshort", "slong", "sbigint", "float", "double", "bit", "date", "time",
       "timestamp", "guid", "binary", "wchar"} \subseteq CTypes
  BY CTypesDiffer DEF CTypes
<1>3. CASE v.kind \in {"I8", "I16", "I32", "I64"}
  BY <1>2, <1>3 DEF DefaultTarget
<1>4. CASE v.kind \in {"F32", "F64", "Bool", "Date", "Time", "Timestamp", "TimestampTz"}
  BY <1>2, <1>4 DEF DefaultTarget
<1>5. CASE v.kind \in {"Bytes", "Guid"}
  BY <1>2, <1>5 DEF DefaultTarget
<1>6. CASE v.kind \in {"Decimal", "Null", "String", "Interval"}
  BY <1>2, <1>6 DEF DefaultTarget
<1>. QED  BY <1>1, <1>3, <1>4, <1>5, <1>6

(***************************************************************************)
(* A read that was not refused wrote the column, as the type asked for or  *)
(* the one the value suggests.                                             *)
(***************************************************************************)
LEMMA ReadIs ==
  ASSUME Made, WasRead, column.kind # "Null"
  PROVE  \E t \in CTypes :
           /\ read.ard \in Ard /\ IsColumnValue(column)
           /\ read.state = WriteNamed(column, t, read.ard).state
           /\ read.data = WriteNamed(column, t, read.ard).data
           /\ IF read.target = "default" THEN t = DefaultTarget(column) ELSE t = read.target
           /\ ~IsRefused(WriteNamed(column, t, read.ard))
<1>1. read # Unread
  BY BlankIsValue DEF WasRead
<1>. DEFINE t == IF read.target = "default" THEN DefaultTarget(column) ELSE read.target
<1>2. t \in CTypes /\ IsColumnValue(column) /\ read.ard \in Ard
  BY <1>1, DefaultTargets DEF Made, ReadFromColumn, ColumnHeld
<1>3. WriteColumnValue(column, read.target, read.ard) = WriteNamed(column, t, read.ard)
  BY Zenon DEF WriteColumnValue
<1>. HIDE DEF t
<1>4. /\ read.state = WriteNamed(column, t, read.ard).state
      /\ read.data = WriteNamed(column, t, read.ard).data
  BY <1>1, <1>3 DEF Made, ReadFromColumn
<1>5. ~IsRefused(WriteNamed(column, t, read.ard))
  BY <1>4 DEF WasRead, IsRefused
<1>6. IF read.target = "default" THEN t = DefaultTarget(column) ELSE t = read.target
  BY DEF t
<1>. QED  BY <1>2, <1>4, <1>5, <1>6

LEMMA NullIsNeither ==
  ASSUME NEW v, IsColumnValue(v), v.kind = "Null"
  PROVE  ~IsDatetime(v) /\ ~IsInterval(v) /\ ~IsNumber(v)
BY NumericKinds DEF IsColumnValue, IsDatetime, IsInterval, IsNumber, DatetimeKind, DatetimeForm

\* No time of day and no fraction is lost without a warning and no date is
\* replaced, on the way in (text_to_sql_type) or out (write_column_value),
\* whatever is bound, declared and read.
THEOREM DatetimesSurviveAlways == Spec => []DatetimesSurvive
<1>1. Made => DatetimeRead
  <2>. SUFFICES ASSUME Made, WasRead, read.state = "00000", IsDatetime(column), IsDatetime(read.data)
                PROVE  /\ read.data.time = column.time
                       /\ \/ read.data.fraction = column.fraction
                          \/ column.kind = "Time" /\ read.target = "timestamp"
                       /\ HasDate(column) /\ read.target # "time" => read.data.date = column.date
                       /\ ~HasDate(column) /\ read.target = "timestamp" => read.data.date = Today
    BY DEF DatetimeRead
  <2>1. column.kind # "Null" /\ IsColumnValue(column)
    BY NullIsNeither DEF Made, ColumnHeld
  <2>2. PICK t \in CTypes :
           /\ read.ard \in Ard
           /\ read.state = WriteNamed(column, t, read.ard).state
           /\ read.data = WriteNamed(column, t, read.ard).data
           /\ IF read.target = "default" THEN t = DefaultTarget(column) ELSE t = read.target
           /\ ~IsRefused(WriteNamed(column, t, read.ard))
    BY <2>1, ReadIs
  <2>3. /\ read.data.time = column.time
        /\ read.data.fraction = column.fraction \/ (column.kind = "Time" /\ t = "timestamp")
        /\ HasDate(column) /\ t # "time" => read.data.date = column.date
        /\ ~HasDate(column) /\ t = "timestamp" => read.data.date = Today
    BY <2>1, <2>2, ReadsDatetime
  <2>4. column.kind = "Time" => ~HasDate(column)
    BY <2>1 DEF HasDate, IsColumnValue
  <2>. QED  BY <2>1, <2>2, <2>3, <2>4, DefaultTargets
<1>2. Made => TextSent
  <2>. SUFFICES ASSUME Made, bound # Unbound, sent # Unsent, ~IsRefused(sent),
                       sent.data.kind # "Null", ResolveCType(bound) \in {"char", "wchar"},
                       IsDatetime(bound.data)
                PROVE  SentDatetime(sent, bound.data, bound.sql)
    BY DEF TextSent, SentDatetime
  <2>. QED  BY ParameterSends DEF Made, SentFromBound, ParameterBound
<1>. QED  BY <1>1, <1>2, ConversionsMade, PTL DEF DatetimesSurvive

\* An interval read as an interval or a number is the same span of time, or the
\* call warned and lost less than the trailing field, toward zero, within the
\* leading precision, and never across the two families.
THEOREM IntervalsSurviveAlways == Spec => []IntervalsSurvive
<1>1. ASSUME Made, WasRead, IsInterval(column), read.target \in IntervalType
      PROVE  /\ IsYearMonth(column.unit) = IsYearMonth(read.target)
             /\ IF read.state = "00000" THEN read.data.n = column.n
                ELSE TowardZero(column.n, read.data.n, Trailing(read.target))
             /\ read.ard.leading > 0 =>
                  Magnitude(read.data.n) < PowerOfTen[read.ard.leading] * Leading(read.target)
  <2>1. column.kind # "Null" /\ IsColumnValue(column) /\ read.target # "default"
    BY <1>1, NullIsNeither, IntervalTypes DEF Made, ColumnHeld
  <2>. DEFINE t == read.target
  <2>2. /\ read.ard \in Ard
        /\ read.state = WriteNamed(column, t, read.ard).state
        /\ read.data = WriteNamed(column, t, read.ard).data
        /\ ~IsRefused(WriteNamed(column, t, read.ard))
    BY <1>1, <2>1, ReadIs
  <2>. HIDE DEF t
  <2>3. t \in IntervalType
    BY <1>1 DEF t
  <2>4. /\ IsYearMonth(column.unit) = IsYearMonth(t)
        /\ IF read.state = "00000" THEN read.data.n = column.n
           ELSE TowardZero(column.n, read.data.n, Trailing(t))
        /\ read.ard.leading > 0 =>
             Magnitude(read.data.n) < PowerOfTen[read.ard.leading] * Leading(t)
    BY <1>1, <2>1, <2>2, <2>3, ReadsInterval
  <2>. QED  BY <2>4 DEF t
<1>2. ASSUME Made, WasRead, column.kind = "Interval", IsNumber(read.data)
      PROVE  /\ IsSingleField(column.unit)
             /\ read.state = "00000" => read.data.n * Leading(column.unit) = column.n * One
  <2>1. IsColumnValue(column) /\ column.n \in Int /\ column.unit \in IntervalType
    BY <1>2 DEF Made, ColumnHeld, IsColumnValue, IsData
  <2>2. PICK t \in CTypes :
           /\ read.ard \in Ard
           /\ read.state = WriteNamed(column, t, read.ard).state
           /\ read.data = WriteNamed(column, t, read.ard).data
           /\ ~IsRefused(WriteNamed(column, t, read.ard))
    BY <1>2, ReadIs
  <2>. DEFINE L == Leading(column.unit)
  <2>3. IsSingleField(column.unit) /\ CountDelivered(WriteNamed(column, t, read.ard), column, t, read.ard)
    BY <1>2, <2>1, <2>2, ReadsIntervalAsNumber
  <2>4. ASSUME read.state = "00000"  PROVE read.data.n * L = column.n * One
    <3>1. PICK u \in Int :
            /\ u * L = Kept(column.n, L)
            /\ read.data = Number("number", u * One)
            /\ IsYearMonth(column.unit) \/ column.n % L = 0
      BY <2>2, <2>3, <2>4 DEF CountDelivered
    <3>2. u * One \in Int
      BY <3>1, OneIs
    <3>3. read.data.n = u * One
      BY <3>1, <3>2, NumberIs
    <3>4. L \in Nat \ {0} /\ column.n % L = 0
      <4>1. L \in Nat \ {0} /\ (IsYearMonth(column.unit) => L = 1 \/ (L = 12 /\ column.unit = "year"))
        BY <2>1, <2>3, FieldsOf
      <4>2. column.unit = "year" => column.n % 12 = 0
        BY <1>2, <2>1 DEF IsColumnValue, FieldSize
      <4>3. L = 1 => column.n % L = 0
        BY <2>1
      <4>. QED  BY <3>1, <4>1, <4>2, <4>3
    <3>5. Kept(column.n, L) = column.n
      BY <2>1, <3>4, KeptIs
    <3>. HIDE DEF L
    <3>6. (u * One) * L = (u * L) * One
      BY <3>4, OneIs, Z3
    <3>. QED  BY <3>1, <3>3, <3>5, <3>6
  <2>. QED  BY <2>3, <2>4
<1>3. Made => IntervalsSurvive
  BY <1>1, <1>2 DEF IntervalsSurvive
<1>. QED  BY <1>3, ConversionsMade, PTL

(***************************************************************************)
(* Two truncations in a row, the first to whole numbers, lose what one to  *)
(* the coarser of their units loses.                                       *)
(***************************************************************************)
Unit(t, ard) == IF t = "numeric" /\ ard.scale < 0 THEN PowerOfTen[1 - ard.scale] ELSE One

LEMMA DeliveredNear ==
  ASSUME NEW n \in Int, NEW k \in {n, WholePart(n)}, NEW t, NEW ard \in Ard,
         NEW m \in Delivered(k, t, ard)
  PROVE  m \in Int /\ TowardZero(n, m, Unit(t, ard))
<1>1. ASSUME NEW s \in Nat \ {0}  PROVE TowardZero(n, n, s)
  <2>1. Magnitude(n) \in Nat
    BY MagnitudeIs
  <2>. QED  BY <1>1, <2>1 DEF TowardZero
<1>2. ASSUME NEW s \in Nat \ {0}, 10 <= s  PROVE TowardZero(n, WholePart(n), s)
  <2>1. WholePart(n) = Kept(n, 10) /\ Kept(n, 10) \in Int /\ TowardZero(n, Kept(n, 10), 10)
    BY KeptIs DEF WholePart, One
  <2>2. Magnitude(n) \in Nat /\ Magnitude(Kept(n, 10)) \in Nat
    BY <2>1, MagnitudeIs
  <2>. QED  BY <1>2, <2>1, <2>2 DEF TowardZero
<1>3. WholePart(n) \in Int /\ WholePart(WholePart(n)) = WholePart(n)
  <2>1. WholePart(n) \in Int /\ WholePart(n) % One = 0
    BY WholeIs
  <2>. QED  BY <2>1, WholeIs
<1>4. One \in Nat \ {0} /\ 10 <= One
  BY OneIs
<1>5. CASE ~(t = "numeric" /\ ard.scale < 0)
  <2>1. Unit(t, ard) = One /\ m \in {n, WholePart(n)}
    BY <1>3, <1>5 DEF Unit, Delivered
  <2>. QED  BY <1>1, <1>2, <1>3, <1>4, <2>1
<1>6. CASE t = "numeric" /\ ard.scale < 0
  <2>. DEFINE e == PowerOfTen[-ard.scale]
              s == PowerOfTen[1 - ard.scale]
  <2>1. -ard.scale \in Nat /\ 1 - ard.scale \in Nat /\ 1 - ard.scale # 0
        /\ (1 - ard.scale) - 1 = -ard.scale
    BY <1>6 DEF Ard
  <2>2. e \in Nat \ {0} /\ s = 10 * e
    BY <2>1, PowerOfTenIs
  <2>3. Unit(t, ard) = s
    BY <1>6 DEF Unit
  <2>4. m \in {n, WholePart(n), Kept(k, s)}
    BY <1>3, <1>6 DEF Delivered
  <2>. HIDE DEF e, s
  <2>5. s \in Nat \ {0} /\ 10 <= s
    BY <2>2
  <2>6. Kept(k, s) = Kept(n, s)
    <3>1. Kept(WholePart(n), 10 * e) = Kept(n, 10 * e)
      BY <2>2, KeptTwice DEF WholePart, One
    <3>. QED  BY <2>2, <3>1
  <2>7. Kept(n, s) \in Int /\ TowardZero(n, Kept(n, s), s)
    BY <2>5, KeptIs
  <2>8. CASE m = n
    BY <1>1, <2>3, <2>5, <2>8
  <2>9. CASE m = WholePart(n)
    BY <1>2, <1>3, <2>3, <2>5, <2>9
  <2>10. CASE m = Kept(k, s)
    BY <2>3, <2>6, <2>7, <2>10
  <2>. QED  BY <2>4, <2>8, <2>9, <2>10
<1>. QED  BY <1>5, <1>6

\* A number bound as any C type, declared as any SQL type and read as any number
\* is the same number, or a call warned and less than a unit of what the target
\* keeps was lost, toward zero.
THEOREM NumbersSurviveAlways == Spec => []NumbersSurvive
<1>. DEFINE n == bound.data.n
            NearBy == IF Unwarned THEN read.data.n = n
                      ELSE TowardZero(n, read.data.n,
                                      IF read.target = "numeric" /\ read.ard.scale < 0
                                      THEN PowerOfTen[1 - read.ard.scale] ELSE One)
<1>1. ASSUME Made, bound # Unbound, WasRead, ResolveCType(bound) # "bit", IsNumber(bound.data),
             bound.indicator = "value", bound.pointer, IsNumber(read.data)
      PROVE  NearBy
  <2>1. /\ IsParameter(bound) /\ PairingIsSupported(ResolveCType(bound), bound.sql)
        /\ read # Unread /\ sent # Unsent /\ ~IsRefused(sent)
        /\ sent = ReadParamValue(bound) /\ column = sent.data /\ IsColumnValue(column)
    BY <1>1, BlankIsValue
    DEF Made, ParameterBound, ReadFromColumn, SentFromBound, ColumnHeld, WasRead
  <2>2. n \in Int
    BY <2>1 DEF IsParameter, IsData
  <2>3. SentAsNumber(sent, n) \/ SentAsInterval(sent, n)
    BY <1>1, <2>1, ParameterSends DEF SentNumber
  <2>. HIDE DEF n, NearBy
  <2>4. column.kind # "Null"
    <3>1. CASE SentAsNumber(sent, n)
      BY <2>1, <3>1 DEF SentAsNumber
    <3>2. CASE SentAsInterval(sent, n)
      <4>1. PICK unit \in IntervalType : sent.data = Interval(unit, Whole(n) * Leading(unit))
        BY <3>2 DEF SentAsInterval
      <4>2. Whole(n) * Leading(unit) \in Int
        BY <2>2, WholeIs, FieldsOf, MultipleOf
      <4>. QED  BY <2>1, <4>1, <4>2, IntervalIs
    <3>. QED  BY <2>3, <3>1, <3>2
  <2>5. PICK t \in CTypes :
           /\ read.ard \in Ard
           /\ read.state = WriteNamed(column, t, read.ard).state
           /\ read.data = WriteNamed(column, t, read.ard).data
           /\ IF read.target = "default" THEN t = DefaultTarget(column) ELSE t = read.target
           /\ ~IsRefused(WriteNamed(column, t, read.ard))
    BY <1>1, <2>4, ReadIs
  <2>6. t = "numeric" <=> read.target = "numeric"
    BY <2>1, <2>5, DefaultTargets
  <2>7. ASSUME NEW k \in {n, WholePart(n)}, NEW m \in Delivered(k, t, read.ard),
               read.data.n = m, Unwarned => m = n
        PROVE  NearBy
    <3>1. TowardZero(n, m, Unit(t, read.ard))
      BY <2>2, <2>5, DeliveredNear
    <3>. QED  BY <2>6, <2>7, <3>1 DEF NearBy, n, Unit
  <2>8. CASE SentAsNumber(sent, n)
    <3>1. PICK k \in {n, WholePart(n)} :
            /\ column.n = k /\ column.kind # "Interval"
            /\ sent.state = IF k # n THEN "01S07" ELSE "00000"
      BY <2>1, <2>8 DEF SentAsNumber
    <3>2. PICK m \in Delivered(k, t, read.ard) :
            read.data.n = m /\ read.state = IF m # k THEN "01S07" ELSE "00000"
      BY <1>1, <2>1, <2>5, <3>1, ReadsNumber
    <3>3. Unwarned => m = n
      BY <3>1, <3>2 DEF Unwarned
    <3>. QED  BY <2>7, <3>2, <3>3
  <2>9. CASE SentAsInterval(sent, n)
    <3>1. PICK unit \in IntervalType :
            /\ n % One = 0 /\ column = Interval(unit, Whole(n) * Leading(unit))
      BY <2>1, <2>9 DEF SentAsInterval
    <3>. DEFINE L == Leading(unit)
                q == Whole(n)
    <3>2. L \in Nat \ {0} /\ q \in Int /\ n = One * q
      BY <2>2, <3>1, FieldsOf, WholeIs
    <3>. HIDE DEF L, q
    <3>3. q * L \in Int /\ (q * L) % L = 0 /\ (q * L) \div L = q
      BY <3>2, MultipleOf
    <3>4. column.kind = "Interval" /\ column.unit = unit /\ column.n = q * L
      BY <3>1, <3>3, IntervalIs DEF L, q
    <3>5. CountDelivered(WriteNamed(column, t, read.ard), column, t, read.ard)
      BY <1>1, <2>1, <2>5, <3>4, ReadsIntervalAsNumber
    <3>6. PICK u \in Int :
            /\ u * L = Kept(q * L, L)
            /\ \E m \in Delivered(u * One, t, read.ard) :
                 /\ m \in Int /\ read.data = Number("number", m)
                 /\ read.state = "00000" => m = u * One
      BY <2>5, <3>4, <3>5 DEF CountDelivered, L
    <3>7. Kept(q * L, L) = q * L
      BY <3>2, <3>3, KeptIs
    <3>8. u = q
      <4>1. (u * L) \div L = u
        BY <3>2, MultipleOf
      <4>. QED  BY <3>3, <3>6, <3>7, <4>1
    <3>9. u * One = n
      BY <3>2, <3>8, OneIs
    <3>10. PICK m \in Delivered(n, t, read.ard) :
             /\ m \in Int /\ read.data = Number("number", m)
             /\ read.state = "00000" => m = n
      BY <3>6, <3>9
    <3>11. read.data.n = m
      BY <3>10, NumberIs
    <3>. QED  BY <2>7, <3>10, <3>11 DEF Unwarned
  <2>. QED  BY <2>3, <2>8, <2>9
<1>2. Made => NumbersSurvive
  BY <1>1 DEF NumbersSurvive, RoundTrip
<1>. QED  BY <1>2, ConversionsMade, PTL

(***************************************************************************)
(* A refusal is one the specification lists for the call that gives it.    *)
(***************************************************************************)
LEMMA SendStatesListed ==
  SendStates \ {"00000"} \subseteq Listed("ExecDirect")
    /\ SendStates \ {"00000"} \subseteq Listed("Execute")
<1>1. ASSUME NEW f, f = "ExecDirect"  PROVE SendStates \ {"00000"} \subseteq Listed(f)
  BY <1>1 DEF Listed, Unlisted, Always, ExecDirectStates, ExecuteStates, Sequence, Asynchronous, SendStates
<1>2. ASSUME NEW f, f = "Execute"  PROVE SendStates \ {"00000"} \subseteq Listed(f)
  BY <1>2 DEF Listed, Unlisted, Always, ExecuteStates, Sequence, Asynchronous, SendStates
<1>. QED  BY <1>1, <1>2

LEMMA ReadStatesListed ==
  \A f \in {"GetData", "Fetch", "FetchScroll"} : ReadStates \ {"00000"} \subseteq Listed(f)
<1>1. ASSUME NEW f, f = "GetData"  PROVE ReadStates \ {"00000"} \subseteq Listed(f)
  BY <1>1 DEF Listed, Unlisted, Always, GetDataStates, ReadingStates, ReadStates
<1>2. ASSUME NEW f, f = "Fetch"  PROVE ReadStates \ {"00000"} \subseteq Listed(f)
  BY <1>2 DEF Listed, Unlisted, Always, FetchStates, ReadingStates, ReadStates
<1>3. ASSUME NEW f, f = "FetchScroll"  PROVE ReadStates \ {"00000"} \subseteq Listed(f)
  BY <1>3 DEF Listed, Unlisted, Always, FetchStates, ReadingStates, ReadStates
<1>. QED  BY <1>1, <1>2, <1>3

LEMMA StatesAreListed == Made => StatesListed
<1>. SUFFICES ASSUME Made  PROVE StatesListed
  OBVIOUS
<1>1. sent = Unsent \/ sent.state \in SendStates
  BY ParameterSends DEF Made, SentFromBound, ParameterBound, Sends
<1>2. read = Unread \/ read.state \in ReadStates
  <2>. SUFFICES ASSUME read # Unread  PROVE read.state \in ReadStates
    OBVIOUS
  <2>. DEFINE t == IF read.target = "default" THEN DefaultTarget(column) ELSE read.target
  <2>1. /\ IsColumnValue(column) /\ read.ard \in Ard /\ t \in CTypes
        /\ read.state = WriteColumnValue(column, read.target, read.ard).state
    BY DefaultTargets DEF Made, ColumnHeld, ReadFromColumn
  <2>2. CASE column.kind = "Null"
    <3>1. WriteColumnValue(column, read.target, read.ard) = Written(Blank, FALSE)
      BY <2>2, Zenon DEF WriteColumnValue
    <3>2. read.state = "00000"
      BY <2>1, <3>1 DEF Written
    <3>. QED  BY <3>2 DEF ReadStates
  <2>3. CASE column.kind # "Null"
    <3>1. WriteColumnValue(column, read.target, read.ard) = WriteNamed(column, t, read.ard)
      BY <2>3, Zenon DEF WriteColumnValue
    <3>. QED  BY <2>1, <3>1, ReadAnswers
  <2>. QED  BY <2>2, <2>3
<1>3. /\ Unsent.state = "unsent" /\ Unread.state = "unread"
  BY DEF Unsent, Unread
<1>4. sent.state \in {"unsent", "00000"} \/ Documented({sent.state}, {"ExecDirect", "Execute"})
  BY <1>1, <1>3, SendStatesListed DEF Documented
<1>5. \/ read.state \in {"unread", "00000"}
      \/ Documented({read.state}, {"GetData", "Fetch", "FetchScroll"})
  BY <1>2, <1>3, ReadStatesListed DEF Documented
<1>. QED  BY <1>4, <1>5 DEF StatesListed

(***************************************************************************)
(* What was read as bytes, bound again as the value it was read from.      *)
(***************************************************************************)
LEMMA BoundIs ==
  ASSUME NEW c \in {"char", "binary"}, NEW data, NEW sql
  PROVE  LET b == Bound(c, data, sql)
         IN /\ b.data = data /\ b.sql = sql /\ b.size = 0
            /\ c = "char" => ReadParamValue(b) = TextToSql(data, b)
            /\ c = "binary" => ReadParamValue(b) = BinaryToSql(data, b)
<1>. DEFINE b == Bound(c, data, sql)
<1>1. /\ b.c = c /\ b.data = data /\ b.sql = sql /\ b.size = 0
      /\ b.indicator = "value" /\ b.pointer = TRUE
  BY DEF Bound
<1>. HIDE DEF b
<1>2. ResolveCType(b) = c
  BY <1>1 DEF ResolveCType
<1>3. /\ c \in CTypes /\ c \notin IntervalType /\ c \notin NumericCType
      /\ ~UndefinedIndicator(b) /\ ~(b.indicator \in {"null", "default"} \/ ~b.pointer)
      /\ b.indicator # "none"
  BY <1>1, CTypesDiffer DEF UndefinedIndicator
<1>4. CASE c = "char"
  <2>1. ReadParamValue(b) = ReadText(b)
    BY <1>2, <1>3, <1>4, Zenon DEF ReadParamValue
  <2>2. ReadText(b) = TextToSql(b.data, b)
    BY <1>3, Zenon DEF ReadText
  <2>. QED  BY <1>1, <1>4, <2>1, <2>2 DEF b
<1>5. CASE c = "binary"
  <2>1. ReadParamValue(b) = ReadBinary(b)
    BY <1>2, <1>3, <1>5, Zenon DEF ReadParamValue
  <2>2. ReadBinary(b) = BinaryToSql(b.data, b)
    BY <1>1, <1>3, Zenon DEF ReadBinary
  <2>. QED  BY <1>1, <1>5, <2>1, <2>2 DEF b
<1>. QED  BY <1>4, <1>5

LEMMA SqlOfIs ==
  ASSUME NEW v, v.kind \in NumericKind \ {"Decimal"}
  PROVE  LET sql == SqlOf(v.kind)
         IN /\ sql \in DOMAIN FixedLayout
            /\ \/ sql \in DOMAIN SqlInteger /\ SqlInteger[sql] = v.kind
               \/ <<sql, v.kind>> \in {<<"real", "F32">>, <<"double", "F64">>, <<"bit", "Bool">>}
            /\ Width[FixedLayout[sql]] = Width[LayoutOf(v)]
<1>. DEFINE kind == v.kind
            Fits(sql) == \/ sql \in DOMAIN SqlInteger /\ SqlInteger[sql] = kind
                         \/ <<sql, kind>> \in {<<"real", "F32">>, <<"double", "F64">>, <<"bit", "Bool">>}
<1>1. kind \in {"I8", "I16", "I32", "I64", "F32", "F64", "Bool"}
  BY NumericKinds
<1>2. \E sql \in DOMAIN FixedLayout : Fits(sql)
  <2>1. CASE kind \in {"I8", "I16", "I32", "I64"}
    BY <2>1, Layouts DEF SqlInteger
  <2>2. CASE kind \in {"F32", "F64", "Bool"}
    BY <2>2, Layouts
  <2>. QED  BY <1>1, <2>1, <2>2
<1>. DEFINE sql == SqlOf(kind)
<1>3. sql \in DOMAIN FixedLayout /\ Fits(sql)
  BY <1>2, Zenon DEF SqlOf
<1>. HIDE DEF sql
<1>4. Width[FixedLayout[sql]] = Width[LayoutOf(v)]
  <2>1. CASE kind \in {"I8", "I16", "I32", "I64"}
    <3>1. sql \in DOMAIN SqlInteger /\ SqlInteger[sql] = kind
      BY <1>3, <2>1
    <3>2. LayoutOf(v) = IntegerKind[kind]
      BY <2>1 DEF LayoutOf, IntegerKind
    <3>3. IntegerKind[kind] = FixedLayout[sql]
      BY <2>1, <3>1 DEF SqlInteger, IntegerKind, FixedLayout
    <3>. QED  BY <3>2, <3>3
  <2>2. CASE kind = "F32"
    <3>1. sql = "real"
      BY <1>3, <2>2, SqlIntegers
    <3>2. LayoutOf(v) = "single"
      BY <2>2 DEF LayoutOf, IntegerKind
    <3>. QED  BY <3>1, <3>2 DEF FixedLayout
  <2>3. CASE kind = "F64"
    <3>1. sql = "double"
      BY <1>3, <2>3, SqlIntegers
    <3>2. LayoutOf(v) = "double"
      BY <2>3 DEF LayoutOf, IntegerKind
    <3>. QED  BY <3>1, <3>2 DEF FixedLayout
  <2>4. CASE kind = "Bool"
    <3>1. sql = "bit"
      BY <1>3, <2>4, SqlIntegers
    <3>2. LayoutOf(v) = "byte"
      BY <2>4 DEF LayoutOf, IntegerKind
    <3>. QED  BY <3>1, <3>2 DEF FixedLayout
  <2>. QED  BY <1>1, <2>1, <2>2, <2>3, <2>4
<1>. QED  BY <1>3, <1>4 DEF sql

LEMMA NumberReadBack ==
  ASSUME NEW v, IsColumnValue(v), v.kind \in NumericKind \ {"Decimal"}
  PROVE  ReadParamValue(Bound("binary", WriteBinary(v).data, SqlOf(v.kind))).data = v
<1>. DEFINE d == WriteBinary(v).data
            sql == SqlOf(v.kind)
            b == Bound("binary", d, sql)
            o == ReadParamValue(b)
<1>1. d.n = v.n /\ d.unit = LayoutOf(v) /\ v.n \in Int
  BY ImageCarries DEF Carries, IsColumnValue, IsData
<1>2. /\ sql \in DOMAIN FixedLayout
      /\ \/ sql \in DOMAIN SqlInteger /\ SqlInteger[sql] = v.kind
         \/ <<sql, v.kind>> \in {<<"real", "F32">>, <<"double", "F64">>, <<"bit", "Bool">>}
      /\ Width[FixedLayout[sql]] = Width[d.unit]
  BY <1>1, SqlOfIs
<1>. HIDE DEF d, sql
<1>3. b.data = d /\ b.sql = sql /\ o = BinaryToSql(d, b)
  BY BoundIs
<1>. HIDE DEF b, o
<1>4. sql \in DOMAIN SqlInteger \/ sql \in {"real", "double", "bit"}
  BY <1>2
<1>5. BinaryTargetIsSupported(b.sql) /\ FitsTheType(d, b)
  BY <1>2, <1>3, <1>4, SqlIntegers DEF BinaryTargetIsSupported, FitsTheType
<1>6. v = Number(v.kind, v.n) /\ (v.kind = "Bool" => v.n \in {0, One})
  BY DEF IsColumnValue
<1>7. \/ sql \in DOMAIN SqlInteger /\ SentAs(o, Number(SqlInteger[sql], d.n))
      \/ sql = "real" /\ SentAs(o, Number("F32", d.n))
      \/ sql = "double" /\ SentAs(o, Number("F64", d.n))
      \/ sql = "bit" /\ SentAs(o, Number("Bool", IF d.n = 0 THEN 0 ELSE One))
  <2>1. sql \notin {"varbinary", "date", "time", "timestamp"}
    BY <1>4, SqlIntegers
  <2>. QED  BY <1>3, <1>5, <2>1, WaysToSendBinary, Zenon
<1>8. o.data = v
  <2>1. CASE sql \in DOMAIN SqlInteger /\ SentAs(o, Number(SqlInteger[sql], d.n))
    <3>1. SqlInteger[sql] = v.kind
      BY <1>2, <2>1, SqlIntegers
    <3>. QED  BY <1>1, <1>6, <2>1, <3>1 DEF SentAs
  <2>2. CASE sql = "real" /\ SentAs(o, Number("F32", d.n))
    <3>1. v.kind = "F32"
      BY <1>2, <2>2, SqlIntegers
    <3>. QED  BY <1>1, <1>6, <2>2, <3>1 DEF SentAs
  <2>3. CASE sql = "double" /\ SentAs(o, Number("F64", d.n))
    <3>1. v.kind = "F64"
      BY <1>2, <2>3, SqlIntegers
    <3>. QED  BY <1>1, <1>6, <2>3, <3>1 DEF SentAs
  <2>4. CASE sql = "bit" /\ SentAs(o, Number("Bool", IF d.n = 0 THEN 0 ELSE One))
    <3>1. v.kind = "Bool"
      BY <1>2, <2>4, SqlIntegers
    <3>2. (IF d.n = 0 THEN 0 ELSE One) = v.n
      BY <1>1, <1>6, <3>1, OneIs
    <3>. QED  BY <1>6, <2>4, <3>1, <3>2 DEF SentAs
  <2>. QED  BY <1>7, <2>1, <2>2, <2>3, <2>4
<1>. QED  BY <1>8 DEF o, b, d, sql

LEMMA BytesReadBack ==
  ASSUME NEW v, IsColumnValue(v), v.kind = "Bytes"
  PROVE  /\ ReadParamValue(Bound("binary", WriteBinary(v).data, "varbinary")).data = v
         /\ ReadParamValue(Bound("char", WriteText(v).data, "varbinary")).data = v
<1>0. /\ v = [kind |-> "Bytes", n |-> v.n, date |-> v.date, time |-> v.time,
              fraction |-> v.fraction, form |-> "none", unit |-> v.unit]
      /\ LayoutOf(v) = v.unit /\ FormOf(v) = "hex"
      /\ v.unit \in DOMAIN Width /\ v.unit # "text"
  <2>1. v.form = "none" /\ v.unit \in DOMAIN Width /\ IsData(v)
    BY DEF IsColumnValue
  <2>2. v.unit # "text"
    BY <2>1 DEF Width
  <2>3. LayoutOf(v) = v.unit
    BY DEF LayoutOf, IntegerKind
  <2>. QED  BY <2>1, <2>2, <2>3, FormIs DEF IsData
<1>1. ReadParamValue(Bound("binary", WriteBinary(v).data, "varbinary")).data = v
  <2>. DEFINE d == WriteBinary(v).data
              b == Bound("binary", d, "varbinary")
              o == ReadParamValue(b)
  <2>1. IsData(d) /\ Carries(d, v) /\ d.unit = v.unit /\ d.form = "none"
    BY <1>0, ImageCarries
  <2>. HIDE DEF d
  <2>2. b.data = d /\ b.sql = "varbinary" /\ b.size = 0 /\ o = BinaryToSql(d, b)
    BY BoundIs
  <2>. HIDE DEF b, o
  <2>3. BinaryTargetIsSupported(b.sql) /\ FitsTheType(d, b)
    BY <2>2 DEF BinaryTargetIsSupported, FitsTheType, TooLong
  <2>4. "varbinary" \notin DOMAIN SqlInteger
    BY SqlIntegers
  <2>. DEFINE w == [d EXCEPT !.kind = "Bytes"]
  <2>5. SentAs(o, w)
    BY <2>2, <2>3, <2>4, WaysToSendBinary, Zenon
  <2>6. w = [kind |-> "Bytes", n |-> d.n, date |-> d.date, time |-> d.time,
             fraction |-> d.fraction, form |-> "none", unit |-> d.unit]
    BY <1>0, <2>1, BytesIs
  <2>. HIDE DEF w
  <2>7. o.data = v
    BY <1>0, <2>1, <2>5, <2>6 DEF SentAs, Carries
  <2>. QED  BY <2>7 DEF o, b, d
<1>2. ReadParamValue(Bound("char", WriteText(v).data, "varbinary")).data = v
  <2>. DEFINE d == WriteText(v).data
              b == Bound("char", d, "varbinary")
              o == ReadParamValue(b)
  <2>1. IsData(d) /\ Carries(d, v) /\ d.unit = v.unit /\ d.form = "hex"
    BY <1>0, TextCarries
  <2>. HIDE DEF d
  <2>2. b.data = d /\ b.sql = "varbinary" /\ b.size = 0 /\ o = TextToSql(d, b)
    BY BoundIs
  <2>. HIDE DEF b, o
  <2>3. b.sql \notin {"decimal", "real", "double", "bit"} \cup DOMAIN SqlInteger
        /\ b.sql \notin {"date", "time", "timestamp"} /\ b.sql \notin {"char", "wchar"}
    BY <2>2, SqlIntegers
  <2>4. o = HexToBinary(d, b)
    BY <2>2, <2>3, Zenon DEF TextToSql
  <2>5. ~TooLong(Width[d.unit], b.size)
    BY <2>2 DEF TooLong
  <2>6. o = Written([d EXCEPT !.kind = "Bytes", !.form = "none"], FALSE)
    BY <2>1, <2>4, <2>5, Zenon DEF HexToBinary
  <2>7. o.data = [kind |-> "Bytes", n |-> d.n, date |-> d.date, time |-> d.time,
                  fraction |-> d.fraction, form |-> "none", unit |-> d.unit]
    BY <1>0, <2>1, <2>6, BytesSend
  <2>8. o.data = v
    BY <1>0, <2>1, <2>7 DEF Carries
  <2>. QED  BY <2>8 DEF o, b, d
<1>. QED  BY <1>1, <1>2

LEMMA ReadsBack == Made => ReadBack
<1>. SUFFICES ASSUME Made, WasRead
              PROVE  /\ read.target = "binary" /\ column.kind \in NumericKind \ {"Decimal"} =>
                          ReadParamValue(Bound("binary", read.data, SqlOf(column.kind))).data = column
                     /\ read.target \in {"char", "binary"} /\ column.kind = "Bytes" =>
                          ReadParamValue(Bound(read.target, read.data, "varbinary")).data = column
  BY DEF ReadBack
<1>1. ASSUME column.kind \in NumericKind \cup {"Bytes"}
      PROVE  /\ IsColumnValue(column)
             /\ read.target = "binary" => read.data = WriteBinary(column).data
             /\ read.target = "char" => read.data = WriteText(column).data
  <2>1. column.kind # "Null"
    BY <1>1, NumericKinds
  <2>2. /\ IsColumnValue(column)
        /\ read.target # "default" =>
             read.data = WriteNamed(column, read.target, read.ard).data
    BY <2>1, ReadIs
  <2>3. /\ WriteNamed(column, "binary", read.ard) = WriteBinary(column)
        /\ WriteNamed(column, "char", read.ard) = WriteText(column)
    <3>1. "char" \in CTypes /\ "binary" \in CTypes
          /\ {"char", "binary"} \cap (Targets \cup DatetimeForm \cup IntervalType
                                      \cup IntegerTarget \cup {"numeric", "guid"}) = {}
      BY CTypesDiffer DEF Targets, DatetimeForm
    <3>. QED  BY <2>2, <3>1, WaysToWrite
  <2>. QED  BY <2>2, <2>3
<1>2. ASSUME read.target = "binary", column.kind \in NumericKind \ {"Decimal"}
      PROVE  ReadParamValue(Bound("binary", read.data, SqlOf(column.kind))).data = column
  BY <1>1, <1>2, NumberReadBack
<1>3. ASSUME read.target \in {"char", "binary"}, column.kind = "Bytes"
      PROVE  ReadParamValue(Bound(read.target, read.data, "varbinary")).data = column
  BY <1>1, <1>3, BytesReadBack
<1>. QED  BY <1>2, <1>3

(***************************************************************************)
(* A count of digits is a number: ten to the power k is more than k.       *)
(***************************************************************************)
LEMMA DigitsAreNatural ==
  ASSUME NEW k \in Nat
  PROVE  Digits(k) \in Nat
<1>. DEFINE S == {j \in Nat : PowerOfTen[j] > j}
            T == {d \in 0 .. k : PowerOfTen[d] > k}
<1>1. 0 \in S
  BY PowerOfTenIs
<1>2. ASSUME NEW j \in Nat, j \in S  PROVE j + 1 \in S
  <2>1. PowerOfTen[j + 1] = 10 * PowerOfTen[j] /\ PowerOfTen[j] \in Nat /\ PowerOfTen[j] > j
    BY <1>2, PowerOfTenIs
  <2>. QED  BY <2>1
<1>3. Nat \subseteq S
  <2>. HIDE DEF S
  <2>. QED  BY <1>1, <1>2, Induction
<1>4. k \in T
  BY <1>3
<1>5. T \subseteq Nat /\ T # {}
  BY <1>4
<1>6. PICK d \in T : \A e \in T : d <= e
  <2>. HIDE DEF T
  <2>. QED  BY <1>5, Smallest
<1>7. d = 0 \/ PowerOfTen[d - 1] <= k
  <2>. SUFFICES ASSUME d # 0  PROVE PowerOfTen[d - 1] <= k
    OBVIOUS
  <2>1. d - 1 \in 0 .. k /\ d - 1 \in Nat /\ ~(d <= d - 1)
    BY <1>6
  <2>2. PowerOfTen[d - 1] \in Nat
    BY <2>1, PowerOfTenIs
  <2>. QED  BY <1>6, <2>1, <2>2
<1>8. \E e \in 0 .. k : PowerOfTen[e] > k /\ (e = 0 \/ PowerOfTen[e - 1] <= k)
  BY <1>6, <1>7
<1>9. Digits(k) \in 0 .. k
  BY <1>8 DEF Digits
<1>. QED  BY <1>9

LEMMA WholeDigitsIs ==
  ASSUME NEW n \in Int
  PROVE  WholeDigits(n) \in Nat
<1>1. Magnitude(n) \div One \in Nat
  BY MagnitudeIs, OneIs
<1>. QED  BY <1>1, DigitsAreNatural DEF WholeDigits

(***************************************************************************)
(* A number, and the text that spells it, declared as one type.            *)
(***************************************************************************)
SameWhenSent(a, b) ==
  /\ a.state = "00000" <=> b.state = "00000"
  /\ a.state = "00000" => a.data = b.data

LEMMA RefusedSame ==
  ASSUME NEW a, NEW b, NEW s \in SendStates \ {"00000"}, NEW r \in SendStates \ {"00000"},
         a = Refused(s), b = Refused(r)
  PROVE  SameWhenSent(a, b)
BY DEF Refused, SameWhenSent

LEMMA LostSame ==
  ASSUME NEW a, NEW b, a.state = "01S07", NEW r \in SendStates \ {"00000"}, b = Refused(r)
  PROVE  SameWhenSent(a, b)
BY DEF Refused, SameWhenSent

LEMMA DecimalsAgree ==
  ASSUME NEW n \in Int, NEW p, p.size \in Int, p.scale \in Int
  PROVE  /\ CheckDeclaredDecimalSize(n, p) => DecimalFits(n, p)
         /\ DecimalFits(n, p) /\ ScaleDeclared(p) =>
              (CheckDeclaredDecimalSize(n, p)
                 <=> (p.scale >= 1 \/ WholePart(n) = n))
         /\ ~ScaleDeclared(p) => CheckDeclaredDecimalSize(n, p) /\ DecimalFits(n, p)
<1>1. WholeDigits(n) \in Nat /\ (n % One = 0 <=> WholePart(n) = n)
  BY WholeDigitsIs, WholeIs
<1>2. RequiredScale(n) = IF WholePart(n) = n THEN 0 ELSE 1
  BY <1>1 DEF RequiredScale, OwnScale
<1>. QED  BY <1>1, <1>2 DEF CheckDeclaredDecimalSize, DecimalFits, ScaleDeclared

LEMMA TextOfNumber ==
  ASSUME NEW n \in Int, NEW text,
         text = [kind |-> "text", n |-> n, date |-> 0, time |-> 0, fraction |-> 0,
                 form |-> "number", unit |-> "none"]
  PROVE  [text EXCEPT !.kind = "String"] = [Number("String", n) EXCEPT !.form = "number"]
<1>. DEFINE v == Number("String", n)
            r == [kind |-> "String", n |-> n, date |-> 0, time |-> 0, fraction |-> 0,
                  form |-> "number", unit |-> "none"]
<1>1. v = [kind |-> "String", n |-> n, date |-> 0, time |-> 0, fraction |-> 0,
           form |-> "none", unit |-> "none"]
  BY NumberIs
<1>. HIDE DEF v
<1>2. [v EXCEPT !.form = "number"] = r
  BY <1>1
<1>3. [text EXCEPT !.kind = "String"] = r
  OBVIOUS
<1>. HIDE DEF r
<1>. QED  BY <1>2, <1>3, Zenon DEF v

LEMMA NumberOrText ==
  ASSUME NEW n \in Int, Magnitude(n) <= MaxDouble,
         NEW text, text.form = "number", text.n = n,
         text = [kind |-> "text", n |-> n, date |-> 0, time |-> 0, fraction |-> 0,
                 form |-> "number", unit |-> "none"],
         NEW p, NEW q, p.size \in Int, p.scale \in Int,
         q.sql = p.sql, q.size = p.size, q.scale = p.scale,
         p.sql \in DOMAIN SqlInteger \cup {"char", "wchar", "decimal", "real", "double", "bit"}
  PROVE  SameWhenSent(NumericToSql(n, p), TextToSql(text, q))
<1>. DEFINE a == NumericToSql(n, p)
            b == TextToSql(text, q)
<1>1. Magnitude(n) < Infinite /\ ~(Magnitude(n) > MaxDouble)
  BY MagnitudeIs, ConversionAssumption
<1>2. SUFFICES SameWhenSent(a, b)
  OBVIOUS
<1>3. CASE p.sql \in {"char", "wchar"}
  <2>0. q.sql \notin {"decimal", "real", "double", "bit"} \cup DOMAIN SqlInteger
        /\ q.sql \notin {"date", "time", "timestamp"} /\ q.sql # "varbinary"
    BY <1>3, SqlIntegers
  <2>. DEFINE long == TooLong(RenderedLength(n), p.size)
  <2>1. long <=> TooLong(TextLength(text), q.size)
    BY DEF TextLength, TooLong
  <2>. DEFINE x == [Number("String", n) EXCEPT !.form = "number"]
              y == [text EXCEPT !.kind = "String"]
  <2>2. a = IF long THEN Refused("22001") ELSE Written(x, FALSE)
    BY <1>1, <1>3, SqlTypesDiffer, Zenon DEF NumericToSql
  <2>3. b = IF long THEN Refused("22001") ELSE Written(y, FALSE)
    BY <1>3, <2>0, <2>1, Zenon DEF TextToSql
  <2>4. x = y
    BY TextOfNumber
  <2>5. a = b
    BY <2>2, <2>3, <2>4, Zenon
  <2>. HIDE DEF a, b
  <2>. QED  BY <2>5 DEF SameWhenSent
<1>4. CASE p.sql \in DOMAIN SqlInteger \cup {"decimal", "real", "double", "bit"}
  <2>1. b = TextToNumber(text, q)
    <3>1. q.sql \notin {"date", "time", "timestamp"} /\ q.sql # "varbinary"
          /\ q.sql \notin {"char", "wchar"}
          /\ q.sql \in {"decimal", "real", "double", "bit"} \cup DOMAIN SqlInteger
      BY <1>4, SqlIntegers
    <3>. QED  BY <3>1, Zenon DEF TextToSql
  <2>0. p.sql \notin IntervalType /\ p.sql \notin {"char", "wchar"}
    BY <1>4, SqlTypesDiffer
  <2>2. ASSUME NEW s \in SendStates \ {"00000"}, NEW r \in SendStates \ {"00000"},
               a = Refused(s), b = Refused(r)
        PROVE  SameWhenSent(a, b)
    <3>. HIDE DEF a, b
    <3>. QED  BY <2>2, RefusedSame
  <2>3. CASE p.sql = "decimal"
    <3>0. p.sql \notin {"char", "wchar"} /\ p.sql \notin DOMAIN SqlInteger
          /\ p.sql \notin {"real", "double"} /\ p.sql # "bit"
      BY <2>3, SqlTypesDiffer
    <3>. DEFINE kept == IF p.scale >= 1 THEN n ELSE WholePart(n)
    <3>1. a = IF ~DecimalFits(n, p) THEN Refused("22003")
              ELSE IF ScaleDeclared(p) THEN Written(Number("Decimal", kept), kept # n)
              ELSE Written(Number("Decimal", n), FALSE)
      BY <1>1, <2>0, <2>3, <3>0, Zenon DEF NumericToSql
    <3>2. b = IF CheckDeclaredDecimalSize(n, p) THEN Written(Number("Decimal", n), FALSE)
              ELSE Refused("22001")
      <4>1. CheckDeclaredDecimalSize(n, q) <=> CheckDeclaredDecimalSize(n, p)
        BY DEF CheckDeclaredDecimalSize, ScaleDeclared
      <4>2. b = IF CheckDeclaredDecimalSize(n, q) THEN Written(Number("Decimal", n), FALSE)
                ELSE Refused("22001")
        BY <2>1, <2>3, <3>0, Zenon DEF TextToNumber
      <4>. QED  BY <4>1, <4>2, Zenon
    <3>3. /\ CheckDeclaredDecimalSize(n, p) => DecimalFits(n, p)
          /\ DecimalFits(n, p) /\ ScaleDeclared(p) =>
               (CheckDeclaredDecimalSize(n, p) <=> kept = n)
          /\ ~ScaleDeclared(p) => CheckDeclaredDecimalSize(n, p) /\ DecimalFits(n, p)
      BY DecimalsAgree
    <3>. HIDE DEF a, b, kept
    <3>4. CASE ~DecimalFits(n, p)
      BY <2>2, <3>1, <3>2, <3>3, <3>4 DEF SendStates
    <3>5. CASE DecimalFits(n, p) /\ CheckDeclaredDecimalSize(n, p)
      <4>1. b = Written(Number("Decimal", n), FALSE)
        BY <3>2, <3>5
      <4>2. a.data = Number("Decimal", n) /\ a.state = "00000"
        BY <3>1, <3>3, <3>5 DEF Written
      <4>3. b.data = Number("Decimal", n) /\ b.state = "00000"
        BY <4>1 DEF Written
      <4>. QED  BY <4>2, <4>3 DEF SameWhenSent
    <3>6. CASE DecimalFits(n, p) /\ ~CheckDeclaredDecimalSize(n, p)
      <4>1. b = Refused("22001")
        BY <3>2, <3>6
      <4>2. a.state = "01S07"
        BY <3>1, <3>3, <3>6 DEF Written
      <4>. QED  BY <4>1, <4>2, LostSame DEF SendStates
    <3>. QED  BY <3>4, <3>5, <3>6
  <2>4. CASE p.sql \in DOMAIN SqlInteger
    <3>0. p.sql \notin {"decimal"} /\ p.sql # "decimal" /\ p.sql \notin {"real", "double"}
          /\ p.sql # "bit" /\ p.sql # "real" /\ p.sql # "double"
      BY <2>4, SqlIntegers
    <3>. DEFINE i == IntegerOf(p.sql, n)
    <3>1. a = IF i = Nothing THEN Refused("22003") ELSE Written(i, WholePart(n) # n)
      BY <1>1, <2>0, <2>4, <3>0, Zenon DEF NumericToSql
    <3>2. b = IF n % One # 0 \/ i = Nothing THEN Refused("22001") ELSE Written(i, FALSE)
      BY <2>1, <2>4, <3>0, Zenon DEF TextToNumber
    <3>3. n % One = 0 <=> WholePart(n) = n
      BY WholeIs
    <3>. HIDE DEF a, b, i
    <3>4. CASE i = Nothing
      BY <2>2, <3>1, <3>2, <3>4 DEF SendStates
    <3>5. CASE i # Nothing /\ WholePart(n) = n
      <4>1. a.data = i /\ a.state = "00000" /\ b.data = i /\ b.state = "00000"
        BY <3>1, <3>2, <3>3, <3>5 DEF Written
      <4>. QED  BY <4>1 DEF SameWhenSent
    <3>6. CASE i # Nothing /\ WholePart(n) # n
      <4>1. a.state = "01S07" /\ b = Refused("22001")
        BY <3>1, <3>2, <3>3, <3>6 DEF Written
      <4>. QED  BY <4>1, LostSame DEF SendStates
    <3>. QED  BY <3>4, <3>5, <3>6
  <2>5. CASE p.sql = "real"
    <3>0. p.sql \notin {"decimal"} \cup DOMAIN SqlInteger \cup IntervalType
          /\ p.sql # "decimal" /\ p.sql \notin DOMAIN SqlInteger /\ p.sql # "double"
          /\ p.sql # "bit" /\ p.sql \in {"real", "double"}
      BY <2>0, <2>5, SqlIntegers
    <3>1. a = IF Magnitude(n) > MaxSingle THEN Refused("22003") ELSE Written(Number("F32", n), FALSE)
      BY <1>1, <2>0, <2>5, <3>0, Zenon DEF NumericToSql
    <3>2. b = IF Magnitude(n) > MaxSingle THEN Refused("22003") ELSE Written(Number("F32", n), FALSE)
      BY <1>1, <2>1, <2>5, <3>0, Zenon DEF TextToNumber
    <3>3. a = b
      BY <3>1, <3>2, Zenon
    <3>. HIDE DEF a, b
    <3>. QED  BY <3>3 DEF SameWhenSent
  <2>6. CASE p.sql = "double"
    <3>0. p.sql \notin {"decimal"} \cup DOMAIN SqlInteger \cup IntervalType
          /\ p.sql # "decimal" /\ p.sql \notin DOMAIN SqlInteger /\ p.sql # "real"
          /\ p.sql # "bit" /\ p.sql \in {"real", "double"}
      BY <2>0, <2>6, SqlIntegers
    <3>1. a = Written(Number("F64", n), FALSE)
      BY <1>1, <2>0, <2>6, <3>0, Zenon DEF NumericToSql
    <3>2. b = Written(Number("F64", n), FALSE)
      BY <1>1, <2>1, <2>6, <3>0, Zenon DEF TextToNumber
    <3>3. a = b
      BY <3>1, <3>2, Zenon
    <3>. HIDE DEF a, b
    <3>. QED  BY <3>3 DEF SameWhenSent
  <2>7. CASE p.sql = "bit"
    <3>. DEFINE r == IF n < 0 \/ n >= 2 * One THEN Refused("22003")
                     ELSE IF n \in {0, One} THEN Written(Number("Bool", n), FALSE)
                     ELSE Refused("22001")
    <3>0. p.sql \notin {"decimal"} \cup DOMAIN SqlInteger \cup IntervalType
          /\ p.sql # "decimal" /\ p.sql \notin DOMAIN SqlInteger /\ p.sql # "real"
          /\ p.sql # "double" /\ p.sql \notin {"real", "double"}
      BY <2>0, <2>7, SqlIntegers
    <3>1. a = r
      BY <1>1, <2>0, <2>7, <3>0, Zenon DEF NumericToSql
    <3>2. b = r
      BY <1>1, <2>1, <2>7, <3>0, Zenon DEF TextToNumber
    <3>. HIDE DEF a, b, r
    <3>. QED  BY <3>1, <3>2 DEF SameWhenSent
  <2>. QED  BY <1>4, <2>3, <2>4, <2>5, <2>6, <2>7
<1>. QED  BY <1>3, <1>4

(***************************************************************************)
(* The number of a parameter, and the text in its place.                   *)
(***************************************************************************)
LEMMA AsTextIs ==
  ASSUME NEW p, IsParameter(p), p.data = Number("number", p.data.n)
  PROVE  LET q == AsText(p)
         IN /\ q.c = "char" /\ q.sql = p.sql /\ q.size = p.size /\ q.scale = p.scale
            /\ q.indicator = p.indicator /\ q.pointer = p.pointer
            /\ q.data = [kind |-> "text", n |-> p.data.n, date |-> 0, time |-> 0,
                         fraction |-> 0, form |-> "number", unit |-> "none"]
<1>1. /\ p = [c |-> p.c, data |-> p.data, sql |-> p.sql, size |-> p.size, scale |-> p.scale,
              leading |-> p.leading, indicator |-> p.indicator, pointer |-> p.pointer]
      /\ p.data = [kind |-> "number", n |-> p.data.n, date |-> 0, time |-> 0, fraction |-> 0,
                   form |-> "none", unit |-> "none"]
  BY NumberIs DEF IsParameter, IsData
<1>. DEFINE d == [kind |-> "text", n |-> p.data.n, date |-> 0, time |-> 0, fraction |-> 0,
                  form |-> "number", unit |-> "none"]
            t == [kind |-> "text", n |-> p.data.n, date |-> 0, time |-> 0, fraction |-> 0,
                  form |-> "none", unit |-> "none"]
            p1 == [p EXCEPT !.c = "char"]
            p2 == [p1 EXCEPT !.data.kind = "text"]
            p3 == [p2 EXCEPT !.data.form = "number"]
<1>2. p1 = [c |-> "char", data |-> p.data, sql |-> p.sql, size |-> p.size, scale |-> p.scale,
            leading |-> p.leading, indicator |-> p.indicator, pointer |-> p.pointer]
  BY <1>1
<1>3. p2 = [c |-> "char", data |-> [p.data EXCEPT !.kind = "text"], sql |-> p.sql,
            size |-> p.size, scale |-> p.scale,
            leading |-> p.leading, indicator |-> p.indicator, pointer |-> p.pointer]
  <2>. HIDE DEF p1
  <2>. QED  BY <1>2
<1>4. [p.data EXCEPT !.kind = "text"] = t
  BY <1>1
<1>5. p2 = [c |-> "char", data |-> t, sql |-> p.sql,
            size |-> p.size, scale |-> p.scale,
            leading |-> p.leading, indicator |-> p.indicator, pointer |-> p.pointer]
  BY <1>3, <1>4, Zenon
<1>6. p3 = [c |-> "char", data |-> [t EXCEPT !.form = "number"], sql |-> p.sql,
            size |-> p.size, scale |-> p.scale,
            leading |-> p.leading, indicator |-> p.indicator, pointer |-> p.pointer]
  <2>. HIDE DEF p2, t
  <2>. QED  BY <1>5
<1>7. [t EXCEPT !.form = "number"] = d
  OBVIOUS
<1>8. p3 = [c |-> "char", data |-> d, sql |-> p.sql, size |-> p.size, scale |-> p.scale,
            leading |-> p.leading, indicator |-> p.indicator, pointer |-> p.pointer]
  BY <1>6, <1>7, Zenon
<1>9. AsText(p) = p3
  BY Zenon DEF AsText
<1>. HIDE DEF p3, d
<1>10. /\ p3.c = "char" /\ p3.sql = p.sql /\ p3.size = p.size /\ p3.scale = p.scale
       /\ p3.indicator = p.indicator /\ p3.pointer = p.pointer /\ p3.data = d
  BY <1>8
<1>. QED  BY <1>9, <1>10, Zenon DEF d

LEMMA ReadsGivenText ==
  ASSUME NEW q, q.c = "char", q.indicator = "value", q.pointer = TRUE
  PROVE  ReadParamValue(q) = TextToSql(q.data, q)
<1>1. ResolveCType(q) = "char"
  BY DEF ResolveCType
<1>2. ~(q.indicator \in {"null", "default"} \/ ~q.pointer)
      /\ "char" \in CTypes /\ "char" \notin IntervalType /\ "char" \notin NumericCType
  BY CTypesDiffer
<1>3. ReadParamValue(q) = ReadText(q)
  BY <1>1, <1>2, Zenon DEF ReadParamValue
<1>4. ReadText(q) = TextToSql(q.data, q)
  BY DEF ReadText, UndefinedIndicator
<1>. QED  BY <1>3, <1>4, Zenon

LEMMA NotGivenSends ==
  ASSUME NEW q, ~q.pointer
  PROVE  ReadParamValue(q) = Written(Blank, FALSE)
BY Zenon DEF ReadParamValue

LEMMA AgreeAsText == Made => NumberAsText
<1>. DEFINE q == AsText(bound)
            o == ReadParamValue(bound)
            r == ReadParamValue(q)
<1>1. SUFFICES ASSUME Made, bound # Unbound, sent # Unsent, ResolveCType(bound) \in NumericCType,
                      bound.indicator = "value", Magnitude(bound.data.n) <= MaxDouble,
                      bound.sql \notin IntervalType
               PROVE  SameWhenSent(sent, r)
  BY DEF NumberAsText, SameWhenSent
<1>2. /\ sent = o /\ IsParameter(bound) /\ PairingIsSupported(ResolveCType(bound), bound.sql)
  BY <1>1 DEF Made, SentFromBound, ParameterBound
<1>3. /\ IsData(bound.data) /\ bound.data.n \in Int /\ bound.size \in Int /\ bound.scale \in Int
      /\ LiesIn(bound.data, ResolveCType(bound), bound.sql) /\ bound.sql \in SqlType
      /\ bound.pointer \in BOOLEAN
  BY <1>2 DEF IsParameter, IsData
<1>4. bound.data = Number("number", bound.data.n)
  BY <1>1, <1>3 DEF LiesIn
<1>5. /\ q.c = "char" /\ q.sql = bound.sql /\ q.size = bound.size /\ q.scale = bound.scale
      /\ q.indicator = bound.indicator /\ q.pointer = bound.pointer
      /\ q.data = [kind |-> "text", n |-> bound.data.n, date |-> 0, time |-> 0,
                   fraction |-> 0, form |-> "number", unit |-> "none"]
  BY <1>2, <1>4, AsTextIs
<1>6. bound.sql \in DOMAIN SqlInteger \cup {"char", "wchar", "decimal", "real", "double", "bit"}
  BY <1>1, <1>2, <1>3 DEF PairingIsSupported, SqlType
<1>7. CASE ~bound.pointer
  <2>1. o = Written(Blank, FALSE) /\ r = Written(Blank, FALSE)
    BY <1>5, <1>7, NotGivenSends, Zenon
  <2>. HIDE DEF o, r
  <2>. QED  BY <1>2, <2>1 DEF SameWhenSent
<1>8. CASE bound.pointer
  <2>1. r = TextToSql(q.data, q)
    <3>1. q.indicator = "value" /\ q.pointer = TRUE
      BY <1>1, <1>3, <1>5, <1>8
    <3>. HIDE DEF q
    <3>. QED  BY <1>5, <3>1, ReadsGivenText
  <2>2. IsGiven(bound) /\ ResolveCType(bound) \notin {"char", "wchar", "binary", "bit", "date", "time",
                                                      "timestamp", "guid"}
    BY <1>1, <1>8, CTypesDiffer DEF IsGiven
  <2>3. o = NumericToSql(bound.data.n, bound)
    BY <1>2, <2>2, WaysToSend
  <2>4. q.data.form = "number" /\ q.data.n = bound.data.n
    BY <1>5
  <2>. HIDE DEF q
  <2>5. SameWhenSent(NumericToSql(bound.data.n, bound), TextToSql(q.data, q))
    BY <1>1, <1>3, <1>5, <1>6, <2>4, NumberOrText
  <2>. QED  BY <1>2, <2>1, <2>3, <2>5, Zenon
<1>. QED  BY <1>3, <1>7, <1>8

(***************************************************************************)
(* The bytes of a number, and the number itself.                           *)
(***************************************************************************)
LEMMA AsNumberIs ==
  ASSUME NEW p, IsParameter(p)
  PROVE  LET q == AsNumber(p)
         IN /\ q.c = TypeOfLayout[p.data.unit] /\ q.data = Number("number", p.data.n)
            /\ q.sql = p.sql /\ q.size = p.size /\ q.scale = p.scale
            /\ q.indicator = p.indicator /\ q.pointer = p.pointer
<1>. DEFINE c == TypeOfLayout[p.data.unit]
            d == Number("number", p.data.n)
            p1 == [p EXCEPT !.c = c]
            p2 == [p1 EXCEPT !.data = d]
<1>0. AsNumber(p) = p2
  BY Zenon DEF AsNumber
<1>. HIDE DEF c, d
<1>1. p = [c |-> p.c, data |-> p.data, sql |-> p.sql, size |-> p.size, scale |-> p.scale,
           leading |-> p.leading, indicator |-> p.indicator, pointer |-> p.pointer]
  BY DEF IsParameter
<1>2. p1 = [c |-> c, data |-> p.data, sql |-> p.sql, size |-> p.size, scale |-> p.scale,
            leading |-> p.leading, indicator |-> p.indicator, pointer |-> p.pointer]
  BY <1>1
<1>3. p2 = [c |-> c, data |-> d, sql |-> p.sql, size |-> p.size, scale |-> p.scale,
            leading |-> p.leading, indicator |-> p.indicator, pointer |-> p.pointer]
  <2>. HIDE DEF p1
  <2>. QED  BY <1>2
<1>. HIDE DEF p2
<1>4. /\ p2.c = c /\ p2.data = d /\ p2.sql = p.sql /\ p2.size = p.size /\ p2.scale = p.scale
      /\ p2.indicator = p.indicator /\ p2.pointer = p.pointer
  BY <1>3
<1>. QED  BY <1>0, <1>4, Zenon DEF c, d

LEMMA LayoutTypes ==
  /\ DOMAIN TypeOfLayout = {"tinyint", "short", "long", "bigint", "single", "double"}
  /\ \A unit \in DOMAIN TypeOfLayout :
       TypeOfLayout[unit] \in NumericCType /\ TypeOfLayout[unit] # "default"
  /\ \A unit \in DOMAIN TypeOfLayout : TypeOfLayout[unit] \in IntegerTarget => unit \in IntegerWidth
  /\ \A sql \in DOMAIN SqlInteger :
       /\ FixedLayout[sql] \in IntegerWidth
       /\ DefaultCType(sql) = TypeOfLayout[FixedLayout[sql]]
       /\ DefaultCType(sql) \in DOMAIN Signed /\ Signed[DefaultCType(sql)] \in IntegerWidth
<1>1. DOMAIN TypeOfLayout = {"tinyint", "short", "long", "bigint", "single", "double"}
      /\ TypeOfLayout["tinyint"] = "stinyint" /\ TypeOfLayout["short"] = "sshort"
      /\ TypeOfLayout["long"] = "slong" /\ TypeOfLayout["bigint"] = "sbigint"
      /\ TypeOfLayout["single"] = "float" /\ TypeOfLayout["double"] = "double"
  BY DEF TypeOfLayout
<1>2. \A unit \in DOMAIN TypeOfLayout :
        TypeOfLayout[unit] \in NumericCType /\ TypeOfLayout[unit] # "default"
  BY <1>1, CTypesDiffer
<1>3. \A unit \in DOMAIN TypeOfLayout : TypeOfLayout[unit] \in IntegerTarget => unit \in IntegerWidth
  BY <1>1, CTypesDiffer DEF IntegerWidth
<1>4. /\ DefaultCType("tinyint") = "stinyint" /\ DefaultCType("smallint") = "sshort"
      /\ DefaultCType("integer") = "slong" /\ DefaultCType("bigint") = "sbigint"
  BY DEF DefaultCType
<1>5. /\ FixedLayout["tinyint"] = "tinyint" /\ FixedLayout["smallint"] = "short"
      /\ FixedLayout["integer"] = "long" /\ FixedLayout["bigint"] = "bigint"
  BY DEF FixedLayout
<1>6. /\ DOMAIN Signed = {"stinyint", "sshort", "slong", "sbigint"}
      /\ \A t \in DOMAIN Signed : Signed[t] \in IntegerWidth
  BY DEF Signed, IntegerWidth
<1>7. \A sql \in {"tinyint", "smallint", "integer", "bigint"} :
       /\ FixedLayout[sql] \in IntegerWidth
       /\ DefaultCType(sql) = TypeOfLayout[FixedLayout[sql]]
       /\ DefaultCType(sql) \in DOMAIN Signed /\ Signed[DefaultCType(sql)] \in IntegerWidth
  BY <1>1, <1>4, <1>5, <1>6 DEF IntegerWidth
<1>. QED  BY <1>1, <1>2, <1>3, <1>7, SqlIntegers

LEMMA FitsItsType ==
  ASSUME NEW d, NEW p, p.sql \in DOMAIN FixedLayout, p.sql # "bit",
         d.unit \in DOMAIN TypeOfLayout, IsImage(d, p.sql), FitsTheType(d, p)
  PROVE  /\ d.unit = FixedLayout[p.sql]
         /\ p.sql \in DOMAIN SqlInteger \cup {"real", "double"}
<1>1. p.sql # "varbinary" /\ p.sql \in {"tinyint", "smallint", "integer", "bigint", "real", "double",
                                        "date", "time", "timestamp"}
  BY Layouts
<1>2. Width[d.unit] = Width[FixedLayout[p.sql]]
  BY <1>1 DEF FitsTheType
<1>3. d.unit \in {"tinyint", "short", "long", "bigint", "single", "double"}
  BY LayoutTypes
<1>4. p.sql = "tinyint" => d.unit = FixedLayout[p.sql]
  <2>1. Width[FixedLayout["tinyint"]] = 1 /\ FixedLayout["tinyint"] = "tinyint"
    BY DEF Width, FixedLayout
  <2>2. \A unit \in {"tinyint", "short", "long", "bigint", "single", "double"} :
          Width[unit] = 1 => unit = "tinyint"
    BY DEF Width
  <2>. QED  BY <1>2, <1>3, <2>1, <2>2
<1>5. d.unit = FixedLayout[p.sql]
  BY <1>2, <1>4 DEF IsImage
<1>6. p.sql \notin {"date", "time", "timestamp"}
  <2>1. FixedLayout["date"] = "date" /\ FixedLayout["time"] = "time" /\ FixedLayout["timestamp"] = "timestamp"
    BY DEF FixedLayout
  <2>. QED  BY <1>3, <1>5, <2>1
<1>. QED  BY <1>1, <1>5, <1>6, SqlIntegers

LEMMA IntegerSends ==
  ASSUME NEW n \in Int, n % One = 0, NEW q, q.sql \in DOMAIN SqlInteger,
         InRange(Whole(n), DefaultCType(q.sql))
  PROVE  NumericToSql(n, q).data = Number(SqlInteger[q.sql], n)
<1>. DEFINE o == NumericToSql(n, q)
            i == IntegerOf(q.sql, n)
            h == HalfRange[Signed[DefaultCType(q.sql)]]
<1>1. WholePart(n) = n /\ n = One * Whole(n) /\ Whole(n) \in Int
  BY WholeIs
<1>2. Magnitude(n) < Infinite
  <2>1. h \in Nat \ {0} /\ One * (2 * h) < Infinite
    BY LayoutTypes, ConversionAssumption, OneIs
  <2>2. -h <= Whole(n) /\ Whole(n) < h
    BY LayoutTypes DEF InRange
  <2>. HIDE DEF h
  <2>3. Magnitude(n) <= 10 * h
    BY <1>1, <2>1, <2>2, OneIs DEF Magnitude
  <2>. QED  BY <2>1, <2>3, OneIs, MagnitudeIs, ConversionAssumption
<1>3. i = Number(SqlInteger[q.sql], n) /\ i # Nothing
  BY <1>1, IntegerOfIs
<1>4. /\ q.sql \notin {"char", "wchar"} /\ q.sql \notin IntervalType /\ q.sql # "decimal"
      /\ q.sql # "real" /\ q.sql # "double" /\ q.sql # "bit"
  BY SqlTypesDiffer
<1>5. o = IF i = Nothing THEN Refused("22003") ELSE Written(i, WholePart(n) # n)
  BY <1>2, <1>4, Zenon DEF NumericToSql
<1>. HIDE DEF o, i
<1>6. o = Written(i, FALSE)
  BY <1>1, <1>3, <1>5, Zenon
<1>. QED  BY <1>3, <1>6 DEF Written, o

LEMMA FloatSends ==
  ASSUME NEW n \in Int, NEW q, q.sql \in {"real", "double"},
         q.sql = "real" => Magnitude(n) <= MaxSingle \/ Magnitude(n) >= Infinite
  PROVE  NumericToSql(n, q).data = Number(IF q.sql = "real" THEN "F32" ELSE "F64", n)
<1>. DEFINE o == NumericToSql(n, q)
<1>1. /\ q.sql \notin {"char", "wchar"} /\ q.sql # "decimal" /\ q.sql \notin DOMAIN SqlInteger
      /\ q.sql \notin {"decimal"} \cup DOMAIN SqlInteger \cup IntervalType
      /\ q.sql \notin IntervalType /\ q.sql # "bit"
  BY SqlTypesDiffer
<1>2. CASE q.sql = "real"
  <2>0. ~(Magnitude(n) < Infinite /\ Magnitude(n) > MaxSingle) /\ q.sql # "double"
    BY <1>2, MagnitudeIs, ConversionAssumption
  <2>1. o = Written(Number("F32", n), FALSE)
    BY <1>1, <1>2, <2>0, Zenon DEF NumericToSql
  <2>. QED  BY <1>2, <2>1 DEF Written
<1>3. CASE q.sql = "double"
  <2>0. q.sql # "real"
    BY <1>3
  <2>1. o = Written(Number("F64", n), FALSE)
    BY <1>1, <1>3, <2>0, Zenon DEF NumericToSql
  <2>. QED  BY <1>3, <2>1 DEF Written
<1>. QED  BY <1>2, <1>3

-----------------------------------------------------------------------------
(***************************************************************************)
(* The routes of a value agree.                                            *)
(***************************************************************************)
LEMMA AgreeAsBytes == Made => NumberAsBytes
<1>. DEFINE q == AsNumber(bound)
            o == ReadParamValue(bound)
            r == ReadParamValue(q)
            n == bound.data.n
            c == TypeOfLayout[bound.data.unit]
<1>1. SUFFICES ASSUME Made, bound # Unbound, sent.state = "00000", ResolveCType(bound) = "binary",
                      bound.indicator = "value", bound.pointer,
                      bound.data.unit \in DOMAIN TypeOfLayout,
                      bound.sql \notin {"varbinary", "bit"}
               PROVE  sent.data = r.data
  BY DEF NumberAsBytes
<1>2. sent # Unsent
  BY <1>1 DEF Unsent
<1>3. /\ sent = o /\ IsParameter(bound) /\ PairingIsSupported("binary", bound.sql)
  BY <1>1, <1>2 DEF Made, SentFromBound, ParameterBound
<1>4. /\ IsData(bound.data) /\ n \in Int /\ IsImage(bound.data, bound.sql)
      /\ bound.sql \in DOMAIN FixedLayout /\ bound.sql # "bit"
  BY <1>1, <1>3 DEF IsParameter, IsData, LiesIn, PairingIsSupported, BinaryTargetIsSupported
<1>5. o = BinaryToSql(bound.data, bound)
  <2>1. IsGiven(bound)
    BY <1>1 DEF IsGiven
  <2>2. "binary" \notin NumericCType \cup {"char", "wchar", "bit", "date", "time", "timestamp", "guid"}
    BY CTypesDiffer
  <2>3. o = ReadBinary(bound)
    BY <1>1, <1>3, <2>1, <2>2, WaysToSend
  <2>4. ~UndefinedIndicator(bound) /\ bound.indicator # "none"
    BY <1>1 DEF UndefinedIndicator
  <2>5. ReadBinary(bound) = BinaryToSql(bound.data, bound)
    BY <1>1, <2>4, Zenon DEF ReadBinary
  <2>. QED  BY <2>3, <2>5, Zenon
<1>6. /\ q.c = c /\ q.data = Number("number", n) /\ q.sql = bound.sql
      /\ q.indicator = "value" /\ q.pointer = bound.pointer
  BY <1>1, <1>3, AsNumberIs
<1>7. FitsTheType(bound.data, bound)
      /\ \/ /\ bound.sql \in DOMAIN SqlInteger
            /\ SentAs(o, Number(SqlInteger[bound.sql], n))
         \/ bound.sql = "real" /\ SentAs(o, Number("F32", n))
         \/ bound.sql = "double" /\ SentAs(o, Number("F64", n))
         \/ bound.sql \in {"date", "time", "timestamp"}
  <2>1. \A s \in {"07006", "22001", "22003"} : Refused(s).state # "00000"
    BY DEF Refused
  <2>. HIDE DEF o
  <2>. QED  BY <1>1, <1>3, <1>4, <1>5, <2>1, WaysToSendBinary
<1>8. /\ bound.data.unit = FixedLayout[bound.sql]
      /\ bound.sql \in DOMAIN SqlInteger \cup {"real", "double"}
  BY <1>1, <1>4, <1>7, FitsItsType
<1>9. c \in NumericCType /\ c # "default"
      /\ (c \in IntegerTarget => bound.data.unit \in IntegerWidth)
  BY <1>1, LayoutTypes
<1>10. c \in IntegerTarget => n % One = 0 /\ InRange(Whole(n), c)
  BY <1>4, <1>9 DEF IsImage
<1>11. r = NumericToSql(n, q)
  <2>. HIDE DEF q, c, n
  <2>1. ResolveCType(q) = c
    BY <1>6, <1>9 DEF ResolveCType
  <2>2. /\ ~(q.indicator \in {"null", "default"} \/ ~q.pointer)
        /\ c \in CTypes /\ c \notin IntervalType
    BY <1>1, <1>6, <1>9, CTypesDiffer
  <2>3. c \notin {"char", "wchar", "binary"}
    BY <1>9, CTypesDiffer
  <2>4. r = NumericToSql(ReadNumericParam(c, InMemory(c, q.data.n)), q)
    BY <1>9, <2>1, <2>2, <2>3, Zenon DEF ReadParamValue
  <2>5. q.data.n = n
    BY <1>4, <1>6, NumberIs
  <2>6. ReadNumericParam(c, InMemory(c, n)) = n
    BY <1>4, <1>9, <1>10, MemoryKeeps
  <2>. QED  BY <2>4, <2>5, <2>6, Zenon
<1>12. CASE bound.sql \in DOMAIN SqlInteger
  <2>1. o.data = Number(SqlInteger[bound.sql], n)
    <3>1. bound.sql \notin {"real", "double", "date", "time", "timestamp"}
      BY <1>12, SqlIntegers
    <3>. QED  BY <1>7, <3>1 DEF SentAs
  <2>2. DefaultCType(bound.sql) = c /\ bound.data.unit \in IntegerWidth
    BY <1>8, <1>12, LayoutTypes
  <2>3. n % One = 0 /\ InRange(Whole(n), DefaultCType(bound.sql))
    BY <1>4, <2>2 DEF IsImage
  <2>. HIDE DEF q, n
  <2>4. NumericToSql(n, q).data = Number(SqlInteger[bound.sql], n)
    BY <1>4, <1>6, <1>12, <2>3, IntegerSends
  <2>. QED  BY <1>3, <1>11, <2>1, <2>4, Zenon
<1>13. CASE bound.sql \in {"real", "double"}
  <2>1. o.data = Number(IF bound.sql = "real" THEN "F32" ELSE "F64", n)
    <3>1. bound.sql \notin DOMAIN SqlInteger
      BY <1>13, SqlIntegers
    <3>. QED  BY <1>7, <1>13, <3>1 DEF SentAs
  <2>2. bound.sql = "real" => Magnitude(n) <= MaxSingle \/ Magnitude(n) >= Infinite
    BY <1>4, <1>8 DEF IsImage, FixedLayout
  <2>. HIDE DEF q, n
  <2>3. NumericToSql(n, q).data = Number(IF q.sql = "real" THEN "F32" ELSE "F64", n)
    BY <1>4, <1>6, <1>13, <2>2, FloatSends
  <2>4. NumericToSql(n, q).data = Number(IF bound.sql = "real" THEN "F32" ELSE "F64", n)
    BY <1>6, <2>3
  <2>. QED  BY <1>3, <1>11, <2>1, <2>4, Zenon
<1>. QED  BY <1>8, <1>12, <1>13

\* A number bound as itself, as text or as its bytes is sent as the same value;
\* what was read as bytes is the column when it is bound again; and every
\* SQLSTATE is one listed for the functions that may answer it.
THEOREM RoutesAgreeAlways == Spec => []RoutesAgree
<1>1. Made => RoutesAgree
  BY AgreeAsText, AgreeAsBytes, ReadsBack, StatesAreListed, Zenon DEF RoutesAgree
<1>. QED  BY <1>1, ConversionsMade, PTL

=============================================================================
