------------------------- MODULE HandleCallsProofs --------------------------
(***************************************************************************)
(* Proofs about the handle tree, for every table size and every number of  *)
(* generations, and about the calls in flight, for any number of threads   *)
(* and calls and any set of entry points.  The invariant of the tree is    *)
(* stated of a table value T, so that the same lemmas serve both:          *)
(* Memory(T) ties slots to allocations, Family(T) says how handles hang    *)
(* together, Complete(T) that every statement has the descriptors it was   *)
(* allocated with.  The invariant of the calls says of every thread what   *)
(* the locks it holds protect: the structs it holds references to, the     *)
(* answer of the check it is about to act on, and the connections its walk *)
(* has still to visit.  The registry alone, under any caller in any order, *)
(* comes last: its invariant says where the tokens that died can be.       *)
(***************************************************************************)
EXTENDS HandleCalls, HandleRegistry, Integers, WellFoundedInduction, FiniteSetTheorems, TLAPS

(***************************************************************************)
(* The handle tree, one call at a time.                                    *)
(***************************************************************************)
Tables == [slots : [Index -> Slot], heap : [Addr -> Struct \cup {None}],
           dead : SUBSET Token, explicit : SUBSET Token]

Encodable(T) ==
  \A i \in Index : T.slots[i].kind # None =>
    T.slots[i].generation \in 1 .. MaxGeneration

DeadStayDead(T) ==
  \A t \in T.dead :
    /\ t[2] <= T.slots[t[1]].generation
    /\ t[2] = T.slots[t[1]].generation =>
         /\ T.slots[t[1]].kind = None
         /\ T.slots[t[1]].generation >= MaxGeneration

SlotsOwn(T) ==
  \A t \in LiveTokens(T.slots) :
    /\ T.slots[t[1]].addr \in Addr
    /\ At(T, t) # None
    /\ At(T, t).header = t
    /\ At(T, t).type = T.slots[t[1]].kind

HeapOwned(T) ==
  \A a \in Addr : T.heap[a] # None =>
    /\ T.heap[a].header \in LiveTokens(T.slots)
    /\ T.slots[T.heap[a].header[1]].addr = a

Memory(T) == /\ T \in Tables
             /\ Encodable(T)
             /\ DeadStayDead(T)
             /\ SlotsOwn(T)
             /\ HeapOwned(T)

\* The parent and the group of a live handle, by its kind.
Descends(T, t) ==
  LET slot == T.slots[t[1]] IN
  \/ slot.kind = "Env" /\ slot.parent = None /\ slot.group = t
  \/ slot.kind = "Dbc" /\ LiveAs(T.slots, slot.parent, "Env") /\ slot.group = t
  \/ /\ slot.kind = "Stmt"
     /\ LiveAs(T.slots, slot.parent, "Dbc")
     /\ slot.group = slot.parent
     /\ At(T, t).conn = slot.parent
  \/ /\ slot.kind = "Desc"
     /\ \/ LiveAs(T.slots, slot.parent, "Dbc")
        \/ LiveAs(T.slots, slot.parent, "Stmt")
     /\ slot.group = T.slots[slot.parent[1]].group

Lineage(T) == \A t \in LiveTokens(T.slots) : Descends(T, t)

ExplicitKept(T) ==
  \A d \in T.explicit :
    \/ d \in T.dead
    \/ /\ LiveAs(T.slots, d, "Desc")
       /\ LiveAs(T.slots, T.slots[d[1]].parent, "Dbc")

\* What statement s may hold as an override.
Usable(T, s, d) ==
  \/ d = None
  \/ LiveAs(T.slots, d, "Desc") /\ T.slots[d[1]].group = T.slots[s[1]].group
  \/ d \in T.dead \ T.explicit

OverridesKept(T) ==
  \A s \in LiveTokens(T.slots), r \in AppRoles :
    T.slots[s[1]].kind = "Stmt" => Usable(T, s, At(T, s).app_override[r])

Family(T) == Lineage(T) /\ ExplicitKept(T) /\ OverridesKept(T)

\* The descriptors of s are exactly f[1] .. f[n], each one once.
Owns(T, s, f, n) ==
  /\ \A r \in 1 .. n : /\ f[r] \in Token
                       /\ LiveAs(T.slots, f[r], "Desc")
                       /\ T.slots[f[r][1]].parent = s
  /\ \A t \in LiveTokens(T.slots) : T.slots[t[1]].parent = s =>
       \E r \in 1 .. n : f[r] = t
  /\ \A q, r \in 1 .. n : f[q] = f[r] => q = r

Completed(T, s) == Owns(T, s, At(T, s).implicit_desc, Implicit)

Complete(T) ==
  \A s \in LiveTokens(T.slots) :
    T.slots[s[1]].kind = "Stmt" => Completed(T, s)

Sound(T) == Memory(T) /\ Family(T) /\ Complete(T)

IInv == Sound(Table)

\* A handle a step does not touch, a step that adds one handle, and a step
\* that takes handles away.
Same(T, U, t) == U.slots[t[1]] = T.slots[t[1]] /\ At(U, t) = At(T, t)

Adds(T, U, n) ==
  /\ n \in Token /\ n \notin LiveTokens(T.slots) /\ n \notin T.dead
  /\ LiveTokens(U.slots) = LiveTokens(T.slots) \cup {n}
  /\ U.dead = T.dead /\ U.explicit = T.explicit
  /\ \A t \in LiveTokens(T.slots) : Same(T, U, t)

Drops(T, U, gone) ==
  /\ gone \subseteq LiveTokens(T.slots)
  /\ LiveTokens(U.slots) = LiveTokens(T.slots) \ gone
  /\ U.dead = T.dead \cup gone /\ U.explicit = T.explicit
  /\ \A t \in LiveTokens(U.slots) : Same(T, U, t)

-----------------------------------------------------------------------------
(***************************************************************************)
(* A non-empty set of naturals has a least element, so the first free slot *)
(* and the first free address exist whenever any is free.                  *)
(***************************************************************************)
LEMMA LeastElement ==
  ASSUME NEW T, T \subseteq Nat, T # {}
  PROVE  \E x \in T : \A y \in T : x <= y
<1>. DEFINE Below == OpToRel(<, Nat)
<1>1. \E x \in T : \A y \in T : ~ (<<y, x>> \in Below)
  BY NatLessThanWellFounded, WFMin, Zenon
<1>2. \A x, y \in Nat : <<y, x>> \in Below <=> y < x
  BY DEF OpToRel
<1>. HIDE DEF Below
<1>3. \A x, y \in Nat : ~ (y < x) <=> x <= y
  OBVIOUS
<1>. QED  BY <1>1, <1>2, <1>3, Zenon

LEMMA FirstFreeIsReusable ==
  ASSUME NEW S, ~Exhausted(S)
  PROVE  /\ FirstFree(S) \in Index
         /\ S[FirstFree(S)].kind = None
         /\ S[FirstFree(S)].generation < MaxGeneration
<1>1. Reusable(S) \subseteq Nat
  BY SlotsAssumption DEF Reusable, Index
<1>2. \E i \in Reusable(S) : \A j \in Reusable(S) : i <= j
  BY <1>1, LeastElement DEF Exhausted
<1>3. FirstFree(S) \in Reusable(S)
  BY <1>2 DEF FirstFree
<1>. QED  BY <1>3 DEF Reusable

(***************************************************************************)
(* A live token of a table is a token, and its slot holds its generation.  *)
(***************************************************************************)
LEMMA LiveMeans ==
  ASSUME NEW T, Memory(T), NEW t
  PROVE  /\ t \in LiveTokens(T.slots) <=>
              /\ t \in Token
              /\ T.slots[t[1]].generation = t[2]
              /\ T.slots[t[1]].kind # None
         /\ t \in Token \cup {None} => (Live(T.slots, t) <=> t \in LiveTokens(T.slots))
         /\ t \in LiveTokens(T.slots) => /\ t[1] \in Index
                                         /\ T.slots[t[1]] \in Slot
                                         /\ t = <<t[1], T.slots[t[1]].generation>>
<1>1. None \notin Token
  BY SlotsAssumption DEF Token, Index
<1>2. T.slots \in [Index -> Slot]
  BY DEF Memory, Tables
<1>. QED  BY <1>1, <1>2 DEF LiveTokens, Live, Token

(***************************************************************************)
(* The heap has room whenever a slot could be asked for: no two structs    *)
(* name the same slot, and there is one address more than slots.           *)
(***************************************************************************)
LEMMA RoomOnTheHeap ==
  ASSUME NEW T, Memory(T)
  PROVE  FreeAddr(T) \in Addr /\ T.heap[FreeAddr(T)] = None
<1> DEFINE Free == {a \in Addr : T.heap[a] = None}
           named == [a \in Addr |-> T.heap[a].header[1]]
<1>1. MaxAddr \in Nat /\ MaxSlotIndex \in Nat /\ MaxAddr > MaxSlotIndex + 1
  BY TableAssumption, SlotsAssumption
<1>2. ASSUME Free = {}  PROVE FALSE
  <2>1. \A a \in Addr : /\ T.heap[a].header \in LiveTokens(T.slots)
                        /\ T.slots[T.heap[a].header[1]].addr = a
    BY <1>2 DEF Memory, HeapOwned
  <2>2. \A a \in Addr : T.heap[a].header[1] \in Index
    BY <2>1, LiveMeans
  <2>3. named \in [Addr -> Index]
    BY <2>2
  <2>4. /\ IsFiniteSet(Addr) /\ Cardinality(Addr) = MaxAddr
        /\ IsFiniteSet(Index) /\ Cardinality(Index) = MaxSlotIndex + 1
    <3>1. 1 \in Int /\ 0 \in Int /\ MaxAddr \in Int /\ MaxSlotIndex \in Int
      BY <1>1
    <3>2. IsFiniteSet(1 .. MaxAddr) /\ IsFiniteSet(0 .. MaxSlotIndex)
      BY <3>1, FS_Interval
    <3>3. Cardinality(1 .. MaxAddr) = IF 1 > MaxAddr THEN 0 ELSE MaxAddr - 1 + 1
      BY <3>1, FS_Interval
    <3>4. Cardinality(0 .. MaxSlotIndex) =
            IF 0 > MaxSlotIndex THEN 0 ELSE MaxSlotIndex - 0 + 1
      BY <3>1, FS_Interval
    <3>. QED  BY <1>1, <3>2, <3>3, <3>4 DEF Addr, Index
  <2>5. \E a, b \in Addr : a # b /\ named[a] = named[b]
    <3>1. Cardinality(Index) < Cardinality(Addr)
      BY <1>1, <2>4
    <3>. HIDE DEF named
    <3>. QED  BY <2>3, <2>4, <3>1, FS_PigeonHole
  <2>. QED  BY <2>1, <2>5
<1>3. Free \subseteq Nat
  BY DEF Addr
<1>4. \E a \in Free : \A b \in Free : a <= b
  BY <1>2, <1>3, LeastElement
<1>5. FreeAddr(T) \in Free
  BY <1>4 DEF FreeAddr
<1>. QED  BY <1>5

-----------------------------------------------------------------------------
(***************************************************************************)
(* The structs the four allocation functions box, and what they are once   *)
(* the registry has named them.                                            *)
(***************************************************************************)
Boxes == {Environment, Descriptor}
           \cup {Connection(env) : env \in Token}
           \cup {Statement(conn) : conn \in Token}

Named(struct, n) == [struct EXCEPT !.header = n]

LEMMA BoxesAreStructs ==
  ASSUME NEW struct \in Boxes, NEW n \in Token
  PROVE  /\ struct.type \in Kinds
         /\ Named(struct, n) \in Struct
         /\ Named(struct, n) # None
         /\ Named(struct, n).header = n
         /\ Named(struct, n).type = struct.type
<1>1. CASE struct = Environment
  BY <1>1, NullAssumption DEF Environment, Named, Struct, Kinds
<1>2. CASE struct = Descriptor
  BY <1>2, NullAssumption DEF Descriptor, Named, Struct, Kinds
<1>3. CASE \E env \in Token : struct = Connection(env)
  <2>1. PICK env \in Token : struct = Connection(env)
    BY <1>3
  <2>. QED  BY <2>1, NullAssumption DEF Connection, Named, Struct, Kinds
<1>4. CASE \E conn \in Token : struct = Statement(conn)
  <2>1. PICK conn \in Token : struct = Statement(conn)
    BY <1>4
  <2>2. [r \in Roles |-> None] \in [Roles -> Token \cup {None}]
    OBVIOUS
  <2>3. [r \in AppRoles |-> None] \in [AppRoles -> Token \cup {None}]
    OBVIOUS
  <2>4. Named(struct, n) =
          [type |-> "Stmt", header |-> n, conn |-> conn,
           implicit_desc |-> [r \in Roles |-> None],
           app_override |-> [r \in AppRoles |-> None]]
    BY <2>1 DEF Statement, Named
  <2>5. Named(struct, n) \in Struct
    BY <2>2, <2>3, <2>4 DEF Struct
  <2>6. struct.type = "Stmt"
    BY <2>1 DEF Statement
  <2>. QED  BY <2>4, <2>5, <2>6, NullAssumption DEF Kinds
<1>. QED  BY <1>1, <1>2, <1>3, <1>4 DEF Boxes

(***************************************************************************)
(* Boxing a struct and registering it: one more live token, never used     *)
(* before, and everything else as it was.                                  *)
(***************************************************************************)
Registered(T, U, n, struct, group, parent) ==
  /\ n \in Token
  /\ Memory(U)
  /\ Adds(T, U, n)
  /\ U.slots[n[1]].kind = struct.type
  /\ U.slots[n[1]].group = group
  /\ U.slots[n[1]].parent = parent
  /\ At(U, n) = Named(struct, n)

LEMMA NewAdds ==
  ASSUME NEW T, Memory(T), ~Exhausted(T.slots), NEW struct \in Boxes,
         NEW group \in Token \cup {None}, NEW parent \in Token \cup {None}
  PROVE  Registered(T, New(T, struct, group, parent), NewToken(T.slots),
                    struct, group, parent)
<1> DEFINE S == T.slots
           i == FirstFree(S)
           g == S[i].generation + 1
           n == NewToken(S)
           a == FreeAddr(T)
           h == Named(struct, n)
           U == New(T, struct, group, parent)
           slot == [generation |-> g, kind |-> struct.type, addr |-> a,
                    group |-> group, parent |-> parent, cancel |-> None]
<1>1. T \in Tables /\ S \in [Index -> Slot] /\ T.heap \in [Addr -> Struct \cup {None}]
  BY DEF Memory, Tables
<1>2. i \in Index /\ S[i] \in Slot /\ S[i].kind = None /\ S[i].generation < MaxGeneration
  BY <1>1, FirstFreeIsReusable
<1>3. S[i].generation \in Nat /\ MaxGeneration \in Nat /\ GenerationCap \in Nat
      /\ MaxGeneration <= GenerationCap
  BY <1>2, SlotsAssumption DEF Slot
<1>4. g \in 1 .. MaxGeneration /\ g \in 0 .. GenerationCap /\ g # S[i].generation
  BY <1>2, <1>3
<1>5. n = <<i, g>> /\ n \in Token
  BY <1>2, <1>4 DEF NewToken, Token
<1>6. a \in Addr /\ T.heap[a] = None
  BY RoomOnTheHeap
<1>7. /\ struct.type \in Kinds /\ h \in Struct /\ h # None
      /\ h.header = n /\ h.type = struct.type
  BY <1>5, BoxesAreStructs, Zenon
<1>8. /\ U.slots = [S EXCEPT ![i] = slot]
      /\ U.heap = [T.heap EXCEPT ![a] = h]
      /\ U.dead = T.dead /\ U.explicit = T.explicit
      /\ U = [slots |-> U.slots, heap |-> U.heap, dead |-> U.dead, explicit |-> U.explicit]
  <2>1. T = [slots |-> T.slots, heap |-> T.heap, dead |-> T.dead, explicit |-> T.explicit]
    BY <1>1 DEF Tables
  <2>2. Register(S, struct.type, a, group, parent) = [S EXCEPT ![i] = slot]
    BY <1>1, <1>2 DEF Register
  <2>3. U = [T EXCEPT !.slots = Register(S, struct.type, a, group, parent),
                      !.heap = [T.heap EXCEPT ![a] = h]]
    BY Zenon DEF New, Named
  <2>. HIDE DEF U, h, slot
  <2>4. U = [slots |-> [S EXCEPT ![i] = slot], heap |-> [T.heap EXCEPT ![a] = h],
             dead |-> T.dead, explicit |-> T.explicit]
    BY <2>1, <2>2, <2>3
  <2>. QED  BY <2>4
<1>9. slot \in Slot
  BY <1>4, <1>6, <1>7 DEF Slot
<1>10. U \in Tables
  <2>1. U.slots \in [Index -> Slot]
    BY <1>1, <1>2, <1>8, <1>9
  <2>2. U.heap \in [Addr -> Struct \cup {None}]
    BY <1>1, <1>6, <1>7, <1>8
  <2>. QED  BY <1>1, <1>8, <2>1, <2>2 DEF Tables
<1>. HIDE DEF U, h
<1>11. /\ U.slots[i] = slot
       /\ \A j \in Index : j # i => U.slots[j] = S[j]
       /\ U.heap[a] = h
       /\ \A b \in Addr : b # a => U.heap[b] = T.heap[b]
  BY <1>1, <1>2, <1>6, <1>8
<1>12. slot.kind = struct.type /\ slot.kind # None /\ slot.generation = g /\ slot.addr = a
       /\ slot.group = group /\ slot.parent = parent
  BY <1>7, NullAssumption
<1>. HIDE DEF slot, g
<1>13. Encodable(U)
  BY <1>4, <1>11, <1>12 DEF Memory, Encodable
<1>14. DeadStayDead(U)
  <2> SUFFICES ASSUME NEW t \in T.dead
               PROVE  /\ t[2] <= U.slots[t[1]].generation
                      /\ t[2] = U.slots[t[1]].generation =>
                           /\ U.slots[t[1]].kind = None
                           /\ U.slots[t[1]].generation >= MaxGeneration
    BY <1>8 DEF DeadStayDead
  <2>1. t \in Token /\ t[1] \in Index /\ t[2] \in Nat
    BY <1>1 DEF Tables, Token
  <2>2. /\ t[2] <= S[t[1]].generation
        /\ t[2] = S[t[1]].generation => /\ S[t[1]].kind = None
                                        /\ S[t[1]].generation >= MaxGeneration
    BY DEF Memory, DeadStayDead
  <2>3. CASE t[1] = i
    BY <1>3, <1>11, <1>12, <2>1, <2>2, <2>3 DEF g
  <2>4. CASE t[1] # i
    BY <1>11, <2>1, <2>2, <2>4
  <2>. QED  BY <2>3, <2>4
<1>15. \A t \in Token : t \in LiveTokens(U.slots) <=> t \in LiveTokens(S) \/ t = n
  <2> SUFFICES ASSUME NEW t \in Token
               PROVE  t \in LiveTokens(U.slots) <=> t \in LiveTokens(S) \/ t = n
    OBVIOUS
  <2>1. t[1] \in Index /\ t = <<t[1], t[2]>> /\ t # None
    BY SlotsAssumption DEF Token, Index
  <2>2. CASE t[1] = i
    BY <1>2, <1>5, <1>11, <1>12, <2>1, <2>2 DEF LiveTokens, Live
  <2>3. CASE t[1] # i
    BY <1>5, <1>11, <2>1, <2>3 DEF LiveTokens, Live
  <2>. QED  BY <2>2, <2>3
<1>16. \A t \in LiveTokens(S) : t \in Token /\ t[1] \in Index /\ t[1] # i
  BY <1>2, LiveMeans
<1>17. n \notin LiveTokens(S) /\ n[1] = i
  BY <1>5, <1>16
<1>18. n \notin T.dead
  BY <1>3, <1>5 DEF Memory, DeadStayDead, g
<1>19. \A t \in LiveTokens(S) : Same(T, U, t)
  <2> SUFFICES ASSUME NEW t \in LiveTokens(S)  PROVE Same(T, U, t)
    OBVIOUS
  <2>1. U.slots[t[1]] = S[t[1]]
    BY <1>11, <1>16
  <2>2. S[t[1]].addr \in Addr /\ S[t[1]].addr # a
    BY <1>6 DEF Memory, SlotsOwn, At
  <2>. QED  BY <1>11, <2>1, <2>2 DEF Same, At
<1>20. LiveTokens(U.slots) = LiveTokens(S) \cup {n}
  BY <1>5, <1>15 DEF LiveTokens
<1>21. At(U, n) = h
  BY <1>11, <1>12, <1>17 DEF At
<1>22. SlotsOwn(U)
  <2>1. ASSUME NEW t \in LiveTokens(S)
        PROVE  /\ U.slots[t[1]].addr \in Addr /\ At(U, t) # None
               /\ At(U, t).header = t /\ At(U, t).type = U.slots[t[1]].kind
    BY <1>19 DEF Memory, SlotsOwn, Same
  <2>2. /\ U.slots[n[1]].addr \in Addr /\ At(U, n) # None
        /\ At(U, n).header = n /\ At(U, n).type = U.slots[n[1]].kind
    BY <1>6, <1>7, <1>11, <1>12, <1>17, <1>21
  <2>. QED  BY <1>20, <2>1, <2>2 DEF SlotsOwn
<1>23. HeapOwned(U)
  <2> SUFFICES ASSUME NEW b \in Addr, U.heap[b] # None
               PROVE  /\ U.heap[b].header \in LiveTokens(U.slots)
                      /\ U.slots[U.heap[b].header[1]].addr = b
    BY DEF HeapOwned
  <2>1. CASE b = a
    BY <1>7, <1>11, <1>12, <1>17, <1>20, <2>1
  <2>2. CASE b # a
    <3>1. U.heap[b] = T.heap[b]
      BY <1>11, <2>2
    <3>2. /\ T.heap[b].header \in LiveTokens(S)
          /\ S[T.heap[b].header[1]].addr = b
      BY <3>1 DEF Memory, HeapOwned
    <3>. QED  BY <1>19, <1>20, <3>1, <3>2 DEF Same
  <2>. QED  BY <2>1, <2>2
<1>24. Memory(U)
  BY <1>10, <1>13, <1>14, <1>22, <1>23 DEF Memory
<1>25. Adds(T, U, n)
  BY <1>5, <1>8, <1>17, <1>18, <1>19, <1>20 DEF Adds
<1>. QED  BY <1>5, <1>11, <1>12, <1>17, <1>21, <1>24, <1>25 DEF Registered, U, h

(***************************************************************************)
(* Retiring slots and reclaiming their allocations: the live handles of    *)
(* the set are gone and counted dead, every other one is untouched.        *)
(***************************************************************************)
LEMMA DropAllDrops ==
  ASSUME NEW T, Memory(T), NEW tokens, tokens \subseteq Token \cup {None}
  PROVE  /\ Memory(DropAll(T, tokens))
         /\ Drops(T, DropAll(T, tokens), tokens \cap LiveTokens(T.slots))
<1> DEFINE S == T.slots
           gone == tokens \cap LiveTokens(S)
           Freed(i) == \E t \in gone : t[1] = i
           Reclaimed(a) == \E t \in gone : S[t[1]].addr = a
           U == DropAll(T, tokens)
<1>1. T \in Tables /\ S \in [Index -> Slot] /\ T.heap \in [Addr -> Struct \cup {None}]
      /\ T.dead \subseteq Token /\ T.explicit \subseteq Token
  BY DEF Memory, Tables
<1>2. {t \in tokens : Live(S, t)} = gone
  BY LiveMeans
<1>3. \A t \in gone : t \in Token /\ t[1] \in Index /\ S[t[1]].generation = t[2]
                      /\ S[t[1]].kind # None /\ t = <<t[1], t[2]>>
  BY LiveMeans DEF Token
<1>4. U = [slots |-> [i \in Index |-> IF Freed(i)
                        THEN Unregister(S, <<i, S[i].generation>>)[i] ELSE S[i]],
           heap |-> [a \in Addr |-> IF Reclaimed(a) THEN None ELSE T.heap[a]],
           dead |-> T.dead \cup gone, explicit |-> T.explicit]
  BY <1>2, Zenon DEF DropAll
<1>5. \A i \in Index : Unregister(S, <<i, S[i].generation>>)[i] =
        [generation |-> Raise(S[i].generation), kind |-> None, addr |-> S[i].addr,
         group |-> None, parent |-> None, cancel |-> None]
  BY <1>1 DEF Unregister
<1>6. /\ MaxGeneration \in Nat /\ GenerationCap \in Nat /\ MaxGeneration <= GenerationCap
  BY SlotsAssumption
<1>7. \A i \in Index : /\ S[i] \in Slot
                       /\ S[i].generation \in 0 .. GenerationCap
                       /\ Raise(S[i].generation) \in 0 .. GenerationCap
                       /\ S[i].generation <= Raise(S[i].generation)
                       /\ Raise(S[i].generation) = S[i].generation =>
                            S[i].generation >= MaxGeneration
  BY <1>1, <1>6 DEF Slot, Raise
<1>8. \A i \in Index : /\ Freed(i) => /\ U.slots[i].kind = None
                                      /\ U.slots[i].generation = Raise(S[i].generation)
                                      /\ U.slots[i] \in Slot
                       /\ ~Freed(i) => U.slots[i] = S[i]
  <2> SUFFICES ASSUME NEW i \in Index
               PROVE  /\ Freed(i) => /\ U.slots[i].kind = None
                                     /\ U.slots[i].generation = Raise(S[i].generation)
                                     /\ U.slots[i] \in Slot
                      /\ ~Freed(i) => U.slots[i] = S[i]
    OBVIOUS
  <2>. HIDE DEF U, Freed, Reclaimed, gone
  <2>1. CASE Freed(i)
    <3>1. U.slots[i] = Unregister(S, <<i, S[i].generation>>)[i]
      BY <1>4, <2>1
    <3>2. U.slots[i] = [generation |-> Raise(S[i].generation), kind |-> None,
                        addr |-> S[i].addr, group |-> None, parent |-> None,
                        cancel |-> None]
      BY <1>5, <3>1
    <3>3. S[i].addr \in Addr \cup {None} /\ Raise(S[i].generation) \in 0 .. GenerationCap
      BY <1>7 DEF Slot
    <3>4. U.slots[i] \in Slot
      BY <3>2, <3>3 DEF Slot
    <3>. QED  BY <2>1, <3>2, <3>4
  <2>2. CASE ~Freed(i)
    BY <1>4, <2>2
  <2>. QED  BY <2>1, <2>2
<1>9. \A a \in Addr : U.heap[a] = IF Reclaimed(a) THEN None ELSE T.heap[a]
  <2>. HIDE DEF U, Freed, Reclaimed, gone
  <2>. QED  BY <1>4
<1>10. U \in Tables /\ U.dead = T.dead \cup gone /\ U.explicit = T.explicit
  <2>0. gone \subseteq Token
    BY <1>3
  <2>1. /\ U = [slots |-> U.slots, heap |-> U.heap, dead |-> U.dead, explicit |-> U.explicit]
        /\ U.dead = T.dead \cup gone /\ U.explicit = T.explicit
        /\ U.slots = [i \in Index |-> U.slots[i]]
        /\ U.heap = [a \in Addr |-> U.heap[a]]
    <3>. HIDE DEF U, Freed, Reclaimed, gone
    <3>. QED  BY <1>4
  <2>. HIDE DEF U, Freed, Reclaimed, gone
  <2>2. U.slots \in [Index -> Slot]
    BY <1>7, <1>8, <2>1
  <2>3. U.heap \in [Addr -> Struct \cup {None}]
    BY <1>1, <1>9, <2>1
  <2>. QED  BY <1>1, <2>0, <2>1, <2>2, <2>3 DEF Tables
<1>. HIDE DEF U
<1>11. \A t \in LiveTokens(S) : Freed(t[1]) <=> t \in gone
  <2> SUFFICES ASSUME NEW t \in LiveTokens(S)  PROVE Freed(t[1]) => t \in gone
    OBVIOUS
  <2>1. t = <<t[1], S[t[1]].generation>>
    BY LiveMeans
  <2>. QED  BY <1>3, <2>1
<1>12. LiveTokens(U.slots) = LiveTokens(S) \ gone
  <2>1. ASSUME NEW t \in Token
        PROVE  t \in LiveTokens(U.slots) <=> t \in LiveTokens(S) /\ t \notin gone
    <3>1. t[1] \in Index
      BY DEF Token
    <3>2. CASE Freed(t[1])
      BY <1>8, <1>11, <3>1, <3>2 DEF LiveTokens, Live
    <3>3. CASE ~Freed(t[1])
      <4>1. U.slots[t[1]] = S[t[1]]
        BY <1>8, <3>1, <3>3
      <4>2. t \notin gone
        BY <3>3
      <4>. HIDE DEF gone, Freed
      <4>. QED  BY <4>1, <4>2 DEF LiveTokens, Live
    <3>. QED  BY <3>2, <3>3
  <2>. HIDE DEF gone
  <2>. QED  BY <2>1 DEF LiveTokens
<1>13. \A t \in LiveTokens(S) : t \notin gone =>
         /\ U.slots[t[1]] = S[t[1]]
         /\ S[t[1]].addr \in Addr
         /\ ~Reclaimed(S[t[1]].addr)
  <2> SUFFICES ASSUME NEW t \in LiveTokens(S), t \notin gone
               PROVE  /\ U.slots[t[1]] = S[t[1]]
                      /\ S[t[1]].addr \in Addr
                      /\ ~Reclaimed(S[t[1]].addr)
    OBVIOUS
  <2>1. t[1] \in Index /\ ~Freed(t[1])
    BY <1>11, LiveMeans
  <2>2. S[t[1]].addr \in Addr /\ T.heap[S[t[1]].addr].header = t
    BY DEF Memory, SlotsOwn, At
  <2>3. ASSUME NEW u \in gone, S[u[1]].addr = S[t[1]].addr  PROVE FALSE
    <3>1. T.heap[S[u[1]].addr].header = u
      BY DEF Memory, SlotsOwn, At
    <3>. QED  BY <2>2, <2>3, <3>1
  <2>. QED  BY <1>8, <2>1, <2>2, <2>3
<1>14. \A t \in LiveTokens(U.slots) : Same(T, U, t)
  <2>. HIDE DEF gone, Reclaimed
  <2>. QED  BY <1>9, <1>12, <1>13 DEF Same, At
<1>15. Drops(T, U, gone)
  BY <1>10, <1>12, <1>14 DEF Drops
<1>16. Encodable(U)
  <2>. HIDE DEF gone, Freed
  <2>. QED  BY <1>8 DEF Memory, Encodable
<1>17. DeadStayDead(U)
  <2> SUFFICES ASSUME NEW t \in T.dead \cup gone
               PROVE  /\ t[2] <= U.slots[t[1]].generation
                      /\ t[2] = U.slots[t[1]].generation =>
                           /\ U.slots[t[1]].kind = None
                           /\ U.slots[t[1]].generation >= MaxGeneration
    BY <1>10 DEF DeadStayDead
  <2>1. t \in Token /\ t[1] \in Index /\ t[2] \in Nat
    BY <1>1, <1>3 DEF Token
  <2>2. CASE t \in gone
    <3>1. Freed(t[1]) /\ S[t[1]].generation = t[2]
      BY <1>3, <2>2
    <3>. HIDE DEF gone, Freed
    <3>. QED  BY <1>6, <1>7, <1>8, <2>1, <3>1
  <2>3. CASE t \in T.dead
    <3>1. /\ t[2] <= S[t[1]].generation
          /\ t[2] = S[t[1]].generation => /\ S[t[1]].kind = None
                                          /\ S[t[1]].generation >= MaxGeneration
      BY <2>3 DEF Memory, DeadStayDead
    <3>. HIDE DEF gone, Freed
    <3>2. CASE Freed(t[1])
      BY <1>6, <1>7, <1>8, <2>1, <3>1, <3>2
    <3>3. CASE ~Freed(t[1])
      BY <1>8, <2>1, <3>1, <3>3
    <3>. QED  BY <3>2, <3>3
  <2>. QED  BY <2>2, <2>3
<1>18. SlotsOwn(U)
  <2> SUFFICES ASSUME NEW t \in LiveTokens(U.slots)
               PROVE  /\ U.slots[t[1]].addr \in Addr /\ At(U, t) # None
                      /\ At(U, t).header = t /\ At(U, t).type = U.slots[t[1]].kind
    BY DEF SlotsOwn
  <2>1. t \in LiveTokens(S) /\ U.slots[t[1]] = S[t[1]] /\ At(U, t) = At(T, t)
    BY <1>12, <1>14 DEF Same
  <2>. QED  BY <2>1 DEF Memory, SlotsOwn
<1>19. HeapOwned(U)
  <2> SUFFICES ASSUME NEW b \in Addr, U.heap[b] # None
               PROVE  /\ U.heap[b].header \in LiveTokens(U.slots)
                      /\ U.slots[U.heap[b].header[1]].addr = b
    BY DEF HeapOwned
  <2>1. ~Reclaimed(b) /\ U.heap[b] = T.heap[b]
    BY <1>9
  <2>2. /\ T.heap[b].header \in LiveTokens(S)
        /\ S[T.heap[b].header[1]].addr = b
    BY <2>1 DEF Memory, HeapOwned
  <2>3. T.heap[b].header \notin gone
    BY <2>1, <2>2
  <2>. HIDE DEF gone, Reclaimed
  <2>. QED  BY <1>12, <1>13, <2>1, <2>2, <2>3
<1>20. Memory(U)
  BY <1>10, <1>16, <1>17, <1>18, <1>19 DEF Memory
<1>. QED  BY <1>15, <1>20 DEF U

(***************************************************************************)
(* Writing to structs without moving them keeps slots and heap together.   *)
(***************************************************************************)
LEMMA WritingKeepsMemory ==
  ASSUME NEW T, Memory(T), NEW U, U \in Tables,
         U.slots = T.slots, U.dead = T.dead,
         \A a \in Addr : /\ U.heap[a] # None <=> T.heap[a] # None
                         /\ T.heap[a] # None => /\ U.heap[a].header = T.heap[a].header
                                                /\ U.heap[a].type = T.heap[a].type
  PROVE  Memory(U)
<1>1. Encodable(U)
  BY DEF Memory, Encodable
<1>2. DeadStayDead(U)
  BY DEF Memory, DeadStayDead
<1>3. SlotsOwn(U)
  BY DEF Memory, SlotsOwn, At
<1>4. HeapOwned(U)
  BY DEF Memory, HeapOwned
<1>. QED  BY <1>1, <1>2, <1>3, <1>4 DEF Memory

\* What the struct of a live handle looks like.
ConnectionStruct == [type : {"Dbc"}, header : Token, env : Token, open : BOOLEAN]
StatementStruct ==
  [type : {"Stmt"}, header : Token, conn : Token,
   implicit_desc : [Roles -> Token \cup {None}],
   app_override : [AppRoles -> Token \cup {None}]]

LEMMA StructOfLive ==
  ASSUME NEW T, Memory(T), NEW t \in LiveTokens(T.slots)
  PROVE  /\ At(T, t) \in Struct /\ At(T, t).header = t
         /\ At(T, t).type = T.slots[t[1]].kind
         /\ T.slots[t[1]].addr \in Addr
         /\ T.slots[t[1]].kind \in Kinds
         /\ T.slots[t[1]].parent \in Token \cup {None}
         /\ T.slots[t[1]].group \in Token \cup {None}
         /\ T.slots[t[1]].kind = "Dbc" => At(T, t) \in ConnectionStruct
         /\ T.slots[t[1]].kind = "Stmt" => At(T, t) \in StatementStruct
<1>1. T.slots[t[1]] \in Slot /\ T.slots[t[1]].kind # None
  BY LiveMeans
<1>2. /\ At(T, t) # None /\ At(T, t).header = t
      /\ At(T, t).type = T.slots[t[1]].kind
      /\ T.slots[t[1]].addr \in Addr
  BY DEF Memory, SlotsOwn
<1>3. T.heap \in [Addr -> Struct \cup {None}]
  BY DEF Memory, Tables
<1>4. At(T, t) \in Struct
  BY <1>2, <1>3 DEF At
<1>5. /\ At(T, t).type = "Dbc" => At(T, t) \in ConnectionStruct
      /\ At(T, t).type = "Stmt" => At(T, t) \in StatementStruct
  BY <1>4 DEF Struct, ConnectionStruct, StatementStruct
<1>. QED  BY <1>1, <1>2, <1>4, <1>5 DEF Slot

(***************************************************************************)
(* The struct of one handle rewritten.                                     *)
(***************************************************************************)
LEMMA PutWrites ==
  ASSUME NEW T, Memory(T), NEW t \in LiveTokens(T.slots),
         NEW struct \in Struct, struct.header = t, struct.type = T.slots[t[1]].kind
  PROVE  /\ Memory(Put(T, t, struct))
         /\ Put(T, t, struct).slots = T.slots
         /\ Put(T, t, struct).dead = T.dead
         /\ Put(T, t, struct).explicit = T.explicit
         /\ At(Put(T, t, struct), t) = struct
         /\ \A u \in LiveTokens(T.slots) : u # t => At(Put(T, t, struct), u) = At(T, u)
<1> DEFINE a == T.slots[t[1]].addr
           U == Put(T, t, struct)
<1>1. /\ T \in Tables /\ T.heap \in [Addr -> Struct \cup {None}]
      /\ T = [slots |-> T.slots, heap |-> T.heap, dead |-> T.dead, explicit |-> T.explicit]
  BY DEF Memory, Tables
<1>2. a \in Addr /\ T.heap[a] # None /\ T.heap[a].header = t
      /\ T.heap[a].type = T.slots[t[1]].kind
  BY DEF Memory, SlotsOwn, At
<1>3. U = [slots |-> T.slots, heap |-> [T.heap EXCEPT ![a] = struct],
           dead |-> T.dead, explicit |-> T.explicit]
  BY <1>1 DEF Put
<1>4. /\ U \in Tables /\ U.slots = T.slots /\ U.dead = T.dead /\ U.explicit = T.explicit
      /\ U.heap[a] = struct
      /\ \A b \in Addr : b # a => U.heap[b] = T.heap[b]
  <2>. HIDE DEF U, a
  <2>1. [T.heap EXCEPT ![a] = struct] \in [Addr -> Struct \cup {None}]
    BY <1>1, <1>2
  <2>. QED  BY <1>1, <1>2, <1>3, <2>1 DEF Tables
<1>. HIDE DEF U
<1>5. Memory(U)
  BY <1>2, <1>4, NullAssumption, WritingKeepsMemory
<1>6. At(U, t) = struct
  BY <1>4 DEF At
<1>7. ASSUME NEW u \in LiveTokens(T.slots), u # t  PROVE At(U, u) = At(T, u)
  <2>1. T.slots[u[1]].addr \in Addr /\ T.heap[T.slots[u[1]].addr].header = u
    BY DEF Memory, SlotsOwn, At
  <2>. QED  BY <1>2, <1>4, <1>7, <2>1 DEF At
<1>. QED  BY <1>4, <1>5, <1>6, <1>7 DEF U

-----------------------------------------------------------------------------
(***************************************************************************)
(* A handle that lives on is resolved as before.                           *)
(***************************************************************************)
LEMMA SameIsLive ==
  ASSUME NEW T, Memory(T), NEW U, Memory(U), NEW p \in Token \cup {None}, NEW kind,
         p \in LiveTokens(U.slots), Same(T, U, p), LiveAs(T.slots, p, kind)
  PROVE  LiveAs(U.slots, p, kind)
BY LiveMeans DEF LiveAs, Same

(***************************************************************************)
(* A new handle in its place keeps the family in order.                    *)
(***************************************************************************)
LEMMA AddsKeepsFamily ==
  ASSUME NEW T, Memory(T), Family(T), NEW U, Memory(U), NEW n, Adds(T, U, n),
         Descends(U, n),
         U.slots[n[1]].kind = "Stmt" => \A r \in AppRoles : At(U, n).app_override[r] = None
  PROVE  Family(U)
<1>1. \A t \in LiveTokens(T.slots) : Same(T, U, t) /\ t \in LiveTokens(U.slots)
  BY DEF Adds
<1>2. \A p \in Token \cup {None} : \A kind :
        LiveAs(T.slots, p, kind) => LiveAs(U.slots, p, kind) /\ Same(T, U, p)
  BY <1>1, LiveMeans DEF LiveAs, Same
<1>3. ASSUME NEW t \in LiveTokens(T.slots)  PROVE Descends(U, t)
  <2>1. Descends(T, t)
    BY DEF Family, Lineage
  <2>2. T.slots[t[1]].parent \in Token \cup {None}
    BY StructOfLive
  <2>3. U.slots[t[1]] = T.slots[t[1]] /\ At(U, t) = At(T, t)
    BY <1>1 DEF Same
  <2>. QED  BY <1>2, <2>1, <2>2, <2>3 DEF Descends, Same
<1>4. Lineage(U)
  BY <1>3 DEF Lineage, Adds
<1>5. ExplicitKept(U)
  <2> SUFFICES ASSUME NEW d \in T.explicit
               PROVE  \/ d \in U.dead
                      \/ /\ LiveAs(U.slots, d, "Desc")
                         /\ LiveAs(U.slots, U.slots[d[1]].parent, "Dbc")
    BY DEF ExplicitKept, Adds
  <2>1. CASE d \in T.dead
    BY <2>1 DEF Adds
  <2>2. CASE LiveAs(T.slots, d, "Desc") /\ LiveAs(T.slots, T.slots[d[1]].parent, "Dbc")
    <3>1. d \in LiveTokens(T.slots) /\ d \in Token
      BY <2>2, LiveMeans DEF LiveAs, Memory, Tables
    <3>2. T.slots[d[1]].parent \in Token \cup {None}
      BY <3>1, StructOfLive
    <3>. QED  BY <1>2, <2>2, <3>1, <3>2 DEF Same
  <2>. QED  BY <2>1, <2>2 DEF Family, ExplicitKept
<1>6. OverridesKept(U)
  <2> SUFFICES ASSUME NEW s \in LiveTokens(U.slots), NEW r \in AppRoles,
                      U.slots[s[1]].kind = "Stmt"
               PROVE  Usable(U, s, At(U, s).app_override[r])
    BY DEF OverridesKept
  <2>1. CASE s = n
    BY <2>1 DEF Usable
  <2>2. CASE s \in LiveTokens(T.slots)
    <3> DEFINE d == At(T, s).app_override[r]
    <3>1. U.slots[s[1]] = T.slots[s[1]] /\ At(U, s) = At(T, s)
      BY <1>1, <2>2 DEF Same
    <3>2. Usable(T, s, d) /\ d \in Token \cup {None}
      BY <2>2, <3>1, StructOfLive DEF Family, OverridesKept, StatementStruct
    <3>. HIDE DEF d
    <3>3. Usable(U, s, d)
      BY <1>2, <3>1, <3>2 DEF Usable, Same, Adds
    <3>. QED  BY <3>1, <3>3 DEF d
  <2>. QED  BY <2>1, <2>2 DEF Adds
<1>. QED  BY <1>4, <1>5, <1>6 DEF Family

LEMMA AddsKeepsOwned ==
  ASSUME NEW T, Memory(T), NEW U, Memory(U), NEW n, Adds(T, U, n),
         NEW s \in LiveTokens(T.slots), NEW f, NEW m, Owns(T, s, f, m),
         U.slots[n[1]].parent # s
  PROVE  Owns(U, s, f, m)
<1>1. \A p \in Token \cup {None} : \A kind :
        LiveAs(T.slots, p, kind) => LiveAs(U.slots, p, kind) /\ Same(T, U, p)
  BY LiveMeans DEF LiveAs, Same, Adds
<1>2. \A r \in 1 .. m : /\ f[r] \in Token
                        /\ LiveAs(U.slots, f[r], "Desc")
                        /\ U.slots[f[r][1]].parent = s
  BY <1>1 DEF Owns, Same
<1>3. \A t \in LiveTokens(U.slots) : U.slots[t[1]].parent = s =>
        \E r \in 1 .. m : f[r] = t
  BY DEF Owns, Adds, Same
<1>. QED  BY <1>2, <1>3 DEF Owns

(***************************************************************************)
(* Taking handles away keeps the family in order if their children go with *)
(* them and nobody goes on using an explicit descriptor among them.        *)
(***************************************************************************)
LEMMA DropsKeepsFamily ==
  ASSUME NEW T, Memory(T), Family(T), NEW U, Memory(U), NEW gone, Drops(T, U, gone),
         \A t \in LiveTokens(T.slots) : T.slots[t[1]].parent \in gone => t \in gone,
         \A s \in LiveTokens(U.slots), r \in AppRoles :
           T.slots[s[1]].kind = "Stmt" /\ At(T, s).app_override[r] \in gone =>
             At(T, s).app_override[r] \notin T.explicit
  PROVE  Family(U)
<1>1. \A t \in LiveTokens(U.slots) : Same(T, U, t) /\ t \in LiveTokens(T.slots) /\ t \notin gone
  BY DEF Drops
<1>2. \A p \in Token \cup {None} : \A kind :
        LiveAs(T.slots, p, kind) =>
          \/ p \in gone
          \/ LiveAs(U.slots, p, kind) /\ Same(T, U, p)
  BY <1>1, LiveMeans DEF LiveAs, Same, Drops
<1>3. Lineage(U)
  <2> SUFFICES ASSUME NEW t \in LiveTokens(U.slots)  PROVE Descends(U, t)
    BY DEF Lineage
  <2>1. Descends(T, t)
    BY <1>1 DEF Family, Lineage
  <2>2. T.slots[t[1]].parent \in Token \cup {None} /\ T.slots[t[1]].parent \notin gone
    BY <1>1, StructOfLive
  <2>3. U.slots[t[1]] = T.slots[t[1]] /\ At(U, t) = At(T, t)
    BY <1>1 DEF Same
  <2>. QED  BY <1>2, <2>1, <2>2, <2>3 DEF Descends, Same
<1>4. ExplicitKept(U)
  <2> SUFFICES ASSUME NEW d \in T.explicit, d \notin U.dead
               PROVE  /\ LiveAs(U.slots, d, "Desc")
                      /\ LiveAs(U.slots, U.slots[d[1]].parent, "Dbc")
    BY DEF ExplicitKept, Drops
  <2>1. d \notin gone /\ d \notin T.dead
    BY DEF Drops
  <2>2. LiveAs(T.slots, d, "Desc") /\ LiveAs(T.slots, T.slots[d[1]].parent, "Dbc")
    BY <2>1 DEF Family, ExplicitKept
  <2>3. d \in LiveTokens(T.slots) /\ d \in Token
    BY <2>2, LiveMeans DEF LiveAs, Memory, Tables
  <2>4. T.slots[d[1]].parent \in Token \cup {None} /\ T.slots[d[1]].parent \notin gone
    BY <2>1, <2>3, StructOfLive
  <2>. QED  BY <1>2, <2>1, <2>2, <2>3, <2>4 DEF Same
<1>5. OverridesKept(U)
  <2> SUFFICES ASSUME NEW s \in LiveTokens(U.slots), NEW r \in AppRoles,
                      U.slots[s[1]].kind = "Stmt"
               PROVE  Usable(U, s, At(U, s).app_override[r])
    BY DEF OverridesKept
  <2> DEFINE d == At(T, s).app_override[r]
  <2>1. U.slots[s[1]] = T.slots[s[1]] /\ At(U, s) = At(T, s) /\ s \in LiveTokens(T.slots)
    BY <1>1 DEF Same
  <2>2. Usable(T, s, d) /\ d \in Token \cup {None}
    BY <2>1, StructOfLive DEF Family, OverridesKept, StatementStruct
  <2>3. d \in gone => d \notin T.explicit
    BY <2>1
  <2>. HIDE DEF d
  <2>4. Usable(U, s, d)
    BY <1>2, <2>1, <2>2, <2>3 DEF Usable, Same, Drops
  <2>. QED  BY <2>1, <2>4 DEF d
<1>. QED  BY <1>3, <1>4, <1>5 DEF Family

LEMMA DropsKeepsOwned ==
  ASSUME NEW T, Memory(T), NEW U, Memory(U), NEW gone, Drops(T, U, gone),
         NEW s \in LiveTokens(U.slots), NEW f, NEW m, Owns(T, s, f, m),
         \A r \in 1 .. m : f[r] \notin gone
  PROVE  Owns(U, s, f, m)
<1>1. \A p \in Token \cup {None} : \A kind :
        LiveAs(T.slots, p, kind) =>
          \/ p \in gone
          \/ LiveAs(U.slots, p, kind) /\ Same(T, U, p)
  BY LiveMeans DEF LiveAs, Same, Drops
<1>2. \A r \in 1 .. m : /\ f[r] \in Token
                        /\ LiveAs(U.slots, f[r], "Desc")
                        /\ U.slots[f[r][1]].parent = s
  BY <1>1 DEF Owns, Same
<1>3. \A t \in LiveTokens(U.slots) : U.slots[t[1]].parent = s =>
        \E r \in 1 .. m : f[r] = t
  BY DEF Owns, Drops, Same
<1>. QED  BY <1>2, <1>3 DEF Owns

LEMMA WritesKeepFamily ==
  ASSUME NEW T, Memory(T), Family(T), NEW U, Memory(U),
         U.slots = T.slots, U.dead = T.dead, U.explicit = T.explicit,
         \A s \in LiveTokens(T.slots) : T.slots[s[1]].kind = "Stmt" =>
           /\ At(U, s).conn = At(T, s).conn
           /\ \A r \in AppRoles : Usable(T, s, At(U, s).app_override[r])
  PROVE  Family(U)
<1>1. Lineage(U)
  BY DEF Family, Lineage, Descends
<1>2. ExplicitKept(U)
  BY DEF Family, ExplicitKept
<1>3. OverridesKept(U)
  BY DEF OverridesKept, Usable
<1>. QED  BY <1>1, <1>2, <1>3 DEF Family

-----------------------------------------------------------------------------
(***************************************************************************)
(* From here on, one lemma per operation.  First what the drops share.     *)
(***************************************************************************)
LEMMA DropKeepsSound ==
  ASSUME NEW T, Sound(T), NEW tokens, tokens \subseteq Token \cup {None},
         NEW gone, gone = tokens \cap LiveTokens(T.slots),
         \A t \in LiveTokens(T.slots) : T.slots[t[1]].parent \in gone => t \in gone,
         \A s \in LiveTokens(T.slots) : T.slots[s[1]].kind = "Stmt" /\ s \notin gone =>
           /\ \A r \in AppRoles : At(T, s).app_override[r] \in gone =>
                At(T, s).app_override[r] \notin T.explicit
           /\ \A r \in Roles : At(T, s).implicit_desc[r] \notin gone
  PROVE  Sound(DropAll(T, tokens)) /\ Drops(T, DropAll(T, tokens), gone)
<1> DEFINE U == DropAll(T, tokens)
<1>1. Memory(T) /\ Family(T) /\ Complete(T)
  BY DEF Sound
<1>2. Memory(U) /\ Drops(T, U, gone)
  BY <1>1, DropAllDrops
<1>. HIDE DEF U
<1>3. \A s \in LiveTokens(U.slots) : s \in LiveTokens(T.slots) /\ s \notin gone
                                     /\ Same(T, U, s)
  BY <1>2 DEF Drops
<1>4. Family(U)
  BY <1>1, <1>2, <1>3, DropsKeepsFamily
<1>5. ASSUME NEW s \in LiveTokens(U.slots), U.slots[s[1]].kind = "Stmt"
      PROVE  Completed(U, s)
  <2>1. /\ s \in LiveTokens(T.slots) /\ s \notin gone /\ T.slots[s[1]].kind = "Stmt"
        /\ At(U, s) = At(T, s)
    BY <1>3, <1>5 DEF Same
  <2> DEFINE f == At(T, s).implicit_desc
  <2>2. Owns(T, s, f, Implicit)
    BY <1>1, <2>1 DEF Complete, Completed
  <2>3. \A r \in 1 .. Implicit : f[r] \notin gone
    BY <2>1 DEF Roles
  <2>. HIDE DEF f
  <2>4. Owns(U, s, f, Implicit)
    BY <1>1, <1>2, <2>2, <2>3, DropsKeepsOwned
  <2>. QED  BY <2>1, <2>4 DEF Completed, f
<1>. QED  BY <1>2, <1>4, <1>5 DEF Sound, Complete, U

\* A handle resolves to its kind exactly if it is live with that kind.
LEMMA LiveAsMeans ==
  ASSUME NEW T, Memory(T), NEW t \in Token \cup {None}, NEW kind
  PROVE  LiveAs(T.slots, t, kind) <=>
           t \in LiveTokens(T.slots) /\ T.slots[t[1]].kind = kind
BY LiveMeans DEF LiveAs

LEMMA ChildrenAre ==
  ASSUME NEW T, Memory(T), NEW t
  PROVE  ChildrenOf(T.slots, t) = {c \in LiveTokens(T.slots) : T.slots[c[1]].parent = t}
<1>1. ASSUME NEW j \in Index, T.slots[j].kind # None
      PROVE  <<j, T.slots[j].generation>> \in LiveTokens(T.slots)
  <2>1. <<j, T.slots[j].generation>> \in Token
    BY <1>1 DEF Memory, Encodable, Token
  <2>. QED  BY <1>1, <2>1, LiveMeans
<1>2. \A c \in LiveTokens(T.slots) : /\ c[1] \in Index
                                     /\ c = <<c[1], T.slots[c[1]].generation>>
                                     /\ T.slots[c[1]].kind # None
  BY LiveMeans
<1>. QED  BY <1>1, <1>2 DEF ChildrenOf

(***************************************************************************)
(* SQLAllocHandle for an environment, a connection and a descriptor.       *)
(***************************************************************************)
LEMMA NewKeepsSound ==
  ASSUME NEW T, Sound(T), ~Exhausted(T.slots),
         NEW struct \in {Environment, Descriptor} \cup {Connection(env) : env \in Token},
         NEW group \in Token \cup {None}, NEW parent \in Token \cup {None},
         Descends(New(T, struct, group, parent), NewToken(T.slots)),
         ~LiveAs(T.slots, parent, "Stmt")
  PROVE  Sound(New(T, struct, group, parent))
<1> DEFINE n == NewToken(T.slots)
           U == New(T, struct, group, parent)
<1>1. Memory(T) /\ Family(T) /\ Complete(T) /\ struct \in Boxes
  BY DEF Sound, Boxes
<1>2. /\ Memory(U) /\ Adds(T, U, n)
      /\ U.slots[n[1]].kind = struct.type
      /\ U.slots[n[1]].parent = parent
  <2>1. Registered(T, U, n, struct, group, parent)
    BY <1>1, NewAdds, Zenon
  <2>. HIDE DEF U, n
  <2>. QED  BY <2>1 DEF Registered
<1>3. struct.type # "Stmt"
  BY DEF Environment, Descriptor, Connection
<1>. HIDE DEF U, n
<1>4. Descends(U, n)
  BY DEF U, n
<1>5. Family(U)
  BY <1>1, <1>2, <1>3, <1>4, AddsKeepsFamily
<1>6. ASSUME NEW s \in LiveTokens(U.slots), U.slots[s[1]].kind = "Stmt"
      PROVE  Completed(U, s)
  <2>1. s \in LiveTokens(T.slots)
    BY <1>2, <1>3, <1>6 DEF Adds
  <2>2. U.slots[s[1]] = T.slots[s[1]] /\ At(U, s) = At(T, s)
    BY <1>2, <2>1 DEF Adds, Same
  <2> DEFINE f == At(T, s).implicit_desc
  <2>3. Owns(T, s, f, Implicit)
    BY <1>1, <1>6, <2>1, <2>2 DEF Complete, Completed
  <2>4. U.slots[n[1]].parent # s
    BY <1>1, <1>2, <1>6, <2>1, <2>2, LiveAsMeans
  <2>. HIDE DEF f
  <2>5. Owns(U, s, f, Implicit)
    BY <1>1, <1>2, <2>1, <2>3, <2>4, AddsKeepsOwned
  <2>. QED  BY <2>2, <2>5 DEF Completed, f
<1>. QED  BY <1>2, <1>5, <1>6 DEF Sound, Complete, U

LEMMA NewEnvironmentSound ==
  ASSUME NEW T, Sound(T), ~Exhausted(T.slots)
  PROVE  /\ Sound(New(T, Environment, NewToken(T.slots), None))
         /\ Adds(T, New(T, Environment, NewToken(T.slots), None), NewToken(T.slots))
<1> DEFINE n == NewToken(T.slots)
           U == New(T, Environment, n, None)
<1>1. Memory(T) /\ Environment \in Boxes
  BY DEF Sound, Boxes
<1>2. n \in Token
  BY <1>1, NewAdds DEF Registered
<1>3. /\ Adds(T, U, n)
      /\ U.slots[n[1]].kind = Environment.type
      /\ U.slots[n[1]].parent = None
      /\ U.slots[n[1]].group = n
  BY <1>1, <1>2, NewAdds DEF Registered
<1>4. Environment.type = "Env"
  BY DEF Environment
<1>5. ~LiveAs(T.slots, None, "Stmt")
  BY DEF LiveAs, Live
<1>. HIDE DEF U, n
<1>6. Descends(U, n)
  BY <1>3, <1>4 DEF Descends
<1>. QED  BY <1>2, <1>3, <1>5, <1>6, NewKeepsSound DEF U, n

LEMMA NewConnectionSound ==
  ASSUME NEW T, Sound(T), ~Exhausted(T.slots), NEW env \in Token,
         LiveAs(T.slots, env, "Env")
  PROVE  /\ Sound(New(T, Connection(env), NewToken(T.slots), env))
         /\ Adds(T, New(T, Connection(env), NewToken(T.slots), env), NewToken(T.slots))
<1> DEFINE n == NewToken(T.slots)
           U == New(T, Connection(env), n, env)
<1>1. Memory(T) /\ Connection(env) \in Boxes
  BY DEF Sound, Boxes
<1>2. n \in Token
  BY <1>1, NewAdds DEF Registered
<1>3. /\ Adds(T, U, n) /\ Memory(U)
      /\ U.slots[n[1]].kind = Connection(env).type
      /\ U.slots[n[1]].parent = env
      /\ U.slots[n[1]].group = n
  BY <1>1, <1>2, NewAdds DEF Registered
<1>4. Connection(env).type = "Dbc"
  BY DEF Connection
<1>5. ~LiveAs(T.slots, env, "Stmt") /\ env \in LiveTokens(T.slots)
  BY <1>1, LiveAsMeans
<1>. HIDE DEF U, n
<1>6. LiveAs(U.slots, env, "Env")
  BY <1>1, <1>3, <1>5, SameIsLive DEF Adds
<1>7. Descends(U, n)
  BY <1>3, <1>4, <1>6 DEF Descends
<1>. QED  BY <1>2, <1>3, <1>5, <1>7, NewKeepsSound DEF U, n

WithExplicit(T, d) == [T EXCEPT !.explicit = T.explicit \cup {d}]

LEMMA NewDescriptorSound ==
  ASSUME NEW T, Sound(T), ~Exhausted(T.slots), NEW conn \in Token,
         LiveAs(T.slots, conn, "Dbc")
  PROVE  LET n == NewToken(T.slots)
             U == New(T, Descriptor, T.slots[conn[1]].group, conn)
         IN /\ Sound(WithExplicit(U, n)) /\ Adds(T, U, n)
            /\ WithExplicit(U, n).slots = U.slots
            /\ WithExplicit(U, n).heap = U.heap
            /\ WithExplicit(U, n).dead = U.dead
<1> DEFINE n == NewToken(T.slots)
           g == T.slots[conn[1]].group
           U == New(T, Descriptor, g, conn)
           V == WithExplicit(U, n)
<1>1. Memory(T) /\ Descriptor \in Boxes
  BY DEF Sound, Boxes
<1>2. conn \in LiveTokens(T.slots) /\ T.slots[conn[1]].kind = "Dbc"
  BY <1>1, LiveAsMeans
<1>3. g \in Token \cup {None}
  BY <1>1, <1>2, StructOfLive
<1>. HIDE DEF g
<1>4. /\ Adds(T, U, n) /\ Memory(U) /\ n \in Token
      /\ U.slots[n[1]].kind = Descriptor.type
      /\ U.slots[n[1]].parent = conn
      /\ U.slots[n[1]].group = g
  BY <1>1, <1>3, NewAdds DEF Registered
<1>5. Descriptor.type = "Desc"
  BY DEF Descriptor
<1>. HIDE DEF U, n
<1>6. LiveAs(U.slots, conn, "Dbc") /\ U.slots[conn[1]] = T.slots[conn[1]]
  BY <1>1, <1>2, <1>4, SameIsLive DEF Adds, Same
<1>7. Descends(U, n)
  BY <1>4, <1>5, <1>6 DEF Descends, g
<1>8. Sound(U)
  <2>1. ~LiveAs(T.slots, conn, "Stmt")
    BY <1>2 DEF LiveAs
  <2>. QED  BY <1>3, <1>7, <2>1, NewKeepsSound DEF U, n
<1>9. /\ V \in Tables /\ V.slots = U.slots /\ V.heap = U.heap /\ V.dead = U.dead
      /\ V.explicit = U.explicit \cup {n}
  BY <1>4 DEF WithExplicit, Memory, Tables
<1>. HIDE DEF V
<1>10. Memory(V)
  BY <1>4, <1>9, WritingKeepsMemory
<1>11. n \in LiveTokens(U.slots) /\ n \notin U.dead
  BY <1>4 DEF Adds
<1>12. LiveAs(U.slots, n, "Desc")
  BY <1>4, <1>5, <1>11, LiveAsMeans
<1>13. Lineage(V)
  BY <1>8, <1>9 DEF Sound, Family, Lineage, Descends, At
<1>14. ExplicitKept(V)
  BY <1>4, <1>6, <1>8, <1>9, <1>12 DEF Sound, Family, ExplicitKept
<1>15. OverridesKept(V)
  <2>1. \A t : At(V, t) = At(U, t)
    BY <1>9 DEF At
  <2>2. \A s, d : Usable(U, s, d) => Usable(V, s, d)
    BY <1>9, <1>11 DEF Usable
  <2>. QED  BY <1>8, <1>9, <2>1, <2>2 DEF Sound, Family, OverridesKept
<1>16. Complete(V)
  <2>1. \A t : At(V, t) = At(U, t)
    BY <1>9 DEF At
  <2>2. \A s, f, m : Owns(U, s, f, m) => Owns(V, s, f, m)
    BY <1>9 DEF Owns
  <2>. QED  BY <1>8, <1>9, <2>1, <2>2 DEF Sound, Complete, Completed
<1>17. Sound(V)
  BY <1>10, <1>13, <1>14, <1>15, <1>16 DEF Sound, Family
<1>18. Sound(V) /\ Adds(T, U, n) /\ V.slots = U.slots /\ V.heap = U.heap /\ V.dead = U.dead
  BY <1>4, <1>9, <1>17
<1>. QED  BY <1>18 DEF g, U, V, n

-----------------------------------------------------------------------------
(***************************************************************************)
(* SQLAllocHandle for a statement.  Building(T, B) holds of the table B    *)
(* part-way through the loop that was entered in T: everything but the     *)
(* statement itself is sound, and the statement owns what the loop has     *)
(* made so far.                                                            *)
(***************************************************************************)
Keeps(T, U) ==
  /\ U.dead = T.dead /\ U.explicit = T.explicit
  /\ LiveTokens(T.slots) \subseteq LiveTokens(U.slots)
  /\ \A t \in LiveTokens(T.slots) : Same(T, U, t)

Building(T, B) ==
  /\ B = [table |-> B.table, group |-> B.group, stmt |-> B.stmt, descs |-> B.descs]
  /\ Memory(B.table) /\ Family(B.table)
  /\ Keeps(T, B.table)
  /\ B.stmt \in LiveTokens(B.table.slots) \ LiveTokens(T.slots)
  /\ B.table.slots[B.stmt[1]].kind = "Stmt"
  /\ B.table.slots[B.stmt[1]].group = B.group
  /\ B.group \in Token
  /\ B.descs \in Seq(Token) /\ Len(B.descs) <= Implicit
  /\ Owns(B.table, B.stmt, B.descs, Len(B.descs))
  /\ LiveTokens(B.table.slots) =
       LiveTokens(T.slots) \cup {B.stmt} \cup {B.descs[r] : r \in 1 .. Len(B.descs)}
  /\ \A r \in 1 .. Len(B.descs) : B.descs[r] \notin LiveTokens(T.slots)
  /\ \A s \in LiveTokens(T.slots) :
       T.slots[s[1]].kind = "Stmt" => Completed(B.table, s)

LEMMA FirstIsBuilding ==
  ASSUME NEW T, Sound(T), ~Exhausted(T.slots), NEW conn \in Token,
         LiveAs(T.slots, conn, "Dbc")
  PROVE  Building(T, FirstDescriptor(T, conn))
<1> DEFINE n == NewToken(T.slots)
           g == T.slots[conn[1]].group
           U == New(T, Statement(conn), g, conn)
           B == FirstDescriptor(T, conn)
<1>1. Memory(T) /\ Family(T) /\ Complete(T) /\ Statement(conn) \in Boxes
  BY DEF Sound, Boxes
<1>2. conn \in LiveTokens(T.slots) /\ T.slots[conn[1]].kind = "Dbc"
  BY <1>1, LiveAsMeans
<1>3. g = conn /\ T.slots[conn[1]].parent \in Token \cup {None}
  BY <1>1, <1>2, StructOfLive DEF Family, Lineage, Descends
<1>4. B = [table |-> U, group |-> g, stmt |-> n, descs |-> <<>>]
  BY DEF FirstDescriptor
<1>. HIDE DEF g, B
<1>5. /\ Adds(T, U, n) /\ Memory(U) /\ n \in Token
      /\ U.slots[n[1]].kind = Statement(conn).type
      /\ U.slots[n[1]].parent = conn
      /\ U.slots[n[1]].group = g
      /\ At(U, n) = Named(Statement(conn), n)
  BY <1>1, <1>3, NewAdds DEF Registered
<1>6. /\ Statement(conn).type = "Stmt"
      /\ Named(Statement(conn), n).conn = conn
      /\ \A r \in AppRoles : Named(Statement(conn), n).app_override[r] = None
  BY DEF Statement, Named
<1>. HIDE DEF U, n
<1>7. n \in LiveTokens(U.slots) /\ n \notin LiveTokens(T.slots)
  BY <1>5 DEF Adds
<1>8. LiveAs(U.slots, conn, "Dbc")
  BY <1>1, <1>2, <1>5, SameIsLive DEF Adds
<1>9. Descends(U, n)
  BY <1>3, <1>5, <1>6, <1>8 DEF Descends
<1>10. Family(U)
  BY <1>1, <1>5, <1>6, <1>9, AddsKeepsFamily
<1>11. \A t \in LiveTokens(T.slots) : U.slots[t[1]] = T.slots[t[1]] /\ At(U, t) = At(T, t)
  BY <1>5 DEF Adds, Same
<1>12. \A s \in LiveTokens(T.slots) : T.slots[s[1]].kind = "Stmt" => Completed(U, s)
  <2> SUFFICES ASSUME NEW s \in LiveTokens(T.slots), T.slots[s[1]].kind = "Stmt"
               PROVE  Completed(U, s)
    OBVIOUS
  <2> DEFINE f == At(T, s).implicit_desc
  <2>1. Owns(T, s, f, Implicit)
    BY <1>1 DEF Complete, Completed
  <2>2. U.slots[n[1]].parent # s
    BY <1>2, <1>5
  <2>. HIDE DEF f
  <2>3. Owns(U, s, f, Implicit)
    BY <1>1, <1>5, <2>1, <2>2, AddsKeepsOwned
  <2>. QED  BY <1>11, <2>3 DEF Completed, f
<1>13. Owns(U, n, <<>>, 0)
  <2> SUFFICES ASSUME NEW t \in LiveTokens(U.slots), U.slots[t[1]].parent = n  PROVE FALSE
    BY DEF Owns
  <2>1. CASE t = n
    BY <1>2, <1>5, <1>7, <2>1
  <2>2. CASE t \in LiveTokens(T.slots)
    <3>1. T.slots[t[1]].parent = n
      BY <1>11, <2>2
    <3>2. Descends(T, t)
      BY <1>1, <2>2 DEF Family, Lineage
    <3>3. n # None
      BY <1>5, SlotsAssumption DEF Token, Index
    <3>4. \A kind : ~LiveAs(T.slots, n, kind)
      BY <1>1, <1>5, <1>7, LiveAsMeans
    <3>. QED  BY <3>1, <3>2, <3>3, <3>4 DEF Descends
  <2>. QED  BY <1>5, <2>1, <2>2 DEF Adds
<1>14. Len(<<>>) = 0 /\ <<>> \in Seq(Token) /\ 0 <= Implicit
  BY TableAssumption
<1>15. Keeps(T, U) /\ LiveTokens(U.slots) = LiveTokens(T.slots) \cup {n}
  BY <1>5, <1>11 DEF Keeps, Adds, Same
<1>16. /\ B.table = U /\ B.group = g /\ B.stmt = n /\ B.descs = <<>>
       /\ B = [table |-> B.table, group |-> B.group, stmt |-> B.stmt, descs |-> B.descs]
  BY <1>4
<1>17. g \in Token
  BY <1>3
<1>. HIDE DEF U, n
<1>. QED  BY <1>5, <1>6, <1>7, <1>10, <1>12, <1>13, <1>14, <1>15, <1>16, <1>17 DEF Building, B

LEMMA NextIsBuilding ==
  ASSUME NEW T, NEW B, Building(T, B)
  PROVE  Building(T, NextDescriptor(B))
<1>1. CASE Len(B.descs) = Implicit \/ Exhausted(B.table.slots)
  BY <1>1 DEF NextDescriptor
<1>2. CASE ~ (Len(B.descs) = Implicit \/ Exhausted(B.table.slots))
  <2> DEFINE V == B.table
             n == NewToken(V.slots)
             U == New(V, Descriptor, B.group, B.stmt)
             m == Len(B.descs)
             f == Append(B.descs, n)
             C == NextDescriptor(B)
  <2>1. /\ Memory(V) /\ Family(V) /\ Keeps(T, V)
        /\ B.stmt \in LiveTokens(V.slots) /\ B.stmt \notin LiveTokens(T.slots)
        /\ V.slots[B.stmt[1]].kind = "Stmt" /\ V.slots[B.stmt[1]].group = B.group
        /\ B.group \in Token /\ B.descs \in Seq(Token)
        /\ Owns(V, B.stmt, B.descs, m)
        /\ LiveTokens(V.slots) =
             LiveTokens(T.slots) \cup {B.stmt} \cup {B.descs[r] : r \in 1 .. m}
        /\ \A r \in 1 .. m : B.descs[r] \notin LiveTokens(T.slots)
        /\ \A s \in LiveTokens(T.slots) :
             T.slots[s[1]].kind = "Stmt" => Completed(V, s)
    BY DEF Building
  <2>2. /\ B = [table |-> V, group |-> B.group, stmt |-> B.stmt, descs |-> B.descs]
        /\ m \in Nat /\ m <= Implicit
    BY DEF Building
  <2>3. m + 1 <= Implicit
    BY <1>2, <2>2, TableAssumption
  <2>4. Descriptor \in Boxes /\ Descriptor.type = "Desc"
    BY DEF Boxes, Descriptor
  <2>5. B.stmt \in Token
    BY <2>1, LiveMeans
  <2>6. Registered(V, U, n, Descriptor, B.group, B.stmt)
    <3>. HIDE DEF V, m
    <3>. QED  BY <1>2, <2>1, <2>4, <2>5, NewAdds DEF V
  <2>7. C = [table |-> U, group |-> B.group, stmt |-> B.stmt, descs |-> f]
    BY <1>2, <2>2 DEF NextDescriptor
  <2>. HIDE DEF C, U, n, f, V, m
  <2>8. /\ Adds(V, U, n) /\ Memory(U) /\ n \in Token
        /\ U.slots[n[1]].kind = "Desc"
        /\ U.slots[n[1]].parent = B.stmt
        /\ U.slots[n[1]].group = B.group
    BY <2>4, <2>6 DEF Registered
  <2>9. \A p \in Token \cup {None} : \A kind :
          LiveAs(V.slots, p, kind) => LiveAs(U.slots, p, kind) /\ Same(V, U, p)
    BY <2>1, <2>8, LiveMeans DEF LiveAs, Same, Adds
  <2>10. /\ LiveAs(V.slots, B.stmt, "Stmt") /\ LiveAs(U.slots, B.stmt, "Stmt")
         /\ U.slots[B.stmt[1]] = V.slots[B.stmt[1]]
    BY <2>1, <2>5, <2>9, LiveAsMeans DEF Same
  <2>11. Descends(U, n)
    BY <2>1, <2>8, <2>10 DEF Descends
  <2>12. Family(U)
    BY <2>1, <2>8, <2>11, AddsKeepsFamily
  <2>13. n \notin LiveTokens(V.slots) /\ LiveTokens(U.slots) = LiveTokens(V.slots) \cup {n}
    BY <2>8 DEF Adds
  <2>14. \A t \in LiveTokens(V.slots) : U.slots[t[1]] = V.slots[t[1]] /\ At(U, t) = At(V, t)
    BY <2>8 DEF Adds, Same
  <2>15. Keeps(T, U)
    BY <2>1, <2>8, <2>13, <2>14 DEF Keeps, Adds, Same
  <2>16. /\ f \in Seq(Token) /\ Len(f) = m + 1
         /\ f[m + 1] = n /\ \A r \in 1 .. m : f[r] = B.descs[r]
    BY <2>1, <2>8 DEF f, m
  <2>17. \A r \in 1 .. m : f[r] \in LiveTokens(V.slots)
    BY <2>1, <2>16
  <2>18. Owns(U, B.stmt, f, m + 1)
    <3>1. \A r \in 1 .. m + 1 : r \in 1 .. m \/ r = m + 1
      BY <2>2
    <3>2. ASSUME NEW r \in 1 .. m
          PROVE  /\ f[r] \in Token /\ LiveAs(U.slots, f[r], "Desc")
                 /\ U.slots[f[r][1]].parent = B.stmt
      BY <2>1, <2>9, <2>16 DEF Owns, Same
    <3>3. /\ f[m + 1] \in Token /\ LiveAs(U.slots, f[m + 1], "Desc")
          /\ U.slots[f[m + 1][1]].parent = B.stmt
      BY <2>8, <2>13, <2>16, LiveAsMeans
    <3>4. ASSUME NEW t \in LiveTokens(U.slots), U.slots[t[1]].parent = B.stmt
          PROVE  \E r \in 1 .. m + 1 : f[r] = t
      <4>1. CASE t = n
        BY <2>2, <2>16, <4>1
      <4>2. CASE t \in LiveTokens(V.slots)
        <5>1. PICK r \in 1 .. m : B.descs[r] = t
          BY <2>1, <2>14, <3>4, <4>2 DEF Owns
        <5>2. r \in 1 .. m + 1
          BY <2>2
        <5>. QED  BY <2>16, <5>1, <5>2
      <4>. QED  BY <2>13, <4>1, <4>2
    <3>5. ASSUME NEW q \in 1 .. m + 1, NEW r \in 1 .. m + 1, f[q] = f[r]  PROVE q = r
      <4>1. CASE q \in 1 .. m /\ r \in 1 .. m
        BY <2>1, <2>16, <3>5, <4>1 DEF Owns
      <4>2. CASE q = m + 1 \/ r = m + 1
        BY <2>13, <2>16, <2>17, <3>1, <3>5, <4>2
      <4>. QED  BY <3>1, <4>1, <4>2
    <3>. QED  BY <3>1, <3>2, <3>3, <3>4, <3>5 DEF Owns
  <2>19. \A s \in LiveTokens(T.slots) : T.slots[s[1]].kind = "Stmt" => Completed(U, s)
    <3> SUFFICES ASSUME NEW s \in LiveTokens(T.slots), T.slots[s[1]].kind = "Stmt"
                 PROVE  Completed(U, s)
      OBVIOUS
    <3> DEFINE g == At(V, s).implicit_desc
    <3>1. Owns(V, s, g, Implicit) /\ s \in LiveTokens(V.slots)
      BY <2>1 DEF Completed
    <3>2. U.slots[n[1]].parent # s
      BY <2>1, <2>8
    <3>. HIDE DEF g
    <3>3. Owns(U, s, g, Implicit)
      BY <2>1, <2>8, <3>1, <3>2, AddsKeepsOwned
    <3>. QED  BY <2>14, <3>1, <3>3 DEF Completed, g
  <2>20. LiveTokens(U.slots) =
           LiveTokens(T.slots) \cup {B.stmt} \cup {f[r] : r \in 1 .. m + 1}
    <3>1. {f[r] : r \in 1 .. m + 1} = {B.descs[r] : r \in 1 .. m} \cup {n}
      <4>1. \A r \in 1 .. m + 1 : r \in 1 .. m \/ r = m + 1
        BY <2>2
      <4>2. \A r \in 1 .. m : r \in 1 .. m + 1
        BY <2>2
      <4>3. m + 1 \in 1 .. m + 1
        BY <2>2
      <4>. QED  BY <2>16, <4>1, <4>2, <4>3
    <3>. QED  BY <2>1, <2>13, <3>1
  <2>21. \A r \in 1 .. m + 1 : f[r] \notin LiveTokens(T.slots)
    <3>1. \A r \in 1 .. m + 1 : r \in 1 .. m \/ r = m + 1
      BY <2>2
    <3>2. n \notin LiveTokens(T.slots)
      BY <2>1, <2>13
    <3>. QED  BY <2>1, <2>16, <3>1, <3>2
  <2>22. /\ C = [table |-> C.table, group |-> C.group, stmt |-> C.stmt, descs |-> C.descs]
         /\ C.table = U /\ C.group = B.group /\ C.stmt = B.stmt /\ C.descs = f
    BY <2>7
  <2>23. B.stmt \in LiveTokens(U.slots) /\ U.slots[B.stmt[1]].kind = "Stmt"
         /\ U.slots[B.stmt[1]].group = B.group
    BY <2>1, <2>10, <2>13
  <2>24. Building(T, C)
    BY <2>1, <2>3, <2>8, <2>12, <2>15, <2>16, <2>18, <2>19, <2>20, <2>21, <2>22, <2>23
       DEF Building
  <2>. QED  BY <2>24 DEF C
<1>. QED  BY <1>1, <1>2

(***************************************************************************)
(* Whether the loop made all the descriptors or ran out of slots, what is  *)
(* left is sound, and nothing that was live before is touched.             *)
(***************************************************************************)
Survives(T, U) ==
  /\ T.dead \subseteq U.dead /\ U.explicit = T.explicit
  /\ LiveTokens(T.slots) \subseteq LiveTokens(U.slots)
  /\ \A t \in LiveTokens(T.slots) : Same(T, U, t)

LEMMA BuiltIsSound ==
  ASSUME NEW T, NEW B, Building(T, B)
  PROVE  Sound(BuiltStatement(B)) /\ Survives(T, BuiltStatement(B))
<1> DEFINE V == B.table
           U == BuiltStatement(B)
           m == Len(B.descs)
<1>1. /\ Memory(V) /\ Family(V) /\ Keeps(T, V)
      /\ B.stmt \in LiveTokens(V.slots) /\ B.stmt \notin LiveTokens(T.slots)
      /\ V.slots[B.stmt[1]].kind = "Stmt"
      /\ B.descs \in Seq(Token)
      /\ Owns(V, B.stmt, B.descs, m)
      /\ LiveTokens(V.slots) =
           LiveTokens(T.slots) \cup {B.stmt} \cup {B.descs[r] : r \in 1 .. m}
      /\ \A r \in 1 .. m : B.descs[r] \notin LiveTokens(T.slots)
      /\ \A s \in LiveTokens(T.slots) :
           T.slots[s[1]].kind = "Stmt" => Completed(V, s)
  BY DEF Building
<1>2. \A s \in LiveTokens(T.slots) : V.slots[s[1]] = T.slots[s[1]] /\ s \in LiveTokens(V.slots)
  BY <1>1 DEF Keeps, Same
<1>3. \A r \in 1 .. m : /\ B.descs[r] \in Token
                        /\ V.slots[B.descs[r][1]].kind = "Desc"
                        /\ V.slots[B.descs[r][1]].parent = B.stmt
  BY <1>1 DEF Owns, LiveAs
<1>4. \A s \in LiveTokens(V.slots) : V.slots[s[1]].kind = "Stmt" =>
        s = B.stmt \/ (s \in LiveTokens(T.slots) /\ T.slots[s[1]].kind = "Stmt")
  <2>. HIDE DEF V, m
  <2> SUFFICES ASSUME NEW s \in LiveTokens(V.slots), V.slots[s[1]].kind = "Stmt"
               PROVE  s = B.stmt \/ (s \in LiveTokens(T.slots) /\ T.slots[s[1]].kind = "Stmt")
    OBVIOUS
  <2>1. s = B.stmt \/ s \in LiveTokens(T.slots) \/ \E r \in 1 .. m : s = B.descs[r]
    BY <1>1
  <2>2. s = B.stmt \/ s \in LiveTokens(T.slots)
    BY <1>3, <2>1
  <2>. QED  BY <1>2, <2>2
<1>5. CASE m = Implicit
  <2> DEFINE struct == [At(V, B.stmt) EXCEPT !.implicit_desc = B.descs]
  <2>1. At(V, B.stmt) \in StatementStruct /\ At(V, B.stmt).header = B.stmt
    BY <1>1, StructOfLive
  <2>2. B.descs \in [Roles -> Token \cup {None}]
    BY <1>1, <1>5 DEF Roles
  <2>3. /\ struct \in StatementStruct /\ struct.header = B.stmt /\ struct.type = "Stmt"
        /\ struct.conn = At(V, B.stmt).conn
        /\ struct.app_override = At(V, B.stmt).app_override
        /\ struct.implicit_desc = B.descs
    BY <2>1, <2>2 DEF StatementStruct
  <2>4. U = Put(V, B.stmt, struct)
    BY <1>5 DEF BuiltStatement
  <2>. HIDE DEF struct, U, V
  <2>5. struct \in Struct
    BY <2>3 DEF Struct, StatementStruct
  <2>6. /\ Memory(U) /\ U.slots = V.slots /\ U.dead = V.dead /\ U.explicit = V.explicit
        /\ At(U, B.stmt) = struct
        /\ \A u \in LiveTokens(V.slots) : u # B.stmt => At(U, u) = At(V, u)
    BY <1>1, <2>3, <2>4, <2>5, PutWrites
  <2>7. \A s \in LiveTokens(V.slots) : V.slots[s[1]].kind = "Stmt" =>
          /\ At(U, s).conn = At(V, s).conn
          /\ \A r \in AppRoles : Usable(V, s, At(U, s).app_override[r])
    BY <1>1, <2>3, <2>6 DEF Family, OverridesKept
  <2>8. Family(U)
    BY <1>1, <2>6, <2>7, WritesKeepFamily
  <2>9. ASSUME NEW s \in LiveTokens(U.slots), U.slots[s[1]].kind = "Stmt"
        PROVE  Completed(U, s)
    <3>1. CASE s = B.stmt
      <4>1. Owns(U, s, B.descs, Implicit)
        BY <1>1, <1>5, <2>6, <3>1 DEF Owns
      <4>2. At(U, s).implicit_desc = B.descs
        BY <2>3, <2>6, <3>1
      <4>. QED  BY <4>1, <4>2 DEF Completed
    <3>2. CASE s \in LiveTokens(T.slots) /\ T.slots[s[1]].kind = "Stmt"
      <4>1. s # B.stmt /\ Completed(V, s)
        BY <1>1, <3>2
      <4>2. At(U, s) = At(V, s)
        BY <2>6, <2>9, <4>1
      <4>. QED  BY <2>6, <4>1, <4>2 DEF Completed, Owns
    <3>. QED  BY <1>4, <2>6, <2>9, <3>1, <3>2
  <2>10. Sound(U)
    BY <2>6, <2>8, <2>9 DEF Sound, Complete
  <2>11. Survives(T, U)
    BY <1>1, <2>6 DEF Keeps, Survives, Same
  <2>. QED  BY <2>10, <2>11 DEF U
<1>6. CASE m # Implicit
  <2> DEFINE gone == {B.stmt} \cup {B.descs[r] : r \in 1 .. m}
  <2>1. DOMAIN B.descs = 1 .. m
    BY <1>1
  <2>2. U = DropAll(V, gone)
    BY <1>6, <2>1 DEF BuiltStatement
  <2>3. gone \subseteq LiveTokens(V.slots) /\ LiveTokens(T.slots) \cap gone = {}
    BY <1>1
  <2>4. LiveTokens(V.slots) \subseteq Token /\ gone \cap LiveTokens(V.slots) = gone
    BY <2>3 DEF LiveTokens
  <2>. HIDE DEF U
  <2>5. Memory(U) /\ Drops(V, U, gone)
    <3>. HIDE DEF V, gone
    <3>. QED  BY <1>1, <2>2, <2>3, <2>4, DropAllDrops
  <2>6. LiveTokens(U.slots) = LiveTokens(T.slots)
    BY <1>1, <2>3, <2>5 DEF Drops
  <2>7. \A t \in LiveTokens(V.slots) : V.slots[t[1]].parent \in gone => t \in gone
    <3> SUFFICES ASSUME NEW t \in LiveTokens(V.slots), V.slots[t[1]].parent \in gone
                 PROVE  t \in gone
      OBVIOUS
    <3>1. CASE V.slots[t[1]].parent = B.stmt
      BY <1>1, <3>1 DEF Owns
    <3>2. CASE \E r \in 1 .. m : V.slots[t[1]].parent = B.descs[r]
      <4>1. Descends(V, t)
        BY <1>1 DEF Family, Lineage
      <4>2. V.slots[V.slots[t[1]].parent[1]].kind = "Desc" /\ V.slots[t[1]].parent # None
        BY <1>3, <3>2, SlotsAssumption DEF Token, Index
      <4>. QED  BY <4>1, <4>2 DEF Descends, LiveAs
    <3>. QED  BY <3>1, <3>2
  <2>8. \A d \in gone : d \notin V.explicit
    <3> SUFFICES ASSUME NEW d \in gone, d \in V.explicit  PROVE FALSE
      OBVIOUS
    <3>1. d \notin V.dead
      BY <1>1, <2>3, LiveMeans DEF Memory, DeadStayDead
    <3>2. LiveAs(V.slots, d, "Desc") /\ LiveAs(V.slots, V.slots[d[1]].parent, "Dbc")
      BY <1>1, <3>1 DEF Family, ExplicitKept
    <3>. QED  BY <1>1, <1>3, <3>2 DEF LiveAs
  <2>9. Family(U)
    <3>. HIDE DEF V, gone
    <3>. QED  BY <1>1, <2>5, <2>7, <2>8, DropsKeepsFamily
  <2>10. ASSUME NEW s \in LiveTokens(U.slots), U.slots[s[1]].kind = "Stmt"
         PROVE  Completed(U, s)
    <3>1. U.slots[s[1]] = V.slots[s[1]] /\ At(U, s) = At(V, s) /\ s \in LiveTokens(T.slots)
      BY <2>5, <2>6 DEF Drops, Same
    <3> DEFINE f == At(V, s).implicit_desc
    <3>2. Owns(V, s, f, Implicit) /\ s # B.stmt
      BY <1>1, <1>2, <2>10, <3>1 DEF Completed
    <3>3. \A r \in 1 .. Implicit : V.slots[f[r][1]].kind = "Desc" /\ V.slots[f[r][1]].parent = s
      BY <3>2 DEF Owns, LiveAs
    <3>4. \A r \in 1 .. Implicit : f[r] \notin gone
      BY <1>1, <1>3, <3>2, <3>3
    <3>. HIDE DEF f, gone, V
    <3>5. Owns(U, s, f, Implicit)
      BY <1>1, <2>5, <3>2, <3>4, DropsKeepsOwned
    <3>. QED  BY <3>1, <3>5 DEF Completed, f
  <2>11. Sound(U)
    BY <2>5, <2>9, <2>10 DEF Sound, Complete
  <2>12. Survives(T, U)
    BY <1>1, <2>5, <2>6 DEF Keeps, Drops, Survives, Same
  <2>. QED  BY <2>11, <2>12 DEF U
<1>. QED  BY <1>5, <1>6

LEMMA BuildStatementSound ==
  ASSUME NEW T, Sound(T), ~Exhausted(T.slots), NEW conn \in Token,
         LiveAs(T.slots, conn, "Dbc")
  PROVE  Sound(BuildStatement(T, conn)) /\ Survives(T, BuildStatement(T, conn))
<1>1. Building(T, FirstDescriptor(T, conn))
  BY FirstIsBuilding
<1>2. Building(T, NextDescriptor(FirstDescriptor(T, conn)))
  BY <1>1, NextIsBuilding
<1>3. Building(T, NextDescriptor(NextDescriptor(FirstDescriptor(T, conn))))
  BY <1>2, NextIsBuilding
<1>4. Building(T, NextDescriptor(NextDescriptor(NextDescriptor(FirstDescriptor(T, conn)))))
  BY <1>3, NextIsBuilding
<1>5. Building(T, NextDescriptor(NextDescriptor(NextDescriptor(NextDescriptor(
                    FirstDescriptor(T, conn))))))
  BY <1>4, NextIsBuilding
<1>. QED  BY <1>5, BuiltIsSound DEF BuildStatement

-----------------------------------------------------------------------------
(***************************************************************************)
(* How a sound family looks from each kind of handle.                      *)
(***************************************************************************)
LEMMA ConnectionFacts ==
  ASSUME NEW T, Sound(T), NEW t \in LiveTokens(T.slots), T.slots[t[1]].kind = "Dbc"
  PROVE  T.slots[t[1]].group = t /\ t \in Token /\ t # None
<1>1. Descends(T, t)
  BY DEF Sound, Family, Lineage
<1>2. t \in Token /\ t # None
  BY LiveMeans, SlotsAssumption DEF Sound, Token, Index
<1>. QED  BY <1>1, <1>2 DEF Descends

LEMMA ParentFacts ==
  ASSUME NEW T, Sound(T), NEW t \in LiveTokens(T.slots)
  PROVE  /\ T.slots[t[1]].parent # None =>
              /\ T.slots[t[1]].parent \in LiveTokens(T.slots)
              /\ T.slots[T.slots[t[1]].parent[1]].kind # "Desc"
         /\ T.slots[t[1]].kind # "Env" => T.slots[t[1]].parent # None
         /\ T.slots[t[1]].kind = "Desc" =>
              T.slots[t[1]].group = T.slots[T.slots[t[1]].parent[1]].group
<1> DEFINE p == T.slots[t[1]].parent
<1>1. Memory(T) /\ Descends(T, t) /\ p \in Token \cup {None}
  BY StructOfLive DEF Sound, Family, Lineage
<1>. HIDE DEF p
<1>2. ASSUME NEW kind, LiveAs(T.slots, p, kind)
      PROVE  p # None /\ p \in LiveTokens(T.slots) /\ T.slots[p[1]].kind = kind
  <2>1. p # None
    BY <1>2 DEF LiveAs, Live
  <2>. QED  BY <1>1, <1>2, <2>1, LiveAsMeans
<1>3. \A kind : LiveAs(T.slots, p, kind) =>
        p # None /\ p \in LiveTokens(T.slots) /\ T.slots[p[1]].kind = kind
  BY <1>2
<1>4. \/ T.slots[t[1]].kind = "Env" /\ p = None
      \/ T.slots[t[1]].kind = "Dbc" /\ LiveAs(T.slots, p, "Env")
      \/ T.slots[t[1]].kind = "Stmt" /\ LiveAs(T.slots, p, "Dbc")
      \/ /\ T.slots[t[1]].kind = "Desc"
         /\ LiveAs(T.slots, p, "Dbc") \/ LiveAs(T.slots, p, "Stmt")
         /\ T.slots[t[1]].group = T.slots[p[1]].group
  BY <1>1 DEF Descends, p
<1>5. p # None => p \in LiveTokens(T.slots) /\ T.slots[p[1]].kind # "Desc"
  BY <1>3, <1>4
<1>6. T.slots[t[1]].kind # "Env" => p # None
  BY <1>3, <1>4
<1>. QED  BY <1>4, <1>5, <1>6 DEF p

LEMMA StatementFacts ==
  ASSUME NEW T, Sound(T), NEW t \in LiveTokens(T.slots), T.slots[t[1]].kind = "Stmt"
  PROVE  /\ T.slots[t[1]].parent \in LiveTokens(T.slots)
         /\ T.slots[t[1]].parent # None
         /\ T.slots[T.slots[t[1]].parent[1]].kind = "Dbc"
         /\ T.slots[t[1]].group = T.slots[t[1]].parent
         /\ At(T, t).conn = T.slots[t[1]].parent
<1> DEFINE p == T.slots[t[1]].parent
<1>1. Descends(T, t) /\ p # None /\ p \in LiveTokens(T.slots)
  BY ParentFacts DEF Sound, Family, Lineage
<1>. QED  BY <1>1 DEF Descends, LiveAs

LEMMA GroupFacts ==
  ASSUME NEW T, Sound(T), NEW t \in LiveTokens(T.slots)
  PROVE  T.slots[t[1]].group \in Token
<1> DEFINE p == T.slots[t[1]].parent
<1>1. Memory(T) /\ Descends(T, t) /\ LiveTokens(T.slots) \subseteq Token
  BY DEF Sound, Family, Lineage, LiveTokens
<1>2. T.slots[t[1]].kind # "Env" => p \in LiveTokens(T.slots)
  BY ParentFacts
<1>3. T.slots[t[1]].kind = "Desc" =>
        T.slots[p[1]].kind \in {"Dbc", "Stmt"} /\ T.slots[t[1]].group = T.slots[p[1]].group
  BY <1>1 DEF Descends, LiveAs
<1>. HIDE DEF p
<1>4. ASSUME NEW u \in LiveTokens(T.slots), T.slots[u[1]].kind \in {"Dbc", "Stmt"}
      PROVE  T.slots[u[1]].group \in Token
  BY <1>1, <1>4, ConnectionFacts, StatementFacts
<1>5. T.slots[t[1]].kind = "Env" => T.slots[t[1]].group = t
  BY <1>1 DEF Descends
<1>6. T.slots[t[1]].kind \in Kinds
  BY <1>1, StructOfLive
<1>. QED  BY <1>1, <1>2, <1>3, <1>4, <1>5, <1>6 DEF Kinds

LEMMA OwnedFacts ==
  ASSUME NEW T, Sound(T), NEW t \in LiveTokens(T.slots), T.slots[t[1]].kind = "Stmt"
  PROVE  /\ \A r \in Roles :
              /\ At(T, t).implicit_desc[r] \in LiveTokens(T.slots)
              /\ T.slots[At(T, t).implicit_desc[r][1]].kind = "Desc"
              /\ T.slots[At(T, t).implicit_desc[r][1]].parent = t
              /\ T.slots[At(T, t).implicit_desc[r][1]].group = T.slots[t[1]].parent
         /\ \A u \in LiveTokens(T.slots) : T.slots[u[1]].parent = t =>
              \E r \in Roles : u = At(T, t).implicit_desc[r]
<1> DEFINE f == At(T, t).implicit_desc
<1>1. Memory(T) /\ Owns(T, t, f, Implicit)
  BY DEF Sound, Complete, Completed
<1>. HIDE DEF f
<1>2. ASSUME NEW r \in Roles
      PROVE  /\ f[r] \in LiveTokens(T.slots) /\ T.slots[f[r][1]].kind = "Desc"
             /\ T.slots[f[r][1]].parent = t
             /\ T.slots[f[r][1]].group = T.slots[t[1]].parent
  <2> DEFINE d == f[r]
  <2>1. d \in Token /\ LiveAs(T.slots, d, "Desc") /\ T.slots[d[1]].parent = t
    BY <1>1 DEF Owns, Roles
  <2>. HIDE DEF d
  <2>2. d \in LiveTokens(T.slots) /\ T.slots[d[1]].kind = "Desc"
    BY <1>1, <2>1, LiveAsMeans
  <2>3. T.slots[d[1]].group = T.slots[t[1]].group
    BY <2>1, <2>2, ParentFacts
  <2>. QED  BY <2>1, <2>2, <2>3, StatementFacts DEF d
<1>3. \A u \in LiveTokens(T.slots) : T.slots[u[1]].parent = t =>
        \E r \in Roles : u = f[r]
  BY <1>1 DEF Owns, Roles
<1>. QED  BY <1>2, <1>3 DEF f

(***************************************************************************)
(* What a statement uses is a descriptor of its own connection, unless it  *)
(* is dead; an explicit descriptor is a child of a connection.             *)
(***************************************************************************)
LEMMA UsedFacts ==
  ASSUME NEW T, Sound(T), NEW d \in LiveTokens(T.slots)
  PROVE  /\ d \notin T.dead
         /\ d \in T.explicit => /\ T.slots[d[1]].kind = "Desc"
                                /\ T.slots[T.slots[d[1]].parent[1]].kind = "Dbc"
         /\ \A s \in LiveTokens(T.slots), r \in AppRoles :
              T.slots[s[1]].kind = "Stmt" /\ At(T, s).app_override[r] = d =>
                /\ T.slots[d[1]].kind = "Desc"
                /\ T.slots[d[1]].group = T.slots[s[1]].parent
<1>1. Memory(T)
  BY DEF Sound
<1>2. d \notin T.dead /\ d # None
  BY <1>1, LiveMeans, SlotsAssumption DEF Memory, DeadStayDead, Token, Index
<1>3. d \in T.explicit => /\ LiveAs(T.slots, d, "Desc")
                          /\ LiveAs(T.slots, T.slots[d[1]].parent, "Dbc")
  BY <1>2 DEF Sound, Family, ExplicitKept
<1>4. ASSUME NEW s \in LiveTokens(T.slots), NEW r \in AppRoles,
             T.slots[s[1]].kind = "Stmt", At(T, s).app_override[r] = d
      PROVE  /\ T.slots[d[1]].kind = "Desc"
             /\ T.slots[d[1]].group = T.slots[s[1]].parent
  <2>1. Usable(T, s, d)
    BY <1>4 DEF Sound, Family, OverridesKept
  <2>2. T.slots[s[1]].group = T.slots[s[1]].parent
    BY <1>4, StatementFacts
  <2>. QED  BY <1>2, <2>1, <2>2 DEF Usable, LiveAs
<1>. QED  BY <1>2, <1>3, <1>4 DEF LiveAs

(***************************************************************************)
(* SQLFreeHandle for an environment or a connection without children.      *)
(***************************************************************************)
LEMMA FreeLeafSound ==
  ASSUME NEW T, Sound(T), NEW t \in LiveTokens(T.slots),
         T.slots[t[1]].kind \in {"Env", "Dbc"}, ChildrenOf(T.slots, t) = {}
  PROVE  Sound(DropAll(T, {t})) /\ Drops(T, DropAll(T, {t}), {t})
<1>1. Memory(T) /\ {t} \subseteq Token \cup {None} /\ {t} \cap LiveTokens(T.slots) = {t}
  BY LiveMeans DEF Sound
<1>2. \A u \in LiveTokens(T.slots) : T.slots[u[1]].parent \in {t} => u \in {t}
  BY <1>1, ChildrenAre
<1>3. ASSUME NEW s \in LiveTokens(T.slots), T.slots[s[1]].kind = "Stmt"
      PROVE  /\ \A r \in AppRoles : At(T, s).app_override[r] # t
             /\ \A r \in Roles : At(T, s).implicit_desc[r] # t
  <2>1. ASSUME NEW r \in AppRoles, At(T, s).app_override[r] = t  PROVE FALSE
    BY <1>3, <2>1, UsedFacts
  <2>2. ASSUME NEW r \in Roles, At(T, s).implicit_desc[r] = t  PROVE FALSE
    BY <1>3, <2>2, OwnedFacts
  <2>. QED  BY <2>1, <2>2
<1>. QED  BY <1>1, <1>2, <1>3, DropKeepsSound

(***************************************************************************)
(* Statements of a connection freed with the descriptors they own, and, if *)
(* they are all freed, the explicit descriptors of the connection too.     *)
(***************************************************************************)
ChildrenWith(T, conn, kind) ==
  {c \in LiveTokens(T.slots) : T.slots[c[1]].parent = conn /\ T.slots[c[1]].kind = kind}

LEMMA ChildrenAsAre ==
  ASSUME NEW T, Memory(T), NEW conn, NEW kind
  PROVE  ChildrenAs(T, conn, kind) = ChildrenWith(T, conn, kind)
<1>1. ASSUME NEW c \in LiveTokens(T.slots)
      PROVE  LiveAs(T.slots, c, kind) <=> T.slots[c[1]].kind = kind
  <2>1. c \in Token \cup {None}
    BY LiveMeans
  <2>. QED  BY <2>1, LiveAsMeans
<1>. QED  BY <1>1, ChildrenAre DEF ChildrenAs, ChildrenWith

Allocated(T, stmts, descs) ==
  descs \cup UNION {StatementAllocation(T, s) : s \in stmts}

FreedTogether(T, stmts, descs, conn) ==
  LET tokens == Allocated(T, stmts, descs) IN
  /\ Sound(DropAll(T, tokens)) /\ Drops(T, DropAll(T, tokens), tokens)
  /\ \A t \in tokens : T.slots[t[1]].group = conn

LEMMA FreeStatementsSound ==
  ASSUME NEW T, Sound(T), NEW conn \in LiveTokens(T.slots), T.slots[conn[1]].kind = "Dbc",
         NEW stmts \in SUBSET ChildrenWith(T, conn, "Stmt"),
         NEW descs \in SUBSET ChildrenWith(T, conn, "Desc"),
         descs = {} \/ stmts = ChildrenWith(T, conn, "Stmt")
  PROVE  FreedTogether(T, stmts, descs, conn)
<1>. DEFINE tokens == Allocated(T, stmts, descs)
<1>0. tokens = descs \cup UNION {StatementAllocation(T, s) : s \in stmts}
  BY DEF Allocated
<1>. HIDE DEF tokens
<1>1. Memory(T) /\ T.slots[conn[1]].group = conn /\ conn # None
  BY ConnectionFacts DEF Sound
<1>2. \A s \in stmts : /\ s \in LiveTokens(T.slots) /\ T.slots[s[1]].kind = "Stmt"
                       /\ T.slots[s[1]].parent = conn /\ T.slots[s[1]].group = conn
  BY StatementFacts DEF ChildrenWith
<1>3. \A s \in stmts, r \in Roles :
        /\ At(T, s).implicit_desc[r] \in LiveTokens(T.slots)
        /\ T.slots[At(T, s).implicit_desc[r][1]].kind = "Desc"
        /\ T.slots[At(T, s).implicit_desc[r][1]].parent = s
        /\ T.slots[At(T, s).implicit_desc[r][1]].group = conn
  BY <1>2, OwnedFacts
<1>4. \A t \in tokens : \/ t \in descs
                        \/ t \in stmts
                        \/ \E s \in stmts, r \in Roles : t = At(T, s).implicit_desc[r]
  BY <1>0 DEF StatementAllocation
<1>5. \A d \in descs : /\ d \in LiveTokens(T.slots) /\ T.slots[d[1]].kind = "Desc"
                       /\ T.slots[d[1]].parent = conn /\ T.slots[d[1]].group = conn
  <2> SUFFICES ASSUME NEW d \in descs
               PROVE  /\ d \in LiveTokens(T.slots) /\ T.slots[d[1]].kind = "Desc"
                      /\ T.slots[d[1]].parent = conn /\ T.slots[d[1]].group = conn
    OBVIOUS
  <2>1. /\ d \in LiveTokens(T.slots) /\ T.slots[d[1]].kind = "Desc"
        /\ T.slots[d[1]].parent = conn
    BY DEF ChildrenWith
  <2>2. T.slots[d[1]].group = T.slots[conn[1]].group
    BY <2>1, ParentFacts
  <2>. QED  BY <1>1, <2>1, <2>2
<1>6. \A s \in stmts : s \in tokens /\ \A r \in Roles : At(T, s).implicit_desc[r] \in tokens
  BY <1>0 DEF StatementAllocation
<1>7. \A t \in tokens : t \in LiveTokens(T.slots) /\ T.slots[t[1]].group = conn
  BY <1>2, <1>3, <1>4, <1>5
<1>8. tokens \subseteq Token \cup {None} /\ tokens = tokens \cap LiveTokens(T.slots)
  BY <1>1, <1>7, LiveMeans
<1>9. ASSUME NEW t \in LiveTokens(T.slots), T.slots[t[1]].parent \in tokens
      PROVE  t \in tokens
  <2> DEFINE p == T.slots[t[1]].parent
  <2>1. p \in LiveTokens(T.slots) /\ p # None
    BY <1>1, <1>7, <1>9, LiveMeans, SlotsAssumption DEF Token, Index
  <2>2. T.slots[p[1]].kind # "Desc"
    BY <2>1, ParentFacts
  <2>. HIDE DEF p
  <2>3. p \in stmts
    <3>1. p \in tokens
      BY <1>9 DEF p
    <3>. QED  BY <1>3, <1>4, <1>5, <2>2, <3>1
  <2>4. \E r \in Roles : t = At(T, p).implicit_desc[r]
    <3>1. T.slots[t[1]].parent = p
      BY DEF p
    <3>. QED  BY <1>2, <2>3, <3>1, OwnedFacts
  <2>. QED  BY <1>6, <2>3, <2>4
<1>10. ASSUME NEW s \in LiveTokens(T.slots), T.slots[s[1]].kind = "Stmt", s \notin tokens
       PROVE  /\ \A r \in AppRoles : At(T, s).app_override[r] \in tokens =>
                   At(T, s).app_override[r] \notin T.explicit
              /\ \A r \in Roles : At(T, s).implicit_desc[r] \notin tokens
  <2>1. ASSUME NEW r \in AppRoles, At(T, s).app_override[r] \in tokens,
               At(T, s).app_override[r] \in T.explicit
        PROVE  FALSE
    <3> DEFINE d == At(T, s).app_override[r]
    <3>1. d \in LiveTokens(T.slots) /\ T.slots[d[1]].group = conn
      BY <1>7, <2>1
    <3>2. /\ T.slots[d[1]].kind = "Desc"
          /\ T.slots[T.slots[d[1]].parent[1]].kind = "Dbc"
          /\ T.slots[d[1]].group = T.slots[s[1]].parent
      BY <1>10, <2>1, <3>1, UsedFacts
    <3>3. s \in ChildrenWith(T, conn, "Stmt")
      BY <1>10, <3>1, <3>2 DEF ChildrenWith
    <3>. HIDE DEF d
    <3>4. d \in descs
      <4>1. d \in tokens
        BY <2>1 DEF d
      <4>2. d \notin stmts
        BY <1>2, <3>2
      <4>. QED  BY <1>2, <1>3, <1>4, <3>2, <4>1, <4>2
    <3>. QED  BY <1>6, <1>10, <3>3, <3>4
  <2>2. ASSUME NEW r \in Roles, At(T, s).implicit_desc[r] \in tokens
        PROVE  FALSE
    <3> DEFINE d == At(T, s).implicit_desc[r]
    <3>1. T.slots[d[1]].kind = "Desc" /\ T.slots[d[1]].parent = s
      BY <1>10, OwnedFacts
    <3>. HIDE DEF d
    <3>2. s # conn /\ s \notin stmts /\ d \in tokens
      BY <1>6, <1>10, <2>2 DEF d
    <3>. QED  BY <1>2, <1>3, <1>4, <1>5, <3>1, <3>2
  <2>. QED  BY <2>1, <2>2
<1>11. Sound(DropAll(T, tokens)) /\ Drops(T, DropAll(T, tokens), tokens)
  BY <1>8, <1>9, <1>10, DropKeepsSound
<1>. QED  BY <1>7, <1>11 DEF FreedTogether, tokens

-----------------------------------------------------------------------------
(***************************************************************************)
(* Calls that only write to structs.                                       *)
(***************************************************************************)
LEMMA WriteKeepsSound ==
  ASSUME NEW T, Sound(T), NEW U, Memory(U),
         U.slots = T.slots, U.dead = T.dead, U.explicit = T.explicit,
         \A s \in LiveTokens(T.slots) : T.slots[s[1]].kind = "Stmt" =>
           /\ At(U, s).conn = At(T, s).conn
           /\ At(U, s).implicit_desc = At(T, s).implicit_desc
           /\ \A r \in AppRoles : Usable(T, s, At(U, s).app_override[r])
  PROVE  Sound(U)
<1>1. Memory(T) /\ Family(T) /\ Complete(T)
  BY DEF Sound
<1>2. Family(U)
  BY <1>1, WritesKeepFamily
<1>3. Complete(U)
  BY <1>1 DEF Complete, Completed, Owns
<1>. QED  BY <1>2, <1>3 DEF Sound

SetOpen(T, conn, flag) == Put(T, conn, [At(T, conn) EXCEPT !.open = flag])

LEMMA SetOpenSound ==
  ASSUME NEW T, Sound(T), NEW conn \in LiveTokens(T.slots),
         T.slots[conn[1]].kind = "Dbc", NEW flag \in BOOLEAN
  PROVE  /\ Sound(SetOpen(T, conn, flag))
         /\ SetOpen(T, conn, flag).slots = T.slots
         /\ SetOpen(T, conn, flag).dead = T.dead
         /\ SetOpen(T, conn, flag).explicit = T.explicit
         /\ At(SetOpen(T, conn, flag), conn).open = flag
         /\ \A u \in LiveTokens(T.slots) :
              u # conn => At(SetOpen(T, conn, flag), u) = At(T, u)
<1> DEFINE struct == [At(T, conn) EXCEPT !.open = flag]
           U == SetOpen(T, conn, flag)
<1>1. Memory(T)
  BY DEF Sound
<1>2. At(T, conn) \in ConnectionStruct /\ At(T, conn).header = conn
  BY <1>1, StructOfLive
<1>3. /\ struct \in ConnectionStruct /\ struct.header = conn /\ struct.type = "Dbc"
      /\ struct.open = flag
  BY <1>2 DEF ConnectionStruct
<1>4. U = Put(T, conn, struct)
  BY DEF SetOpen
<1>. HIDE DEF struct, U
<1>5. struct \in Struct
  BY <1>3 DEF Struct, ConnectionStruct
<1>6. /\ Memory(U) /\ U.slots = T.slots /\ U.dead = T.dead /\ U.explicit = T.explicit
      /\ At(U, conn) = struct
      /\ \A u \in LiveTokens(T.slots) : u # conn => At(U, u) = At(T, u)
  BY <1>1, <1>3, <1>4, <1>5, PutWrites
<1>7. \A s \in LiveTokens(T.slots) : T.slots[s[1]].kind = "Stmt" =>
        /\ At(U, s) = At(T, s)
        /\ \A r \in AppRoles : Usable(T, s, At(T, s).app_override[r])
  BY <1>6 DEF Sound, Family, OverridesKept
<1>8. Sound(U)
  BY <1>6, <1>7, WriteKeepsSound
<1>. QED  BY <1>3, <1>6, <1>8 DEF U

(***************************************************************************)
(* SQLSetStmtAttr: a descriptor on the statement's connection shares the   *)
(* statement's group.                                                      *)
(***************************************************************************)
LEMMA OnConnectionShares ==
  ASSUME NEW T, Sound(T), NEW d \in Token, NEW conn \in LiveTokens(T.slots),
         T.slots[conn[1]].kind = "Dbc", OnConnection(T.slots, d, conn)
  PROVE  LiveAs(T.slots, d, "Desc") /\ T.slots[d[1]].group = conn
<1> DEFINE S == T.slots
           p == S[d[1]].parent
<1>1. conn # None /\ S[conn[1]].group = conn /\ Memory(T)
  BY ConnectionFacts DEF Sound
<1>2. LiveAs(S, d, "Desc") /\ Live(S, p) /\ (p = conn \/ ParentOf(S, p, "Stmt") = conn)
  BY DEF OnConnection, ParentOf
<1>3. d \in LiveTokens(S) /\ S[d[1]].kind = "Desc"
  BY <1>1, <1>2, LiveAsMeans
<1>4. S[d[1]].group = S[p[1]].group /\ p \in LiveTokens(S)
  BY <1>3, ParentFacts
<1>5. CASE p = conn
  BY <1>1, <1>2, <1>4, <1>5
<1>6. CASE ParentOf(S, p, "Stmt") = conn
  <2>. HIDE DEF p, S
  <2>1. LiveAs(S, p, "Stmt") /\ S[p[1]].parent = conn
    BY <1>1, <1>6 DEF ParentOf
  <2>2. S[p[1]].group = S[p[1]].parent
    BY <1>4, <2>1, StatementFacts DEF LiveAs, S
  <2>. QED  BY <1>2, <1>4, <2>1, <2>2 DEF S
<1>. QED  BY <1>2, <1>5, <1>6

LEMMA SetAppDescriptorSound ==
  ASSUME NEW T, Sound(T), NEW stmt \in LiveTokens(T.slots),
         T.slots[stmt[1]].kind = "Stmt",
         NEW role \in AppRoles, NEW desc \in Token \cup {None},
         desc # None => OnConnection(T.slots, desc, At(T, stmt).conn)
  PROVE  /\ Sound(Put(T, stmt, Overridden(At(T, stmt), role, desc)))
         /\ Put(T, stmt, Overridden(At(T, stmt), role, desc)).slots = T.slots
<1> DEFINE old == At(T, stmt)
           struct == Overridden(At(T, stmt), role, desc)
           U == Put(T, stmt, struct)
<1>1. Memory(T) /\ old \in StatementStruct /\ old.header = stmt /\ old.conn = T.slots[stmt[1]].parent
  BY StructOfLive, StatementFacts DEF Sound
<1>2. /\ struct \in StatementStruct /\ struct.header = stmt /\ struct.type = "Stmt"
      /\ struct.conn = old.conn /\ struct.implicit_desc = old.implicit_desc
      /\ \A r \in AppRoles :
           struct.app_override[r] \in {old.app_override[r], None, desc}
  <2> DEFINE over == [old.app_override EXCEPT
                        ![role] = IF desc = old.implicit_desc[role] THEN None ELSE desc]
  <2>1. /\ over \in [AppRoles -> Token \cup {None}]
        /\ \A r \in AppRoles : over[r] \in {old.app_override[r], None, desc}
    BY <1>1 DEF StatementStruct
  <2>2. struct = [old EXCEPT !.app_override = over]
    BY DEF Overridden
  <2>. HIDE DEF over, struct, old
  <2>. QED  BY <1>1, <2>1, <2>2 DEF StatementStruct
<1>. HIDE DEF struct, U
<1>3. struct \in Struct
  BY <1>2 DEF Struct, StatementStruct
<1>4. /\ Memory(U) /\ U.slots = T.slots /\ U.dead = T.dead /\ U.explicit = T.explicit
      /\ At(U, stmt) = struct
      /\ \A u \in LiveTokens(T.slots) : u # stmt => At(U, u) = At(T, u)
  BY <1>1, <1>2, <1>3, PutWrites DEF U
<1>5. Usable(T, stmt, desc)
  <2>1. CASE desc = None
    BY <2>1 DEF Usable
  <2>2. CASE desc # None
    <3> DEFINE conn == T.slots[stmt[1]].parent
    <3>1. conn \in LiveTokens(T.slots) /\ T.slots[conn[1]].kind = "Dbc"
          /\ T.slots[stmt[1]].group = conn
      BY StatementFacts
    <3>2. desc \in Token /\ OnConnection(T.slots, desc, conn)
      BY <1>1, <2>2
    <3>. HIDE DEF conn
    <3>. QED  BY <3>1, <3>2, OnConnectionShares DEF Usable
  <2>. QED  BY <2>1, <2>2
<1>6. \A s \in LiveTokens(T.slots) : T.slots[s[1]].kind = "Stmt" =>
        \A r \in AppRoles : Usable(T, s, At(T, s).app_override[r])
  BY DEF Sound, Family, OverridesKept
<1>7. ASSUME NEW s \in LiveTokens(T.slots), T.slots[s[1]].kind = "Stmt"
      PROVE  /\ At(U, s).conn = At(T, s).conn
             /\ At(U, s).implicit_desc = At(T, s).implicit_desc
             /\ \A r \in AppRoles : Usable(T, s, At(U, s).app_override[r])
  <2>1. CASE s = stmt
    <3>1. Usable(T, s, None)
      BY DEF Usable
    <3>. QED  BY <1>2, <1>4, <1>5, <1>6, <1>7, <2>1, <3>1
  <2>2. CASE s # stmt
    BY <1>4, <1>6, <1>7, <2>2
  <2>. QED  BY <2>1, <2>2
<1>8. Sound(U)
  BY <1>4, <1>7, WriteKeepsSound
<1>. QED  BY <1>4, <1>8 DEF U, struct

(***************************************************************************)
(* SQLFreeHandle for an explicit descriptor: every statement of its        *)
(* connection that uses it reverts first, and no other connection's can.   *)
(***************************************************************************)
NoneUses(T, U, d) ==
  /\ Sound(U)
  /\ U.slots = T.slots /\ U.dead = T.dead /\ U.explicit = T.explicit
  /\ \A t \in LiveTokens(T.slots) : T.slots[t[1]].kind # "Stmt" => At(U, t) = At(T, t)
  /\ \A s \in LiveTokens(T.slots), r \in AppRoles :
       T.slots[s[1]].kind = "Stmt" => At(U, s).app_override[r] # d

LEMMA RevertSound ==
  ASSUME NEW T, Sound(T), NEW d \in LiveTokens(T.slots), T.slots[d[1]].kind = "Desc",
         NEW conn \in LiveTokens(T.slots), conn = T.slots[d[1]].parent,
         T.slots[conn[1]].kind = "Dbc"
  PROVE  NoneUses(T, RevertStatementsUsing(T, conn, d), d)
<1> DEFINE S == T.slots
           U == RevertStatementsUsing(T, conn, d)
           stmts == ChildrenAs(T, conn, "Stmt")
           users == {s \in stmts : \E r \in AppRoles : At(T, s).app_override[r] = d}
           Used(a) == \E s \in users : S[s[1]].addr = a
<1>1. /\ Memory(T) /\ T \in Tables /\ T.heap \in [Addr -> Struct \cup {None}]
      /\ T = [slots |-> T.slots, heap |-> T.heap, dead |-> T.dead, explicit |-> T.explicit]
  BY DEF Sound, Memory, Tables
<1>2. stmts = ChildrenWith(T, conn, "Stmt")
  BY <1>1, ChildrenAsAre
<1>3. \A s \in users : s \in LiveTokens(S) /\ S[s[1]].kind = "Stmt"
  BY <1>2 DEF ChildrenWith
<1>4. U = [slots |-> T.slots,
           heap |-> [a \in Addr |-> IF Used(a) THEN Reverted(T.heap[a], d) ELSE T.heap[a]],
           dead |-> T.dead, explicit |-> T.explicit]
  <2>1. U = [T EXCEPT !.heap = [a \in Addr |-> IF Used(a) THEN Reverted(T.heap[a], d)
                                              ELSE T.heap[a]]]
    BY Zenon DEF RevertStatementsUsing
  <2>. HIDE DEF U, Used
  <2>. QED  BY <1>1, <2>1
<1>. HIDE DEF stmts
<1>5. ASSUME NEW t \in LiveTokens(S)  PROVE Used(S[t[1]].addr) <=> t \in users
  <2>1. T.heap[S[t[1]].addr].header = t
    BY <1>1 DEF Memory, SlotsOwn, At
  <2>2. \A s \in users : T.heap[S[s[1]].addr].header = s
    BY <1>1, <1>3 DEF Memory, SlotsOwn, At
  <2>. QED  BY <2>1, <2>2
<1>6. \A a \in Addr : U.heap[a] = IF Used(a) THEN Reverted(T.heap[a], d) ELSE T.heap[a]
  <2>. HIDE DEF U, Used
  <2>. QED  BY <1>4
<1>7. U.slots = S /\ U.dead = T.dead /\ U.explicit = T.explicit
      /\ U = [slots |-> U.slots, heap |-> U.heap, dead |-> U.dead, explicit |-> U.explicit]
      /\ U.heap = [a \in Addr |-> U.heap[a]]
  <2>. HIDE DEF U, Used
  <2>. QED  BY <1>4
<1>8. ASSUME NEW struct \in StatementStruct
      PROVE  /\ Reverted(struct, d) \in StatementStruct
             /\ Reverted(struct, d).header = struct.header
             /\ Reverted(struct, d).type = struct.type
             /\ Reverted(struct, d).conn = struct.conn
             /\ Reverted(struct, d).implicit_desc = struct.implicit_desc
             /\ \A r \in AppRoles : Reverted(struct, d).app_override[r] =
                  IF struct.app_override[r] = d THEN None ELSE struct.app_override[r]
  <2> DEFINE over == [r \in AppRoles |-> IF struct.app_override[r] = d THEN None
                                        ELSE struct.app_override[r]]
  <2>1. over \in [AppRoles -> Token \cup {None}]
    BY DEF StatementStruct
  <2>2. Reverted(struct, d) = [struct EXCEPT !.app_override = over]
    BY DEF Reverted
  <2>3. \A r \in AppRoles : over[r] =
          IF struct.app_override[r] = d THEN None ELSE struct.app_override[r]
    OBVIOUS
  <2>. HIDE DEF over
  <2>. QED  BY <2>1, <2>2, <2>3 DEF StatementStruct
<1>9. \A a \in Addr : Used(a) => T.heap[a] \in StatementStruct /\ T.heap[a] # None
  <2> SUFFICES ASSUME NEW s \in users
               PROVE  At(T, s) \in StatementStruct /\ At(T, s) # None
    BY DEF At
  <2>1. s \in LiveTokens(T.slots) /\ T.slots[s[1]].kind = "Stmt"
    BY <1>3
  <2>. HIDE DEF users
  <2>2. At(T, s) \in StatementStruct
    BY <1>1, <2>1, StructOfLive
  <2>3. At(T, s) # None
    BY <1>1, <2>1 DEF Memory, SlotsOwn
  <2>. QED  BY <2>2, <2>3
<1>. HIDE DEF U, Used
<1>10. \A a \in Addr :
         /\ U.heap[a] \in Struct \cup {None}
         /\ U.heap[a] # None <=> T.heap[a] # None
         /\ T.heap[a] # None => /\ U.heap[a].header = T.heap[a].header
                                /\ U.heap[a].type = T.heap[a].type
  <2> SUFFICES ASSUME NEW a \in Addr
               PROVE  /\ U.heap[a] \in Struct \cup {None}
                      /\ U.heap[a] # None <=> T.heap[a] # None
                      /\ T.heap[a] # None => /\ U.heap[a].header = T.heap[a].header
                                             /\ U.heap[a].type = T.heap[a].type
    OBVIOUS
  <2>1. CASE Used(a)
    <3>1. T.heap[a] \in StatementStruct /\ U.heap[a] = Reverted(T.heap[a], d)
      BY <1>6, <1>9, <2>1
    <3>2. StatementStruct \subseteq Struct
      BY DEF StatementStruct, Struct
    <3>. QED  BY <1>8, <1>9, <2>1, <3>1, <3>2, NullAssumption
  <2>2. CASE ~Used(a)
    BY <1>1, <1>6, <2>2
  <2>. QED  BY <2>1, <2>2
<1>11. U \in Tables
  <2>1. U.heap \in [Addr -> Struct \cup {None}]
    BY <1>7, <1>10
  <2>. QED  BY <1>1, <1>7, <2>1 DEF Tables
<1>12. Memory(U)
  BY <1>1, <1>7, <1>10, <1>11, WritingKeepsMemory
<1>13. ASSUME NEW t \in LiveTokens(S)
       PROVE  At(U, t) = IF t \in users THEN Reverted(At(T, t), d) ELSE At(T, t)
  <2>1. S[t[1]].addr \in Addr
    BY <1>1, StructOfLive
  <2>. HIDE DEF users
  <2>. QED  BY <1>5, <1>6, <1>7, <2>1 DEF At
<1>14. ASSUME NEW s \in LiveTokens(S), S[s[1]].kind = "Stmt"
       PROVE  /\ At(U, s).conn = At(T, s).conn
              /\ At(U, s).implicit_desc = At(T, s).implicit_desc
              /\ \A r \in AppRoles : /\ Usable(T, s, At(U, s).app_override[r])
                                     /\ At(U, s).app_override[r] # d
  <2>1. At(T, s) \in StatementStruct
    BY <1>1, <1>14, StructOfLive
  <2>2. \A r \in AppRoles : Usable(T, s, At(T, s).app_override[r]) /\ Usable(T, s, None)
    BY <1>14 DEF Sound, Family, OverridesKept, Usable
  <2>3. d # None
    BY <1>1, LiveMeans, SlotsAssumption DEF Token, Index
  <2>4. CASE s \in users
    <3>1. At(U, s) = Reverted(At(T, s), d)
      BY <1>13, <2>4
    <3>. QED  BY <1>8, <2>1, <2>2, <2>3, <3>1
  <2>5. CASE s \notin users
    <3>1. At(U, s) = At(T, s)
      BY <1>13, <2>5
    <3>2. ASSUME NEW r \in AppRoles, At(T, s).app_override[r] = d  PROVE FALSE
      <4>1. S[d[1]].group = S[s[1]].parent
        BY <1>14, <3>2, UsedFacts
      <4>2. S[d[1]].group = S[conn[1]].group /\ S[conn[1]].group = conn
        BY ParentFacts, ConnectionFacts
      <4>3. s \in stmts
        BY <1>2, <1>14, <4>1, <4>2 DEF ChildrenWith
      <4>. QED  BY <2>5, <3>2, <4>3
    <3>. QED  BY <2>2, <3>1, <3>2
  <2>. QED  BY <2>4, <2>5
<1>15. Sound(U)
  BY <1>7, <1>12, <1>14, WriteKeepsSound
<1>16. ASSUME NEW t \in LiveTokens(S), S[t[1]].kind # "Stmt"  PROVE At(U, t) = At(T, t)
  BY <1>3, <1>13, <1>16
<1>17. NoneUses(T, U, d)
  <2>. HIDE DEF users
  <2>. QED  BY <1>7, <1>14, <1>15, <1>16 DEF NoneUses
<1>. QED  BY <1>17 DEF U

LEMMA FreeDescriptorSound ==
  ASSUME NEW T, Sound(T), NEW d \in Token, ParentKindOf(T.slots, d, "Desc") = "Dbc"
  PROVE  LET U == DropAll(RevertStatementsUsing(T, ParentOf(T.slots, d, "Desc"), d), {d})
         IN /\ Sound(U)
            /\ Drops(RevertStatementsUsing(T, ParentOf(T.slots, d, "Desc"), d), U, {d})
            /\ RevertStatementsUsing(T, ParentOf(T.slots, d, "Desc"), d).slots = T.slots
            /\ RevertStatementsUsing(T, ParentOf(T.slots, d, "Desc"), d).dead = T.dead
            /\ \A t \in LiveTokens(T.slots) : T.slots[t[1]].kind = "Dbc" =>
                 At(RevertStatementsUsing(T, ParentOf(T.slots, d, "Desc"), d), t) = At(T, t)
            /\ d \in LiveTokens(T.slots)
            /\ T.slots[d[1]].kind = "Desc"
            /\ T.slots[T.slots[d[1]].parent[1]].kind = "Dbc"
            /\ T.slots[d[1]].group = T.slots[d[1]].parent
<1> DEFINE S == T.slots
           conn == ParentOf(S, d, "Desc")
           V == RevertStatementsUsing(T, conn, d)
           U == DropAll(V, {d})
<1>1. Memory(T) /\ None # "Dbc"
  BY NullAssumption DEF Sound, Kinds
<1>2. conn # None /\ S[conn[1]].kind = "Dbc"
  BY <1>1 DEF ParentKindOf
<1>3. LiveAs(S, d, "Desc") /\ conn = S[d[1]].parent
  BY <1>2 DEF ParentOf
<1>4. d \in LiveTokens(S) /\ S[d[1]].kind = "Desc"
  BY <1>1, <1>3, LiveAsMeans
<1>. HIDE DEF conn
<1>5. conn \in LiveTokens(S) /\ S[d[1]].group = S[conn[1]].group /\ S[conn[1]].group = conn
  BY <1>2, <1>3, <1>4, ParentFacts, ConnectionFacts
<1>. HIDE DEF V
<1>6. /\ Sound(V)
      /\ V.slots = T.slots /\ V.dead = T.dead /\ V.explicit = T.explicit
      /\ \A s \in LiveTokens(S), r \in AppRoles :
           S[s[1]].kind = "Stmt" => At(V, s).app_override[r] # d
      /\ \A t \in LiveTokens(S) : S[t[1]].kind = "Dbc" => At(V, t) = At(T, t)
  <2>1. NoneUses(T, V, d)
    BY <1>2, <1>3, <1>4, <1>5, RevertSound DEF V
  <2>. QED  BY <2>1 DEF NoneUses
<1>7. {d} \subseteq Token \cup {None} /\ {d} = {d} \cap LiveTokens(V.slots)
  BY <1>4, <1>6
<1>8. \A t \in LiveTokens(V.slots) : V.slots[t[1]].parent \in {d} => t \in {d}
  <2> SUFFICES ASSUME NEW t \in LiveTokens(S), S[t[1]].parent = d  PROVE FALSE
    BY <1>6
  <2>. QED  BY <1>1, <1>4, LiveMeans, ParentFacts, SlotsAssumption DEF Token, Index
<1>9. ASSUME NEW s \in LiveTokens(V.slots), V.slots[s[1]].kind = "Stmt"
      PROVE  \A r \in Roles : At(V, s).implicit_desc[r] # d
  <2> SUFFICES ASSUME NEW r \in Roles, At(V, s).implicit_desc[r] = d  PROVE FALSE
    OBVIOUS
  <2>1. V.slots[d[1]].parent = s
    BY <1>6, <1>9, OwnedFacts
  <2>. QED  BY <1>2, <1>3, <1>6, <1>9, <2>1
<1>10. Sound(U) /\ Drops(V, U, {d})
  BY <1>6, <1>7, <1>8, <1>9, DropKeepsSound
<1>. QED  BY <1>2, <1>3, <1>4, <1>5, <1>6, <1>10 DEF V, conn

-----------------------------------------------------------------------------
(***************************************************************************)
(* The calls, of the state itself.  Outcome(U, gone, written): the table U *)
(* is sound, the handles in gone, and no other live handle, were taken     *)
(* away, and of the connections only those in written were written to.     *)
(***************************************************************************)
Outcome(U, gone, written) ==
  /\ Sound(U)
  /\ gone \subseteq LiveTokens(slots)
  /\ dead \cup gone \subseteq U.dead
  /\ \A t \in LiveTokens(slots) \ gone :
       /\ t \in LiveTokens(U.slots) /\ U.slots[t[1]] = slots[t[1]]
       /\ slots[t[1]].kind = "Dbc" /\ t \notin written => At(U, t) = At(Table, t)

LEMMA TableIs ==
  /\ Table.slots = slots /\ Table.heap = heap
  /\ Table.dead = dead /\ Table.explicit = explicit
BY DEF Table

LEMMA BecomesSound ==
  ASSUME NEW U, Sound(U), Becomes(U)
  PROVE  IInv' /\ Table' = U
<1>1. U = [slots |-> U.slots, heap |-> U.heap, dead |-> U.dead, explicit |-> U.explicit]
  BY DEF Sound, Memory, Tables
<1>2. Table' = U
  BY <1>1 DEF Becomes, Table
<1>. QED  BY <1>2 DEF IInv, Sound, Memory, Family, Complete, Encodable, DeadStayDead,
          SlotsOwn, HeapOwned, Lineage, ExplicitKept, OverridesKept

LEMMA LiveHandle ==
  ASSUME IInv, NEW t \in Token, NEW kind, LiveAs(slots, t, kind)
  PROVE  /\ t \in LiveTokens(slots) /\ slots[t[1]].kind = kind
         /\ LiveAs(Table.slots, t, kind)
BY TableIs, LiveAsMeans DEF IInv, Sound

LEMMA AddsOutcome ==
  ASSUME NEW U, NEW V, NEW n, Adds(Table, U, n), Sound(V),
         V.slots = U.slots, V.heap = U.heap, V.dead = U.dead
  PROVE  Outcome(V, {}, {})
BY TableIs DEF Outcome, Adds, Same, At

LEMMA SurvivesOutcome ==
  ASSUME NEW U, Survives(Table, U), Sound(U)
  PROVE  Outcome(U, {}, {})
BY TableIs DEF Outcome, Survives, Same

LEMMA DropsOutcome ==
  ASSUME NEW V, V.slots = slots, V.dead = dead,
         NEW U, NEW gone, Drops(V, U, gone), Sound(U), NEW written,
         \A t \in LiveTokens(slots) \ written :
           slots[t[1]].kind = "Dbc" => At(V, t) = At(Table, t)
  PROVE  Outcome(U, gone, written)
BY DEF Outcome, Drops, Same

LEMMA AllocEnvironmentOutcome ==
  ASSUME IInv, ~Exhausted(slots)
  PROVE  Outcome(New(Table, Environment, NewToken(slots), None), {}, {})
BY TableIs, NewEnvironmentSound, AddsOutcome DEF IInv

LEMMA AllocConnectionOutcome ==
  ASSUME IInv, NEW env \in Token, AllocConnectionAllowed(env)
  PROVE  Outcome(AllocConnectionResult(env), {}, {})
<1>1. LiveAs(Table.slots, env, "Env") /\ Sound(Table)
  BY LiveHandle DEF AllocConnectionAllowed, IInv
<1>2. CASE Exhausted(slots)
  BY <1>1, <1>2, TableIs DEF AllocConnectionResult, Outcome
<1>3. CASE ~Exhausted(slots)
  <2>1. AllocConnectionResult(env) = New(Table, Connection(env), NewToken(Table.slots), env)
    BY <1>3, TableIs DEF AllocConnectionResult
  <2>. QED  BY <1>1, <1>3, <2>1, TableIs, NewConnectionSound, AddsOutcome
<1>. QED  BY <1>2, <1>3

LEMMA AllocStatementOutcome ==
  ASSUME IInv, NEW conn \in Token, AllocStatementAllowed(conn)
  PROVE  Outcome(AllocStatementResult(conn), {}, {})
<1>1. LiveAs(Table.slots, conn, "Dbc") /\ Sound(Table)
  BY LiveHandle DEF AllocStatementAllowed, IInv
<1>2. CASE Exhausted(slots)
  BY <1>1, <1>2, TableIs DEF AllocStatementResult, Outcome
<1>3. CASE ~Exhausted(slots)
  <2>1. AllocStatementResult(conn) = BuildStatement(Table, conn)
    BY <1>3 DEF AllocStatementResult
  <2>. QED  BY <1>1, <1>3, <2>1, TableIs, BuildStatementSound, SurvivesOutcome
<1>. QED  BY <1>2, <1>3

LEMMA AllocDescriptorOutcome ==
  ASSUME IInv, NEW conn \in Token, AllocDescriptorAllowed(conn)
  PROVE  Outcome(AllocDescriptorResult(conn), {}, {})
<1>1. LiveAs(Table.slots, conn, "Dbc") /\ Sound(Table)
  BY LiveHandle DEF AllocDescriptorAllowed, IInv
<1>2. CASE Exhausted(slots)
  BY <1>1, <1>2, TableIs DEF AllocDescriptorResult, Outcome
<1>3. CASE ~Exhausted(slots)
  <2> DEFINE n == NewToken(Table.slots)
             U == New(Table, Descriptor, Table.slots[conn[1]].group, conn)
  <2>1. AllocDescriptorResult(conn) = WithExplicit(U, n)
    BY <1>3, TableIs DEF AllocDescriptorResult, WithExplicit
  <2>2. /\ Sound(WithExplicit(U, n)) /\ Adds(Table, U, n)
        /\ WithExplicit(U, n).slots = U.slots /\ WithExplicit(U, n).dead = U.dead
        /\ WithExplicit(U, n).heap = U.heap
    BY <1>1, <1>3, TableIs, NewDescriptorSound
  <2>. HIDE DEF U, n
  <2>. QED  BY <2>1, <2>2, AddsOutcome
<1>. QED  BY <1>2, <1>3

LEMMA FreeEnvironmentOutcome ==
  ASSUME IInv, NEW env \in Token, FreeEnvironmentAllowed(env)
  PROVE  Outcome(DropAll(Table, {env}), {env}, {})
<1>1. env \in LiveTokens(slots) /\ slots[env[1]].kind = "Env" /\ ChildrenOf(slots, env) = {}
  BY LiveHandle DEF FreeEnvironmentAllowed
<1>. QED  BY <1>1, TableIs, FreeLeafSound, DropsOutcome DEF IInv

LEMMA FreeConnectionOutcome ==
  ASSUME IInv, NEW conn \in Token, FreeConnectionAllowed(conn)
  PROVE  Outcome(DropAll(Table, {conn}), {conn}, {})
<1>1. conn \in LiveTokens(slots) /\ slots[conn[1]].kind = "Dbc" /\ ChildrenOf(slots, conn) = {}
  BY LiveHandle DEF FreeConnectionAllowed
<1>. QED  BY <1>1, TableIs, FreeLeafSound, DropsOutcome DEF IInv

LEMMA FreeStatementOutcome ==
  ASSUME IInv, NEW stmt \in Token, FreeStatementAllowed(stmt)
  PROVE  /\ Outcome(FreeStatementResult(stmt), StatementAllocation(Table, stmt), {})
         /\ \A t \in StatementAllocation(Table, stmt) :
              slots[t[1]].group = slots[stmt[1]].group
<1> DEFINE conn == slots[stmt[1]].parent
           tokens == StatementAllocation(Table, stmt)
<1>1. stmt \in LiveTokens(slots) /\ slots[stmt[1]].kind = "Stmt" /\ Sound(Table)
  BY LiveHandle DEF FreeStatementAllowed, IInv
<1>2. conn \in LiveTokens(slots) /\ slots[conn[1]].kind = "Dbc"
      /\ slots[stmt[1]].group = conn
  BY <1>1, TableIs, StatementFacts
<1>. HIDE DEF conn
<1>3. {stmt} \subseteq ChildrenWith(Table, conn, "Stmt")
  BY <1>1, TableIs DEF ChildrenWith, conn
<1>4. tokens = Allocated(Table, {stmt}, {})
  BY DEF Allocated
<1>5. /\ Sound(DropAll(Table, tokens)) /\ Drops(Table, DropAll(Table, tokens), tokens)
      /\ \A t \in tokens : Table.slots[t[1]].group = conn
  <2>1. conn \in LiveTokens(Table.slots) /\ Table.slots[conn[1]].kind = "Dbc"
    BY <1>2, TableIs
  <2>2. /\ {stmt} \in SUBSET ChildrenWith(Table, conn, "Stmt")
        /\ {} \in SUBSET ChildrenWith(Table, conn, "Desc")
    BY <1>3
  <2>3. FreedTogether(Table, {stmt}, {}, conn)
    BY <1>1, <2>1, <2>2, FreeStatementsSound
  <2>. HIDE DEF tokens
  <2>. QED  BY <1>4, <2>3 DEF FreedTogether
<1>. HIDE DEF tokens
<1>6. FreeStatementResult(stmt) = DropAll(Table, tokens)
  BY DEF FreeStatementResult, tokens
<1>. QED  BY <1>2, <1>5, <1>6, TableIs, DropsOutcome DEF tokens

LEMMA FreeDescriptorOutcome ==
  ASSUME IInv, NEW desc \in Token, FreeDescriptorAllowed(desc)
  PROVE  Outcome(FreeDescriptorResult(desc), {desc}, {})
<1> DEFINE V == RevertStatementsUsing(Table, ParentOf(Table.slots, desc, "Desc"), desc)
           U == DropAll(V, {desc})
<1>1. ParentKindOf(Table.slots, desc, "Desc") = "Dbc"
  BY TableIs DEF FreeDescriptorAllowed
<1>2. /\ Sound(U) /\ Drops(V, U, {desc})
      /\ V.slots = Table.slots /\ V.dead = Table.dead
      /\ \A t \in LiveTokens(Table.slots) :
           Table.slots[t[1]].kind = "Dbc" => At(V, t) = At(Table, t)
  <2>1. Sound(Table)
    BY DEF IInv
  <2>. QED  BY <1>1, <2>1, FreeDescriptorSound
<1>3. FreeDescriptorResult(desc) = U
  BY TableIs DEF FreeDescriptorResult
<1>. HIDE DEF U, V
<1>. QED  BY <1>2, <1>3, TableIs, DropsOutcome

(***************************************************************************)
(* SQLDisconnect, whole or interrupted: the connection is closed and some  *)
(* of its statements are freed.                                            *)
(***************************************************************************)
ClosedAndFreed(conn, tokens) ==
  /\ Outcome(DropAll(Close(Table, conn), tokens), tokens, {conn})
  /\ conn \notin tokens
  /\ \A t \in tokens : slots[t[1]].group = conn
  /\ At(DropAll(Close(Table, conn), tokens), conn).open = FALSE

LEMMA CloseAndFreeOutcome ==
  ASSUME IInv, NEW conn \in Token, LiveAs(slots, conn, "Dbc"),
         NEW stmts \in SUBSET ChildrenAs(Table, conn, "Stmt"),
         NEW descs \in SUBSET ChildrenAs(Table, conn, "Desc"),
         descs = {} \/ stmts = ChildrenAs(Table, conn, "Stmt")
  PROVE  ClosedAndFreed(conn, Allocated(Table, stmts, descs))
<1> DEFINE tokens == Allocated(Table, stmts, descs)
           V == SetOpen(Table, conn, FALSE)
           U == DropAll(V, tokens)
<1>1. conn \in LiveTokens(slots) /\ slots[conn[1]].kind = "Dbc" /\ Sound(Table)
  BY LiveHandle DEF IInv
<1>2. /\ Sound(V) /\ V.slots = slots /\ V.dead = dead
      /\ At(V, conn).open = FALSE
      /\ \A u \in LiveTokens(slots) : u # conn => At(V, u) = At(Table, u)
  BY <1>1, TableIs, SetOpenSound
<1>3. V = Close(Table, conn)
  BY DEF SetOpen, Close
<1>. HIDE DEF V, tokens
<1>4. /\ ChildrenAs(Table, conn, "Stmt") = ChildrenWith(V, conn, "Stmt")
      /\ ChildrenAs(Table, conn, "Desc") = ChildrenWith(V, conn, "Desc")
  <2>1. \A kind : ChildrenWith(V, conn, kind) = ChildrenWith(Table, conn, kind)
    BY <1>2, TableIs DEF ChildrenWith
  <2>. QED  BY <1>1, <2>1, ChildrenAsAre DEF Sound
<1>5. \A s \in stmts : StatementAllocation(V, s) = StatementAllocation(Table, s)
  <2> SUFFICES ASSUME NEW s \in stmts
               PROVE  StatementAllocation(V, s) = StatementAllocation(Table, s)
    OBVIOUS
  <2>1. s \in LiveTokens(slots) /\ s # conn
    BY <1>1, <1>2, <1>4 DEF ChildrenWith
  <2>. QED  BY <1>2, <2>1 DEF StatementAllocation
<1>6. tokens = Allocated(V, stmts, descs)
  BY <1>5 DEF Allocated, tokens
<1>7. /\ Sound(U) /\ Drops(V, U, tokens)
      /\ \A t \in tokens : V.slots[t[1]].group = conn
  <2>1. conn \in LiveTokens(V.slots) /\ V.slots[conn[1]].kind = "Dbc"
    BY <1>1, <1>2
  <2>2. /\ stmts \in SUBSET ChildrenWith(V, conn, "Stmt")
        /\ descs \in SUBSET ChildrenWith(V, conn, "Desc")
        /\ descs = {} \/ stmts = ChildrenWith(V, conn, "Stmt")
    BY <1>4
  <2>3. FreedTogether(V, stmts, descs, conn)
    BY <1>2, <2>1, <2>2, FreeStatementsSound
  <2>. QED  BY <1>6, <2>3 DEF FreedTogether
<1>. HIDE DEF U
<1>8. Outcome(U, tokens, {conn})
  BY <1>2, <1>7, DropsOutcome
<1>9. conn \notin tokens
  <2>1. \A s \in stmts : s \in LiveTokens(slots) /\ slots[s[1]].kind = "Stmt"
    BY <1>2, <1>4 DEF ChildrenWith
  <2>2. ASSUME NEW s \in stmts, NEW r \in Roles
        PROVE  slots[At(Table, s).implicit_desc[r][1]].kind = "Desc"
    BY <1>1, <2>1, TableIs, OwnedFacts
  <2>3. \A d \in descs : slots[d[1]].kind = "Desc"
    BY <1>2, <1>4 DEF ChildrenWith
  <2>. QED  BY <1>1, <2>1, <2>2, <2>3 DEF StatementAllocation, Allocated, tokens
<1>10. At(U, conn) = At(V, conn)
  <2>1. conn \in LiveTokens(U.slots)
    BY <1>1, <1>8, <1>9 DEF Outcome
  <2>. QED  BY <1>7, <2>1 DEF Drops, Same
<1>11. U = DropAll(Close(Table, conn), tokens)
  BY <1>3 DEF U
<1>12. ClosedAndFreed(conn, tokens)
  BY <1>2, <1>7, <1>8, <1>9, <1>10, <1>11 DEF ClosedAndFreed
<1>. QED  BY <1>12 DEF tokens

DisconnectTokens(conn) ==
  Allocated(Table, ChildrenAs(Table, conn, "Stmt"), ChildrenAs(Table, conn, "Desc"))

LEMMA DisconnectOutcome ==
  ASSUME IInv, NEW conn \in Token, DisconnectAllowed(conn)
  PROVE  /\ ClosedAndFreed(conn, DisconnectTokens(conn))
         /\ DisconnectResult(conn) = DropAll(Close(Table, conn), DisconnectTokens(conn))
<1>1. LiveAs(slots, conn, "Dbc")
  BY DEF DisconnectAllowed
<1>2. DisconnectResult(conn) = DropAll(Close(Table, conn), DisconnectTokens(conn))
  BY DEF DisconnectResult, DisconnectTokens, Allocated
<1>3. ClosedAndFreed(conn, DisconnectTokens(conn))
  BY <1>1, CloseAndFreeOutcome DEF DisconnectTokens
<1>. QED  BY <1>2, <1>3

LEMMA InterruptedOutcome ==
  ASSUME IInv, NEW conn \in Token, DisconnectInterrupted(conn)
  PROVE  \E stmts \in SUBSET ChildrenAs(Table, conn, "Stmt") :
           /\ Becomes(DropAll(Close(Table, conn), Allocated(Table, stmts, {})))
           /\ ClosedAndFreed(conn, Allocated(Table, stmts, {}))
<1>1. PICK last \in ChildrenAs(Table, conn, "Stmt") :
        Becomes(DropAll(Close(Table, conn),
                  UNION {StatementAllocation(Table, s) :
                           s \in {u \in ChildrenAs(Table, conn, "Stmt") : u[1] <= last[1]}}))
  BY DEF DisconnectInterrupted
<1> DEFINE stmts == {u \in ChildrenAs(Table, conn, "Stmt") : u[1] <= last[1]}
<1>2. LiveAs(slots, conn, "Dbc")
  BY DEF DisconnectInterrupted, DisconnectAllowed
<1>3. /\ stmts \in SUBSET ChildrenAs(Table, conn, "Stmt")
      /\ {} \in SUBSET ChildrenAs(Table, conn, "Desc")
  OBVIOUS
<1>4. Becomes(DropAll(Close(Table, conn), UNION {StatementAllocation(Table, s) : s \in stmts}))
  BY <1>1
<1>. HIDE DEF stmts
<1>5. ClosedAndFreed(conn, Allocated(Table, stmts, {}))
  BY <1>2, <1>3, CloseAndFreeOutcome
<1>6. Allocated(Table, stmts, {}) = UNION {StatementAllocation(Table, s) : s \in stmts}
  BY DEF Allocated
<1>. QED  BY <1>3, <1>4, <1>5, <1>6

LEMMA ConnectOutcome ==
  ASSUME IInv, NEW conn \in Token, Connect(conn)
  PROVE  Outcome(Table', {}, {conn}) /\ IInv'
<1>1. conn \in LiveTokens(slots) /\ slots[conn[1]].kind = "Dbc" /\ Sound(Table)
  BY LiveHandle DEF Connect, IInv
<1>2. Becomes(SetOpen(Table, conn, TRUE))
  BY DEF Connect, SetOpen
<1>3. Sound(SetOpen(Table, conn, TRUE))
      /\ SetOpen(Table, conn, TRUE).slots = slots
      /\ SetOpen(Table, conn, TRUE).dead = dead
      /\ \A u \in LiveTokens(slots) : u # conn =>
           At(SetOpen(Table, conn, TRUE), u) = At(Table, u)
  BY <1>1, TableIs, SetOpenSound
<1>4. Outcome(SetOpen(Table, conn, TRUE), {}, {conn})
  BY <1>3 DEF Outcome
<1>5. IInv' /\ Table' = SetOpen(Table, conn, TRUE)
  BY <1>2, <1>3, BecomesSound
<1>6. Outcome(Table', {}, {conn})
  <2> DEFINE U == SetOpen(Table, conn, TRUE)
  <2>1. Outcome(U, {}, {conn}) /\ Table' = U
    BY <1>4, <1>5
  <2>. HIDE DEF U
  <2>. QED  BY <2>1
<1>. QED  BY <1>5, <1>6

LEMMA SetAppDescriptorOutcome ==
  ASSUME IInv, NEW stmt \in Token, SetAppDescriptor(stmt)
  PROVE  LiveTokens(slots') = LiveTokens(slots) /\ IInv'
<1>1. stmt \in LiveTokens(slots) /\ slots[stmt[1]].kind = "Stmt" /\ Sound(Table)
  BY LiveHandle DEF SetAppDescriptor, IInv
<1>2. PICK role \in AppRoles, desc \in Token \cup {None} :
        /\ desc # None => OnConnection(slots, desc, At(Table, stmt).conn)
        /\ Becomes(Put(Table, stmt, Overridden(At(Table, stmt), role, desc)))
  BY DEF SetAppDescriptor
<1> DEFINE U == Put(Table, stmt, Overridden(At(Table, stmt), role, desc))
<1>3. Sound(U) /\ U.slots = slots
  BY <1>1, <1>2, TableIs, SetAppDescriptorSound
<1>4. Becomes(U)
  BY <1>2
<1>. HIDE DEF U
<1>. QED  BY <1>3, <1>4, BecomesSound DEF Becomes

-----------------------------------------------------------------------------
(***************************************************************************)
(* The invariant is inductive.                                             *)
(***************************************************************************)
LEMMA InitEstablishes == Init => IInv
<1> SUFFICES ASSUME Init  PROVE IInv
  OBVIOUS
<1>1. /\ slots = [i \in Index |-> EmptySlot] /\ heap = [a \in Addr |-> None]
      /\ dead = {} /\ explicit = {}
  BY DEF Init
<1>2. EmptySlot \in Slot /\ EmptySlot.kind = None
  BY SlotsAssumption DEF EmptySlot, Slot
<1>. HIDE DEF EmptySlot
<1>3. Table \in Tables
  BY <1>1, <1>2 DEF Table, Tables
<1>4. LiveTokens(Table.slots) = {}
  BY <1>1, <1>2, TableIs DEF LiveTokens, Live, Token
<1>5. Encodable(Table) /\ DeadStayDead(Table) /\ HeapOwned(Table)
  BY <1>1, <1>2, TableIs DEF Encodable, DeadStayDead, HeapOwned
<1>6. SlotsOwn(Table) /\ Lineage(Table) /\ OverridesKept(Table) /\ Complete(Table)
  BY <1>4 DEF SlotsOwn, Lineage, OverridesKept, Complete
<1>7. ExplicitKept(Table)
  BY <1>1, TableIs DEF ExplicitKept
<1>. QED  BY <1>3, <1>5, <1>6, <1>7 DEF IInv, Sound, Memory, Family

LEMMA NextKeeps == IInv /\ [Next]_vars => IInv'
<1> SUFFICES ASSUME IInv, [Next]_vars  PROVE IInv'
  OBVIOUS
<1>1. CASE AllocEnvironment
  <2>1. ~Exhausted(slots) /\ Becomes(New(Table, Environment, NewToken(slots), None))
    BY <1>1 DEF AllocEnvironment
  <2>. QED  BY <2>1, AllocEnvironmentOutcome, BecomesSound DEF Outcome
<1>2. ASSUME NEW t \in Token, AllocConnection(t)  PROVE IInv'
  BY <1>2, AllocConnectionOutcome, BecomesSound DEF AllocConnection, Outcome
<1>3. ASSUME NEW t \in Token, AllocStatement(t)  PROVE IInv'
  BY <1>3, AllocStatementOutcome, BecomesSound DEF AllocStatement, Outcome
<1>4. ASSUME NEW t \in Token, AllocDescriptor(t)  PROVE IInv'
  BY <1>4, AllocDescriptorOutcome, BecomesSound DEF AllocDescriptor, Outcome
<1>5. ASSUME NEW t \in Token, FreeEnvironment(t)  PROVE IInv'
  BY <1>5, FreeEnvironmentOutcome, BecomesSound DEF FreeEnvironment, Outcome
<1>6. ASSUME NEW t \in Token, FreeConnection(t)  PROVE IInv'
  BY <1>6, FreeConnectionOutcome, BecomesSound DEF FreeConnection, Outcome
<1>7. ASSUME NEW t \in Token, FreeStatement(t)  PROVE IInv'
  BY <1>7, FreeStatementOutcome, BecomesSound DEF FreeStatement, Outcome
<1>8. ASSUME NEW t \in Token, FreeDescriptor(t)  PROVE IInv'
  BY <1>8, FreeDescriptorOutcome, BecomesSound DEF FreeDescriptor, Outcome
<1>9. ASSUME NEW t \in Token, Connect(t)  PROVE IInv'
  BY <1>9, ConnectOutcome
<1>10. ASSUME NEW t \in Token, Disconnect(t)  PROVE IInv'
  <2>1. DisconnectAllowed(t) /\ Becomes(DisconnectResult(t))
    BY <1>10 DEF Disconnect
  <2>2. Sound(DisconnectResult(t))
    BY <2>1, DisconnectOutcome DEF ClosedAndFreed, Outcome
  <2>. QED  BY <2>1, <2>2, BecomesSound
<1>11. ASSUME NEW t \in Token, DisconnectInterrupted(t)  PROVE IInv'
  <2>1. PICK stmts \in SUBSET ChildrenAs(Table, t, "Stmt") :
          /\ Becomes(DropAll(Close(Table, t), Allocated(Table, stmts, {})))
          /\ ClosedAndFreed(t, Allocated(Table, stmts, {}))
    BY <1>11, InterruptedOutcome
  <2>. QED  BY <2>1, BecomesSound DEF ClosedAndFreed, Outcome
<1>12. ASSUME NEW t \in Token, SetAppDescriptor(t)  PROVE IInv'
  BY <1>12, SetAppDescriptorOutcome
<1>13. CASE UNCHANGED vars
  <2>1. Becomes(Table) /\ Sound(Table)
    BY <1>13, TableIs DEF vars, Becomes, IInv
  <2>. QED  BY <2>1, BecomesSound
<1>. QED  BY <1>1, <1>2, <1>3, <1>4, <1>5, <1>6, <1>7, <1>8, <1>9, <1>10, <1>11, <1>12,
             <1>13 DEF Next

(***************************************************************************)
(* The invariant of the handle tree, which every call leaves sound.        *)
(***************************************************************************)
THEOREM Invariant == Spec => []IInv
BY InitEstablishes, NextKeeps, PTL DEF Spec

-----------------------------------------------------------------------------
(***************************************************************************)
(* Slots, structs and histories keep their types.                          *)
(***************************************************************************)
THEOREM TypeCorrect == Spec => []TypeOK
<1>1. IInv => TypeOK
  BY TableIs DEF IInv, Sound, Memory, Tables, TypeOK
<1>. QED  BY <1>1, Invariant, PTL

(***************************************************************************)
(* The descriptors a statement names are all the children it has.          *)
(***************************************************************************)
LEMMA OwnedAreAll ==
  ASSUME IInv, NEW s \in LiveTokens(slots), slots[s[1]].kind = "Stmt"
  PROVE  LET owned == At(Table, s).implicit_desc IN
         /\ {owned[r] : r \in Roles} = ChildrenOf(slots, s)
         /\ Cardinality(ChildrenOf(slots, s)) = Implicit
<1> DEFINE f == At(Table, s).implicit_desc
           named == [r \in Roles |-> f[r]]
           kids == ChildrenOf(slots, s)
<1>1. Sound(Table) /\ Memory(Table) /\ Owns(Table, s, f, Implicit)
  BY TableIs DEF IInv, Sound, Complete, Completed
<1>2. kids = {c \in LiveTokens(slots) : slots[c[1]].parent = s}
  BY <1>1, TableIs, ChildrenAre
<1>3. /\ \A r \in Roles : f[r] \in LiveTokens(slots) /\ slots[f[r][1]].parent = s
      /\ \A u \in LiveTokens(slots) : slots[u[1]].parent = s => \E r \in Roles : u = f[r]
  BY <1>1, TableIs, OwnedFacts
<1>4. \A q, r \in Roles : f[q] = f[r] => q = r
  BY <1>1 DEF Owns, Roles
<1>. HIDE DEF f, kids
<1>5. {f[r] : r \in Roles} = kids
  BY <1>2, <1>3
<1>6. named \in [Roles -> kids] /\ \A r \in Roles : named[r] = f[r]
  BY <1>5
<1>. HIDE DEF named
<1>7. named \in Bijection(Roles, kids)
  <2>1. DOMAIN named = Roles /\ \A q, r \in Roles : named[q] = named[r] => q = r
    BY <1>4, <1>6
  <2>2. \A c \in kids : \E r \in Roles : named[r] = c
    BY <1>5, <1>6
  <2>. QED  BY <1>6, <2>1, <2>2 DEF Bijection, Injection, Surjection, IsInjective
<1>8. Implicit \in Int /\ 1 \in Int /\ Implicit >= 2
  BY TableAssumption
<1>9. IsFiniteSet(Roles) /\ Cardinality(Roles) = Implicit
  <2>1. IsFiniteSet(1 .. Implicit)
    BY <1>8, FS_Interval
  <2>2. Cardinality(1 .. Implicit) = IF 1 > Implicit THEN 0 ELSE Implicit - 1 + 1
    BY <1>8, FS_Interval
  <2>. QED  BY <1>8, <2>1, <2>2 DEF Roles
<1>10. Cardinality(kids) = Implicit
  BY <1>7, <1>9, FS_Bijection DEF ExistsBijection
<1>. QED  BY <1>5, <1>10 DEF f, kids

(***************************************************************************)
(* Every live token owns one struct that names it back, every struct is    *)
(* owned, and a statement has exactly its own descriptors: each struct is  *)
(* reclaimed once and none is leaked, whatever is allocated and freed in   *)
(* whatever order, exhaustion part-way through an allocation included.     *)
(***************************************************************************)
THEOREM AllocationsAlwaysOwnedOnce == Spec => []AllocationsOwnedOnce
<1>1. ASSUME IInv  PROVE AllocationsOwnedOnce
  <2>1. Memory(Table) /\ Sound(Table)
    BY <1>1 DEF IInv, Sound
  <2>2. \A t \in LiveTokens(slots) :
          /\ heap[slots[t[1]].addr] # None
          /\ heap[slots[t[1]].addr].header = t
          /\ heap[slots[t[1]].addr].type = slots[t[1]].kind
    BY <2>1, TableIs DEF Memory, SlotsOwn, At
  <2>3. \A a \in Addr : heap[a] # None => Live(slots, heap[a].header)
    BY <2>1, TableIs DEF Memory, HeapOwned, LiveTokens
  <2>4. \A s \in LiveTokens(slots) : slots[s[1]].kind = "Stmt" =>
          LET owned == At(Table, s).implicit_desc IN
          /\ {owned[r] : r \in Roles} = ChildrenOf(slots, s)
          /\ Cardinality(ChildrenOf(slots, s)) = Implicit
    BY <1>1, OwnedAreAll
  <2>. QED  BY <2>2, <2>3, <2>4 DEF AllocationsOwnedOnce
<1>. QED  BY <1>1, Invariant, PTL

(***************************************************************************)
(* No handle outlives its parent, and a connection's handles share its     *)
(* lock group.                                                             *)
(***************************************************************************)
THEOREM ParentsAlwaysOutliveChildren == Spec => []ParentsOutliveChildren
<1>1. ASSUME IInv  PROVE ParentsOutliveChildren
  <2> SUFFICES ASSUME NEW t \in LiveTokens(slots), slots[t[1]].kind # "Env"
               PROVE  /\ Live(slots, slots[t[1]].parent)
                      /\ slots[t[1]].kind \in {"Stmt", "Desc"} =>
                           slots[slots[t[1]].parent[1]].group = slots[t[1]].group
    BY DEF ParentsOutliveChildren
  <2>1. Sound(Table)
    BY <1>1 DEF IInv
  <2> DEFINE p == slots[t[1]].parent
  <2>2. p # None /\ p \in LiveTokens(slots)
        /\ (slots[t[1]].kind = "Desc" => slots[t[1]].group = slots[p[1]].group)
    BY <2>1, TableIs, ParentFacts
  <2>3. slots[t[1]].kind = "Stmt" => slots[t[1]].group = p /\ slots[p[1]].kind = "Dbc"
    BY <2>1, TableIs, StatementFacts
  <2>. HIDE DEF p
  <2>4. slots[p[1]].kind = "Dbc" => slots[p[1]].group = p
    BY <2>1, <2>2, TableIs, ConnectionFacts
  <2>5. Live(slots, p)
    BY <2>2 DEF LiveTokens
  <2>. QED  BY <2>2, <2>3, <2>4, <2>5 DEF p
<1>. QED  BY <1>1, Invariant, PTL

(***************************************************************************)
(* What a statement uses as its descriptors is protected by the lock a     *)
(* call on the statement holds, and an explicit descriptor is given up by  *)
(* every statement when it is freed.                                       *)
(***************************************************************************)
THEOREM OverridesAlwaysUsable == Spec => []OverridesUsable
<1>1. ASSUME IInv  PROVE OverridesUsable
  <2> SUFFICES ASSUME NEW s \in LiveTokens(slots), NEW r \in AppRoles,
                      slots[s[1]].kind = "Stmt"
               PROVE  LET d == At(Table, s).app_override[r] IN
                      /\ d \in explicit => LiveAs(slots, d, "Desc")
                      /\ Live(slots, d) => slots[d[1]].group = slots[s[1]].group
    BY DEF OverridesUsable
  <2> DEFINE d == At(Table, s).app_override[r]
  <2>1. Sound(Table) /\ Memory(Table)
    BY <1>1 DEF IInv, Sound
  <2>2. Usable(Table, s, d) /\ d \in Token \cup {None}
    BY <2>1, TableIs, StructOfLive DEF Sound, Family, OverridesKept, StatementStruct
  <2>. HIDE DEF d
  <2>3. None \notin explicit
    BY <2>1, TableIs, SlotsAssumption DEF Memory, Tables, Token, Index
  <2>4. Live(slots, d) => d \in LiveTokens(slots) /\ d # None
    BY <2>1, <2>2, TableIs, LiveMeans DEF Live
  <2>5. Live(slots, d) => d \notin dead
    BY <2>1, <2>4, TableIs, UsedFacts
  <2>6. d \in explicit => LiveAs(slots, d, "Desc")
    BY <2>2, <2>3, TableIs DEF Usable
  <2>7. Live(slots, d) => slots[d[1]].group = slots[s[1]].group
    BY <2>2, <2>4, <2>5, TableIs DEF Usable
  <2>. QED  BY <2>6, <2>7 DEF d
<1>. QED  BY <1>1, Invariant, PTL

-----------------------------------------------------------------------------
(***************************************************************************)
(* Who owns a handle: a statement owns its own descriptors, every other    *)
(* handle stands for itself.                                               *)
(***************************************************************************)
LEMMA OwnerIs ==
  ASSUME IInv, NEW t \in LiveTokens(slots)
  PROVE  /\ slots[t[1]].kind # "Desc" => Owner(t) = t
         /\ slots[t[1]].kind = "Desc" =>
              Owner(t) = IF slots[slots[t[1]].parent[1]].kind = "Stmt"
                         THEN slots[t[1]].parent ELSE t
<1> DEFINE p == slots[t[1]].parent
<1>1. Sound(Table) /\ None # "Stmt"
  BY NullAssumption DEF IInv, Kinds
<1>2. CASE slots[t[1]].kind # "Desc"
  <2>1. ParentOf(slots, t, "Desc") = None
    BY <1>2 DEF ParentOf, LiveAs
  <2>. QED  BY <1>1, <1>2, <2>1 DEF Owner, ParentKindOf
<1>3. CASE slots[t[1]].kind = "Desc"
  <2>1. p # None /\ p \in LiveTokens(slots)
    BY <1>1, <1>3, TableIs, ParentFacts
  <2>2. ParentOf(slots, t, "Desc") = p
    BY <1>3, <2>1 DEF ParentOf, LiveAs, LiveTokens
  <2>3. ParentKindOf(slots, t, "Desc") = slots[p[1]].kind
    BY <2>1, <2>2 DEF ParentKindOf
  <2>. QED  BY <1>3, <2>3 DEF Owner
<1>. QED  BY <1>2, <1>3

LEMMA AllocationOwner ==
  ASSUME IInv, NEW s \in LiveTokens(slots), slots[s[1]].kind = "Stmt",
         NEW t \in StatementAllocation(Table, s)
  PROVE  Owner(t) = s
<1>1. Sound(Table)
  BY DEF IInv
<1>2. CASE t = s
  BY <1>2, OwnerIs
<1>3. CASE \E r \in Roles : t = At(Table, s).implicit_desc[r]
  <2>1. /\ t \in LiveTokens(slots) /\ slots[t[1]].kind = "Desc"
        /\ slots[t[1]].parent = s
    BY <1>1, <1>3, TableIs, OwnedFacts
  <2>. QED  BY <2>1, OwnerIs
<1>. QED  BY <1>2, <1>3 DEF StatementAllocation

LEMMA DyingAreGone ==
  ASSUME NEW U, NEW gone, NEW written, Outcome(U, gone, written), Becomes(U)
  PROVE  Dying \subseteq gone
BY DEF Outcome, Becomes, Dying

(***************************************************************************)
(* What SQLDisconnect frees belongs to children of the connection, which   *)
(* closes in the same step.                                                *)
(***************************************************************************)
LEMMA ClosedDieTogether ==
  ASSUME IInv, NEW conn \in Token, DisconnectAllowed(conn),
         NEW stmts \in SUBSET ChildrenAs(Table, conn, "Stmt"),
         NEW descs \in SUBSET ChildrenAs(Table, conn, "Desc"),
         ClosedAndFreed(conn, Allocated(Table, stmts, descs)),
         Becomes(DropAll(Close(Table, conn), Allocated(Table, stmts, descs)))
  PROVE  \A t \in Dying : Closes(slots[Owner(t)[1]].parent)
<1> DEFINE tokens == Allocated(Table, stmts, descs)
           U == DropAll(Close(Table, conn), tokens)
<1>1. /\ Sound(Table) /\ LiveAs(slots, conn, "Dbc") /\ At(Table, conn).open
      /\ conn \in LiveTokens(slots) /\ slots[conn[1]].kind = "Dbc"
  BY LiveHandle DEF DisconnectAllowed, IInv
<1>2. /\ Outcome(U, tokens, {conn}) /\ Becomes(U)
      /\ conn \notin tokens /\ At(U, conn).open = FALSE
  BY DEF ClosedAndFreed
<1>3. Closes(conn)
  <2>. HIDE DEF U, tokens
  <2>1. U.slots[conn[1]] = slots[conn[1]] /\ heap' = U.heap
    BY <1>1, <1>2 DEF Outcome, Becomes
  <2>2. heap'[slots[conn[1]].addr].open = FALSE
    BY <1>2, <2>1 DEF At
  <2>. QED  BY <1>1, <2>2 DEF Closes
<1>4. /\ \A s \in stmts : /\ s \in LiveTokens(slots) /\ slots[s[1]].kind = "Stmt"
                          /\ slots[s[1]].parent = conn
      /\ \A d \in descs : /\ d \in LiveTokens(slots) /\ slots[d[1]].kind = "Desc"
                          /\ slots[d[1]].parent = conn
  <2>1. /\ ChildrenAs(Table, conn, "Stmt") = ChildrenWith(Table, conn, "Stmt")
        /\ ChildrenAs(Table, conn, "Desc") = ChildrenWith(Table, conn, "Desc")
    BY <1>1, TableIs, ChildrenAsAre DEF Sound
  <2>. QED  BY <2>1, TableIs DEF ChildrenWith
<1>5. ASSUME NEW t \in tokens  PROVE slots[Owner(t)[1]].parent = conn
  <2>1. CASE t \in descs
    BY <1>1, <1>4, <2>1, OwnerIs
  <2>2. CASE \E s \in stmts : t \in StatementAllocation(Table, s)
    BY <1>4, <2>2, AllocationOwner
  <2>. QED  BY <1>5, <2>1, <2>2 DEF Allocated
<1>6. Dying \subseteq tokens
  <2>. HIDE DEF U, tokens
  <2>. QED  BY <1>2, DyingAreGone
<1>. QED  BY <1>3, <1>5, <1>6

(***************************************************************************)
(* A call frees its own handle with what that owns, and more only when a   *)
(* connection closes in that very step.                                    *)
(***************************************************************************)
LEMMA StepsDieTogether ==
  ASSUME IInv, Next, NEW t \in Dying, NEW u \in Dying
  PROVE  Owner(t) = Owner(u) \/ Closes(slots[Owner(t)[1]].parent)
<1>1. ASSUME NEW U, NEW w, Outcome(U, {}, w), Becomes(U)  PROVE FALSE
  BY <1>1, DyingAreGone
<1>2. ASSUME NEW U, NEW x, NEW w, Outcome(U, {x}, w), Becomes(U)  PROVE t = u
  BY <1>2, DyingAreGone
<1>3. CASE AllocEnvironment
  BY <1>1, <1>3, AllocEnvironmentOutcome DEF AllocEnvironment
<1>4. CASE \E x \in Token : AllocConnection(x)
  BY <1>1, <1>4, AllocConnectionOutcome DEF AllocConnection
<1>5. CASE \E x \in Token : AllocStatement(x)
  BY <1>1, <1>5, AllocStatementOutcome DEF AllocStatement
<1>6. CASE \E x \in Token : AllocDescriptor(x)
  BY <1>1, <1>6, AllocDescriptorOutcome DEF AllocDescriptor
<1>7. CASE \E x \in Token : FreeEnvironment(x)
  BY <1>2, <1>7, FreeEnvironmentOutcome DEF FreeEnvironment
<1>8. CASE \E x \in Token : FreeConnection(x)
  BY <1>2, <1>8, FreeConnectionOutcome DEF FreeConnection
<1>9. ASSUME NEW s \in Token, FreeStatement(s)  PROVE Owner(t) = Owner(u)
  <2>1. /\ FreeStatementAllowed(s) /\ Becomes(FreeStatementResult(s))
        /\ s \in LiveTokens(slots) /\ slots[s[1]].kind = "Stmt"
    BY <1>9, LiveHandle DEF FreeStatement, FreeStatementAllowed
  <2>2. Dying \subseteq StatementAllocation(Table, s)
    BY <2>1, FreeStatementOutcome, DyingAreGone
  <2>3. Owner(t) = s
    BY <2>1, <2>2, AllocationOwner
  <2>4. Owner(u) = s
    BY <2>1, <2>2, AllocationOwner
  <2>. QED  BY <2>3, <2>4
<1>10. CASE \E x \in Token : FreeDescriptor(x)
  BY <1>2, <1>10, FreeDescriptorOutcome DEF FreeDescriptor
<1>11. CASE \E x \in Token : Connect(x)
  BY <1>11, TableIs, ConnectOutcome DEF Outcome, Dying, Table
<1>12. ASSUME NEW c \in Token, Disconnect(c)
       PROVE  Closes(slots[Owner(t)[1]].parent)
  <2>1. DisconnectAllowed(c) /\ Becomes(DisconnectResult(c))
    BY <1>12 DEF Disconnect
  <2>. QED  BY <2>1, DisconnectOutcome, ClosedDieTogether DEF DisconnectTokens
<1>13. ASSUME NEW c \in Token, DisconnectInterrupted(c)
       PROVE  Closes(slots[Owner(t)[1]].parent)
  <2>1. PICK stmts \in SUBSET ChildrenAs(Table, c, "Stmt") :
          /\ Becomes(DropAll(Close(Table, c), Allocated(Table, stmts, {})))
          /\ ClosedAndFreed(c, Allocated(Table, stmts, {}))
    BY <1>13, InterruptedOutcome
  <2>2. DisconnectAllowed(c) /\ {} \in SUBSET ChildrenAs(Table, c, "Desc")
    BY <1>13 DEF DisconnectInterrupted
  <2>. QED  BY <2>1, <2>2, ClosedDieTogether
<1>14. CASE \E x \in Token : SetAppDescriptor(x)
  BY <1>14, SetAppDescriptorOutcome DEF Dying
<1>. QED  BY <1>3, <1>4, <1>5, <1>6, <1>7, <1>8, <1>9, <1>10, <1>11, <1>12, <1>13, <1>14
          DEF Next

(***************************************************************************)
(* A call frees only its own handle and what that owns: a second statement *)
(* or descriptor dies in the same step only if its connection closes.      *)
(***************************************************************************)
THEOREM AlwaysDieTogether == Spec => DieTogether
<1>1. IInv /\ [Next]_vars =>
        [\A t, u \in Dying :
           Owner(t) = Owner(u) \/ Closes(slots[Owner(t)[1]].parent)]_vars
  BY StepsDieTogether
<1>. QED  BY <1>1, Invariant, PTL DEF Spec, DieTogether

-----------------------------------------------------------------------------
(***************************************************************************)
(* The calls in flight: what each thread may rely on at its place in a     *)
(* call.                                                                   *)
(***************************************************************************)
Calls == [at : Stages, op : Ops \cup {None}, handle : Token \cup {None},
          group : Token \cup {None}, refs : SUBSET (Token \X Addr),
          other : Token \cup {None}, child : Token \cup {None},
          todo : SUBSET Token, attempted : SUBSET Token]

Walks == {"walk", "childlock", "childwork"}
Locked == {"check", "work"} \cup Walks
Inside == {"lock", "try"} \cup Locked

\* The group the call read is that of its handle, for as long as that lives.
Entered(c) ==
  /\ c.at \in Inside =>
       /\ c.op \in Ops
       /\ c.handle \in LiveTokens(slots) \cup dead
       /\ c.group \in Token
       /\ c.handle \in LiveTokens(slots) => slots[c.handle[1]].group = c.group
  /\ c.at = "second" => c.handle \in Token /\ c.op = "CopyDesc"
  /\ c.other # None \/ c.at = "second" => "CopyDesc" \in Ops

\* H: holder, now or after a step.
Holds(H, th, c) ==
  /\ c.at \in Locked => H[c.group] = th
  /\ c.at = "childwork" => /\ c.child \in Token /\ c.child # c.group
                           /\ H[c.child] = th
  /\ c.at = "childlock" => c.child \in Token

Protects(c) ==
  /\ c.refs # {} => c.at \in Walks \cup {"work"}
  /\ \A r \in c.refs :
       /\ r[1] \in LiveTokens(slots)
       /\ slots[r[1][1]].addr = r[2]
       /\ \/ slots[r[1][1]].group = c.group
          \/ c.at = "childwork" /\ slots[r[1][1]].group = c.child

Ready(c) == c.at = "work" => Allowed(c.op, c.handle)

Pending(c) == c.todo \cup c.attempted \cup IF c.at = "walk" THEN {} ELSE {c.child}

Walking(c) ==
  c.at \in Walks =>
    /\ c.handle \in LiveTokens(slots)
    /\ slots[c.handle[1]].kind = "Env"
    /\ \A t \in LiveTokens(slots) : slots[t[1]].parent = c.handle => t \in Pending(c)

Fits(th) == /\ Entered(call[th])
            /\ Holds(holder, th, call[th])
            /\ Protects(call[th])
            /\ Ready(call[th])
            /\ Walking(call[th])

CallsInv == /\ IInv
            /\ holder \in [Token -> Thread \cup {None}]
            /\ call \in [Thread -> Calls]
            /\ calls \in 0 .. MaxCalls
            /\ \A th \in Thread : Fits(th)

-----------------------------------------------------------------------------
(***************************************************************************)
(* What the body of a call can do to the handles of other lock groups:     *)
(* nothing.  What it frees and writes is in its own handle's group, and    *)
(* what it allocates is under its own handle.                              *)
(***************************************************************************)
Touches(U, gone, h) ==
  /\ Sound(U)
  /\ gone \subseteq LiveTokens(slots)
  /\ dead \cup gone \subseteq U.dead
  /\ \A t \in gone : slots[t[1]].group = slots[h[1]].group
  /\ \A t \in LiveTokens(slots) \ gone :
       /\ t \in LiveTokens(U.slots) /\ U.slots[t[1]] = slots[t[1]]
       /\ slots[t[1]].kind = "Dbc" /\ slots[t[1]].group # slots[h[1]].group =>
            At(U, t) = At(Table, t)
  /\ \A t \in LiveTokens(U.slots) \ LiveTokens(slots) :
       U.slots[t[1]].parent \in LiveTokens(slots) => U.slots[t[1]].parent = h

LEMMA OutcomeTouches ==
  ASSUME NEW h, NEW U, NEW gone, NEW written, Outcome(U, gone, written),
         \A t \in gone \cup written : slots[t[1]].group = slots[h[1]].group,
         \A t \in LiveTokens(U.slots) \ LiveTokens(slots) :
           U.slots[t[1]].parent \in LiveTokens(slots) => U.slots[t[1]].parent = h
  PROVE  Touches(U, gone, h)
BY DEF Outcome, Touches

LEMMA NewUnderHandle ==
  ASSUME NEW T, Sound(T), ~Exhausted(T.slots), NEW struct \in Boxes,
         NEW group \in Token \cup {None}, NEW h \in Token,
         NEW t \in LiveTokens(New(T, struct, group, h).slots) \ LiveTokens(T.slots)
  PROVE  New(T, struct, group, h).slots[t[1]].parent = h
<1> DEFINE U == New(T, struct, group, h)
           n == NewToken(T.slots)
<1>1. Registered(T, U, n, struct, group, h)
  BY NewAdds DEF Sound
<1>. HIDE DEF U, n
<1>2. t = n
  BY <1>1 DEF Registered, Adds, U
<1>. QED  BY <1>1, <1>2 DEF Registered, U

LEMMA DropsAddNothing ==
  ASSUME NEW V, Memory(V), V.slots = slots, NEW tokens, tokens \subseteq Token \cup {None},
         NEW t \in LiveTokens(DropAll(V, tokens).slots)
  PROVE  t \in LiveTokens(slots)
BY DropAllDrops DEF Drops

(***************************************************************************)
(* SQLAllocHandle for a statement: the statement is under the connection,  *)
(* its descriptors are under the statement.                                *)
(***************************************************************************)
Under(T, B, conn) == /\ Building(T, B)
                     /\ B.table.slots[B.stmt[1]].parent = conn

LEMMA FirstIsUnder ==
  ASSUME NEW T, Sound(T), ~Exhausted(T.slots), NEW conn \in Token,
         LiveAs(T.slots, conn, "Dbc")
  PROVE  Under(T, FirstDescriptor(T, conn), conn)
<1> DEFINE g == T.slots[conn[1]].group
           U == New(T, Statement(conn), g, conn)
           B == FirstDescriptor(T, conn)
<1>1. Building(T, B)
  BY FirstIsBuilding
<1>2. B.table = U /\ B.stmt = NewToken(T.slots)
  BY DEF FirstDescriptor
<1>3. Memory(T) /\ conn \in LiveTokens(T.slots)
  BY LiveAsMeans DEF Sound
<1>4. g \in Token \cup {None} /\ Statement(conn) \in Boxes
  BY <1>3, StructOfLive DEF Boxes
<1>. HIDE DEF g, B
<1>5. Registered(T, U, NewToken(T.slots), Statement(conn), g, conn)
  BY <1>3, <1>4, NewAdds
<1>. HIDE DEF U
<1>6. U.slots[NewToken(T.slots)[1]].parent = conn
  BY <1>5 DEF Registered
<1>. QED  BY <1>1, <1>2, <1>6 DEF Under, B

LEMMA NextIsUnder ==
  ASSUME NEW T, NEW B, NEW conn, Under(T, B, conn)
  PROVE  Under(T, NextDescriptor(B), conn)
<1>1. Building(T, NextDescriptor(B))
  BY NextIsBuilding DEF Under
<1>2. CASE Len(B.descs) = Implicit \/ Exhausted(B.table.slots)
  BY <1>2 DEF NextDescriptor, Under
<1>3. CASE ~ (Len(B.descs) = Implicit \/ Exhausted(B.table.slots))
  <2> DEFINE V == B.table
             U == New(V, Descriptor, B.group, B.stmt)
  <2>1. /\ Memory(V) /\ B.group \in Token /\ B.stmt \in LiveTokens(V.slots)
        /\ B = [table |-> B.table, group |-> B.group, stmt |-> B.stmt, descs |-> B.descs]
    BY DEF Under, Building
  <2>2. NextDescriptor(B).table = U /\ NextDescriptor(B).stmt = B.stmt
    BY <1>3, <2>1 DEF NextDescriptor
  <2>3. Registered(V, U, NewToken(V.slots), Descriptor, B.group, B.stmt)
    <3>1. Descriptor \in Boxes /\ B.stmt \in Token
      BY <2>1 DEF Boxes, LiveTokens
    <3>. HIDE DEF U, V
    <3>. QED  BY <1>3, <2>1, <3>1, NewAdds DEF U, V
  <2>. HIDE DEF U
  <2>4. U.slots[B.stmt[1]] = V.slots[B.stmt[1]]
    BY <2>1, <2>3 DEF Registered, Adds, Same
  <2>. QED  BY <1>1, <2>2, <2>4 DEF Under
<1>. QED  BY <1>2, <1>3

LEMMA BuiltIsUnder ==
  ASSUME NEW T, NEW B, NEW conn, Under(T, B, conn),
         NEW t \in LiveTokens(BuiltStatement(B).slots) \ LiveTokens(T.slots)
  PROVE  \/ BuiltStatement(B).slots[t[1]].parent = conn
         \/ BuiltStatement(B).slots[t[1]].parent \notin LiveTokens(T.slots)
<1> DEFINE V == B.table
           U == BuiltStatement(B)
           m == Len(B.descs)
<1>1. /\ Memory(V) /\ B.stmt \notin LiveTokens(T.slots) /\ V.slots[B.stmt[1]].parent = conn
      /\ B.stmt \in LiveTokens(V.slots)
      /\ B.descs \in Seq(Token)
      /\ LiveTokens(V.slots) =
           LiveTokens(T.slots) \cup {B.stmt} \cup {B.descs[r] : r \in 1 .. m}
      /\ \A r \in 1 .. m : V.slots[B.descs[r][1]].parent = B.stmt
      /\ \A r \in 1 .. m : B.descs[r] \notin LiveTokens(T.slots)
  BY DEF Under, Building, Owns
<1>2. CASE m = Implicit
  <2>1. U.slots = V.slots
    BY <1>2 DEF BuiltStatement, Put
  <2>. HIDE DEF U, V, m
  <2>. QED  BY <1>1, <2>1 DEF U
<1>3. CASE m # Implicit
  <2> DEFINE gone == {B.stmt} \cup {B.descs[r] : r \in 1 .. m}
  <2>0. DOMAIN B.descs = 1 .. m
    BY <1>1
  <2>1. U = DropAll(V, gone)
    BY <1>3, <2>0 DEF BuiltStatement
  <2>2. gone \subseteq LiveTokens(V.slots) /\ gone \cap LiveTokens(V.slots) = gone
        /\ gone \subseteq Token \cup {None} /\ LiveTokens(V.slots) \subseteq Token
    BY <1>1 DEF LiveTokens
  <2>3. LiveTokens(V.slots) \ gone \subseteq LiveTokens(T.slots)
    BY <1>1
  <2>. HIDE DEF U, V, gone
  <2>4. Drops(V, U, gone)
    BY <1>1, <2>1, <2>2, DropAllDrops
  <2>. QED  BY <2>3, <2>4 DEF Drops, U
<1>. QED  BY <1>2, <1>3

LEMMA BuildStatementUnder ==
  ASSUME NEW T, Sound(T), ~Exhausted(T.slots), NEW conn \in Token,
         LiveAs(T.slots, conn, "Dbc"),
         NEW t \in LiveTokens(BuildStatement(T, conn).slots) \ LiveTokens(T.slots)
  PROVE  \/ BuildStatement(T, conn).slots[t[1]].parent = conn
         \/ BuildStatement(T, conn).slots[t[1]].parent \notin LiveTokens(T.slots)
<1>1. Under(T, FirstDescriptor(T, conn), conn)
  BY FirstIsUnder
<1>2. Under(T, NextDescriptor(FirstDescriptor(T, conn)), conn)
  BY <1>1, NextIsUnder
<1>3. Under(T, NextDescriptor(NextDescriptor(FirstDescriptor(T, conn))), conn)
  BY <1>2, NextIsUnder
<1>4. Under(T, NextDescriptor(NextDescriptor(NextDescriptor(FirstDescriptor(T, conn)))), conn)
  BY <1>3, NextIsUnder
<1>5. Under(T, NextDescriptor(NextDescriptor(NextDescriptor(NextDescriptor(
                 FirstDescriptor(T, conn))))), conn)
  BY <1>4, NextIsUnder
<1>. QED  BY <1>5, BuiltIsUnder DEF BuildStatement

(***************************************************************************)
(* The body of every call touches its own group only.                      *)
(***************************************************************************)
LEMMA AllowedMeans ==
  ASSUME NEW h
  PROVE  /\ Allowed("AllocConnection", h) <=> AllocConnectionAllowed(h)
         /\ Allowed("AllocStatement", h) <=> AllocStatementAllowed(h)
         /\ Allowed("AllocDescriptor", h) <=> AllocDescriptorAllowed(h)
         /\ Allowed("FreeEnvironment", h) <=> FreeEnvironmentAllowed(h)
         /\ Allowed("FreeConnection", h) <=> FreeConnectionAllowed(h)
         /\ Allowed("FreeStatement", h) <=> FreeStatementAllowed(h)
         /\ Allowed("FreeDescriptor", h) <=> FreeDescriptorAllowed(h)
         /\ Allowed("Disconnect", h) <=> DisconnectAllowed(h)
         /\ Allowed("Execute", h) <=> LiveAs(slots, h, "Stmt")
         /\ Allowed("Cancel", h) <=> LiveAs(slots, h, "Stmt")
         /\ Allowed("CopyDesc", h) <=> LiveAs(slots, h, "Desc")
         /\ Allowed("EndTranEnvironment", h) <=> LiveAs(slots, h, "Env")
BY DEF Allowed, OpKind

LEMMA ResultMeans ==
  ASSUME NEW h
  PROVE  /\ Result("AllocConnection", h) = AllocConnectionResult(h)
         /\ Result("AllocStatement", h) = AllocStatementResult(h)
         /\ Result("AllocDescriptor", h) = AllocDescriptorResult(h)
         /\ Result("FreeEnvironment", h) = DropAll(Table, {h})
         /\ Result("FreeConnection", h) = DropAll(Table, {h})
         /\ Result("FreeStatement", h) = FreeStatementResult(h)
         /\ Result("FreeDescriptor", h) = FreeDescriptorResult(h)
         /\ Result("Disconnect", h) = DisconnectResult(h)
         /\ \A op \in {"Execute", "Cancel", "CopyDesc", "EndTranEnvironment"} :
              Result(op, h) = Table
BY DEF Result

LEMMA OpsAre ==
  DOMAIN OpKind = {"AllocConnection", "AllocStatement", "AllocDescriptor",
                   "FreeEnvironment", "FreeConnection", "FreeStatement",
                   "FreeDescriptor", "Disconnect", "Execute", "Cancel",
                   "CopyDesc", "EndTranEnvironment"}
BY DEF OpKind

LEMMA AllocConnectionTouches ==
  ASSUME IInv, NEW h \in Token, AllocConnectionAllowed(h)
  PROVE  Touches(AllocConnectionResult(h), {}, h)
<1> DEFINE U == AllocConnectionResult(h)
<1>1. Outcome(U, {}, {})
  BY AllocConnectionOutcome
<1>2. ASSUME NEW t \in LiveTokens(U.slots) \ LiveTokens(slots)  PROVE U.slots[t[1]].parent = h
  <2>1. ~Exhausted(slots)
    BY <1>2, TableIs DEF AllocConnectionResult
  <2> DEFINE V == New(Table, Connection(h), NewToken(Table.slots), h)
  <2>2. U = V
    BY <2>1, TableIs DEF AllocConnectionResult
  <2>3. Connection(h) \in Boxes /\ Sound(Table)
    BY DEF Boxes, IInv
  <2>4. NewToken(Table.slots) \in Token
    BY <2>1, <2>3, NewEnvironmentSound, TableIs DEF Adds
  <2>. HIDE DEF U
  <2>5. V.slots[t[1]].parent = h
    BY <1>2, <2>1, <2>2, <2>3, <2>4, TableIs, NewUnderHandle
  <2>. QED  BY <2>2, <2>5
<1>. HIDE DEF U
<1>3. Touches(U, {}, h)
  BY <1>1, <1>2, OutcomeTouches
<1>. QED  BY <1>3 DEF U

LEMMA AllocStatementTouches ==
  ASSUME IInv, NEW h \in Token, AllocStatementAllowed(h)
  PROVE  Touches(AllocStatementResult(h), {}, h)
<1> DEFINE U == AllocStatementResult(h)
<1>1. Outcome(U, {}, {})
  BY AllocStatementOutcome
<1>2. ASSUME NEW t \in LiveTokens(U.slots) \ LiveTokens(slots)
      PROVE  U.slots[t[1]].parent = h \/ U.slots[t[1]].parent \notin LiveTokens(slots)
  <2>1. ~Exhausted(slots)
    BY <1>2, TableIs DEF AllocStatementResult
  <2>2. U = BuildStatement(Table, h)
    BY <2>1 DEF AllocStatementResult
  <2>3. Sound(Table) /\ LiveAs(Table.slots, h, "Dbc")
    BY TableIs DEF IInv, AllocStatementAllowed
  <2>. HIDE DEF U
  <2>. QED  BY <1>2, <2>1, <2>2, <2>3, TableIs, BuildStatementUnder
<1>. HIDE DEF U
<1>3. Touches(U, {}, h)
  BY <1>1, <1>2, OutcomeTouches
<1>. QED  BY <1>3 DEF U

LEMMA AllocDescriptorTouches ==
  ASSUME IInv, NEW h \in Token, AllocDescriptorAllowed(h)
  PROVE  Touches(AllocDescriptorResult(h), {}, h)
<1> DEFINE U == AllocDescriptorResult(h)
<1>1. Outcome(U, {}, {})
  BY AllocDescriptorOutcome
<1>2. ASSUME NEW t \in LiveTokens(U.slots) \ LiveTokens(slots)  PROVE U.slots[t[1]].parent = h
  <2>1. ~Exhausted(slots)
    BY <1>2, TableIs DEF AllocDescriptorResult
  <2> DEFINE V == New(Table, Descriptor, slots[h[1]].group, h)
  <2>2. U.slots = V.slots
    BY <2>1, TableIs DEF AllocDescriptorResult, New
  <2>3. Descriptor \in Boxes /\ Sound(Table) /\ h \in LiveTokens(slots)
    BY LiveHandle DEF Boxes, IInv, AllocDescriptorAllowed
  <2>4. slots[h[1]].group \in Token
    BY <2>3, TableIs, GroupFacts
  <2>. HIDE DEF U
  <2>5. V.slots[t[1]].parent = h
    BY <1>2, <2>1, <2>2, <2>3, <2>4, TableIs, NewUnderHandle
  <2>. QED  BY <2>2, <2>5
<1>. HIDE DEF U
<1>3. Touches(U, {}, h)
  BY <1>1, <1>2, OutcomeTouches
<1>. QED  BY <1>3 DEF U

LEMMA FreeLeafTouches ==
  ASSUME IInv, NEW h \in Token, FreeEnvironmentAllowed(h) \/ FreeConnectionAllowed(h)
  PROVE  Touches(DropAll(Table, {h}), {h}, h)
<1> DEFINE U == DropAll(Table, {h})
<1>1. Outcome(U, {h}, {})
  BY FreeEnvironmentOutcome, FreeConnectionOutcome
<1>2. ASSUME NEW t \in LiveTokens(U.slots)  PROVE t \in LiveTokens(slots)
  BY <1>2, TableIs, DropsAddNothing DEF IInv, Sound
<1>. HIDE DEF U
<1>3. Touches(U, {h}, h)
  BY <1>1, <1>2, OutcomeTouches
<1>. QED  BY <1>3 DEF U

LEMMA FreeStatementTouches ==
  ASSUME IInv, NEW h \in Token, FreeStatementAllowed(h)
  PROVE  Touches(FreeStatementResult(h), StatementAllocation(Table, h), h)
<1> DEFINE U == FreeStatementResult(h)
           gone == StatementAllocation(Table, h)
<1>1. Outcome(U, gone, {}) /\ \A t \in gone : slots[t[1]].group = slots[h[1]].group
  BY FreeStatementOutcome
<1>2. U = DropAll(Table, gone)
  BY DEF FreeStatementResult
<1>. HIDE DEF U, gone
<1>3. gone \subseteq Token \cup {None}
  BY <1>1 DEF Outcome, LiveTokens
<1>4. ASSUME NEW t \in LiveTokens(U.slots)  PROVE t \in LiveTokens(slots)
  BY <1>2, <1>3, <1>4, TableIs, DropsAddNothing DEF IInv, Sound
<1>5. Touches(U, gone, h)
  BY <1>1, <1>4, OutcomeTouches
<1>. QED  BY <1>5 DEF U, gone

LEMMA FreeDescriptorTouches ==
  ASSUME IInv, NEW h \in Token, FreeDescriptorAllowed(h)
  PROVE  Touches(FreeDescriptorResult(h), {h}, h)
<1> DEFINE V == RevertStatementsUsing(Table, ParentOf(Table.slots, h, "Desc"), h)
           U == FreeDescriptorResult(h)
<1>1. Outcome(U, {h}, {})
  BY FreeDescriptorOutcome
<1>2. U = DropAll(V, {h})
  BY TableIs DEF FreeDescriptorResult
<1>3. Sound(Table) /\ ParentKindOf(Table.slots, h, "Desc") = "Dbc"
  BY TableIs DEF IInv, FreeDescriptorAllowed
<1>4. Drops(V, DropAll(V, {h}), {h}) /\ V.slots = Table.slots
  BY <1>3, FreeDescriptorSound
<1>. HIDE DEF U, V
<1>5. ASSUME NEW t \in LiveTokens(U.slots)  PROVE t \in LiveTokens(slots)
  BY <1>2, <1>4, <1>5, TableIs DEF Drops
<1>6. Touches(U, {h}, h)
  BY <1>1, <1>5, OutcomeTouches
<1>. QED  BY <1>6 DEF U

LEMMA DisconnectTouches ==
  ASSUME IInv, NEW h \in Token, DisconnectAllowed(h)
  PROVE  Touches(DisconnectResult(h), DisconnectTokens(h), h)
<1> DEFINE gone == DisconnectTokens(h)
           V == Close(Table, h)
           U == DropAll(V, gone)
<1>1. ClosedAndFreed(h, gone) /\ DisconnectResult(h) = U
  BY DisconnectOutcome
<1>2. Sound(Table) /\ h \in LiveTokens(slots) /\ slots[h[1]].kind = "Dbc"
  BY LiveHandle DEF DisconnectAllowed, IInv
<1>3. slots[h[1]].group = h
  BY <1>2, TableIs, ConnectionFacts
<1>4. Sound(V) /\ V.slots = slots
  <2>1. V = SetOpen(Table, h, FALSE)
    BY DEF Close, SetOpen
  <2>. HIDE DEF V
  <2>. QED  BY <1>2, <2>1, TableIs, SetOpenSound
<1>. HIDE DEF V, gone
<1>5. Outcome(U, gone, {h}) /\ \A t \in gone : slots[t[1]].group = h
  BY <1>1 DEF ClosedAndFreed, V
<1>6. gone \subseteq Token \cup {None}
  BY <1>5 DEF Outcome, LiveTokens
<1>7. ASSUME NEW t \in LiveTokens(U.slots)  PROVE t \in LiveTokens(slots)
  BY <1>4, <1>6, <1>7, DropsAddNothing DEF Sound
<1>. HIDE DEF U
<1>8. Touches(U, gone, h)
  BY <1>3, <1>5, <1>7, OutcomeTouches
<1>. QED  BY <1>1, <1>8 DEF gone

LEMMA BodyTouches ==
  ASSUME IInv, NEW op \in Ops, NEW h \in Token, Allowed(op, h)
  PROVE  \E gone : Touches(Result(op, h), gone, h)
<1>1. op \in DOMAIN OpKind
  BY CallsAssumption
<1>2. CASE op = "AllocConnection"
  BY <1>2, AllowedMeans, ResultMeans, AllocConnectionTouches
<1>3. CASE op = "AllocStatement"
  BY <1>3, AllowedMeans, ResultMeans, AllocStatementTouches
<1>4. CASE op = "AllocDescriptor"
  BY <1>4, AllowedMeans, ResultMeans, AllocDescriptorTouches
<1>5. CASE op \in {"FreeEnvironment", "FreeConnection"}
  BY <1>5, AllowedMeans, ResultMeans, FreeLeafTouches
<1>6. CASE op = "FreeStatement"
  BY <1>6, AllowedMeans, ResultMeans, FreeStatementTouches
<1>7. CASE op = "FreeDescriptor"
  BY <1>7, AllowedMeans, ResultMeans, FreeDescriptorTouches
<1>8. CASE op = "Disconnect"
  BY <1>8, AllowedMeans, ResultMeans, DisconnectTouches
<1>9. CASE op \in {"Execute", "Cancel", "CopyDesc", "EndTranEnvironment"}
  <2>1. Outcome(Table, {}, {})
    BY TableIs DEF Outcome, IInv
  <2>2. Touches(Table, {}, h)
    BY <2>1, TableIs, OutcomeTouches
  <2>. QED  BY <1>9, <2>2, ResultMeans
<1>. QED  BY <1>1, <1>2, <1>3, <1>4, <1>5, <1>6, <1>7, <1>8, <1>9, OpsAre

-----------------------------------------------------------------------------
(***************************************************************************)
(* What a call has checked stays true while another group is worked on.    *)
(***************************************************************************)
LEMMA AllowedIsLive ==
  ASSUME IInv, NEW op \in Ops, NEW h \in Token, Allowed(op, h)
  PROVE  /\ h \in LiveTokens(slots)
         /\ op = "EndTranEnvironment" => slots[h[1]].kind = "Env"
<1>1. op \in DOMAIN OpKind /\ None # "Dbc"
  BY CallsAssumption, NullAssumption DEF Kinds
<1>2. \A kind : LiveAs(slots, h, kind) => h \in LiveTokens(slots) /\ slots[h[1]].kind = kind
  BY LiveHandle
<1>3. FreeDescriptorAllowed(h) => LiveAs(slots, h, "Desc")
  BY <1>1 DEF FreeDescriptorAllowed, ParentKindOf, ParentOf
<1>4. /\ AllocConnectionAllowed(h) => LiveAs(slots, h, "Env")
      /\ AllocStatementAllowed(h) => LiveAs(slots, h, "Dbc")
      /\ AllocDescriptorAllowed(h) => LiveAs(slots, h, "Dbc")
      /\ FreeEnvironmentAllowed(h) => LiveAs(slots, h, "Env")
      /\ FreeConnectionAllowed(h) => LiveAs(slots, h, "Dbc")
      /\ FreeStatementAllowed(h) => LiveAs(slots, h, "Stmt")
      /\ DisconnectAllowed(h) => LiveAs(slots, h, "Dbc")
  BY DEF AllocConnectionAllowed, AllocStatementAllowed, AllocDescriptorAllowed,
         FreeEnvironmentAllowed, FreeConnectionAllowed, FreeStatementAllowed,
         DisconnectAllowed
<1>5. \E kind : LiveAs(slots, h, kind)
  BY <1>1, <1>3, <1>4, AllowedMeans, OpsAre
<1>. QED  BY <1>2, <1>5, AllowedMeans

LEMMA ReachedProtected ==
  ASSUME IInv, NEW h \in LiveTokens(slots), NEW r \in References(h)
  PROVE  /\ r \in Token \X Addr
         /\ r[1] \in LiveTokens(slots) /\ slots[r[1][1]].addr = r[2]
         /\ slots[r[1][1]].group = slots[h[1]].group
<1>1. PICK t \in Reached(h) : r = <<t, slots[t[1]].addr>>
  BY DEF References
<1>2. Sound(Table) /\ Memory(Table)
  BY DEF IInv, Sound
<1>3. t \in LiveTokens(slots) /\ slots[t[1]].group = slots[h[1]].group
  <2>1. CASE t = h
    BY <2>1
  <2>2. CASE /\ LiveAs(slots, h, "Stmt") /\ Live(slots, t)
             /\ t \in {At(Table, h).conn, RowDescriptor(h)}
    <3>1. slots[h[1]].kind = "Stmt" /\ Ard \in Roles /\ Ard \in AppRoles
      BY <2>2, TableAssumption DEF LiveAs, Ard, Roles, AppRoles
    <3>2. /\ At(Table, h).conn = slots[h[1]].parent
          /\ slots[h[1]].parent \in LiveTokens(slots)
          /\ slots[slots[h[1]].parent[1]].kind = "Dbc"
          /\ slots[h[1]].group = slots[h[1]].parent
      BY <1>2, <3>1, TableIs, StatementFacts
    <3>3. slots[slots[h[1]].parent[1]].group = slots[h[1]].parent
      BY <1>2, <3>2, TableIs, ConnectionFacts
    <3>4. /\ At(Table, h).implicit_desc[Ard] \in LiveTokens(slots)
          /\ slots[At(Table, h).implicit_desc[Ard][1]].group = slots[h[1]].parent
      BY <1>2, <3>1, TableIs, OwnedFacts
    <3>5. ASSUME t = At(Table, h).app_override[Ard], t # None
          PROVE  /\ t \in LiveTokens(slots)
                 /\ slots[t[1]].group = slots[h[1]].group
      <4>1. Usable(Table, h, t)
        BY <1>2, <3>1, <3>5, TableIs DEF Sound, Family, OverridesKept
      <4>2. t \in Token
        BY <1>2, <3>1, <3>5, TableIs, StructOfLive DEF StatementStruct
      <4>3. t \in LiveTokens(slots)
        BY <2>2, <4>2 DEF LiveTokens
      <4>4. t \notin dead
        BY <1>2, <2>2, <3>5, TableIs DEF Live, Memory, DeadStayDead
      <4>. QED  BY <3>5, <4>1, <4>3, <4>4, TableIs DEF Usable
    <3>. QED  BY <2>2, <3>2, <3>3, <3>4, <3>5 DEF RowDescriptor
  <2>. QED  BY <2>1, <2>2 DEF Reached
<1>4. slots[t[1]].addr \in Addr /\ t \in Token
  BY <1>2, <1>3, TableIs, StructOfLive DEF LiveTokens
<1>. QED  BY <1>1, <1>3, <1>4

\* Another group: the handle t lives on, and its slot is as it was.
LEMMA OtherGroupLives ==
  ASSUME NEW U, NEW gone, NEW h, Touches(U, gone, h),
         NEW t \in LiveTokens(slots), slots[t[1]].group # slots[h[1]].group
  PROVE  t \notin gone /\ t \in LiveTokens(U.slots) /\ U.slots[t[1]] = slots[t[1]]
BY DEF Touches

LEMMA ChildrenKept ==
  ASSUME IInv, NEW U, NEW gone, NEW h, Touches(U, gone, h),
         NEW g \in LiveTokens(slots), slots[g[1]].group # slots[h[1]].group,
         NEW t \in LiveTokens(U.slots), U.slots[t[1]].parent = g
  PROVE  t \in LiveTokens(slots) /\ slots[t[1]].parent = g
<1>1. Sound(U) /\ gone \subseteq U.dead
  BY DEF Touches
<1>2. t \notin gone
  BY <1>1, UsedFacts
<1>3. t \in LiveTokens(slots)
  BY DEF Touches
<1>. QED  BY <1>2, <1>3 DEF Touches

LEMMA AllowedKept ==
  ASSUME IInv, NEW U, NEW gone, NEW h, Touches(U, gone, h), Becomes(U),
         NEW op \in Ops, NEW g \in Token, Allowed(op, g),
         slots[g[1]].group # slots[h[1]].group
  PROVE  Allowed(op, g)'
<1>1. IInv' /\ Table' = U /\ slots' = U.slots
  BY BecomesSound DEF Becomes, Touches
<1>2. /\ g \in LiveTokens(slots) /\ g \in LiveTokens(slots')
      /\ slots'[g[1]] = slots[g[1]] /\ g \notin gone
  BY <1>1, AllowedIsLive, OtherGroupLives
<1>3. ASSUME NEW kind, LiveAs(slots, g, kind)  PROVE LiveAs(slots', g, kind)
  BY <1>2, <1>3 DEF LiveAs, LiveTokens
<1>4. Memory(Table) /\ Memory(U) /\ Sound(Table)
  BY <1>1 DEF IInv, Sound, Touches
<1>5. ASSUME ChildrenOf(slots, g) = {}  PROVE ChildrenOf(slots', g) = {}
  <2>1. ChildrenOf(slots, g) = {c \in LiveTokens(slots) : slots[c[1]].parent = g}
    BY <1>4, TableIs, ChildrenAre
  <2>2. ChildrenOf(U.slots, g) = {c \in LiveTokens(U.slots) : U.slots[c[1]].parent = g}
    BY <1>4, ChildrenAre
  <2>. QED  BY <1>1, <1>2, <1>5, <2>1, <2>2, ChildrenKept
<1>6. LiveAs(slots, g, "Dbc") => At(Table', g) = At(Table, g)
  BY <1>1, <1>2 DEF Touches, LiveAs
<1>7. FreeDescriptorAllowed(g) => FreeDescriptorAllowed(g)'
  <2> DEFINE p == slots[g[1]].parent
  <2>1. SUFFICES ASSUME FreeDescriptorAllowed(g)  PROVE FreeDescriptorAllowed(g)'
    OBVIOUS
  <2>2. ParentKindOf(Table.slots, g, "Desc") = "Dbc"
    BY <2>1, TableIs DEF FreeDescriptorAllowed
  <2>3. LiveAs(slots, g, "Desc") /\ Live(slots, p) /\ slots[p[1]].kind = "Dbc"
    BY <2>2, TableIs, NullAssumption DEF ParentKindOf, ParentOf, Kinds
  <2>4. p \in LiveTokens(slots) /\ slots[p[1]].group = slots[g[1]].group /\ p # None
    BY <1>2, <1>4, <2>3, TableIs, ParentFacts DEF LiveAs
  <2>5. p \in LiveTokens(slots') /\ slots'[p[1]] = slots[p[1]]
    BY <1>1, <2>4, OtherGroupLives
  <2>6. LiveAs(slots', g, "Desc") /\ Live(slots', p)
    BY <1>3, <2>3, <2>5 DEF LiveTokens
  <2>7. ParentOf(slots', g, "Desc") = p
    BY <1>2, <2>6 DEF ParentOf
  <2>8. ParentKindOf(slots', g, "Desc") = "Dbc"
    BY <2>3, <2>4, <2>5, <2>7 DEF ParentKindOf
  <2>. QED  BY <2>8 DEF FreeDescriptorAllowed
<1>8. /\ AllocConnectionAllowed(g) => AllocConnectionAllowed(g)'
      /\ AllocStatementAllowed(g) => AllocStatementAllowed(g)'
      /\ AllocDescriptorAllowed(g) => AllocDescriptorAllowed(g)'
      /\ FreeEnvironmentAllowed(g) => FreeEnvironmentAllowed(g)'
      /\ FreeConnectionAllowed(g) => FreeConnectionAllowed(g)'
      /\ FreeStatementAllowed(g) => FreeStatementAllowed(g)'
      /\ DisconnectAllowed(g) => DisconnectAllowed(g)'
  BY <1>3, <1>5, <1>6 DEF AllocConnectionAllowed, AllocStatementAllowed,
     AllocDescriptorAllowed, FreeEnvironmentAllowed, FreeConnectionAllowed,
     FreeStatementAllowed, DisconnectAllowed
<1>9. /\ Allowed("AllocConnection", g)' <=> AllocConnectionAllowed(g)'
      /\ Allowed("AllocStatement", g)' <=> AllocStatementAllowed(g)'
      /\ Allowed("AllocDescriptor", g)' <=> AllocDescriptorAllowed(g)'
      /\ Allowed("FreeEnvironment", g)' <=> FreeEnvironmentAllowed(g)'
      /\ Allowed("FreeConnection", g)' <=> FreeConnectionAllowed(g)'
      /\ Allowed("FreeStatement", g)' <=> FreeStatementAllowed(g)'
      /\ Allowed("FreeDescriptor", g)' <=> FreeDescriptorAllowed(g)'
      /\ Allowed("Disconnect", g)' <=> DisconnectAllowed(g)'
      /\ Allowed("Execute", g)' <=> LiveAs(slots', g, "Stmt")
      /\ Allowed("Cancel", g)' <=> LiveAs(slots', g, "Stmt")
      /\ Allowed("CopyDesc", g)' <=> LiveAs(slots', g, "Desc")
      /\ Allowed("EndTranEnvironment", g)' <=> LiveAs(slots', g, "Env")
  BY DEF Allowed, OpKind
<1>10. op \in DOMAIN OpKind
  BY CallsAssumption
<1>11. CASE op \in {"AllocConnection", "AllocStatement", "AllocDescriptor"}
  BY <1>8, <1>9, <1>11, AllowedMeans
<1>12. CASE op \in {"FreeEnvironment", "FreeConnection", "FreeStatement", "Disconnect"}
  BY <1>8, <1>9, <1>12, AllowedMeans
<1>13. CASE op = "FreeDescriptor"
  BY <1>7, <1>9, <1>13, AllowedMeans
<1>14. CASE op \in {"Execute", "Cancel", "CopyDesc", "EndTranEnvironment"}
  BY <1>3, <1>9, <1>14, AllowedMeans
<1>. QED  BY <1>10, <1>11, <1>12, <1>13, <1>14, OpsAre

-----------------------------------------------------------------------------
(***************************************************************************)
(* One thread steps.  A quiet step leaves the handles alone: it is enough  *)
(* that the record the thread moves to fits, and that it takes no lock     *)
(* from another thread.                                                    *)
(***************************************************************************)
LEMMA AllowedUnchanged ==
  ASSUME UNCHANGED table, NEW op, NEW g
  PROVE  Allowed(op, g)' <=> Allowed(op, g)
<1>1. slots' = slots /\ heap' = heap /\ Table' = Table
  BY DEF table, Table
<1>. HIDE DEF Table
<1>. QED  BY <1>1 DEF Allowed, AllocConnectionAllowed, AllocStatementAllowed,
     AllocDescriptorAllowed, FreeEnvironmentAllowed, FreeConnectionAllowed,
     FreeStatementAllowed, FreeDescriptorAllowed, DisconnectAllowed

LEMMA FitsAfterQuiet ==
  ASSUME UNCHANGED table, NEW o, NEW c, call'[o] = c,
         Entered(c), Holds(holder', o, c), Protects(c), Ready(c), Walking(c)
  PROVE  Fits(o)'
<1>1. slots' = slots /\ heap' = heap /\ dead' = dead
  BY DEF table
<1>2. Entered(call[o])'
  BY <1>1 DEF Entered
<1>3. Holds(holder, o, call[o])'
  BY DEF Holds
<1>4. Protects(call[o])'
  BY <1>1 DEF Protects
<1>5. Ready(call[o])'
  BY AllowedUnchanged DEF Ready
<1>6. Walking(call[o])'
  BY <1>1 DEF Walking, Pending
<1>. QED  BY <1>2, <1>3, <1>4, <1>5, <1>6 DEF Fits

LEMMA HoldsKept ==
  ASSUME NEW o \in Thread, NEW c, NEW H, NEW G,
         c.at \in Locked => c.group \in Token, Holds(H, o, c),
         \A g \in Token : H[g] = o => G[g] = o
  PROVE  Holds(G, o, c)
BY DEF Holds, Locked, Walks

LEMMA QuietStep ==
  ASSUME CallsInv, NEW th \in Thread, UNCHANGED table, calls' \in 0 .. MaxCalls,
         NEW c \in Calls, call' = [call EXCEPT ![th] = c],
         holder' \in [Token -> Thread \cup {None}],
         \A g \in Token : holder[g] \notin {None, th} => holder'[g] = holder[g],
         Entered(c), Holds(holder', th, c), Protects(c), Ready(c), Walking(c)
  PROVE  CallsInv'
<1>1. IInv' = IInv
  <2>1. Table' = Table
    BY DEF table, Table
  <2>. QED  BY <2>1, BecomesSound, TableIs DEF CallsInv, IInv, Becomes, table
<1>2. call' \in [Thread -> Calls] /\ call'[th] = c
      /\ \A o \in Thread : o # th => call'[o] = call[o]
  BY DEF CallsInv
<1>3. ASSUME NEW o \in Thread, o # th  PROVE Fits(o)'
  <2>1. Entered(call[o]) /\ Holds(holder, o, call[o]) /\ Protects(call[o])
        /\ Ready(call[o]) /\ Walking(call[o])
    BY DEF CallsInv, Fits
  <2>2. call[o].at \in Locked => call[o].group \in Token
    BY <2>1 DEF Entered, Inside
  <2>3. \A g \in Token : holder[g] = o => holder'[g] = o
    BY <1>3, CallsAssumption
  <2>4. Holds(holder', o, call[o])
    BY <2>1, <2>2, <2>3, HoldsKept
  <2>. QED  BY <1>2, <1>3, <2>1, <2>4, FitsAfterQuiet
<1>4. Fits(th)'
  BY <1>2, FitsAfterQuiet
<1>. QED  BY <1>1, <1>2, <1>3, <1>4 DEF CallsInv

(***************************************************************************)
(* The body of a call, seen by the other threads: no handle of the groups  *)
(* they hold has gone, moved or been given a child.                        *)
(***************************************************************************)
LEMMA FitsAfterWork ==
  ASSUME IInv, NEW U, NEW gone, NEW h \in LiveTokens(slots), Touches(U, gone, h), Becomes(U),
         NEW th \in Thread, holder[slots[h[1]].group] = th,
         NEW o \in Thread, o # th, NEW c, call'[o] = c,
         Entered(c), Holds(holder, o, c), Holds(holder', o, c),
         Protects(c), Ready(c), Walking(c)
  PROVE  Fits(o)'
<1> DEFINE g == slots[h[1]].group
<1>1. /\ slots' = U.slots /\ dead' = U.dead /\ Sound(U)
      /\ dead \cup gone \subseteq dead'
  BY DEF Becomes, Touches
<1>2. ASSUME NEW t \in LiveTokens(slots), slots[t[1]].group # g
      PROVE  t \in LiveTokens(slots') /\ slots'[t[1]] = slots[t[1]]
  BY <1>1, <1>2, OtherGroupLives
<1>3. c.at \in Locked => c.group # g
  BY DEF Holds
<1>4. c.at = "childwork" => c.child # g
  BY DEF Holds
<1>. HIDE DEF g
<1>5. Entered(call[o])'
  <2>1. SUFFICES ASSUME c.at \in Inside
                 PROVE  /\ c.handle \in LiveTokens(slots') \cup dead'
                        /\ c.handle \in LiveTokens(slots') =>
                             slots'[c.handle[1]].group = c.group
    BY DEF Entered
  <2>2. c.handle \in LiveTokens(slots) \cup dead
        /\ (c.handle \in LiveTokens(slots) => slots[c.handle[1]].group = c.group)
    BY <2>1 DEF Entered
  <2>3. CASE c.handle \in dead
    <3>1. c.handle \in U.dead /\ c.handle \notin LiveTokens(U.slots)
      BY <1>1, <2>3, UsedFacts
    <3>. QED  BY <1>1, <3>1
  <2>4. CASE c.handle \in gone
    <3>1. c.handle \in U.dead /\ c.handle \notin LiveTokens(U.slots)
      BY <1>1, <2>4, UsedFacts
    <3>. QED  BY <1>1, <3>1
  <2>5. CASE c.handle \in LiveTokens(slots) \ gone
    <3>1. c.handle \in LiveTokens(slots') /\ slots'[c.handle[1]] = slots[c.handle[1]]
      BY <1>1, <2>5 DEF Touches
    <3>. QED  BY <2>2, <2>5, <3>1
  <2>. QED  BY <2>2, <2>3, <2>4, <2>5
<1>6. Holds(holder, o, call[o])'
  BY DEF Holds
<1>7. Protects(call[o])'
  <2>1. SUFFICES ASSUME NEW r \in c.refs
                 PROVE  /\ r[1] \in LiveTokens(slots')
                        /\ slots'[r[1][1]] = slots[r[1][1]]
    BY DEF Protects
  <2>2. /\ c.at \in Locked /\ r[1] \in LiveTokens(slots)
        /\ \/ slots[r[1][1]].group = c.group
           \/ c.at = "childwork" /\ slots[r[1][1]].group = c.child
    BY <2>1 DEF Protects, Locked
  <2>. QED  BY <1>2, <1>3, <1>4, <2>2
<1>8. Ready(call[o])'
  <2>1. SUFFICES ASSUME c.at = "work"  PROVE Allowed(c.op, c.handle)'
    BY DEF Ready
  <2>2. /\ Allowed(c.op, c.handle) /\ c.op \in Ops /\ c.group # g
        /\ c.handle \in LiveTokens(slots) \cup dead
        /\ c.handle \in LiveTokens(slots) => slots[c.handle[1]].group = c.group
    BY <1>3, <2>1 DEF Ready, Entered, Inside, Locked
  <2>3. c.handle \in Token
    BY <2>2 DEF LiveTokens, IInv, Sound, Memory, Tables, Table
  <2>4. c.handle \in LiveTokens(slots)
    BY <2>2, <2>3, AllowedIsLive
  <2>. QED  BY <2>2, <2>3, <2>4, AllowedKept DEF g
<1>9. Walking(call[o])'
  <2>1. SUFFICES ASSUME c.at \in Walks
                 PROVE  /\ c.handle \in LiveTokens(slots')
                        /\ slots'[c.handle[1]] = slots[c.handle[1]]
                        /\ \A t \in LiveTokens(slots') : slots'[t[1]].parent = c.handle =>
                             t \in LiveTokens(slots) /\ slots[t[1]].parent = c.handle
    BY DEF Walking, Pending
  <2>2. c.handle \in LiveTokens(slots) /\ slots[c.handle[1]].group = c.group /\ c.group # g
    BY <1>3, <2>1 DEF Walking, Entered, Inside, Locked
  <2>3. \A t \in LiveTokens(U.slots) : U.slots[t[1]].parent = c.handle =>
          t \in LiveTokens(slots) /\ slots[t[1]].parent = c.handle
    BY <2>2, ChildrenKept DEF g
  <2>. QED  BY <1>1, <1>2, <2>2, <2>3
<1>. QED  BY <1>5, <1>6, <1>7, <1>8, <1>9 DEF Fits

\* A thread between calls, or between the two phases of SQLCopyDesc.
Resting(c) ==
  /\ c \in Calls
  /\ c.at \notin Inside
  /\ c.at = "second" => /\ c.handle \in Token /\ c.op = "CopyDesc"
                        /\ "CopyDesc" \in Ops
  /\ c.other = None
  /\ c.refs = {}

AfterCall(th) ==
  IF call[th].other = None THEN Idle
  ELSE [Idle EXCEPT !.at = "second", !.op = "CopyDesc", !.handle = call[th].other]

LEMMA CallIsRecord ==
  ASSUME NEW c \in Calls
  PROVE  c = [at |-> c.at, op |-> c.op, handle |-> c.handle, group |-> c.group,
              refs |-> c.refs, other |-> c.other, child |-> c.child, todo |-> c.todo,
              attempted |-> c.attempted]
BY DEF Calls

LEMMA IdleIsResting == Resting(Idle)
<1>1. Idle \in Calls
  BY DEF Idle, Calls, Stages
<1>. QED  BY <1>1 DEF Idle, Resting, Inside, Locked, Walks

LEMMA AfterCallIsResting ==
  ASSUME CallsInv, NEW th \in Thread
  PROVE  Resting(AfterCall(th))
<1>1. CASE call[th].other = None
  BY <1>1, IdleIsResting DEF AfterCall
<1>2. CASE call[th].other # None
  <2> DEFINE c == [Idle EXCEPT !.at = "second", !.op = "CopyDesc", !.handle = call[th].other]
  <2>1. call[th].other \in Token /\ "CopyDesc" \in Ops
    BY <1>2 DEF CallsInv, Fits, Entered, Calls
  <2>2. /\ c \in Calls /\ c.at = "second" /\ c.handle = call[th].other
        /\ c.op = "CopyDesc"
        /\ c.other = None /\ c.refs = {}
    BY <2>1 DEF Idle, Calls, Stages
  <2>. HIDE DEF c
  <2>3. Resting(c)
    BY <2>1, <2>2 DEF Resting, Inside, Locked, Walks
  <2>. QED  BY <1>2, <2>3 DEF AfterCall, c
<1>. QED  BY <1>1, <1>2

LEMMA RestingFits ==
  ASSUME NEW c, Resting(c), NEW th, NEW H
  PROVE  Entered(c) /\ Holds(H, th, c) /\ Protects(c) /\ Ready(c) /\ Walking(c)
<1>1. c.at \notin Walks \cup {"work", "childwork", "childlock"} /\ c.at \notin Locked
  BY DEF Resting, Inside, Locked, Walks
<1>. QED  BY <1>1 DEF Resting, Entered, Holds, Protects, Ready, Walking

LEMMA RestingFitsAfter ==
  ASSUME NEW th, Resting(call'[th])
  PROVE  Fits(th)'
<1> DEFINE c == call'[th]
<1>1. c.at \notin Walks \cup {"work", "childwork", "childlock"} /\ c.at \notin Locked
  BY DEF Resting, Inside, Locked, Walks
<1>2. c.at \notin Inside /\ c.refs = {} /\ c.other = None
      /\ (c.at = "second" => /\ c.handle \in Token /\ c.op = "CopyDesc"
                             /\ "CopyDesc" \in Ops)
  BY DEF Resting
<1>. QED  BY <1>1, <1>2 DEF Fits, Entered, Holds, Protects, Ready, Walking

-----------------------------------------------------------------------------
(***************************************************************************)
(* The steps of a call.                                                    *)
(***************************************************************************)
LEMMA ThreadFacts ==
  ASSUME CallsInv, NEW th \in Thread
  PROVE  /\ IInv /\ Sound(Table) /\ Table.slots = slots
         /\ call[th] \in Calls /\ calls \in 0 .. MaxCalls
         /\ holder \in [Token -> Thread \cup {None}]
         /\ Entered(call[th]) /\ Holds(holder, th, call[th])
         /\ Protects(call[th]) /\ Ready(call[th]) /\ Walking(call[th])
         /\ call[th].at \in Locked =>
              call[th].group \in Token /\ holder[call[th].group] = th
         /\ LiveTokens(slots) \subseteq Token /\ dead \subseteq Token
BY TableIs DEF CallsInv, Fits, IInv, Entered, Inside, Holds, LiveTokens, Sound, Memory, Tables

LEMMA EnterKeeps ==
  ASSUME CallsInv, NEW th \in Thread, NEW op \in Ops, NEW h \in Token, Enter(th, op, h)
  PROVE  CallsInv'
<1>1. PICK other \in IF op = "CopyDesc"
                     THEN {d \in Token : LiveAs(slots, d, "Desc")} ELSE {None} :
        Proceed(th, [Idle EXCEPT !.at = IF op = "Cancel" THEN "try" ELSE "lock",
                                 !.op = op, !.handle = h, !.other = other,
                                 !.group = GroupOf(slots, h)])
  BY Zenon DEF Enter
<1> DEFINE c == [Idle EXCEPT !.at = IF op = "Cancel" THEN "try" ELSE "lock",
                             !.op = op, !.handle = h, !.other = other,
                             !.group = GroupOf(slots, h)]
<1>2. /\ h \in LiveTokens(slots) /\ Sound(Table) /\ UNCHANGED <<table, holder>>
      /\ calls < MaxCalls /\ calls' = calls + 1 /\ calls \in 0 .. MaxCalls
      /\ holder \in [Token -> Thread \cup {None}]
  BY LiveHandle, ThreadFacts DEF Enter, CallsInv
<1>3. GroupOf(slots, h) = slots[h[1]].group /\ slots[h[1]].group \in Token
  BY <1>2, TableIs, GroupFacts DEF GroupOf, LiveTokens
<1>4. other \in Token \cup {None} /\ (other # None => "CopyDesc" \in Ops)
  BY <1>1
<1>5. /\ c \in Calls /\ c.at \in {"try", "lock"} /\ c.op = op /\ c.handle = h
      /\ c.other = other /\ c.group = GroupOf(slots, h) /\ c.refs = {}
  BY <1>3, <1>4 DEF Idle, Calls, Stages
<1>6. call' = [call EXCEPT ![th] = c]
  BY <1>1 DEF Proceed
<1>. HIDE DEF c
<1>7. Entered(c) /\ Protects(c)
  BY <1>2, <1>3, <1>4, <1>5 DEF Entered, Protects
<1>8. Holds(holder', th, c) /\ Ready(c) /\ Walking(c)
  BY <1>5 DEF Holds, Ready, Walking, Locked, Walks
<1>9. UNCHANGED table /\ holder' = holder /\ calls' \in 0 .. MaxCalls
  BY <1>2, CallsAssumption
<1>. QED  BY <1>2, <1>5, <1>6, <1>7, <1>8, <1>9, QuietStep

LEMMA AcquireKeeps ==
  ASSUME CallsInv, NEW th \in Thread, NEW g \in Token, Acquire(th, g)
  PROVE  /\ holder' \in [Token -> Thread \cup {None}]
         /\ holder[g] = None /\ holder'[g] = th
         /\ \A k \in Token : k # g => holder'[k] = holder[k]
         /\ \A k \in Token : holder[k] \notin {None, th} => holder'[k] = holder[k]
BY ThreadFacts DEF Acquire

LEMMA ReleaseKeeps ==
  ASSUME CallsInv, NEW th \in Thread, NEW g \in Token, holder[g] = th, Release(g)
  PROVE  /\ holder' \in [Token -> Thread \cup {None}]
         /\ \A k \in Token : k # g => holder'[k] = holder[k]
         /\ \A k \in Token : holder[k] \notin {None, th} => holder'[k] = holder[k]
BY ThreadFacts DEF Release

\* The lock of the group the call read is taken.
LEMMA LockedFits ==
  ASSUME CallsInv, NEW th \in Thread, call[th].at \in {"lock", "try"},
         NEW H, H[call[th].group] = th
  PROVE  LET c == [call[th] EXCEPT !.at = "check"] IN
         c \in Calls /\ Entered(c) /\ Holds(H, th, c) /\ Protects(c) /\ Ready(c) /\ Walking(c)
<1> DEFINE d == call[th]
           c == [d EXCEPT !.at = "check"]
<1>1. /\ d \in Calls /\ d.at \in {"lock", "try"} /\ Entered(d) /\ Protects(d)
  BY ThreadFacts
<1>. HIDE DEF d
<1>2. /\ c \in Calls /\ c.at = "check" /\ c.op = d.op /\ c.handle = d.handle
      /\ c.group = d.group /\ c.other = d.other /\ c.refs = d.refs
  BY <1>1 DEF Calls, Stages
<1>. HIDE DEF c
<1>3. Entered(c)
  BY <1>1, <1>2 DEF Entered, Inside, Locked
<1>4. Holds(H, th, c)
  BY <1>2 DEF Holds, d
<1>5. Protects(c)
  BY <1>1, <1>2 DEF Protects, Walks
<1>6. Ready(c) /\ Walking(c)
  BY <1>2 DEF Ready, Walking, Walks
<1>. QED  BY <1>2, <1>3, <1>4, <1>5, <1>6 DEF c, d

LEMMA LockKeeps ==
  ASSUME CallsInv, NEW th \in Thread, Lock(th)
  PROVE  CallsInv'
<1> DEFINE c == [call[th] EXCEPT !.at = "check"]
<1>1. /\ call[th].at = "lock" /\ Acquire(th, call[th].group)
      /\ call' = [call EXCEPT ![th] = c] /\ UNCHANGED <<table, calls>>
  BY DEF Lock, Proceed
<1>2. call[th].group \in Token /\ calls' \in 0 .. MaxCalls
  BY <1>1, ThreadFacts DEF Entered, Inside
<1>3. /\ holder' \in [Token -> Thread \cup {None}] /\ holder'[call[th].group] = th
      /\ \A k \in Token : holder[k] \notin {None, th} => holder'[k] = holder[k]
  BY <1>1, <1>2, AcquireKeeps
<1>4. c \in Calls /\ Entered(c) /\ Holds(holder', th, c) /\ Protects(c) /\ Ready(c) /\ Walking(c)
  BY <1>1, <1>3, LockedFits
<1>. HIDE DEF c
<1>. QED  BY <1>1, <1>2, <1>3, <1>4, QuietStep

LEMMA RestingStep ==
  ASSUME CallsInv, NEW th \in Thread, UNCHANGED table, calls' = calls,
         NEW c, Resting(c), call' = [call EXCEPT ![th] = c],
         holder' \in [Token -> Thread \cup {None}],
         \A k \in Token : holder[k] \notin {None, th} => holder'[k] = holder[k]
  PROVE  CallsInv'
<1>1. c \in Calls /\ calls' \in 0 .. MaxCalls
  BY ThreadFacts DEF Resting
<1>2. Entered(c) /\ Holds(holder', th, c) /\ Protects(c) /\ Ready(c) /\ Walking(c)
  BY RestingFits
<1>. QED  BY <1>1, <1>2, QuietStep

LEMMA TryLockKeeps ==
  ASSUME CallsInv, NEW th \in Thread, TryLock(th)
  PROVE  CallsInv'
<1> DEFINE free == holder[call[th].group] = None
<1>1. /\ call[th].at = "try" /\ UNCHANGED <<table, calls>>
      /\ holder' = IF free THEN [holder EXCEPT ![call[th].group] = th] ELSE holder
      /\ call' = [call EXCEPT ![th] = [call[th] EXCEPT !.at = IF free THEN "check" ELSE "signal"]]
  BY DEF TryLock, Proceed
<1>2. /\ call[th].group \in Token /\ calls' \in 0 .. MaxCalls /\ call[th] \in Calls
      /\ holder \in [Token -> Thread \cup {None}]
  BY <1>1, ThreadFacts DEF Entered, Inside
<1>3. CASE free
  <2> DEFINE c == [call[th] EXCEPT !.at = "check"]
  <2>1. Acquire(th, call[th].group)
    BY <1>1, <1>3 DEF Acquire
  <2>2. /\ holder' \in [Token -> Thread \cup {None}] /\ holder'[call[th].group] = th
        /\ \A k \in Token : holder[k] \notin {None, th} => holder'[k] = holder[k]
    BY <1>2, <2>1, AcquireKeeps
  <2>3. c \in Calls /\ Entered(c) /\ Holds(holder', th, c) /\ Protects(c) /\ Ready(c)
        /\ Walking(c)
    BY <1>1, <2>2, LockedFits
  <2>4. call' = [call EXCEPT ![th] = c]
    BY <1>1, <1>3
  <2>. HIDE DEF c, free
  <2>. QED  BY <1>1, <1>2, <2>2, <2>3, <2>4, QuietStep
<1>4. CASE ~free
  <2> DEFINE d == call[th]
             c == [d EXCEPT !.at = "signal"]
  <2>1. call' = [call EXCEPT ![th] = c] /\ holder' = holder
    BY <1>1, <1>4
  <2>2. d \in Calls /\ d.refs = {} /\ Entered(d)
    BY <1>1, ThreadFacts DEF Protects, Walks
  <2>. HIDE DEF d, free
  <2>3. c \in Calls /\ c.at = "signal" /\ c.refs = {} /\ c.other = d.other
    BY <2>2 DEF Calls, Stages
  <2>. HIDE DEF c
  <2>4. Entered(c) /\ Holds(holder', th, c) /\ Protects(c) /\ Ready(c) /\ Walking(c)
    BY <2>2, <2>3 DEF Entered, Holds, Protects, Ready, Walking, Inside, Locked, Walks
  <2>5. UNCHANGED table
    BY <1>1
  <2>. QED  BY <1>2, <2>1, <2>3, <2>4, <2>5, QuietStep
<1>. QED  BY <1>3, <1>4

LEMMA SignalKeeps ==
  ASSUME CallsInv, NEW th \in Thread, Signal(th)
  PROVE  CallsInv'
<1>1. /\ UNCHANGED table /\ calls' = calls /\ holder' = holder
      /\ call' = [call EXCEPT ![th] = Idle]
  BY DEF Signal, Proceed
<1>2. holder' \in [Token -> Thread \cup {None}]
  BY <1>1, ThreadFacts
<1>. QED  BY <1>1, <1>2, IdleIsResting, RestingStep

\* The guard is dropped: a refused call, and a walk that is over.
LEMMA LeaveKeeps ==
  ASSUME CallsInv, NEW th \in Thread, call[th].at \in Locked, Leave(th),
         UNCHANGED <<table, calls>>
  PROVE  CallsInv'
<1>1. Release(call[th].group) /\ call' = [call EXCEPT ![th] = AfterCall(th)]
  BY DEF Leave, Proceed, AfterCall
<1>2. /\ holder' \in [Token -> Thread \cup {None}]
      /\ \A k \in Token : holder[k] \notin {None, th} => holder'[k] = holder[k]
  BY <1>1, ThreadFacts, ReleaseKeeps
<1>3. Resting(AfterCall(th))
  BY AfterCallIsResting
<1>. QED  BY <1>1, <1>2, <1>3, RestingStep

LEMMA RefuseKeeps ==
  ASSUME CallsInv, NEW th \in Thread, Refuse(th)
  PROVE  CallsInv'
BY LeaveKeeps DEF Refuse, Locked

LEMMA EndWalkKeeps ==
  ASSUME CallsInv, NEW th \in Thread, EndWalk(th)
  PROVE  CallsInv'
BY LeaveKeeps DEF EndWalk, Locked, Walks

\* The check passes: the references are taken, under the lock.
LEMMA CheckKeeps ==
  ASSUME CallsInv, NEW th \in Thread, Check(th)
  PROVE  CallsInv'
<1> DEFINE d == call[th]
           h == d.handle
           walk == [d EXCEPT !.at = "walk", !.refs = References(h),
                             !.todo = ChildrenOf(slots, h)]
           work == [d EXCEPT !.at = "work", !.refs = References(h)]
           c == IF d.op = "EndTranEnvironment" THEN walk ELSE work
<1>1. /\ d.at = "check" /\ Allowed(d.op, h) /\ UNCHANGED <<table, holder, calls>>
      /\ call' = [call EXCEPT ![th] = c]
  BY DEF Check, Proceed
<1>2. /\ d \in Calls /\ Entered(d) /\ Holds(holder, th, d) /\ IInv /\ Sound(Table)
      /\ Table.slots = slots /\ holder \in [Token -> Thread \cup {None}]
      /\ LiveTokens(slots) \subseteq Token /\ dead \subseteq Token
      /\ calls \in 0 .. MaxCalls
  BY ThreadFacts
<1>. HIDE DEF d
<1>3. /\ d.op \in Ops /\ h \in LiveTokens(slots) \cup dead /\ d.group \in Token
      /\ h \in LiveTokens(slots) => slots[h[1]].group = d.group
  BY <1>1, <1>2 DEF Entered, Inside, Locked
<1>. HIDE DEF h
<1>4. h \in LiveTokens(slots) /\ slots[h[1]].group = d.group
      /\ (d.op = "EndTranEnvironment" => slots[h[1]].kind = "Env")
  BY <1>1, <1>2, <1>3, AllowedIsLive
<1>5. \A r \in References(h) :
        /\ r \in Token \X Addr
        /\ r[1] \in LiveTokens(slots) /\ slots[r[1][1]].addr = r[2]
        /\ slots[r[1][1]].group = d.group
  BY <1>2, <1>4, ReachedProtected
<1>6. ChildrenOf(slots, h) = {t \in LiveTokens(slots) : slots[t[1]].parent = h}
  BY <1>2, ChildrenAre DEF Sound
<1>7. /\ c \in Calls /\ c.refs = References(h) /\ c.op = d.op /\ c.handle = d.handle
      /\ c.group = d.group /\ c.other = d.other
      /\ \/ c.at = "work"
         \/ c.at = "walk" /\ d.op = "EndTranEnvironment" /\ c.todo = ChildrenOf(slots, h)
  <2>1. References(h) \in SUBSET (Token \X Addr) /\ ChildrenOf(slots, h) \in SUBSET Token
    BY <1>2, <1>5, <1>6
  <2>2. /\ walk \in Calls /\ walk.refs = References(h) /\ walk.op = d.op
        /\ walk.handle = d.handle /\ walk.group = d.group /\ walk.other = d.other
        /\ walk.at = "walk" /\ walk.todo = ChildrenOf(slots, h)
    BY <1>2, <2>1 DEF Calls, Stages
  <2>3. /\ work \in Calls /\ work.refs = References(h) /\ work.op = d.op
        /\ work.handle = d.handle /\ work.group = d.group /\ work.other = d.other
        /\ work.at = "work"
    BY <1>2, <2>1 DEF Calls, Stages
  <2>. HIDE DEF walk, work
  <2>. QED  BY <2>2, <2>3
<1>. HIDE DEF c
<1>8. Entered(c)
  BY <1>2, <1>3, <1>4, <1>7 DEF Entered, h
<1>9. Holds(holder', th, c)
  BY <1>1, <1>2, <1>7 DEF Holds, Locked
<1>10. Protects(c)
  BY <1>5, <1>7 DEF Protects, Walks
<1>11. Ready(c)
  BY <1>1, <1>7 DEF Ready, h
<1>12. Walking(c)
  BY <1>4, <1>6, <1>7 DEF Walking, Pending, h, Walks
<1>13. UNCHANGED table /\ holder' = holder /\ calls' \in 0 .. MaxCalls
  BY <1>1, <1>2
<1>. QED  BY <1>1, <1>2, <1>7, <1>8, <1>9, <1>10, <1>11, <1>12, <1>13, QuietStep

\* The one step that changes the handles.
LEMMA WorkKeeps ==
  ASSUME CallsInv, NEW th \in Thread, Work(th)
  PROVE  CallsInv'
<1> DEFINE h == call[th].handle
           op == call[th].op
           U == Result(op, h)
<1>1. /\ call[th].at = "work" /\ Becomes(U) /\ Release(call[th].group)
      /\ call' = [call EXCEPT ![th] = AfterCall(th)] /\ calls' = calls
  BY DEF Work, Leave, Proceed, AfterCall
<1>2. /\ IInv /\ Entered(call[th]) /\ Ready(call[th]) /\ calls \in 0 .. MaxCalls
      /\ call[th].group \in Token /\ holder[call[th].group] = th
      /\ LiveTokens(slots) \subseteq Token /\ dead \subseteq Token
  BY <1>1, ThreadFacts DEF Locked
<1>3. op \in Ops /\ h \in Token /\ Allowed(op, h)
      /\ (h \in LiveTokens(slots) => slots[h[1]].group = call[th].group)
  BY <1>1, <1>2 DEF Entered, Ready, Inside, Locked
<1>4. PICK gone : Touches(U, gone, h)
  BY <1>2, <1>3, BodyTouches
<1>5. h \in LiveTokens(slots) /\ holder[slots[h[1]].group] = th
  BY <1>2, <1>3, AllowedIsLive
<1>. HIDE DEF U, h, op
<1>6. IInv'
  BY <1>1, <1>4, BecomesSound DEF Touches
<1>7. /\ holder' \in [Token -> Thread \cup {None}]
      /\ \A k \in Token : holder[k] \notin {None, th} => holder'[k] = holder[k]
  BY <1>1, <1>2, ReleaseKeeps
<1>8. Resting(AfterCall(th))
  BY AfterCallIsResting
<1>9. /\ call' \in [Thread -> Calls] /\ call'[th] = AfterCall(th)
      /\ \A o \in Thread : o # th => call'[o] = call[o]
  BY <1>1, <1>8 DEF CallsInv, Resting
<1>10. Fits(th)'
  BY <1>8, <1>9, RestingFitsAfter
<1>11. ASSUME NEW o \in Thread, o # th  PROVE Fits(o)'
  <2>1. /\ Entered(call[o]) /\ Holds(holder, o, call[o]) /\ Protects(call[o])
        /\ Ready(call[o]) /\ Walking(call[o])
        /\ call[o].at \in Locked => call[o].group \in Token
    BY ThreadFacts
  <2>2. \A k \in Token : holder[k] = o => holder'[k] = o
    BY <1>7, <1>11, CallsAssumption
  <2>3. Holds(holder', o, call[o])
    BY <2>1, <2>2, HoldsKept
  <2>4. call'[o] = call[o]
    BY <1>9, <1>11
  <2>. QED  BY <1>1, <1>2, <1>4, <1>5, <1>11, <2>1, <2>3, <2>4, FitsAfterWork
<1>12. calls' \in 0 .. MaxCalls
  BY <1>1, <1>2
<1>. QED  BY <1>6, <1>7, <1>9, <1>10, <1>11, <1>12 DEF CallsInv

LEMMA SecondPhaseKeeps ==
  ASSUME CallsInv, NEW th \in Thread, SecondPhase(th)
  PROVE  CallsInv'
<1> DEFINE d == call[th]
           g == GroupOf(slots, d.handle)
           lock == [d EXCEPT !.at = "lock", !.group = g]
<1>1. /\ d.at = "second" /\ UNCHANGED <<table, holder, calls>>
      /\ call' = [call EXCEPT ![th] = IF g = None THEN Idle ELSE lock]
  BY DEF SecondPhase, Proceed
<1>2. /\ d \in Calls /\ Entered(d) /\ Protects(d) /\ IInv /\ Sound(Table)
      /\ Table.slots = slots /\ holder \in [Token -> Thread \cup {None}]
      /\ calls \in 0 .. MaxCalls
  BY ThreadFacts
<1>3. UNCHANGED table /\ holder' = holder /\ calls' = calls
  BY <1>1
<1>4. CASE g = None
  BY <1>1, <1>2, <1>3, <1>4, IdleIsResting, RestingStep
<1>5. CASE g # None
  <2>. HIDE DEF d
  <2>1. d.handle \in Token /\ d.refs = {} /\ d.op = "CopyDesc" /\ "CopyDesc" \in Ops
    BY <1>1, <1>2 DEF Entered, Protects, Walks
  <2>2. d.handle \in LiveTokens(slots) /\ g = slots[d.handle[1]].group
    BY <1>5, <2>1 DEF GroupOf, LiveTokens
  <2>3. g \in Token
    BY <1>2, <2>2, GroupFacts
  <2>. HIDE DEF g
  <2>4. /\ lock \in Calls /\ lock.at = "lock" /\ lock.group = g /\ lock.op = d.op
        /\ lock.handle = d.handle /\ lock.refs = {} /\ lock.other = d.other
    BY <1>2, <2>1, <2>3 DEF Calls, Stages
  <2>5. call' = [call EXCEPT ![th] = lock]
    BY <1>1, <1>5
  <2>. HIDE DEF lock
  <2>6. Entered(lock)
    BY <2>1, <2>2, <2>3, <2>4 DEF Entered
  <2>7. Holds(holder', th, lock) /\ Protects(lock) /\ Ready(lock) /\ Walking(lock)
    BY <2>4 DEF Holds, Protects, Ready, Walking, Locked, Walks
  <2>. QED  BY <1>2, <1>3, <2>4, <2>5, <2>6, <2>7, QuietStep
<1>. QED  BY <1>4, <1>5

-----------------------------------------------------------------------------
(***************************************************************************)
(* SQLEndTran's walk.                                                      *)
(***************************************************************************)
LEMMA FirstOfIsMember ==
  ASSUME NEW tokens \in SUBSET Token, tokens # {}
  PROVE  FirstOf(tokens) \in tokens
<1> DEFINE indexes == {t[1] : t \in tokens}
<1>1. indexes \subseteq Nat /\ indexes # {}
  BY SlotsAssumption DEF Token, Index
<1>2. PICK i \in indexes : \A j \in indexes : i <= j
  BY <1>1, LeastElement
<1>3. \E t \in tokens : \A u \in tokens : t[1] <= u[1]
  BY <1>2
<1>. QED  BY <1>3 DEF FirstOf

LEMMA NextConnectionKeeps ==
  ASSUME CallsInv, NEW th \in Thread, NextConnection(th)
  PROVE  CallsInv'
<1> DEFINE d == call[th]
           f == FirstOf(d.todo)
           rest == d.todo \ {f}
           over == [d EXCEPT !.todo = rest]
           lock == [d EXCEPT !.todo = rest, !.at = "childlock", !.child = f]
           c == IF GroupOf(slots, f) = None THEN over ELSE lock
<1>1. /\ d.at = "walk" /\ d.todo # {} /\ UNCHANGED <<table, holder, calls>>
      /\ call' = [call EXCEPT ![th] = c]
  BY DEF NextConnection, Proceed
<1>2. /\ d \in Calls /\ Entered(d) /\ Holds(holder, th, d) /\ Protects(d) /\ Walking(d)
      /\ Sound(Table) /\ Table.slots = slots
      /\ holder \in [Token -> Thread \cup {None}] /\ calls \in 0 .. MaxCalls
  BY ThreadFacts
<1>. HIDE DEF d
<1>3. f \in d.todo /\ d.todo \in SUBSET Token
  BY <1>1, <1>2, FirstOfIsMember DEF Calls
<1>. HIDE DEF f
<1>4. GroupOf(slots, f) = None => f \notin LiveTokens(slots)
  <2>1. None \notin Token
    BY SlotsAssumption DEF Token, Index
  <2>. QED  BY <1>2, <2>1, GroupFacts DEF GroupOf, LiveTokens
<1>5. /\ c \in Calls /\ c.refs = d.refs /\ c.op = d.op /\ c.handle = d.handle
      /\ c.group = d.group /\ c.other = d.other /\ c.todo = rest /\ c.attempted = d.attempted
      /\ \/ c.at = "walk" /\ f \notin LiveTokens(slots)
         \/ c.at = "childlock" /\ c.child = f
  <2>1. /\ over \in Calls /\ over.refs = d.refs /\ over.op = d.op /\ over.handle = d.handle
        /\ over.group = d.group /\ over.other = d.other /\ over.todo = rest
        /\ over.at = d.at /\ over.attempted = d.attempted
    BY <1>2, <1>3 DEF Calls, Stages
  <2>2. /\ lock \in Calls /\ lock.refs = d.refs /\ lock.op = d.op /\ lock.handle = d.handle
        /\ lock.group = d.group /\ lock.other = d.other /\ lock.todo = rest
        /\ lock.at = "childlock" /\ lock.child = f /\ lock.attempted = d.attempted
    BY <1>2, <1>3 DEF Calls, Stages
  <2>. HIDE DEF over, lock
  <2>. QED  BY <1>1, <1>4, <2>1, <2>2
<1>. HIDE DEF c
<1>6. Entered(c)
  BY <1>1, <1>2, <1>5 DEF Entered, Inside, Locked, Walks
<1>7. Holds(holder', th, c)
  BY <1>1, <1>2, <1>3, <1>5 DEF Holds, Locked, Walks
<1>8. Protects(c)
  BY <1>1, <1>2, <1>5 DEF Protects, Walks
<1>9. Ready(c)
  BY <1>5 DEF Ready
<1>10. Walking(c)
  BY <1>1, <1>2, <1>3, <1>5 DEF Walking, Pending, Walks
<1>11. UNCHANGED table /\ holder' = holder /\ calls' \in 0 .. MaxCalls
  BY <1>1, <1>2
<1>. QED  BY <1>1, <1>2, <1>5, <1>6, <1>7, <1>8, <1>9, <1>10, <1>11, QuietStep

\* What end_tran_on_connection reaches is in the connection's group.
LEMMA EndTranProtected ==
  ASSUME IInv, NEW conn \in Token, NEW t \in EndTranReaches(conn), NEW r \in References(t)
  PROVE  /\ r \in Token \X Addr
         /\ r[1] \in LiveTokens(slots) /\ slots[r[1][1]].addr = r[2]
         /\ slots[r[1][1]].group = conn
<1>1. Sound(Table) /\ Memory(Table) /\ LiveAs(slots, conn, "Dbc")
  BY DEF IInv, Sound, EndTranReaches
<1>2. conn \in LiveTokens(slots) /\ slots[conn[1]].kind = "Dbc"
  BY <1>1, LiveHandle
<1>3. ChildrenAs(Table, conn, "Stmt") = ChildrenWith(Table, conn, "Stmt")
  BY <1>1, ChildrenAsAre
<1>4. t \in LiveTokens(slots) /\ slots[t[1]].group = conn
  <2>1. CASE t = conn
    BY <1>1, <1>2, <2>1, TableIs, ConnectionFacts
  <2>2. CASE t \in ChildrenWith(Table, conn, "Stmt")
    <3>1. t \in LiveTokens(slots) /\ slots[t[1]].parent = conn /\ slots[t[1]].kind = "Stmt"
      BY <2>2, TableIs DEF ChildrenWith
    <3>. QED  BY <1>1, <3>1, TableIs, StatementFacts
  <2>. QED  BY <1>3, <2>1, <2>2 DEF EndTranReaches
<1>. QED  BY <1>4, ReachedProtected

LEMMA LockChildKeeps ==
  ASSUME CallsInv, NEW th \in Thread, LockChild(th)
  PROVE  CallsInv'
<1> DEFINE d == call[th]
           new == UNION {References(t) : t \in EndTranReaches(d.child)}
           c == [d EXCEPT !.at = "childwork", !.refs = d.refs \cup new]
<1>1. /\ d.at = "childlock" /\ Acquire(th, d.child) /\ UNCHANGED <<table, calls>>
      /\ call' = [call EXCEPT ![th] = c]
  BY DEF LockChild, Proceed
<1>2. /\ d \in Calls /\ Entered(d) /\ Holds(holder, th, d) /\ Protects(d) /\ Walking(d)
      /\ IInv /\ calls \in 0 .. MaxCalls
      /\ d.at \in Locked => d.group \in Token /\ holder[d.group] = th
  BY ThreadFacts
<1>. HIDE DEF d
<1>3. d.child \in Token /\ d.group \in Token /\ holder[d.group] = th
  BY <1>1, <1>2 DEF Holds, Locked, Walks
<1>4. /\ holder' \in [Token -> Thread \cup {None}]
      /\ holder[d.child] = None /\ holder'[d.child] = th
      /\ \A k \in Token : k # d.child => holder'[k] = holder[k]
      /\ \A k \in Token : holder[k] \notin {None, th} => holder'[k] = holder[k]
  BY <1>1, <1>3, AcquireKeeps
<1>5. d.child # d.group
  BY <1>3, <1>4, CallsAssumption
<1>6. \A r \in new : /\ r \in Token \X Addr
                     /\ r[1] \in LiveTokens(slots) /\ slots[r[1][1]].addr = r[2]
                     /\ slots[r[1][1]].group = d.child
  BY <1>2, <1>3, EndTranProtected
<1>. HIDE DEF new
<1>7. /\ c \in Calls /\ c.at = "childwork" /\ c.refs = d.refs \cup new /\ c.op = d.op
      /\ c.handle = d.handle /\ c.group = d.group /\ c.other = d.other
      /\ c.child = d.child /\ c.todo = d.todo /\ c.attempted = d.attempted
  <2>1. d.refs \cup new \in SUBSET (Token \X Addr)
    BY <1>2, <1>6 DEF Calls
  <2>. QED  BY <1>2, <2>1 DEF Calls, Stages
<1>. HIDE DEF c
<1>8. Entered(c)
  BY <1>1, <1>2, <1>7 DEF Entered, Inside, Locked, Walks
<1>9. Holds(holder', th, c)
  BY <1>3, <1>4, <1>5, <1>7 DEF Holds
<1>10. Protects(c)
  BY <1>1, <1>2, <1>6, <1>7 DEF Protects, Walks
<1>11. Ready(c)
  BY <1>7 DEF Ready
<1>12. Walking(c)
  BY <1>1, <1>2, <1>7 DEF Walking, Pending, Walks
<1>13. UNCHANGED table /\ calls' \in 0 .. MaxCalls
  BY <1>1, <1>2
<1>. QED  BY <1>1, <1>4, <1>7, <1>8, <1>9, <1>10, <1>11, <1>12, <1>13, QuietStep

LEMMA EnvironmentChildren ==
  ASSUME IInv, NEW t \in LiveTokens(slots), NEW env \in LiveTokens(slots),
         slots[env[1]].kind = "Env", slots[t[1]].parent = env
  PROVE  LiveAs(slots, t, "Dbc")
<1>1. Memory(Table) /\ Descends(Table, t)
  BY TableIs DEF IInv, Sound, Family, Lineage
<1>2. env # None
  BY <1>1, TableIs, LiveMeans, SlotsAssumption DEF Token, Index
<1>3. slots[t[1]].kind = "Dbc"
  BY <1>1, <1>2, TableIs DEF Descends, LiveAs
<1>. QED  BY <1>3 DEF LiveAs, LiveTokens

LEMMA EndTranOnChildKeeps ==
  ASSUME CallsInv, NEW th \in Thread, EndTranOnChild(th)
  PROVE  CallsInv'
<1> DEFINE d == call[th]
           kept == {r \in d.refs : r[1] = d.handle}
           done == IF LiveAs(slots, d.child, "Dbc") THEN d.attempted \cup {d.child}
                   ELSE d.attempted
           c == [d EXCEPT !.at = "walk", !.child = None, !.refs = kept, !.attempted = done]
<1>1. /\ d.at = "childwork" /\ Release(d.child) /\ UNCHANGED <<table, calls>>
      /\ call' = [call EXCEPT ![th] = c]
  BY DEF EndTranOnChild, Proceed
<1>2. /\ d \in Calls /\ Entered(d) /\ Holds(holder, th, d) /\ Protects(d) /\ Walking(d)
      /\ IInv /\ calls \in 0 .. MaxCalls
      /\ d.at \in Locked => d.group \in Token /\ holder[d.group] = th
  BY ThreadFacts
<1>. HIDE DEF d
<1>3. /\ d.child \in Token /\ d.child # d.group /\ holder[d.child] = th
      /\ d.group \in Token /\ holder[d.group] = th
  BY <1>1, <1>2 DEF Holds, Locked, Walks
<1>4. /\ holder' \in [Token -> Thread \cup {None}] /\ holder'[d.group] = th
      /\ \A k \in Token : holder[k] \notin {None, th} => holder'[k] = holder[k]
  BY <1>1, <1>3, ReleaseKeeps
<1>5. /\ c \in Calls /\ c.at = "walk" /\ c.refs = kept /\ c.op = d.op
      /\ c.handle = d.handle /\ c.group = d.group /\ c.other = d.other
      /\ c.todo = d.todo /\ c.attempted = done
  <2>1. kept \in SUBSET (Token \X Addr) /\ done \in SUBSET Token
    BY <1>2, <1>3 DEF Calls
  <2>. HIDE DEF kept, done
  <2>. QED  BY <1>2, <2>1 DEF Calls, Stages
<1>. HIDE DEF c
<1>6. Entered(c)
  BY <1>1, <1>2, <1>5 DEF Entered, Inside, Locked, Walks
<1>7. Holds(holder', th, c)
  BY <1>4, <1>5 DEF Holds
<1>8. Protects(c)
  BY <1>1, <1>2, <1>5 DEF Protects, Entered, Inside, Locked, Walks
<1>9. Ready(c)
  BY <1>5 DEF Ready
<1>10. Walking(c)
  <2>1. d.handle \in LiveTokens(slots) /\ slots[d.handle[1]].kind = "Env"
    BY <1>1, <1>2 DEF Walking, Walks
  <2>2. ASSUME NEW t \in LiveTokens(slots), slots[t[1]].parent = d.handle
        PROVE  t \in d.todo \cup done
    <3>1. t \in d.todo \cup d.attempted \cup {d.child}
      BY <1>1, <1>2, <2>2 DEF Walking, Pending, Walks
    <3>2. LiveAs(slots, t, "Dbc")
      BY <1>2, <2>1, <2>2, EnvironmentChildren
    <3>. QED  BY <3>1, <3>2
  <2>. QED  BY <1>5, <2>1, <2>2 DEF Walking, Pending
<1>11. UNCHANGED table /\ calls' \in 0 .. MaxCalls
  BY <1>1, <1>2
<1>. QED  BY <1>1, <1>4, <1>5, <1>6, <1>7, <1>8, <1>9, <1>10, <1>11, QuietStep

-----------------------------------------------------------------------------
(***************************************************************************)
(* The handles the calls start from, allocated one after the other.        *)
(***************************************************************************)
Empty == [slots |-> [i \in Index |-> EmptySlot], heap |-> [a \in Addr |-> None],
          dead |-> {}, explicit |-> {}]

\* The first k slots are in use and the others never were.
Filled(S, k) == \A i \in Index : /\ i < k => S[i].kind # None
                                 /\ i >= k => S[i] = EmptySlot

Extends(T, U, k, type) ==
  /\ ~Exhausted(T.slots)
  /\ NewToken(T.slots) = <<k, 1>>
  /\ Filled(U.slots, k + 1)
  /\ LiveAs(U.slots, <<k, 1>>, type)
  /\ \A t \in Token, kind \in Kinds : LiveAs(T.slots, t, kind) => LiveAs(U.slots, t, kind)
  /\ U.explicit = T.explicit

LEMMA EmptyIsSound == Sound(Empty) /\ Filled(Empty.slots, 0) /\ Empty.explicit = {}
<1> DEFINE T == Empty
<1>1. /\ T.slots = [i \in Index |-> EmptySlot] /\ T.heap = [a \in Addr |-> None]
      /\ T.dead = {} /\ T.explicit = {}
  BY DEF Empty
<1>2. EmptySlot \in Slot /\ EmptySlot.kind = None
  BY SlotsAssumption DEF EmptySlot, Slot
<1>. HIDE DEF EmptySlot
<1>3. T \in Tables
  BY <1>2 DEF Empty, Tables
<1>. HIDE DEF T
<1>4. LiveTokens(T.slots) = {}
  BY <1>1, <1>2 DEF LiveTokens, Live, Token
<1>5. Encodable(T) /\ DeadStayDead(T) /\ HeapOwned(T)
  BY <1>1, <1>2 DEF Encodable, DeadStayDead, HeapOwned
<1>6. SlotsOwn(T) /\ Lineage(T) /\ OverridesKept(T) /\ Complete(T)
  BY <1>4 DEF SlotsOwn, Lineage, OverridesKept, Complete
<1>7. ExplicitKept(T)
  BY <1>1 DEF ExplicitKept
<1>8. Filled(T.slots, 0)
  BY <1>1, SlotsAssumption DEF Filled, Index
<1>. QED  BY <1>1, <1>3, <1>5, <1>6, <1>7, <1>8 DEF Sound, Memory, Family, T

LEMMA FilledNext ==
  ASSUME NEW S, NEW k \in Index, Filled(S, k)
  PROVE  ~Exhausted(S) /\ NewToken(S) = <<k, 1>> /\ FirstFree(S) = k
<1>1. S[k] = EmptySlot /\ k \in Nat
  BY SlotsAssumption DEF Filled, Index
<1>2. k \in Reusable(S)
  BY <1>1, SlotsAssumption DEF Reusable, EmptySlot
<1>3. \A j \in Reusable(S) : k <= j /\ j \in Nat
  BY <1>1, SlotsAssumption DEF Reusable, Filled, Index
<1>4. FirstFree(S) = k
  <2>1. \E i \in Reusable(S) : \A j \in Reusable(S) : i <= j
    BY <1>2, <1>3
  <2>2. FirstFree(S) \in Reusable(S) /\ \A j \in Reusable(S) : FirstFree(S) <= j
    BY <2>1 DEF FirstFree
  <2>3. FirstFree(S) <= k /\ k <= FirstFree(S) /\ FirstFree(S) \in Nat
    BY <1>2, <1>3, <2>2, Zenon
  <2>. QED  BY <1>1, <2>3
<1>. QED  BY <1>1, <1>2, <1>4 DEF Exhausted, NewToken, EmptySlot

LEMMA NewExtends ==
  ASSUME NEW T, Sound(T), NEW k \in Index, Filled(T.slots, k), NEW struct \in Boxes,
         NEW group \in Token \cup {None}, NEW parent \in Token \cup {None}
  PROVE  Extends(T, New(T, struct, group, parent), k, struct.type)
<1> DEFINE U == New(T, struct, group, parent)
           n == NewToken(T.slots)
<1>1. ~Exhausted(T.slots) /\ n = <<k, 1>> /\ FirstFree(T.slots) = k
  BY FilledNext
<1>2. Registered(T, U, n, struct, group, parent)
  BY <1>1, NewAdds DEF Sound
<1>3. \A i \in Index : i # k => U.slots[i] = T.slots[i]
  BY <1>1 DEF New, Register, Sound, Memory, Tables
<1>. HIDE DEF U
<1>4. /\ n \in LiveTokens(U.slots) /\ U.slots[n[1]].kind = struct.type
      /\ U.explicit = T.explicit /\ Memory(U) /\ Memory(T) /\ n \in Token
      /\ \A t \in LiveTokens(T.slots) : Same(T, U, t) /\ t \in LiveTokens(U.slots)
  BY <1>2 DEF Registered, Adds, Sound
<1>5. U.slots[k].kind # None /\ LiveAs(U.slots, n, struct.type)
  BY <1>1, <1>4 DEF LiveTokens, Live, LiveAs
<1>6. Filled(U.slots, k + 1)
  <2>1. k \in Nat /\ Index \subseteq Nat
    BY SlotsAssumption DEF Index
  <2>. QED  BY <1>3, <1>5, <2>1 DEF Filled
<1>7. ASSUME NEW t \in Token, NEW kind \in Kinds, LiveAs(T.slots, t, kind)
      PROVE  LiveAs(U.slots, t, kind)
  <2>1. t \in LiveTokens(T.slots)
    BY <1>4, <1>7, LiveAsMeans
  <2>. QED  BY <1>4, <1>7, <2>1 DEF Same, LiveAs, LiveTokens
<1>. QED  BY <1>1, <1>4, <1>5, <1>6, <1>7 DEF Extends, U

LEMMA InitialIsSound == Sound(InitialTable)
<1> DEFINE env == <<0, 1>>
           one == <<1, 1>>
           two == <<2, 1>>
           three == <<3, 1>>
           T1 == New(Empty, Environment, NewToken(Empty.slots), None)
           T2 == New(T1, Connection(env), NewToken(T1.slots), env)
           T3 == New(T2, Connection(env), NewToken(T2.slots), env)
           D  == New(T3, Descriptor, two, two)
           T4 == [D EXCEPT !.explicit = {three}]
           T5 == SetOpen(T4, one, TRUE)
<1>1. InitialTable = BuildStatement(T5, one)
  BY DEF InitialTable, SetOpen, Empty
<1>2. /\ {0, 1, 2, 3, 4} \subseteq Index /\ {env, one, two, three} \subseteq Token
      /\ {"Env", "Dbc", "Stmt", "Desc"} = Kinds
  BY CallsAssumption, SlotsAssumption DEF Index, Token, Kinds
<1>3. Environment.type = "Env" /\ Descriptor.type = "Desc" /\ Connection(env).type = "Dbc"
      /\ {Environment, Descriptor, Connection(env)} \subseteq Boxes
  BY <1>2 DEF Environment, Descriptor, Connection, Boxes
<1>. HIDE DEF env, one, two, three
<1>4. Extends(Empty, T1, 0, "Env") /\ Sound(T1)
  <2>1. Sound(Empty) /\ Filled(Empty.slots, 0) /\ 0 \in Index
    BY <1>2, EmptyIsSound
  <2>2. ~Exhausted(Empty.slots) /\ NewToken(Empty.slots) = <<0, 1>>
    BY <2>1, FilledNext
  <2>3. NewToken(Empty.slots) \in Token
    BY <1>2, <2>2 DEF env
  <2>4. Extends(Empty, T1, 0, Environment.type)
    BY <1>3, <2>1, <2>3, NewExtends
  <2>5. Sound(T1)
    BY <2>1, <2>2, NewEnvironmentSound
  <2>. QED  BY <1>3, <2>4, <2>5
<1>. HIDE DEF T1
<1>5. LiveAs(T1.slots, env, "Env") /\ T1.explicit = {} /\ Filled(T1.slots, 1)
  BY <1>4, EmptyIsSound DEF Extends, env
<1>6. Extends(T1, T2, 1, "Dbc") /\ Sound(T2)
  <2>1. ~Exhausted(T1.slots) /\ NewToken(T1.slots) = <<1, 1>>
    BY <1>2, <1>5, FilledNext
  <2>2. NewToken(T1.slots) \in Token /\ env \in Token /\ 1 \in Index
    BY <1>2, <2>1 DEF one
  <2>3. Extends(T1, T2, 1, Connection(env).type)
    BY <1>3, <1>4, <1>5, <2>2, NewExtends
  <2>4. Sound(T2)
    BY <1>4, <1>5, <2>1, <2>2, NewConnectionSound
  <2>. QED  BY <1>3, <2>3, <2>4
<1>. HIDE DEF T2
<1>7. /\ LiveAs(T2.slots, env, "Env") /\ LiveAs(T2.slots, one, "Dbc")
      /\ T2.explicit = {} /\ Filled(T2.slots, 2)
  BY <1>2, <1>5, <1>6 DEF Extends, one
<1>8. Extends(T2, T3, 2, "Dbc") /\ Sound(T3)
  <2>1. ~Exhausted(T2.slots) /\ NewToken(T2.slots) = <<2, 1>>
    BY <1>2, <1>7, FilledNext
  <2>2. NewToken(T2.slots) \in Token /\ env \in Token /\ 2 \in Index
    BY <1>2, <2>1 DEF two
  <2>3. Extends(T2, T3, 2, Connection(env).type)
    BY <1>3, <1>6, <1>7, <2>2, NewExtends
  <2>4. Sound(T3)
    BY <1>6, <1>7, <2>1, <2>2, NewConnectionSound
  <2>. QED  BY <1>3, <2>3, <2>4
<1>. HIDE DEF T3
<1>9. /\ LiveAs(T3.slots, one, "Dbc") /\ LiveAs(T3.slots, two, "Dbc")
      /\ T3.explicit = {} /\ Filled(T3.slots, 3)
  BY <1>2, <1>7, <1>8 DEF Extends, two
<1>10. Extends(T3, D, 3, "Desc")
  <2>1. Extends(T3, D, 3, Descriptor.type)
    BY <1>2, <1>3, <1>8, <1>9, NewExtends
  <2>. QED  BY <1>3, <2>1
<1>11. Sound(T4) /\ T4.slots = D.slots
  <2>1. ~Exhausted(T3.slots) /\ NewToken(T3.slots) = three /\ D.explicit = {}
    BY <1>9, <1>10 DEF Extends, three
  <2>2. T3.slots[two[1]].group = two
    <3>1. two \in LiveTokens(T3.slots) /\ T3.slots[two[1]].kind = "Dbc"
      BY <1>2, <1>8, <1>9, LiveAsMeans DEF Sound
    <3>. QED  BY <1>8, <3>1, ConnectionFacts
  <2>3. T4 = WithExplicit(D, three)
    BY <2>1 DEF WithExplicit
  <2>4. D = New(T3, Descriptor, T3.slots[two[1]].group, two)
    BY <2>2
  <2>5. two \in Token
    BY <1>2
  <2>. HIDE DEF T4, D
  <2>. QED  BY <1>8, <1>9, <2>1, <2>3, <2>4, <2>5, NewDescriptorSound
<1>12. LiveAs(T4.slots, one, "Dbc") /\ Filled(T4.slots, 4)
  <2>. HIDE DEF T4
  <2>. QED  BY <1>2, <1>9, <1>10, <1>11 DEF Extends
<1>. HIDE DEF T4, D
<1>13. Sound(T5) /\ T5.slots = T4.slots
  <2>1. one \in LiveTokens(T4.slots) /\ T4.slots[one[1]].kind = "Dbc"
    BY <1>2, <1>11, <1>12, LiveAsMeans DEF Sound
  <2>. QED  BY <1>11, <2>1, SetOpenSound
<1>. HIDE DEF T5
<1>14. ~Exhausted(T5.slots) /\ LiveAs(T5.slots, one, "Dbc") /\ one \in Token
  BY <1>2, <1>12, <1>13, FilledNext
<1>. QED  BY <1>1, <1>13, <1>14, BuildStatementSound

LEMMA CallsInitEstablishes ==
  ASSUME CallsInit
  PROVE  CallsInv
<1>1. Table = InitialTable
  <2>1. InitialTable \in Tables
    BY InitialIsSound DEF Sound, Memory
  <2>2. InitialTable = [slots |-> InitialTable.slots, heap |-> InitialTable.heap,
                        dead |-> InitialTable.dead, explicit |-> InitialTable.explicit]
    BY <2>1 DEF Tables
  <2>. QED  BY <2>2 DEF CallsInit, Table
<1>2. IInv
  BY <1>1, InitialIsSound DEF IInv
<1>3. holder \in [Token -> Thread \cup {None}] /\ calls \in 0 .. MaxCalls
  BY CallsAssumption DEF CallsInit
<1>4. call \in [Thread -> Calls] /\ \A th \in Thread : call[th] = Idle
  BY IdleIsResting DEF CallsInit, Resting
<1>5. \A th \in Thread : Fits(th)
  BY <1>4, IdleIsResting, RestingFits DEF Fits
<1>. QED  BY <1>2, <1>3, <1>4, <1>5 DEF CallsInv

LEMMA CallsStutter ==
  ASSUME CallsInv, UNCHANGED callVars
  PROVE  CallsInv'
<1>1. UNCHANGED table /\ holder' = holder /\ call' = call /\ calls' = calls
  BY DEF callVars, table
<1>2. IInv'
  <2>1. Table' = Table
    BY <1>1 DEF table, Table
  <2>. QED  BY <1>1, <2>1, BecomesSound, TableIs DEF CallsInv, IInv, Becomes, table
<1>3. ASSUME NEW th \in Thread  PROVE Fits(th)'
  <2>1. /\ Entered(call[th]) /\ Holds(holder', th, call[th]) /\ Protects(call[th])
        /\ Ready(call[th]) /\ Walking(call[th])
    BY <1>1, ThreadFacts
  <2>. QED  BY <1>1, <2>1, FitsAfterQuiet
<1>. QED  BY <1>1, <1>2, <1>3 DEF CallsInv

LEMMA CallsNextKeeps ==
  CallsInv /\ [CallsNext]_callVars => CallsInv'
<1> SUFFICES ASSUME CallsInv, [CallsNext]_callVars  PROVE CallsInv'
  OBVIOUS
<1>1. CASE UNCHANGED callVars
  BY <1>1, CallsStutter
<1>2. ASSUME NEW th \in Thread, Step(th)  PROVE CallsInv'
  BY <1>2, LockKeeps, RefuseKeeps, CheckKeeps, WorkKeeps, SecondPhaseKeeps,
     NextConnectionKeeps, LockChildKeeps, EndTranOnChildKeeps, EndWalkKeeps,
     TryLockKeeps, SignalKeeps DEF Step
<1>3. ASSUME NEW th \in Thread, NEW op \in Ops, NEW h \in Token, Enter(th, op, h)
      PROVE  CallsInv'
  BY <1>3, EnterKeeps
<1>. QED  BY <1>1, <1>2, <1>3 DEF CallsNext

(***************************************************************************)
(* The invariant of the calls in flight.                                   *)
(***************************************************************************)
THEOREM CallsInvariant == CallsSpec => []CallsInv
BY CallsInitEstablishes, CallsNextKeeps, PTL DEF CallsSpec

-----------------------------------------------------------------------------
(***************************************************************************)
(* Locks are held by threads in calls, and calls are well formed.          *)
(***************************************************************************)
THEOREM CallsTypeCorrect == CallsSpec => []CallsTypeOK
<1>1. ASSUME CallsInv  PROVE CallsTypeOK
  <2>1. TypeOK
    BY <1>1, TableIs DEF CallsInv, IInv, Sound, Memory, Tables, TypeOK
  <2>. QED  BY <1>1, <2>1 DEF CallsInv, Calls, CallsTypeOK
<1>. QED  BY <1>1, CallsInvariant, PTL

\* A reference leads to a live handle of a group the thread holds.
LEMMA RefersTo ==
  ASSUME CallsInv, NEW th \in Thread, NEW r \in call[th].refs
  PROVE  /\ r[1] \in LiveTokens(slots)
         /\ heap[r[2]] # None /\ heap[r[2]].header = r[1]
         /\ \E g \in Token : holder[g] = th /\ slots[r[1][1]].group = g
<1> DEFINE c == call[th]
<1>1. /\ Sound(Table) /\ Entered(c) /\ Holds(holder, th, c) /\ Protects(c)
  BY ThreadFacts
<1>. HIDE DEF c
<1>2. /\ c.at \in Walks \cup {"work"}
      /\ r[1] \in LiveTokens(slots) /\ slots[r[1][1]].addr = r[2]
      /\ \/ slots[r[1][1]].group = c.group
         \/ c.at = "childwork" /\ slots[r[1][1]].group = c.child
  BY <1>1 DEF Protects, c
<1>3. c.group \in Token /\ holder[c.group] = th
      /\ (c.at = "childwork" => c.child \in Token /\ holder[c.child] = th)
  BY <1>1, <1>2 DEF Entered, Holds, Inside, Locked
<1>4. heap[r[2]] # None /\ heap[r[2]].header = r[1]
  BY <1>1, <1>2, TableIs DEF Sound, Memory, SlotsOwn, At
<1>. QED  BY <1>2, <1>3, <1>4

(***************************************************************************)
(* The structs a call holds references to stay the ones it resolved, for   *)
(* as long as it holds them: HandleScope::get's safety argument, with any  *)
(* number of other calls allocating, freeing and disconnecting meanwhile.  *)
(***************************************************************************)
THEOREM NeverUsedAfterFree == CallsSpec => []NoUseAfterFree
<1>1. CallsInv => NoUseAfterFree
  BY RefersTo DEF NoUseAfterFree
<1>. QED  BY <1>1, CallsInvariant, PTL

(***************************************************************************)
(* No two threads hold references to the same struct: the group of the     *)
(* struct's handle has one holder.                                         *)
(***************************************************************************)
THEOREM ReferencesAlwaysExclusive == CallsSpec => []ExclusiveReferences
<1>1. ASSUME CallsInv  PROVE ExclusiveReferences
  <2> SUFFICES ASSUME NEW th \in Thread, NEW other \in Thread, th # other,
                      NEW r \in call[th].refs, NEW q \in call[other].refs, r[2] = q[2]
               PROVE  FALSE
    BY DEF ExclusiveReferences
  <2>1. /\ heap[r[2]].header = r[1]
        /\ \E g \in Token : holder[g] = th /\ slots[r[1][1]].group = g
    BY <1>1, RefersTo
  <2>2. /\ heap[q[2]].header = q[1]
        /\ \E g \in Token : holder[g] = other /\ slots[q[1][1]].group = g
    BY <1>1, RefersTo
  <2>. QED  BY <2>1, <2>2
<1>. QED  BY <1>1, CallsInvariant, PTL

(***************************************************************************)
(* When an environment-wide SQLEndTran has finished its walk, every        *)
(* connection of the environment was attempted, for any number of          *)
(* connections freed and allocated by other threads meanwhile.             *)
(***************************************************************************)
THEOREM WalkAlwaysCoversEnvironment == CallsSpec => []WalkCoversEnvironment
<1>1. ASSUME CallsInv  PROVE WalkCoversEnvironment
  <2> SUFFICES ASSUME NEW th \in Thread, call[th].at = "walk", call[th].todo = {}
               PROVE  ChildrenOf(slots, call[th].handle) \subseteq call[th].attempted
    BY DEF WalkCoversEnvironment
  <2>1. Memory(Table) /\ Walking(call[th])
    BY <1>1, ThreadFacts DEF Sound
  <2>2. ChildrenOf(slots, call[th].handle)
          = {t \in LiveTokens(slots) : slots[t[1]].parent = call[th].handle}
    BY <2>1, TableIs, ChildrenAre
  <2>. QED  BY <2>1, <2>2 DEF Walking, Walks, Pending
<1>. QED  BY <1>1, CallsInvariant, PTL


-----------------------------------------------------------------------------
(***************************************************************************)
(* The registry alone.  A token that died is at or below its slot's        *)
(* generation, and at it only in a slot that is free and retired.          *)
(***************************************************************************)
DeadBelowGeneration ==
  \A t \in retired :
    /\ t[2] <= registry[t[1]].generation
    /\ t[2] = registry[t[1]].generation =>
         /\ registry[t[1]].kind = None
         /\ registry[t[1]].generation >= MaxGeneration

LiveEncodable ==
  \A i \in Index : registry[i].kind # None =>
    registry[i].generation \in 1 .. MaxGeneration

RegistryInv == RegistryTypeOK /\ DeadBelowGeneration /\ LiveEncodable

-----------------------------------------------------------------------------
(***************************************************************************)
(* The token of a new handle is encodable and has never been issued.       *)
(***************************************************************************)
LEMMA NewTokenIsFresh ==
  ASSUME RegistryInv, ~Exhausted(registry)
  PROVE  /\ NewToken(registry) \in Token
         /\ NewToken(registry) \notin retired
<1> DEFINE i == FirstFree(registry)
<1>1. i \in Index /\ registry[i].kind = None /\ registry[i].generation < MaxGeneration
  BY FirstFreeIsReusable DEF Reusable
<1>2. registry[i].generation \in Nat
  BY <1>1, SlotsAssumption DEF RegistryInv, RegistryTypeOK, RegistrySlot
<1>3. NewToken(registry) = <<i, registry[i].generation + 1>>
  BY DEF NewToken
<1>4. registry[i].generation + 1 \in 1 .. MaxGeneration
  BY <1>1, <1>2, SlotsAssumption
<1>5. ASSUME NewToken(registry) \in retired  PROVE FALSE
  <2>1. registry[i].generation + 1 <= registry[i].generation
    BY <1>3, <1>5 DEF RegistryInv, DeadBelowGeneration
  <2>. QED  BY <2>1, <1>2
<1>. QED  BY <1>1, <1>3, <1>4, <1>5 DEF Token

-----------------------------------------------------------------------------
LEMMA RegistryInitEstablishes == RegistryInit => RegistryInv
BY SlotsAssumption
   DEF RegistryInit, RegistryInv, RegistryTypeOK, RegistrySlot, EmptySlot, DeadBelowGeneration, LiveEncodable

(***************************************************************************)
(* A live token of the table, as the sets the typing speaks of see it.     *)
(***************************************************************************)
LEMMA GroupIsToken ==
  ASSUME RegistryTypeOK, NEW t \in Token \cup {None}
  PROVE  GroupOf(registry, t) \in Token \cup {None}
<1>1. CASE Live(registry, t)
  <2>1. t \in Token
    BY <1>1 DEF Live
  <2>2. registry[t[1]] \in RegistrySlot
    BY <2>1 DEF Token, RegistryTypeOK
  <2>. QED  BY <1>1, <2>2 DEF GroupOf, RegistrySlot
<1>2. CASE ~Live(registry, t)
  BY <1>2 DEF GroupOf
<1>. QED  BY <1>1, <1>2

LEMMA RegisterPreserves ==
  ASSUME RegistryInv, NEW kind \in Kinds, NEW addr \in Address,
         NEW parent \in Token \cup {None}, RegisterHandle(kind, addr, parent)
  PROVE  RegistryInv'
<1> DEFINE i == FirstFree(registry)
           g == registry[i].generation + 1
           grp == GroupFor(kind, parent)
<1>1. ~Exhausted(registry)
  BY DEF RegisterHandle
<1>2. i \in Index /\ registry[i].kind = None /\ registry[i].generation < MaxGeneration
  BY <1>1, FirstFreeIsReusable DEF Reusable
<1>3. registry[i] \in RegistrySlot /\ registry[i].generation \in Nat
  BY <1>2, SlotsAssumption DEF RegistryInv, RegistryTypeOK, RegistrySlot
<1>4. g \in 1 .. MaxGeneration /\ g \in 0 .. GenerationCap
  BY <1>2, <1>3, SlotsAssumption
<1>5. NewToken(registry) \in Token
  BY <1>1, NewTokenIsFresh
<1>6. grp \in Token \cup {None}
  BY <1>5, GroupIsToken DEF GroupFor, RegistryInv
<1>7. registry' = [registry EXCEPT ![i] =
                  [generation |-> g, kind |-> kind, addr |-> addr,
                   group |-> grp, parent |-> parent, cancel |-> None]]
  BY DEF RegisterHandle, Register
<1>8. retired' = retired
  BY DEF RegisterHandle
<1>9. RegistryTypeOK'
  BY <1>2, <1>4, <1>6, <1>7, <1>8 DEF RegistryInv, RegistryTypeOK, RegistrySlot
<1>10. DeadBelowGeneration'
  <2> SUFFICES ASSUME NEW t \in retired
               PROVE  /\ t[2] <= registry'[t[1]].generation
                      /\ t[2] = registry'[t[1]].generation =>
                           /\ registry'[t[1]].kind = None
                           /\ registry'[t[1]].generation >= MaxGeneration
    BY <1>8 DEF DeadBelowGeneration
  <2>1. t \in Token /\ t[1] \in Index /\ t[2] \in Nat
    BY DEF RegistryInv, RegistryTypeOK, Token
  <2>2. CASE t[1] = i
    <3>1. registry'[i].generation = registry[i].generation + 1
      BY <1>2, <1>7 DEF RegistryInv, RegistryTypeOK
    <3>2. t[2] <= registry[i].generation
      BY <2>2 DEF RegistryInv, DeadBelowGeneration
    <3>. QED  BY <1>3, <2>1, <2>2, <3>1, <3>2
  <2>3. CASE t[1] # i
    <3>1. registry'[t[1]] = registry[t[1]]
      BY <1>7, <2>1, <2>3 DEF RegistryInv, RegistryTypeOK
    <3>. QED  BY <3>1 DEF RegistryInv, DeadBelowGeneration
  <2>. QED  BY <2>2, <2>3
<1>11. LiveEncodable'
  BY <1>2, <1>4, <1>7 DEF RegistryInv, RegistryTypeOK, LiveEncodable
<1>. QED  BY <1>9, <1>10, <1>11 DEF RegistryInv

LEMMA UnregisterPreserves ==
  ASSUME RegistryInv, NEW t \in Token, NEW kind \in Kinds, UnregisterHandle(t, kind)
  PROVE  RegistryInv'
<1> DEFINE i == t[1]
<1>1. /\ i \in Index /\ t[2] \in 1 .. MaxGeneration
      /\ registry[i].generation = t[2] /\ registry[i].kind # None
  BY DEF UnregisterHandle, LiveAs, Live, Token
<1>2. registry[i] \in RegistrySlot
  BY <1>1 DEF RegistryInv, RegistryTypeOK
<1>3. registry' = [registry EXCEPT ![i] =
                  [generation |-> Raise(t[2]), kind |-> None,
                   addr |-> registry[i].addr, group |-> None, parent |-> None,
                   cancel |-> None]]
  BY <1>1 DEF UnregisterHandle, Unregister
<1>4. /\ Raise(t[2]) \in 0 .. GenerationCap
      /\ t[2] <= Raise(t[2])
      /\ t[2] = Raise(t[2]) => t[2] >= MaxGeneration
  BY <1>1, SlotsAssumption DEF Raise
<1>5. retired' = retired \cup {t}
  BY DEF UnregisterHandle
<1>6. RegistryTypeOK'
  BY <1>1, <1>2, <1>3, <1>4, <1>5 DEF RegistryInv, RegistryTypeOK, RegistrySlot
<1>7. /\ registry'[i].kind = None
      /\ registry'[i].generation = Raise(t[2])
  BY <1>1, <1>2, <1>3 DEF RegistryInv, RegistryTypeOK, RegistrySlot
<1>8. DeadBelowGeneration'
  <2> SUFFICES ASSUME NEW d \in retired \cup {t}
               PROVE  /\ d[2] <= registry'[d[1]].generation
                      /\ d[2] = registry'[d[1]].generation =>
                           /\ registry'[d[1]].kind = None
                           /\ registry'[d[1]].generation >= MaxGeneration
    BY <1>5 DEF DeadBelowGeneration
  <2>1. d \in Token /\ d[1] \in Index /\ d[2] \in Nat
    BY SlotsAssumption DEF RegistryInv, RegistryTypeOK, Token
  <2>2. CASE d = t
    BY <1>1, <1>4, <1>7, <2>2
  <2>3. CASE d # t /\ d[1] # i
    <3>1. registry'[d[1]] = registry[d[1]]
      BY <1>3, <2>1, <2>3 DEF RegistryInv, RegistryTypeOK
    <3>. QED  BY <2>3, <3>1 DEF RegistryInv, DeadBelowGeneration
  <2>4. CASE d # t /\ d[1] = i
    <3>1. d[2] <= t[2] /\ d[2] # t[2]
      BY <1>1, <2>4 DEF RegistryInv, DeadBelowGeneration
    <3>2. t[2] \in Nat /\ Raise(t[2]) \in Nat
      BY <1>1, <1>4, SlotsAssumption
    <3>. QED  BY <1>4, <1>7, <2>1, <2>4, <3>1, <3>2
  <2>. QED  BY <2>2, <2>3, <2>4
<1>9. LiveEncodable'
  BY <1>1, <1>3, <1>7 DEF RegistryInv, RegistryTypeOK, LiveEncodable
<1>. QED  BY <1>6, <1>8, <1>9 DEF RegistryInv

LEMMA MintPreserves ==
  ASSUME RegistryInv, NEW t \in Token, MintCancel(t)
  PROVE  RegistryInv'
<1>1. t[1] \in Index /\ t \in Token
  BY DEF Token
<1>2. registry[t[1]] \in RegistrySlot
  BY <1>1 DEF RegistryInv, RegistryTypeOK
<1>3. CASE Live(registry, t)
  <2>1. registry' = [registry EXCEPT ![t[1]] = [registry[t[1]] EXCEPT !.cancel = t]]
    BY <1>3 DEF MintCancel, SetCancel
  <2>2. /\ RegistryTypeOK'
        /\ \A i \in Index : /\ registry'[i].generation = registry[i].generation
                            /\ registry'[i].kind = registry[i].kind
    BY <1>1, <1>2, <2>1 DEF RegistryInv, RegistryTypeOK, RegistrySlot, MintCancel
  <2>3. retired' = retired /\ \A d \in retired : d[1] \in Index
    BY DEF MintCancel, RegistryInv, RegistryTypeOK, Token
  <2>. QED  BY <2>2, <2>3 DEF RegistryInv, DeadBelowGeneration, LiveEncodable
<1>4. CASE ~Live(registry, t)
  BY <1>4
     DEF MintCancel, SetCancel, RegistryInv, RegistryTypeOK, DeadBelowGeneration, LiveEncodable
<1>. QED  BY <1>3, <1>4

LEMMA RegistryNextPreserves == RegistryInv /\ [RegistryNext]_registryVars => RegistryInv'
<1> SUFFICES ASSUME RegistryInv, [RegistryNext]_registryVars  PROVE RegistryInv'
  OBVIOUS
<1>1. ASSUME NEW kind \in Kinds, NEW addr \in Address,
             NEW parent \in Token \cup {None}, RegisterHandle(kind, addr, parent)
      PROVE  RegistryInv'
  BY <1>1, RegisterPreserves
<1>2. ASSUME NEW t \in Token, NEW kind \in Kinds, UnregisterHandle(t, kind)
      PROVE  RegistryInv'
  BY <1>2, UnregisterPreserves
<1>3. ASSUME NEW t \in Token, MintCancel(t)
      PROVE  RegistryInv'
  BY <1>3, MintPreserves
<1>4. CASE UNCHANGED registryVars
  BY <1>4 DEF registryVars, RegistryInv, RegistryTypeOK, DeadBelowGeneration, LiveEncodable
<1>. QED  BY <1>1, <1>2, <1>3, <1>4 DEF RegistryNext

-----------------------------------------------------------------------------
(***************************************************************************)
(* The registry's table and the history of dead tokens are well typed in   *)
(* every reachable state.                                                  *)
(***************************************************************************)
THEOREM RegistryInvariantHolds == RegistrySpec => []RegistryInv
<1>1. RegistryInit => RegistryInv
  BY RegistryInitEstablishes
<1>2. RegistryInv /\ [RegistryNext]_registryVars => RegistryInv'
  BY RegistryNextPreserves
<1>. QED  BY <1>1, <1>2, PTL DEF RegistrySpec

(***************************************************************************)
(* Type correctness: generations stay within what a slot can store, and    *)
(* groups, parents and dead handles are encodable tokens.                  *)
(***************************************************************************)
THEOREM RegistryTypeCorrect == RegistrySpec => []RegistryTypeOK
<1>1. RegistryInv => RegistryTypeOK
  BY DEF RegistryInv
<1>. QED  BY <1>1, RegistryInvariantHolds, PTL

(***************************************************************************)
(* No freed token ever resolves again (registry.rs: resolve_in_group,      *)
(* group_of, group_of_kind), however often slots are reused.               *)
(***************************************************************************)
THEOREM DeadTokensNeverResolve == RegistrySpec => []DeadNeverResolves
<1>1. RegistryInv => DeadNeverResolves
  <2> SUFFICES ASSUME RegistryInv, NEW t \in retired  PROVE ~Live(registry, t)
    BY DEF DeadNeverResolves, GroupOf, LiveAs
  <2>. QED  BY DEF RegistryInv, DeadBelowGeneration, Live
<1>. QED  BY <1>1, RegistryInvariantHolds, PTL

-----------------------------------------------------------------------------
(***************************************************************************)
(* Quotient and remainder of g * w + i, the arithmetic of the token codec. *)
(***************************************************************************)
LEMMA QuotientRemainder ==
  ASSUME NEW w \in Nat, w > 0, NEW g \in Nat, NEW i \in 0 .. (w - 1)
  PROVE  (g * w + i) % w = i /\ (g * w + i) \div w = g
<1> DEFINE x == g * w + i
           q == x \div w
           r == x % w
<1>1. x \in Nat
  BY Z3
<1>2. q \in Nat /\ r \in 0 .. (w - 1) /\ x = w * q + r
  BY <1>1, Z3
<1> HIDE DEF q, r
<1>3. w * q + r = w * g + i
  BY <1>2, Z3
<1>4. ASSUME q < g  PROVE FALSE
  <2>1. q + 1 <= g
    BY <1>2, <1>4
  <2>2. w * (q + 1) <= w * g
    BY <1>2, <2>1, Z3
  <2>3. w * (q + 1) = w * q + w
    BY <1>2, Z3
  <2>. QED  BY <1>2, <1>3, <2>2, <2>3, Z3
<1>5. ASSUME g < q  PROVE FALSE
  <2>1. g + 1 <= q
    BY <1>2, <1>5
  <2>2. w * (g + 1) <= w * q
    BY <1>2, <2>1, Z3
  <2>3. w * (g + 1) = w * g + w
    BY <1>2, Z3
  <2>. QED  BY <1>2, <1>3, <2>2, <2>3, Z3
<1>6. q = g
  BY <1>2, <1>4, <1>5
<1>7. r = i
  BY <1>2, <1>3, <1>6, Z3
<1>. QED  BY <1>6, <1>7 DEF q, r

(***************************************************************************)
(* decode_token undoes encode_token for every index and every generation   *)
(* a token may carry.                                                      *)
(***************************************************************************)
LEMMA DecodeUndoesEncode ==
  ASSUME NEW i \in Index, NEW g \in 1 .. MaxGeneration
  PROVE  DecodeToken(EncodeToken(i, g)) = <<i, g>>
<1> DEFINE w == MaxSlotIndex + 1
<1>1. w \in Nat /\ w > 0 /\ i \in 0 .. (w - 1) /\ g \in Nat
  BY SlotsAssumption DEF Index
<1>2. g % (MaxGeneration + 1) = g
  BY SlotsAssumption, Z3
<1>3. EncodeToken(i, g) = g * w + i
  BY <1>2 DEF EncodeToken
<1> HIDE DEF w
<1>4. (g * w + i) % w = i /\ (g * w + i) \div w = g
  BY <1>1, QuotientRemainder
<1>. QED  BY <1>3, <1>4 DEF DecodeToken, w

(***************************************************************************)
(* What an application is given is what the registry decodes: the token of *)
(* a live slot loses nothing in the machine word, on any word size.        *)
(***************************************************************************)
THEOREM LiveTokensAreEncodable == RegistrySpec => []LiveTokensEncode
<1>1. RegistryInv => LiveTokensEncode
  <2> SUFFICES ASSUME RegistryInv, NEW i \in Index, registry[i].kind # None
               PROVE  DecodeToken(EncodeToken(i, registry[i].generation))
                        \in LiveTokens(registry)
    BY DEF LiveTokensEncode
  <2> DEFINE t == <<i, registry[i].generation>>
  <2>1. registry[i].generation \in 1 .. MaxGeneration
    BY DEF RegistryInv, LiveEncodable
  <2>2. DecodeToken(EncodeToken(i, registry[i].generation)) = t
    BY <2>1, DecodeUndoesEncode
  <2>3. t \in Token /\ t # None
    BY <2>1, SlotsAssumption DEF Token, Index
  <2>. QED  BY <2>2, <2>3 DEF LiveTokens, Live
<1>. QED  BY <1>1, RegistryInvariantHolds, PTL

(***************************************************************************)
(* A token resolves to what it was issued for and to nothing else, for     *)
(* every number of slots, generations and allocations.                     *)
(***************************************************************************)
THEOREM TokensAlwaysResolveExactly == RegistrySpec => []TokensResolveExactly
BY DeadTokensNeverResolve, LiveTokensAreEncodable, PTL DEF TokensResolveExactly

-----------------------------------------------------------------------------
(***************************************************************************)
(* How each call changes the set of live tokens: register adds one, and    *)
(* unregister takes away exactly the token it was given.                   *)
(***************************************************************************)
LEMMA RegisterKeepsLive ==
  ASSUME RegistryInv, NEW kind \in Kinds, NEW addr \in Address,
         NEW parent \in Token \cup {None}, RegisterHandle(kind, addr, parent)
  PROVE  LiveTokens(registry) \subseteq LiveTokens(registry)'
<1>1. FirstFree(registry) \in Index /\ registry[FirstFree(registry)].kind = None
  BY FirstFreeIsReusable DEF RegisterHandle, Reusable
<1>2. \A j \in Index : registry[j].kind # None => registry'[j] = registry[j]
  BY <1>1 DEF RegisterHandle, Register, RegistryInv, RegistryTypeOK
<1>3. ASSUME NEW t \in LiveTokens(registry)  PROVE t \in LiveTokens(registry')
  <2>1. t \in Token /\ t[1] \in Index /\ registry[t[1]].kind # None
    BY DEF LiveTokens, Live, Token
  <2>. QED  BY <1>2, <2>1 DEF LiveTokens, Live
<1>. QED  BY <1>3 DEF LiveTokens, Live

LEMMA UnregisterRemovesOne ==
  ASSUME RegistryInv, NEW t \in Token, NEW kind \in Kinds, UnregisterHandle(t, kind)
  PROVE  /\ t \in LiveTokens(registry)
         /\ LiveTokens(registry)' = LiveTokens(registry) \ {t}
<1>1. t[1] \in Index /\ Live(registry, t) /\ registry[t[1]].generation = t[2]
  BY DEF UnregisterHandle, LiveAs, Live, Token
<1>2. /\ registry'[t[1]].kind = None
      /\ \A j \in Index \ {t[1]} : registry'[j] = registry[j]
  BY <1>1 DEF UnregisterHandle, Unregister, RegistryInv, RegistryTypeOK
<1>3. ASSUME NEW u \in Token
      PROVE  Live(registry', u) <=> (Live(registry, u) /\ u # t)
  <2>1. u[1] \in Index /\ u = <<u[1], u[2]>> /\ t = <<t[1], t[2]>>
    BY DEF Token
  <2>2. CASE u[1] = t[1]
    <3>1. ~Live(registry', u)
      BY <1>2, <2>2 DEF Live
    <3>2. Live(registry, u) => u = t
      BY <1>1, <2>1, <2>2 DEF Live
    <3>. QED  BY <3>1, <3>2
  <2>3. CASE u[1] # t[1]
    <3>1. registry'[u[1]] = registry[u[1]]
      BY <1>2, <2>1, <2>3
    <3>2. u # t
      BY <2>3
    <3>. QED  BY <3>1, <3>2 DEF Live
  <2>. QED  BY <2>2, <2>3
<1>4. LiveTokens(registry') = LiveTokens(registry) \ {t}
  BY <1>3 DEF LiveTokens
<1>. QED  BY <1>1, <1>4 DEF LiveTokens, Live

LEMMA MintKeepsLive ==
  ASSUME RegistryInv, NEW t \in Token, MintCancel(t)
  PROVE  LiveTokens(registry)' = LiveTokens(registry)
<1>1. \A j \in Index : /\ registry'[j].generation = registry[j].generation
                       /\ registry'[j].kind = registry[j].kind
  <2>1. t[1] \in Index /\ registry \in [Index -> RegistrySlot]
    BY DEF Token, RegistryInv, RegistryTypeOK
  <2>2. CASE Live(registry, t)
    <3>1. registry' = [registry EXCEPT ![t[1]] = [registry[t[1]] EXCEPT !.cancel = t]]
      BY <2>2 DEF MintCancel, SetCancel
    <3>2. registry[t[1]] \in RegistrySlot
      BY <2>1
    <3>. QED  BY <2>1, <3>1, <3>2 DEF RegistrySlot
  <2>. QED  BY <2>2 DEF MintCancel, SetCancel
<1>2. \A u \in Token : Live(registry', u) <=> Live(registry, u)
  BY <1>1 DEF Live, Token
<1>. QED  BY <1>2 DEF LiveTokens, Live

(***************************************************************************)
(* The registry implements TokenLifecycle: tokens are issued at most once, *)
(* and a token leaves the live set only by dying for good.                 *)
(***************************************************************************)
THEOREM ImplementsTokenLifecycle == RegistrySpec => KeepsTokenLifecycle
<1>1. RegistryInit => Tokens!Init
  BY SlotsAssumption
     DEF RegistryInit, Tokens!Init, LiveTokens, Live, EmptySlot, Token
<1>2. RegistryInv' => LiveTokens(registry)' \cap retired' = {}
  BY DEF RegistryInv, DeadBelowGeneration, LiveTokens, Live
<1>3. RegistryInv /\ RegistryInv' /\ [RegistryNext]_registryVars
        => [Tokens!Step]_<<LiveTokens(registry), retired>>
  <2> SUFFICES ASSUME RegistryInv, RegistryInv', [RegistryNext]_registryVars
               PROVE  Tokens!Step \/ UNCHANGED <<LiveTokens(registry), retired>>
    OBVIOUS
  <2>1. LiveTokens(registry)' \cap retired' = {}
    BY <1>2
  <2>2. ASSUME NEW kind \in Kinds, NEW addr \in Address,
               NEW parent \in Token \cup {None},
               RegisterHandle(kind, addr, parent)
        PROVE  Tokens!Step
    <3>1. LiveTokens(registry) \subseteq LiveTokens(registry)'
      BY <2>2, RegisterKeepsLive
    <3>2. retired' = retired
      BY <2>2 DEF RegisterHandle
    <3>. QED  BY <2>1, <3>1, <3>2 DEF Tokens!Step
  <2>3. ASSUME NEW t \in Token, NEW kind \in Kinds, UnregisterHandle(t, kind)
        PROVE  Tokens!Step
    <3>1. /\ t \in LiveTokens(registry)
          /\ LiveTokens(registry)' = LiveTokens(registry) \ {t}
      BY <2>3, UnregisterRemovesOne
    <3>2. retired' = retired \cup {t}
      BY <2>3 DEF UnregisterHandle
    <3>. QED  BY <2>1, <3>1, <3>2 DEF Tokens!Step
  <2>4. ASSUME NEW t \in Token, MintCancel(t)
        PROVE  UNCHANGED <<LiveTokens(registry), retired>>
    BY <2>4, MintKeepsLive DEF MintCancel
  <2>5. CASE UNCHANGED registryVars
    BY <2>5 DEF registryVars, LiveTokens, Live
  <2>. QED  BY <2>2, <2>3, <2>4, <2>5 DEF RegistryNext
<1>. QED  BY <1>1, <1>3, RegistryInvariantHolds, PTL
          DEF RegistrySpec, KeepsTokenLifecycle, Tokens!Spec
=============================================================================
