----------------------------- MODULE HandleSlots -----------------------------
(***************************************************************************)
(* The slot table of handles/registry.rs as operators on a table value S.  *)
(* A token is a pair <<index, generation>>; the slot at index answers for  *)
(* it only while it holds that generation.  A slot that was never pushed   *)
(* is a free slot of generation 0, so "reuse the first free slot, else     *)
(* push a new one" is "take the lowest reusable index".                    *)
(***************************************************************************)
EXTENDS Naturals

CONSTANTS
  MaxSlotIndex,   \* MAX_SLOT_INDEX
  MaxGeneration,  \* MAX_GENERATION, the largest generation a token encodes
  GenerationCap,  \* u32::MAX, where saturating_add stops
  None            \* Option::None, and the null token

ASSUME SlotsAssumption ==
  /\ MaxSlotIndex \in Nat
  /\ MaxGeneration \in Nat \ {0}
  /\ GenerationCap \in Nat
  /\ MaxGeneration <= GenerationCap
  /\ None \notin (0 .. MaxSlotIndex) \X (1 .. GenerationCap)

Kinds == {"Env", "Dbc", "Stmt", "Desc"}
Index == 0 .. MaxSlotIndex
Token == Index \X (1 .. MaxGeneration)

EmptySlot == [generation |-> 0, kind |-> None, addr |-> None,
              group |-> None, parent |-> None, cancel |-> None]

(***************************************************************************)
(* encode_token and decode_token: the index in the low half, the           *)
(* generation in the high half of one machine word, which drops the bits   *)
(* that do not fit.                                                        *)
(***************************************************************************)
EncodeToken(index, generation) ==
  (generation % (MaxGeneration + 1)) * (MaxSlotIndex + 1) + index
DecodeToken(raw) == <<raw % (MaxSlotIndex + 1), raw \div (MaxSlotIndex + 1)>>

\* A fault: the slot alone decides, whatever its generation.
LiveBySlot(S, t) == t # None /\ S[t[1]].kind # None

Live(S, t) == /\ t # None
              /\ S[t[1]].generation = t[2]
              /\ S[t[1]].kind # None

LiveAs(S, t, kind) == Live(S, t) /\ S[t[1]].kind = kind

LiveTokens(S) == {t \in Token : Live(S, t)}

\* group_of, and group_of_kind under LiveAs.
GroupOf(S, t) == IF Live(S, t) THEN S[t[1]].group ELSE None

\* parent_of: only while the parent's slot still holds the stored generation.
ParentOf(S, t, kind) ==
  IF LiveAs(S, t, kind) /\ Live(S, S[t[1]].parent) THEN S[t[1]].parent ELSE None

ParentKindOf(S, t, kind) ==
  IF ParentOf(S, t, kind) = None THEN None ELSE S[ParentOf(S, t, kind)[1]].kind

\* children_of: live slots whose stored parent is exactly this token.
ChildrenOf(S, t) ==
  {<<i, S[i].generation>> : i \in {j \in Index : /\ S[j].kind # None
                                                 /\ S[j].parent = t}}

(***************************************************************************)
(* register: the lowest slot that is free and whose generation can still   *)
(* be raised.  The new handle inherits nothing from the previous one.      *)
(***************************************************************************)
Reusable(S) == {i \in Index : S[i].kind = None /\ S[i].generation < MaxGeneration}
Exhausted(S) == Reusable(S) = {}
FirstFree(S) == CHOOSE i \in Reusable(S) : \A j \in Reusable(S) : i <= j
NewToken(S) == <<FirstFree(S), S[FirstFree(S)].generation + 1>>

\* A fault: a reused slot starts its generations again.
RegisterAfresh(S, kind, addr, group, parent) ==
  [S EXCEPT ![FirstFree(S)] =
     [generation |-> 1, kind |-> kind, addr |-> addr,
      group |-> group, parent |-> parent, cancel |-> None]]

Register(S, kind, addr, group, parent) ==
  [S EXCEPT ![FirstFree(S)] =
     [generation |-> @.generation + 1, kind |-> kind, addr |-> addr,
      group |-> group, parent |-> parent, cancel |-> None]]

(***************************************************************************)
(* unregister: the slot is freed and its generation raised (saturating) in *)
(* the same critical section, so the token is dead at once.  A slot that   *)
(* has used up its generations is never handed out again.  The address     *)
(* stays in the slot.                                                      *)
(***************************************************************************)
Raise(generation) ==
  IF generation < GenerationCap THEN generation + 1 ELSE generation

Unregister(S, t) ==
  [S EXCEPT ![t[1]] =
     [generation |-> Raise(S[t[1]].generation), kind |-> None,
      addr |-> S[t[1]].addr, group |-> None, parent |-> None, cancel |-> None]]

\* set_cancel and cancel_of: both refuse a token that is not live.
SetCancel(S, t, cancel) ==
  IF Live(S, t)
  THEN [S EXCEPT ![t[1]] = [S[t[1]] EXCEPT !.cancel = cancel]]
  ELSE S
CancelOf(S, t) == IF Live(S, t) THEN S[t[1]].cancel ELSE None
=============================================================================
