--------------------------- MODULE HandleRegistry ---------------------------
(***************************************************************************)
(* The global handle registry (handles/registry.rs) on its own: one step   *)
(* per call that takes the table's write lock.  Tokens passed in are any   *)
(* token at all, stale ones included, as an application may pass them.     *)
(***************************************************************************)
EXTENDS HandleSlots

CONSTANT Address    \* addresses of allocations

VARIABLES
  registry,  \* Registry::slots
  retired    \* history: tokens that were live once and no longer are

registryVars == <<registry, retired>>

RegistryInit == /\ registry = [i \in Index |-> EmptySlot]
                /\ retired = {}

\* An environment or connection brings a fresh lock, named by its own token;
\* a statement or descriptor joins the group of its parent.
GroupFor(kind, parent) ==
  IF kind \in {"Env", "Dbc"} THEN NewToken(registry) ELSE GroupOf(registry, parent)

\* The parents alloc_environment .. alloc_descriptor pass: null for an
\* environment, else a live handle of the kind above.
Parents(kind) ==
  IF kind = "Env" THEN {None}
  ELSE {t \in LiveTokens(registry) :
          registry[t[1]].kind \in CASE kind = "Dbc"  -> {"Env"}
                                   [] kind = "Stmt" -> {"Dbc"}
                                   [] kind = "Desc" -> {"Dbc", "Stmt"}}

RegisterHandle(kind, addr, parent) ==
  /\ ~Exhausted(registry)
  /\ parent \in Parents(kind)
  /\ registry' = Register(registry, kind, addr, GroupFor(kind, parent), parent)
  /\ UNCHANGED retired

\* A stale token, or one of another kind, is refused: a double free is a
\* clean error.
UnregisterHandle(t, kind) ==
  /\ LiveAs(registry, t, kind)
  /\ registry' = Unregister(registry, t)
  /\ retired' = retired \cup {t}

MintCancel(t) ==
  /\ registry' = SetCancel(registry, t, t)
  /\ UNCHANGED retired

RegistryNext ==
  \/ \E kind \in Kinds, addr \in Address, parent \in Token \cup {None} :
       RegisterHandle(kind, addr, parent)
  \/ \E t \in Token, kind \in Kinds : UnregisterHandle(t, kind)
  \/ \E t \in Token : MintCancel(t)

RegistrySpec == RegistryInit /\ [][RegistryNext]_registryVars

(***************************************************************************)
(* Every slot is well typed and every freed token is a token.              *)
(***************************************************************************)
RegistrySlot ==
  [generation : 0 .. GenerationCap, kind : Kinds \cup {None},
   addr : Address \cup {None}, group : Token \cup {None},
   parent : Token \cup {None}, cancel : Token \cup {None}]

RegistryTypeOK == /\ registry \in [Index -> RegistrySlot]
                  /\ retired \subseteq Token

(***************************************************************************)
(* A token that was freed never resolves again, to any kind and in any     *)
(* group, although its slot and its allocation are reused (the reason      *)
(* registry.rs gives for generations).                                     *)
(***************************************************************************)
DeadNeverResolves ==
  \A t \in retired : /\ GroupOf(registry, t) = None
                     /\ \A kind \in Kinds : ~LiveAs(registry, t, kind)

(***************************************************************************)
(* A live slot holds a generation a token can encode, so the token handed  *)
(* to the application decodes back to this very slot (encode_token         *)
(* truncates nothing).                                                     *)
(***************************************************************************)
LiveTokensEncode ==
  \A i \in Index : registry[i].kind # None =>
    DecodeToken(EncodeToken(i, registry[i].generation)) \in LiveTokens(registry)

(***************************************************************************)
(* What a token resolves to is what it was issued for: an old token never  *)
(* names what its slot holds now, and a live one always decodes to its own *)
(* slot.                                                                   *)
(***************************************************************************)
TokensResolveExactly == DeadNeverResolves /\ LiveTokensEncode

(***************************************************************************)
(* The registry keeps the promise of TokenLifecycle: no token is issued    *)
(* twice, and dead tokens stay dead.                                       *)
(***************************************************************************)
Tokens == INSTANCE TokenLifecycle WITH live <- LiveTokens(registry), dead <- retired
KeepsTokenLifecycle == Tokens!Spec
=============================================================================
