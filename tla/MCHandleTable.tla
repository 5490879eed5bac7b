---------------------------- MODULE MCHandleTable ----------------------------
(***************************************************************************)
(* HandleTable bounded for TLC: one environment; how many handles may be   *)
(* issued in all, how many while two connections are live, which they are  *)
(* only until the first handle is freed, and how many once one is.         *)
(***************************************************************************)
EXTENDS HandleTable

CONSTANTS MaxIssued, MaxWithTwo, MaxReusing

LiveOf(kind) == {t \in LiveTokens(slots) : slots[t[1]].kind = kind}
Issued == Cardinality(LiveTokens(slots) \cup dead)

Bounded == /\ Cardinality(LiveOf("Env")) <= 1
           /\ CASE Cardinality(LiveOf("Dbc")) <= 1 -> Issued <= MaxIssued
                [] Cardinality(LiveOf("Dbc")) = 2 -> Issued <= MaxWithTwo /\ dead = {}
                [] OTHER -> FALSE
FewAfterAFree == dead # {} /\ Issued' > Issued => Issued' <= MaxReusing
=============================================================================
