--------------------------- MODULE TokenLifecycle ---------------------------
(***************************************************************************)
(* What the handle registry promises about the tokens it hands out: a      *)
(* token is issued at most once and, once retired, is dead for good.  How  *)
(* many tokens a step issues or retires is left open, so the registry      *)
(* alone, the handle tree built on it and the concurrent calls over that   *)
(* tree can all be shown to keep the same promise.                         *)
(***************************************************************************)
VARIABLES live, dead

Init == live = {} /\ dead = {}

\* Tokens that leave the live set are dead, as are those a call issued and
\* took back before it returned; nothing dead is ever issued.
Step == /\ dead \cup (live \ live') \subseteq dead'
        /\ live' \cap dead' = {}

Spec == Init /\ [][Step]_<<live, dead>>
=============================================================================
