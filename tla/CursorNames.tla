----------------------------- MODULE CursorNames -----------------------------
(***************************************************************************)
(* The cursor names of the statements of one connection: the names an      *)
(* application gives with SQLSetCursorNameW and those SQLGetCursorNameW    *)
(* makes up from one counter of the process.                               *)
(***************************************************************************)
EXTENDS SessionAttributes, Sequences, SequencesExt

CONSTANTS
  Name,       \* names an application may choose, the empty one among them
  Generated,  \* the names SQL_CURSRnnnn core makes up, in order; as many as the bound
  Empty

ASSUME NameAssumption == /\ Empty \in Name /\ None \notin Name
                         /\ Generated \in Seq(Name \ {Empty})
                         /\ IsInjective(Generated)

VARIABLES
  cursor_name,  \* StatementHandle::cursor_name
  made          \* CURSOR_NAME_COUNTER

nameVars == <<cursor_name, made>>

\* The names do not meet the limits or the isolation level in the code: an
\* application that names cursors sets neither (a bound).
Unlimited ==
  /\ conn.isolation = None
  /\ \A s \in Live, a \in Limit : stmts[s].stored[a] = 0 /\ setter[a] = None

NameInit == AttrInit /\ cursor_name = [s \in Stmt |-> None] /\ made = 0

\* A handle made again for the same token starts without a name.
NamesFollow ==
  /\ cursor_name' = [s \in Stmt |-> IF stmts'[s] = None THEN None ELSE cursor_name[s]]
  /\ UNCHANGED made
  /\ Unlimited' \/ \A s \in Stmt : cursor_name[s] = None

\* A fault: the prefix of the made-up names is not reserved.
AnyName(name) == name # Empty
\* 34000 for an empty name and for the prefixes of the made-up ones.
ValidName(name) == name # Empty /\ ~Contains(Generated, name)

\* SQLSetCursorNameW: 24000 once executed, 3C000 for the name of a sibling.
SetCursorName(s, name) ==
  /\ s \in Live /\ Unlimited
  /\ ValidName(name)
  /\ stmts[s].at = "idle"
  /\ \A other \in Live \ {s} : cursor_name[other] # name
  /\ cursor_name' = [cursor_name EXCEPT ![s] = name]
  /\ UNCHANGED <<allVars, made>>

\* SQLGetCursorNameW keeps the name it makes up.
GetCursorName(s) ==
  /\ s \in Live /\ Unlimited
  /\ cursor_name[s] = None
  /\ made < Len(Generated)
  /\ cursor_name' = [cursor_name EXCEPT ![s] = Generated[made + 1]]
  /\ made' = made + 1
  /\ UNCHANGED allVars

NameNext ==
  \/ AttrNext /\ NamesFollow
  \/ \E s \in Stmt : \/ \E name \in Name : SetCursorName(s, name)
                     \/ GetCursorName(s)

-----------------------------------------------------------------------------
(***************************************************************************)
(* The cursor names of a connection are unique, whatever mix of chosen and *)
(* made-up names its statements take over any sequence of executions,      *)
(* closes and reallocations (the 3C000 row of SQLSetCursorName).           *)
(***************************************************************************)
CursorNamesDistinct ==
  \A s, other \in Live :
    s # other /\ cursor_name[s] # None => cursor_name[s] # cursor_name[other]
=============================================================================
