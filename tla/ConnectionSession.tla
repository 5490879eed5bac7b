-------------------------- MODULE ConnectionSession --------------------------
(***************************************************************************)
(* One connection handle and the session the backend holds for it: the     *)
(* three ways to connect, the attributes set before and after, manual      *)
(* commit and its txn_dirty flag, SQLEndTran and SQLDisconnect.  A call    *)
(* core or the backend refuses changes nothing unless an action says so.   *)
(***************************************************************************)
EXTENDS Naturals

CONSTANTS
  Level,      \* isolation levels
  Supported,  \* the ones the data source runs at
  Default,    \* the one a new session starts with
  Key,        \* browse_connect_attrs, the attributes SQLBrowseConnectW requires
  None

ASSUME SessionAssumption == /\ Default \in Supported /\ Supported \subseteq Level
                            /\ None \notin Level \cup {"on", "off"}
                            /\ \A keys \in SUBSET Key : keys # None

\* What the backend holds for an open connection.
Session == [autocommit : {"on", "off"}, isolation : Supported, txn : BOOLEAN]

ASSUME NoneIsNoSession == None \notin Session

VARIABLES
  conn,     \* ConnectionHandle
  session,  \* external: the backend's session, if there is one
  given     \* history: what this browse sequence supplied so far

vars == <<conn, session, given>>

Init == /\ conn = [open |-> FALSE, autocommit |-> None, isolation |-> None,
                   txn_dirty |-> FALSE, browse |-> None]
        /\ session = None
        /\ given = {}

InManualCommit == conn.autocommit = "off"

\* What the session should run with, as SQLGetConnectAttr reports it.
Autocommit(c) == IF c.autocommit = None THEN "on" ELSE c.autocommit
Isolation(c) == IF c.isolation = None THEN Default ELSE c.isolation

NewSession == [autocommit |-> "on", isolation |-> Default, txn |-> FALSE]

-----------------------------------------------------------------------------
\* A fault: any autocommit switch is taken for the end of the transaction.
SetAutocommitClean(value) ==
  /\ session' = IF session = None THEN None
                ELSE [session EXCEPT !.autocommit = value,
                                     !.txn = @ /\ value = "off"]
  /\ conn' = [conn EXCEPT !.autocommit = value, !.txn_dirty = FALSE]
  /\ UNCHANGED given

\* set_autocommit reaches an open session; turning it on commits.
SetAutocommit(value) ==
  /\ session' = IF session = None THEN None
                ELSE [session EXCEPT !.autocommit = value,
                                     !.txn = @ /\ value = "off"]
  /\ conn' = [conn EXCEPT !.autocommit = value,
                          !.txn_dirty = @ /\ value # "on"]
  /\ UNCHANGED given

\* HY011 while work may have opened a transaction.  Before a connection exists
\* any level is stored, for the connect to check.
SetTxnIsolation(level) ==
  /\ ~conn.txn_dirty
  /\ conn.open => level \in Supported
  /\ session' = IF conn.open THEN [session EXCEPT !.isolation = level] ELSE session
  /\ conn' = [conn EXCEPT !.isolation = level]
  /\ UNCHANGED given

-----------------------------------------------------------------------------
\* A fault: the level set before the connection is not applied.
AppliedAutocommit == [NewSession EXCEPT !.autocommit = Autocommit(conn)]

(***************************************************************************)
(* apply_pending_connect_attrs on the session just opened: autocommit,     *)
(* then the isolation level.  Any failure closes the session again and     *)
(* fails the connect, so no connection runs with attributes it was not     *)
(* given.                                                                  *)
(***************************************************************************)
Applied == [NewSession EXCEPT !.autocommit = Autocommit(conn),
                              !.isolation = Isolation(conn)]
MayApply == Isolation(conn) \in Supported

ConnectSucceeds == /\ MayApply
                   /\ session' = Applied
                   /\ conn' = [conn EXCEPT !.open = TRUE, !.browse = None]
                   /\ given' = {}

\* SQLDriverConnectW and SQLConnectW; on failure the handle is as it was.
Connect == ~conn.open /\ ConnectSucceeds

(***************************************************************************)
(* SQLBrowseConnectW: what earlier calls supplied is merged in.  While     *)
(* something is missing it is kept; otherwise the call connects, and if    *)
(* that fails the sequence is over.                                        *)
(***************************************************************************)
Browse(keys) ==
  /\ ~conn.open
  /\ LET merged == keys \cup IF conn.browse = None THEN {} ELSE conn.browse IN
     IF merged # Key
     THEN /\ conn' = [conn EXCEPT !.browse = merged]
          /\ given' = given \cup keys
          /\ UNCHANGED session
     ELSE \/ ConnectSucceeds
          \/ /\ conn' = [conn EXCEPT !.browse = None]
             /\ given' = {}
             /\ UNCHANGED session

-----------------------------------------------------------------------------
\* A statement-producing call: note_work_started, then the open check, then
\* the backend call, which may open a transaction even when it fails.
Work ==
  /\ conn' = [conn EXCEPT !.txn_dirty = @ \/ InManualCommit]
  /\ session' \in IF conn.open /\ session.autocommit = "off"
                  THEN {session, [session EXCEPT !.txn = TRUE]} ELSE {session}
  /\ UNCHANGED given

\* end_tran_on_connection.  Nothing is assumed to have ended when it fails.
EndTran ==
  /\ conn.open
  /\ session' = [session EXCEPT !.txn = FALSE]
  /\ conn' = [conn EXCEPT !.txn_dirty = FALSE]
  /\ UNCHANGED given

EndTranFails ==
  /\ conn.open
  /\ session' \in {session, [session EXCEPT !.txn = FALSE]}
  /\ UNCHANGED <<conn, given>>

\* SQLDisconnect closes the session, or cancels a browse.
Disconnect ==
  /\ conn.open
  /\ session' = None
  /\ conn' = [conn EXCEPT !.open = FALSE]
  /\ UNCHANGED given

CancelBrowse ==
  /\ ~conn.open
  /\ conn.browse # None
  /\ conn' = [conn EXCEPT !.browse = None]
  /\ given' = {}
  /\ UNCHANGED session

Next ==
  \/ \E value \in {"on", "off"} : SetAutocommit(value)
  \/ \E level \in Level : SetTxnIsolation(level)
  \/ Connect
  \/ \E keys \in SUBSET Key : Browse(keys)
  \/ Work \/ EndTran \/ EndTranFails \/ Disconnect \/ CancelBrowse

Spec == Init /\ [][Next]_vars

-----------------------------------------------------------------------------
(***************************************************************************)
(* The handle and the session are well typed.                              *)
(***************************************************************************)
TypeOK ==
  /\ conn \in [open : BOOLEAN, autocommit : {"on", "off", None},
               isolation : Level \cup {None}, txn_dirty : BOOLEAN,
               browse : (SUBSET Key) \cup {None}]
  /\ session \in Session \cup {None}
  /\ given \subseteq Key

(***************************************************************************)
(* A transaction can be open in the backend only while txn_dirty says so,  *)
(* over any mix of commits, failed commits, autocommit switches and        *)
(* reconnects.                                                             *)
(***************************************************************************)
DirtyCoversTransaction ==
  session # None => (session.txn => conn.txn_dirty)

(***************************************************************************)
(* A connection is open exactly while the backend holds a session for it,  *)
(* and that session runs with the attributes SQLGetConnectAttr reports,    *)
(* those set before the connection existed included.                       *)
(***************************************************************************)
AttributesInForce ==
  /\ conn.open <=> session # None
  /\ conn.open => /\ session.autocommit = Autocommit(conn)
                  /\ session.isolation = Isolation(conn)

(***************************************************************************)
(* A session's isolation level never changes under an open transaction     *)
(* (the HY011 row of SQLSetConnectAttr).                                   *)
(***************************************************************************)
IsolationFixedInTransaction ==
  [][(session # None /\ session' # None) =>
       (session.txn => session'.isolation = session.isolation)]_vars

(***************************************************************************)
(* A browse connects with what this sequence supplied and nothing an       *)
(* abandoned sequence left behind.                                         *)
(***************************************************************************)
BrowseStartsAfresh == conn.browse # None => conn.browse \subseteq given
=============================================================================
