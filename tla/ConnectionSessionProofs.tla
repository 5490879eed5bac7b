----------------------- MODULE ConnectionSessionProofs -----------------------
(***************************************************************************)
(* Proofs about a connection and its session, for every set of isolation   *)
(* levels and of browse attributes.  The invariants need each other: that  *)
(* txn_dirty covers the transaction rests on the session and the handle    *)
(* agreeing on autocommit, and a reconnect finds no session left over only *)
(* because a handle that is not open has none.  The longest part is about  *)
(* connection strings: what is rendered and parsed again is what it was.   *)
(***************************************************************************)
EXTENDS ConnectRequests, SequenceTheorems, FiniteSetTheorems, WellFoundedInduction, TLAPS

IInv == /\ TypeOK
        /\ AttributesInForce
        /\ DirtyCoversTransaction
        /\ BrowseStartsAfresh

-----------------------------------------------------------------------------
(***************************************************************************)
(* The session apply_pending_connect_attrs leaves is one with the handle's *)
(* attributes and no transaction.                                          *)
(***************************************************************************)
LEMMA AppliedIsSession ==
  ASSUME TypeOK, MayApply
  PROVE  /\ Applied \in Session
         /\ Applied # None
         /\ Applied.autocommit = Autocommit(conn)
         /\ Applied.isolation = Isolation(conn)
         /\ Applied.txn = FALSE
<1>1. Autocommit(conn) \in {"on", "off"}
  BY SessionAssumption DEF TypeOK, Autocommit
<1>. QED
  BY <1>1, NoneIsNoSession, SessionAssumption
  DEF Applied, NewSession, MayApply, Session

(***************************************************************************)
(* Connecting, by any of the three calls, keeps the invariant.             *)
(***************************************************************************)
LEMMA ConnectKeepsIInv ==
  ASSUME IInv, ConnectSucceeds
  PROVE  IInv'
<1>1. /\ conn' = [conn EXCEPT !.open = TRUE, !.browse = None]
      /\ session' = Applied /\ given' = {} /\ MayApply
  BY DEF ConnectSucceeds
<1>2. TypeOK
  BY DEF IInv
<1>3. /\ Applied \in Session /\ Applied # None
      /\ Applied.autocommit = Autocommit(conn)
      /\ Applied.isolation = Isolation(conn) /\ Applied.txn = FALSE
  BY <1>1, <1>2, AppliedIsSession
<1>4. TypeOK'
  BY <1>1, <1>2, <1>3 DEF TypeOK
<1>5. conn'.autocommit = conn.autocommit /\ conn'.isolation = conn.isolation
      /\ conn'.open /\ conn'.browse = None
  BY <1>1, <1>2 DEF TypeOK
<1>6. AttributesInForce'
  BY <1>1, <1>3, <1>5 DEF AttributesInForce, Autocommit, Isolation
<1>7. DirtyCoversTransaction'
  BY <1>1, <1>3 DEF DirtyCoversTransaction
<1>8. BrowseStartsAfresh'
  BY <1>5 DEF BrowseStartsAfresh
<1>. QED  BY <1>4, <1>6, <1>7, <1>8 DEF IInv

(***************************************************************************)
(* The initial handle satisfies the invariant.                             *)
(***************************************************************************)
LEMMA InitIInv == Init => IInv
BY SessionAssumption, NoneIsNoSession
DEF Init, IInv, TypeOK, AttributesInForce, DirtyCoversTransaction, BrowseStartsAfresh

(***************************************************************************)
(* Every call keeps the invariant.                                         *)
(***************************************************************************)
LEMMA NextIInv == IInv /\ [Next]_vars => IInv'
<1>. SUFFICES ASSUME IInv, [Next]_vars PROVE IInv'
  OBVIOUS
<1>. USE SessionAssumption, NoneIsNoSession
     DEF IInv, TypeOK, AttributesInForce, DirtyCoversTransaction,
         BrowseStartsAfresh, Session, Autocommit, Isolation
<1>1. ASSUME NEW value \in {"on", "off"}, SetAutocommit(value) PROVE IInv'
  BY <1>1 DEF SetAutocommit
<1>2. ASSUME NEW level \in Level, SetTxnIsolation(level) PROVE IInv'
  BY <1>2 DEF SetTxnIsolation
<1>3. CASE Connect
  BY <1>3, ConnectKeepsIInv DEF Connect
<1>4. ASSUME NEW keys \in SUBSET Key, Browse(keys) PROVE IInv'
  <2>1. CASE ConnectSucceeds
    BY <2>1, ConnectKeepsIInv
  <2>2. CASE /\ conn' = [conn EXCEPT !.browse = None]
             /\ given' = {} /\ UNCHANGED session
    BY <2>2
  <2>3. CASE /\ conn' = [conn EXCEPT !.browse =
                        keys \cup IF conn.browse = None THEN {} ELSE conn.browse]
             /\ given' = given \cup keys /\ UNCHANGED session
    BY <2>3
  <2>. QED  BY <1>4, <2>1, <2>2, <2>3 DEF Browse
<1>5. CASE Work
  <2>1. CASE UNCHANGED session
    BY <1>5, <2>1 DEF Work
  <2>2. CASE /\ conn.open /\ session.autocommit = "off"
             /\ session' = [session EXCEPT !.txn = TRUE]
    <3>1. InManualCommit
      BY <2>2 DEF InManualCommit
    <3>. QED  BY <1>5, <2>2, <3>1 DEF Work
  <2>. QED  BY <1>5, <2>1, <2>2 DEF Work
<1>6. CASE EndTran
  BY <1>6 DEF EndTran
<1>7. CASE EndTranFails
  <2>1. CASE UNCHANGED session
    BY <1>7, <2>1 DEF EndTranFails
  <2>2. CASE session' = [session EXCEPT !.txn = FALSE]
    <3>1. UNCHANGED <<conn, given>> /\ session \in Session
      BY <1>7 DEF EndTranFails
    <3>2. /\ session' \in Session /\ session'.autocommit = session.autocommit
          /\ session'.isolation = session.isolation /\ ~session'.txn
      BY <2>2, <3>1
    <3>. QED  BY <3>1, <3>2
  <2>. QED  BY <1>7, <2>1, <2>2 DEF EndTranFails
<1>8. CASE Disconnect
  BY <1>8 DEF Disconnect
<1>9. CASE CancelBrowse
  BY <1>9 DEF CancelBrowse
<1>10. CASE UNCHANGED vars
  BY <1>10 DEF vars
<1>. QED
  BY <1>1, <1>2, <1>3, <1>4, <1>5, <1>6, <1>7, <1>8, <1>9, <1>10 DEF Next

LEMMA Invariance == Spec => []IInv
BY InitIInv, NextIInv, PTL DEF Spec

-----------------------------------------------------------------------------
(***************************************************************************)
(* Every open connection runs with the attributes its handle reports,      *)
(* whichever way it was connected and in whatever order they were set.     *)
(***************************************************************************)
THEOREM AttributesAlwaysInForce == Spec => []AttributesInForce
<1>1. IInv => AttributesInForce
  BY DEF IInv
<1>. QED  BY <1>1, Invariance, PTL

(***************************************************************************)
(* txn_dirty is set whenever the backend may have a transaction open.      *)
(***************************************************************************)
THEOREM DirtyAlwaysCovers == Spec => []DirtyCoversTransaction
<1>1. IInv => DirtyCoversTransaction
  BY DEF IInv
<1>. QED  BY <1>1, Invariance, PTL

(***************************************************************************)
(* No step changes the isolation level of a session that has a             *)
(* transaction open.                                                       *)
(***************************************************************************)
THEOREM IsolationNeverMovesInTransaction == Spec => IsolationFixedInTransaction
<1>. DEFINE Held == (session # None /\ session' # None) =>
                      (session.txn => session'.isolation = session.isolation)
<1>1. IInv /\ [Next]_vars => [Held]_vars
  <2>. SUFFICES ASSUME IInv, Next, session # None, session' # None, session.txn
                PROVE  session'.isolation = session.isolation
    BY DEF vars
  <2>1. /\ session \in Session /\ conn.open /\ conn.txn_dirty
    BY DEF IInv, TypeOK, AttributesInForce, DirtyCoversTransaction
  <2>. QED
    BY <2>1 DEF Next, SetAutocommit, SetTxnIsolation, Connect, Browse, Work,
                EndTran, EndTranFails, Disconnect, CancelBrowse, Session
<1>. QED  BY <1>1, Invariance, PTL DEF Spec, IsolationFixedInTransaction

-----------------------------------------------------------------------------
(***************************************************************************)
(* The calls of ConnectRequests, on the session they are about: each is a  *)
(* call of ConnectionSession, or leaves the session alone.                 *)
(***************************************************************************)
requestsVars == <<allVars, nameVars, requestVars>>

Connects == (\E keys \in SUBSET Key : Connect \/ Browse(keys)) /\ Carries

LEMMA RequestIsCall ==
  ASSUME [RequestNext]_requestsVars
  PROVE  Connects \/ AttrNext \/ UNCHANGED allVars
<1>1. CASE UNCHANGED requestsVars
  BY <1>1 DEF requestsVars
<1>2. ASSUME NEW text \in Strings, DriverConnect(text)  PROVE Connects
  BY <1>2 DEF DriverConnect, Connects
<1>3. ASSUME NEW text \in Strings, BrowseConnect(text)  PROVE Connects
  <2>1. \E keys \in SUBSET Key : Browse(keys) /\ Carries
    BY <1>3, Zenon DEF BrowseConnect
  <2>. QED  BY <2>1 DEF Connects
<1>4. ASSUME NEW arguments \in Argument, ConnectWith(arguments)  PROVE Connects
  BY <1>4 DEF ConnectWith, Connects
<1>5. CASE KeepsRequest
  BY <1>5 DEF KeepsRequest, NameNext, SetCursorName, GetCursorName
<1>. QED  BY <1>1, <1>2, <1>3, <1>4, <1>5 DEF RequestNext

LEMMA CallIsSessionStep ==
  ASSUME Connects \/ AttrNext \/ UNCHANGED allVars
  PROVE  [Next]_vars
<1>1. CASE Connects
  BY <1>1 DEF Connects, Next
<1>2. CASE AttrNext
  <2>1. CASE LeavesAttributes
    BY <2>1 DEF LeavesAttributes, Next
  <2>2. CASE EndsTransaction \/ Disconnects
    BY <2>2 DEF EndsTransaction, Disconnects, Next
  <2>3. ASSUME NEW c \in Catalog, SetCurrentCatalog(c)  PROVE UNCHANGED vars
    BY <2>3 DEF SetCurrentCatalog
  <2>4. ASSUME NEW a, NEW value, SetConnectAttr(a, value)  PROVE UNCHANGED vars
    BY <2>4 DEF SetConnectAttr
  <2>5. ASSUME NEW s, AllocStmt(s) \/ FreeStmt(s) \/ CloseCursor(s)  PROVE UNCHANGED vars
    BY <2>5 DEF AllocStmt, FreeStmt, CloseCursor
  <2>6. ASSUME NEW s, PrepareStmt(s) \/ \E at \in {"executed", "cursor"} : ExecuteStmt(s, at)
        PROVE  Work
    BY <2>6 DEF PrepareStmt, ExecuteStmt
  <2>7. ASSUME NEW s, NEW a, NEW value, SetStmtAttr(s, a, value)  PROVE UNCHANGED vars
    BY <2>7 DEF SetStmtAttr
  <2>. QED  BY <1>2, <2>1, <2>2, <2>3, <2>4, <2>5, <2>6, <2>7 DEF AttrNext, Next
<1>3. CASE UNCHANGED allVars
  BY <1>3 DEF allVars
<1>. QED  BY <1>1, <1>2, <1>3

(***************************************************************************)
(* A connection with its attributes, its statements, their cursor names    *)
(* and the strings it is connected with is a connection of                 *)
(* ConnectionSession: what is proved there holds here.                     *)
(***************************************************************************)
THEOREM ImplementsSession == RequestSpec => Spec
<1>1. RequestInit => Init
  BY DEF RequestInit, NameInit, AttrInit
<1>2. [RequestNext]_requestsVars => [Next]_vars
  BY RequestIsCall, CallIsSessionStep
<1>. QED  BY <1>1, <1>2, PTL DEF RequestSpec, Spec, requestsVars

-----------------------------------------------------------------------------
(***************************************************************************)
(* The attributes of the connection and of its statements.                 *)
(***************************************************************************)
Server == [catalog : Catalog, access : 0 .. 1, timeouts : [Timeouts -> 0 .. 1],
           limit : [Limit -> 0 .. 1]]

AttrTyped ==
  /\ attrs \in [catalog : Catalog \cup {None}, kept : [ConnStored -> 0 .. 1]]
  /\ conn.open => server \in Server
  /\ enforcer \in [Limit -> Enforcers]
  /\ \A a \in Limit : enforcer[a] = "core" => a = "query_timeout"
  /\ stmts \in [Stmt -> Statement \cup {None}]
  /\ Live # {} => conn.open
  /\ setter \in [Limit -> Live \cup {None}]

LimitsKept ==
  \A s \in Live, a \in Limit :
    /\ enforcer[a] = "source" /\ setter[a] = s => server.limit[a] = stmts[s].stored[a]
    /\ enforcer[a] = "core" => stmts[s].core = stmts[s].stored[a]
    /\ enforcer[a] = "nobody" => stmts[s].stored[a] = 0

ServerKept ==
  conn.open =>
    /\ "catalog" \notin moved /\ attrs.catalog # None => server.catalog = attrs.catalog
    /\ server.access = Kept("access_mode")
    /\ \A a \in Timeouts \ moved : server.timeouts[a] = Kept(a)

AttrInv == AttrTyped /\ LimitsKept /\ ServerKept

LEMMA NewStmtTyped == NewStmt \in Statement /\ NewStmt # None
<1>1. NewStmt \in Statement
  BY DEF NewStmt, Statement
<1>. QED  BY <1>1, AttributeAssumption

LEMMA KeptIs ==
  ASSUME AttrTyped
  PROVE  \A a \in ConnKept : Kept(a) \in 0 .. 1
BY DEF AttrTyped, Kept

(***************************************************************************)
(* A connect: the statements of an earlier session are gone with it.       *)
(***************************************************************************)
LEMMA ConnectsKeeps ==
  ASSUME IInv, IInv', AttrInv, Connects
  PROVE  AttrInv'
<1>1. ~conn.open /\ Live = {} /\ UNCHANGED <<attrs, enforcer, stmts, setter>>
  BY DEF Connects, Connect, Browse, Carries, AttrInv, AttrTyped
<1>2. Live' = Live
  BY <1>1 DEF Live
<1>3. CASE conn'.open
  <2>1. server' = NewServer
    BY <1>1, <1>3 DEF Connects, Carries, Opens, OpenServer
  <2>2. NewServer \in Server
    BY AttributeAssumption, KeptIs
       DEF NewServer, Server, AttrInv, AttrTyped, ConnKept, Ranged, Timeouts
  <2>3. AttrTyped'
    BY <1>1, <1>2, <1>3, <2>1, <2>2 DEF AttrInv, AttrTyped
  <2>4. LimitsKept'
    BY <1>1, <1>2 DEF LimitsKept
  <2>5. ServerKept'
    BY <1>1, <2>1 DEF ServerKept, NewServer, Kept
  <2>. QED  BY <2>3, <2>4, <2>5 DEF AttrInv
<1>4. CASE ~conn'.open
  <2>1. AttrTyped'
    BY <1>1, <1>2, <1>4 DEF AttrInv, AttrTyped
  <2>. QED  BY <1>1, <1>2, <1>4, <2>1 DEF AttrInv, LimitsKept, ServerKept
<1>. QED  BY <1>3, <1>4

\* A step that leaves the attributes and the connection's being open alone.
LEMMA SameAttributes ==
  ASSUME AttrInv, UNCHANGED attrVars, conn'.open <=> conn.open
  PROVE  AttrInv'
<1>1. /\ attrs' = attrs /\ server' = server /\ enforcer' = enforcer /\ stmts' = stmts
      /\ setter' = setter /\ moved' = moved /\ Live' = Live
  BY DEF attrVars, Live
<1>2. AttrTyped' /\ LimitsKept'
  BY <1>1 DEF AttrInv, AttrTyped, LimitsKept
<1>3. ServerKept'
  BY <1>1 DEF AttrInv, ServerKept, Kept
<1>. QED  BY <1>2, <1>3 DEF AttrInv

LEMMA SameOpen ==
  ASSUME IInv
  PROVE  /\ \A value \in {"on", "off"} : SetAutocommit(value) => conn'.open = conn.open
         /\ \A level \in Level : SetTxnIsolation(level) => conn'.open = conn.open
         /\ CancelBrowse \/ EndTranFails \/ EndTran \/ Work => conn'.open = conn.open
         /\ UNCHANGED vars => conn'.open = conn.open
BY DEF IInv, TypeOK, SetAutocommit, SetTxnIsolation, CancelBrowse, EndTranFails, EndTran,
       Work, vars

LEMMA LeavesKeeps ==
  ASSUME IInv, AttrInv, LeavesAttributes
  PROVE  AttrInv'
<1>1. conn'.open = conn.open
  BY SameOpen DEF LeavesAttributes
<1>. QED  BY <1>1, SameAttributes DEF LeavesAttributes

\* A step on the statements that leaves their limits as they are.
LEMMA SameLimits ==
  ASSUME AttrInv, conn'.open <=> conn.open, UNCHANGED <<attrs, enforcer, setter>>,
         stmts' \in [Stmt -> Statement \cup {None}],
         \A s \in Stmt : /\ stmts'[s] # None <=> stmts[s] # None
                         /\ stmts[s] # None => /\ stmts'[s].stored = stmts[s].stored
                                               /\ stmts'[s].core = stmts[s].core,
         \/ UNCHANGED <<server, moved>>
         \/ /\ \E c \in Catalog : server' = [server EXCEPT !.catalog = c]
            /\ moved' = moved \cup {"catalog"}
            /\ conn.open
  PROVE  AttrInv'
<1>1. Live' = Live
  BY DEF Live
<1>2. conn.open => /\ server' \in Server /\ server'.limit = server.limit
                   /\ server'.access = server.access /\ server'.timeouts = server.timeouts
                   /\ "catalog" \notin moved' => server'.catalog = server.catalog
  BY DEF AttrInv, AttrTyped, Server
<1>3. AttrTyped'
  BY <1>1, <1>2 DEF AttrInv, AttrTyped
<1>4. LimitsKept'
  <2>1. Live \subseteq Stmt /\ \A s \in Live : stmts[s] # None /\ conn.open
    BY DEF Live, AttrInv, AttrTyped
  <2>. QED  BY <1>1, <1>2, <2>1 DEF AttrInv, LimitsKept
<1>5. ServerKept'
  BY <1>2 DEF AttrInv, ServerKept, Kept
<1>. QED  BY <1>3, <1>4, <1>5 DEF AttrInv

LEMMA StatementsAre ==
  ASSUME AttrInv
  PROVE  /\ Live \subseteq Stmt
         /\ \A s \in Live : stmts[s] \in Statement /\ stmts[s] # None /\ conn.open
         /\ \A s \in Stmt : stmts[s] # None => s \in Live
         /\ stmts \in [Stmt -> Statement \cup {None}]
         /\ None \notin Statement
BY AttributeAssumption DEF AttrInv, AttrTyped, Live

LEMMA EndsTransactionKeeps ==
  ASSUME IInv, AttrInv, EndsTransaction
  PROVE  AttrInv'
<1>1. PICK behavior \in {"close", "delete", "preserve"} :
        stmts' = [s \in Stmt |-> IF s \in Live THEN Behaved(stmts[s], behavior) ELSE None]
  BY DEF EndsTransaction
<1>2. ASSUME NEW stmt \in Statement
      PROVE  /\ Behaved(stmt, behavior) \in Statement
             /\ Behaved(stmt, behavior).stored = stmt.stored
             /\ Behaved(stmt, behavior).core = stmt.core
  <2>1. Behaved(stmt, behavior) \in {stmt, [stmt EXCEPT !.at = "executed"],
                                     [stmt EXCEPT !.at = "idle"]}
    BY DEF Behaved
  <2>. QED  BY <2>1 DEF Statement
<1>3. conn'.open = conn.open /\ UNCHANGED <<attrs, enforcer, setter>>
      /\ UNCHANGED <<server, moved>>
  BY SameOpen DEF EndsTransaction
<1>4. stmts' \in [Stmt -> Statement \cup {None}]
  BY <1>1, <1>2, StatementsAre
<1>5. \A s \in Stmt : /\ stmts'[s] # None <=> stmts[s] # None
                      /\ stmts[s] # None => /\ stmts'[s].stored = stmts[s].stored
                                            /\ stmts'[s].core = stmts[s].core
  <2> SUFFICES ASSUME NEW s \in Stmt
               PROVE  /\ stmts'[s] # None <=> stmts[s] # None
                      /\ stmts[s] # None => /\ stmts'[s].stored = stmts[s].stored
                                            /\ stmts'[s].core = stmts[s].core
    OBVIOUS
  <2>1. CASE s \in Live
    BY <1>1, <1>2, <2>1, StatementsAre
  <2>2. CASE s \notin Live
    BY <1>1, <2>2, StatementsAre
  <2>. QED  BY <2>1, <2>2
<1>. QED  BY <1>3, <1>4, <1>5, SameLimits

LEMMA DisconnectsKeeps ==
  ASSUME IInv, IInv', AttrInv, Disconnects
  PROVE  AttrInv'
<1>1. ~conn'.open
  BY DEF Disconnects, Disconnect, IInv, TypeOK
<1>2. Live' = {}
  BY DEF Disconnects, Live
<1>3. /\ attrs' = attrs /\ enforcer' = enforcer /\ stmts' = [s \in Stmt |-> None]
      /\ setter' = [a \in Limit |-> None]
  BY DEF Disconnects
<1>. QED  BY <1>1, <1>2, <1>3 DEF AttrInv, AttrTyped, LimitsKept, ServerKept

LEMMA SetCurrentCatalogKeeps ==
  ASSUME AttrInv, NEW c \in Catalog, SetCurrentCatalog(c)
  PROVE  AttrInv'
<1>1. /\ conn' = conn /\ stmts' = stmts /\ enforcer' = enforcer /\ setter' = setter
      /\ Live' = Live /\ attrs' = [attrs EXCEPT !.catalog = c]
  BY DEF SetCurrentCatalog, vars, Live
<1>2. conn.open => server' = [server EXCEPT !.catalog = c] /\ moved' = moved \ {"catalog"}
  BY DEF SetCurrentCatalog
<1>3. conn.open => /\ server' \in Server /\ server'.limit = server.limit
                   /\ server'.access = server.access /\ server'.timeouts = server.timeouts
                   /\ server'.catalog = c
  BY <1>2 DEF AttrInv, AttrTyped, Server
<1>4. AttrTyped' /\ attrs'.kept = attrs.kept /\ attrs'.catalog = c
  BY <1>1, <1>3 DEF AttrInv, AttrTyped
<1>5. LimitsKept'
  BY <1>1, <1>3, StatementsAre DEF AttrInv, LimitsKept
<1>6. ServerKept'
  BY <1>1, <1>2, <1>3, <1>4 DEF AttrInv, ServerKept, Kept, Timeouts
<1>. QED  BY <1>4, <1>5, <1>6 DEF AttrInv

LEMMA SetConnectAttrKeeps ==
  ASSUME AttrInv, NEW b \in ConnStored, NEW value \in 0 .. 1, SetConnectAttr(b, value)
  PROVE  AttrInv'
<1>1. /\ conn' = conn /\ stmts' = stmts /\ enforcer' = enforcer /\ setter' = setter
      /\ Live' = {} /\ Live = {}
      /\ attrs' = [attrs EXCEPT !.kept[b] = value]
      /\ server' = IF b = "access_mode" /\ conn.open THEN [server EXCEPT !.access = value]
                   ELSE server
      /\ moved' = IF b \in Timeouts \cap ConnStored /\ conn.open THEN moved \cup {b} ELSE moved
  BY DEF SetConnectAttr, vars, Live
<1>2. /\ attrs'.catalog = attrs.catalog /\ attrs'.kept[b] = value
      /\ attrs'.kept \in [ConnStored -> 0 .. 1]
      /\ \A a \in ConnStored : a # b => attrs'.kept[a] = attrs.kept[a]
      /\ attrs' \in [catalog : Catalog \cup {None}, kept : [ConnStored -> 0 .. 1]]
  BY <1>1 DEF AttrInv, AttrTyped
<1>3. conn.open => /\ server' \in Server /\ server'.timeouts = server.timeouts
                   /\ server'.catalog = server.catalog
                   /\ server'.access = IF b = "access_mode" THEN value ELSE server.access
  BY <1>1 DEF AttrInv, AttrTyped, Server
<1>4. AttrTyped'
  BY <1>1, <1>2, <1>3 DEF AttrInv, AttrTyped
<1>5. LimitsKept'
  BY <1>1 DEF LimitsKept
<1>6. ServerKept'
  <2> SUFFICES ASSUME conn.open
               PROVE  /\ "catalog" \notin moved' /\ attrs'.catalog # None =>
                           server'.catalog = attrs'.catalog
                      /\ server'.access = Kept("access_mode")'
                      /\ \A a \in Timeouts \ moved' : server'.timeouts[a] = Kept(a)'
    BY <1>1 DEF ServerKept
  <2>1. /\ "catalog" \notin moved /\ attrs.catalog # None => server.catalog = attrs.catalog
        /\ server.access = Kept("access_mode")
        /\ \A a \in Timeouts \ moved : server.timeouts[a] = Kept(a)
    BY DEF AttrInv, ServerKept
  <2>2. \A a : Kept(a)' = IF a = b THEN value ELSE Kept(a)
    BY <1>2 DEF Kept
  <2>3. moved \subseteq moved' /\ (b \in Timeouts => b \in moved')
    BY <1>1
  <2>. QED  BY <1>2, <1>3, <2>1, <2>2, <2>3
<1>. QED  BY <1>4, <1>5, <1>6 DEF AttrInv

LEMMA AllocStmtKeeps ==
  ASSUME AttrInv, NEW s \in Stmt, AllocStmt(s)
  PROVE  AttrInv'
<1>1. /\ conn' = conn /\ conn.open /\ attrs' = attrs /\ server' = server /\ moved' = moved
      /\ enforcer' = enforcer /\ setter' = setter /\ s \notin Live
      /\ stmts' = [stmts EXCEPT ![s] = NewStmt]
  BY DEF AllocStmt, vars
<1>2. Live' = Live \cup {s} /\ stmts' \in [Stmt -> Statement \cup {None}]
      /\ stmts'[s] = NewStmt /\ \A t \in Live : stmts'[t] = stmts[t]
  BY <1>1, StatementsAre, NewStmtTyped DEF Live
<1>3. AttrTyped'
  BY <1>1, <1>2 DEF AttrInv, AttrTyped
<1>4. LimitsKept'
  <2>1. \A a \in Limit : setter[a] # s
    BY <1>1, AttributeAssumption DEF AttrInv, AttrTyped
  <2>2. \A a \in Limit : NewStmt.stored[a] = 0 /\ NewStmt.core = 0
    BY DEF NewStmt
  <2>. QED  BY <1>1, <1>2, <2>1, <2>2 DEF AttrInv, LimitsKept
<1>5. ServerKept'
  BY <1>1 DEF AttrInv, ServerKept, Kept
<1>. QED  BY <1>3, <1>4, <1>5 DEF AttrInv

LEMMA FreeStmtKeeps ==
  ASSUME AttrInv, NEW s \in Stmt, FreeStmt(s)
  PROVE  AttrInv'
<1>1. /\ conn' = conn /\ attrs' = attrs /\ server' = server /\ moved' = moved
      /\ enforcer' = enforcer /\ s \in Live
      /\ stmts' = [stmts EXCEPT ![s] = None]
      /\ setter' = [a \in Limit |-> IF setter[a] = s THEN None ELSE setter[a]]
  BY DEF FreeStmt, vars
<1>2. Live' = Live \ {s} /\ stmts' \in [Stmt -> Statement \cup {None}]
      /\ \A t \in Live : t # s => stmts'[t] = stmts[t]
  BY <1>1, StatementsAre DEF Live
<1>3. AttrTyped'
  BY <1>1, <1>2 DEF AttrInv, AttrTyped
<1>4. LimitsKept'
  BY <1>1, <1>2, AttributeAssumption, StatementsAre DEF AttrInv, LimitsKept
<1>5. ServerKept'
  BY <1>1 DEF AttrInv, ServerKept, Kept
<1>. QED  BY <1>3, <1>4, <1>5 DEF AttrInv

LEMMA MoveStmt ==
  ASSUME AttrInv, NEW s \in Live, NEW at \in {"idle", "executed", "cursor"},
         stmts' = [stmts EXCEPT ![s].at = at]
  PROVE  /\ stmts' \in [Stmt -> Statement \cup {None}]
         /\ \A t \in Stmt : /\ stmts'[t] # None <=> stmts[t] # None
                            /\ stmts[t] # None => /\ stmts'[t].stored = stmts[t].stored
                                                  /\ stmts'[t].core = stmts[t].core
<1> DEFINE moving == [stmts[s] EXCEPT !.at = at]
<1>1. /\ moving \in Statement /\ moving # None
      /\ moving.stored = stmts[s].stored /\ moving.core = stmts[s].core
  BY StatementsAre DEF Statement
<1>2. stmts' = [stmts EXCEPT ![s] = moving]
  BY StatementsAre
<1>. HIDE DEF moving
<1>. QED  BY <1>1, <1>2, StatementsAre

LEMMA StmtCallKeeps ==
  ASSUME IInv, AttrInv, NEW s \in Stmt,
         \/ PrepareStmt(s) \/ CloseCursor(s)
         \/ \E at \in {"executed", "cursor"} : ExecuteStmt(s, at)
  PROVE  AttrInv'
<1>1. /\ s \in Live /\ UNCHANGED <<attrs, enforcer, setter>>
      /\ \E at \in {"idle", "executed", "cursor"} : stmts' = [stmts EXCEPT ![s].at = at]
      /\ Work \/ UNCHANGED vars
      /\ \/ UNCHANGED <<server, moved>>
         \/ /\ \E c \in Catalog : server' = [server EXCEPT !.catalog = c]
            /\ moved' = moved \cup {"catalog"}
  BY Zenon DEF PrepareStmt, CloseCursor, ExecuteStmt
<1>2. conn'.open = conn.open /\ conn.open
  BY <1>1, SameOpen, StatementsAre
<1>3. /\ stmts' \in [Stmt -> Statement \cup {None}]
      /\ \A t \in Stmt : /\ stmts'[t] # None <=> stmts[t] # None
                         /\ stmts[t] # None => /\ stmts'[t].stored = stmts[t].stored
                                               /\ stmts'[t].core = stmts[t].core
  BY <1>1, MoveStmt
<1>. QED  BY <1>1, <1>2, <1>3, SameLimits

(***************************************************************************)
(* A limit is stored and offered to whoever enforces it, or substituted.   *)
(***************************************************************************)
LEMMA SetStmtAttrKeeps ==
  ASSUME AttrInv, NEW s \in Stmt, NEW b, NEW value \in 0 .. 1, SetStmtAttr(s, b, value)
  PROVE  AttrInv'
<1>1. /\ conn' = conn /\ attrs' = attrs /\ enforcer' = enforcer /\ moved' = moved
      /\ s \in Live /\ conn.open /\ server \in Server
  BY StatementsAre DEF SetStmtAttr, vars, AttrInv, AttrTyped
<1>2. CASE b \notin Limit
  <2>1. UNCHANGED attrVars
    BY <1>1, <1>2 DEF SetStmtAttr, attrVars
  <2>. QED  BY <1>1, <2>1, SameAttributes
<1>3. CASE b \in Limit
  <2> DEFINE kept == IF Substitutes(b, value) THEN 0 ELSE value
             old == stmts[s]
             new == [old EXCEPT !.stored[b] = kept,
                                !.core = IF enforcer[b] = "core" THEN value ELSE @]
  <2>1. /\ server' = IF enforcer[b] = "source" THEN [server EXCEPT !.limit[b] = value] ELSE server
        /\ setter' = IF enforcer[b] = "source" THEN [setter EXCEPT ![b] = s] ELSE setter
    BY <1>3 DEF SetStmtAttr, OfferLimit
  <2>2. stmts' = [stmts EXCEPT ![s] = new]
    BY <1>1, <1>3, StatementsAre DEF SetStmtAttr
  <2>3. kept = IF enforcer[b] = "nobody" THEN 0 ELSE value
    BY <1>3, AttributeAssumption DEF Substitutes, Substituted
  <2>4. kept \in 0 .. 1
    BY <2>3
  <2>. HIDE DEF kept
  <2>5. /\ new \in Statement /\ new.stored[b] = kept
        /\ new.core = IF enforcer[b] = "core" THEN value ELSE old.core
        /\ \A a \in Limit : a # b => new.stored[a] = old.stored[a]
    <3>1. old \in Statement
      BY <1>1, StatementsAre
    <3>. HIDE DEF old
    <3>. QED  BY <1>3, <2>4, <3>1 DEF Statement
  <2>. HIDE DEF new
  <2>6. /\ stmts' \in [Stmt -> Statement \cup {None}] /\ stmts'[s] = new /\ Live' = Live
        /\ \A t \in Live : t # s => stmts'[t] = stmts[t]
    BY <1>1, <2>2, <2>5, StatementsAre DEF Live
  <2>7. /\ server' \in Server /\ server'.access = server.access
        /\ server'.timeouts = server.timeouts /\ server'.catalog = server.catalog
        /\ enforcer[b] = "source" => server'.limit[b] = value
        /\ \A a \in Limit : a # b => server'.limit[a] = server.limit[a]
    BY <1>1, <1>3, <2>1 DEF Server
  <2>8. /\ setter' \in [Limit -> Live \cup {None}]
        /\ \A a \in Limit : a # b => setter'[a] = setter[a]
        /\ enforcer[b] = "source" => setter'[b] = s
    BY <1>1, <1>3, <2>1 DEF AttrInv, AttrTyped
  <2>9. AttrTyped'
    BY <1>1, <2>6, <2>7, <2>8 DEF AttrInv, AttrTyped
  <2>10. LimitsKept'
    <3> SUFFICES ASSUME NEW t \in Live, NEW a \in Limit
                 PROVE  /\ enforcer[a] = "source" /\ setter'[a] = t =>
                             server'.limit[a] = stmts'[t].stored[a]
                        /\ enforcer[a] = "core" => stmts'[t].core = stmts'[t].stored[a]
                        /\ enforcer[a] = "nobody" => stmts'[t].stored[a] = 0
      BY <1>1, <2>6 DEF LimitsKept
    <3>1. /\ enforcer[a] = "source" /\ setter[a] = t => server.limit[a] = stmts[t].stored[a]
          /\ enforcer[a] = "core" => stmts[t].core = stmts[t].stored[a]
          /\ enforcer[a] = "nobody" => stmts[t].stored[a] = 0
      BY DEF AttrInv, LimitsKept
    <3>2. enforcer[a] = "core" /\ enforcer[b] = "core" => a = b
      BY <1>3 DEF AttrInv, AttrTyped
    <3>3. CASE t = s /\ a = b
      BY <2>3, <2>5, <2>6, <2>7, <2>8, <3>3
    <3>4. CASE t = s /\ a # b
      BY <1>3, <2>5, <2>6, <2>7, <2>8, <3>1, <3>2, <3>4
    <3>5. CASE t # s
      BY <1>3, <2>1, <2>6, <2>7, <2>8, <3>1, <3>5
    <3>. QED  BY <3>3, <3>4, <3>5
  <2>11. ServerKept'
    BY <1>1, <2>7 DEF AttrInv, ServerKept, Kept
  <2>. QED  BY <2>9, <2>10, <2>11 DEF AttrInv
<1>. QED  BY <1>2, <1>3

LEMMA AttrStepKeeps ==
  ASSUME IInv, IInv', AttrInv, Connects \/ AttrNext \/ UNCHANGED allVars
  PROVE  AttrInv'
<1>1. CASE Connects
  BY <1>1, ConnectsKeeps
<1>2. CASE AttrNext
  <2>1. ASSUME NEW a \in StmtVaried, NEW s \in Stmt, NEW value \in 0 .. 1, SetStmtAttr(s, a, value)
        PROVE  AttrInv'
    BY <2>1, SetStmtAttrKeeps
  <2>2. ASSUME NEW s \in Stmt,
               \/ AllocStmt(s) \/ FreeStmt(s) \/ PrepareStmt(s) \/ CloseCursor(s)
               \/ \E at \in {"executed", "cursor"} : ExecuteStmt(s, at)
        PROVE  AttrInv'
    BY <2>2, AllocStmtKeeps, FreeStmtKeeps, StmtCallKeeps
  <2>. QED  BY <1>2, <2>1, <2>2, LeavesKeeps, EndsTransactionKeeps, DisconnectsKeeps,
               SetCurrentCatalogKeeps, SetConnectAttrKeeps DEF AttrNext
<1>3. CASE UNCHANGED allVars
  BY <1>3, SameAttributes, SameOpen DEF allVars
<1>. QED  BY <1>1, <1>2, <1>3

LEMMA AttrInitInv == AttrInit => AttrInv
<1> SUFFICES ASSUME AttrInit  PROVE AttrInv
  OBVIOUS
<1>1. Live = {} /\ ~conn.open
  BY DEF AttrInit, Live, Init
<1>2. AttrTyped
  BY <1>1 DEF AttrInit, AttrTyped
<1>. QED  BY <1>1, <1>2 DEF AttrInv, LimitsKept, ServerKept

-----------------------------------------------------------------------------
(***************************************************************************)
(* The cursor names, and what the calls that connect have been asked.      *)
(***************************************************************************)
NamesInv ==
  /\ cursor_name \in [Stmt -> Name \cup {None}]
  /\ made \in Nat
  /\ \A s \in Stmt \ Live : cursor_name[s] = None
  /\ \A s, other \in Stmt :
       s # other /\ cursor_name[s] # None => cursor_name[s] # cursor_name[other]
  /\ \A s \in Stmt, i \in DOMAIN Generated : cursor_name[s] = Generated[i] => i <= made

\* A browse remembers what was asked for and never more; so does the call that connects.
RequestInv ==
  /\ conn.browse = None => request = NoSettings
  /\ conn.browse # None => conn.browse \subseteq DOMAIN request
  /\ (conn.open /\ conn.browse = None) \/ SettingsAskedFor(request, asked)
  /\ RequestGranted

LEMMA NamesAre ==
  /\ None \notin Name /\ Empty \in Name
  /\ \A i \in DOMAIN Generated : Generated[i] \in Name \ {Empty} /\ Generated[i] # None
  /\ DOMAIN Generated = 1 .. Len(Generated) /\ Len(Generated) \in Nat
  /\ \A i, j \in DOMAIN Generated : Generated[i] = Generated[j] => i = j
<1>1. Generated \in Seq(Name \ {Empty}) /\ None \notin Name /\ Empty \in Name
  BY NameAssumption
<1>2. DOMAIN Generated = 1 .. Len(Generated) /\ Len(Generated) \in Nat
  BY <1>1
<1>3. \A i \in DOMAIN Generated : Generated[i] \in Name \ {Empty}
  BY <1>1, <1>2
<1>4. \A i, j \in DOMAIN Generated : Generated[i] = Generated[j] => i = j
  BY NameAssumption DEF IsInjective
<1>. QED  BY <1>1, <1>2, <1>3, <1>4

LEMMA NamesFollowKeeps ==
  ASSUME NamesInv, NamesFollow
  PROVE  NamesInv'
<1>1. /\ cursor_name' = [s \in Stmt |-> IF stmts'[s] = None THEN None ELSE cursor_name[s]]
      /\ made' = made
  BY DEF NamesFollow
<1>2. \A s \in Stmt : cursor_name'[s] # None => cursor_name'[s] = cursor_name[s]
  BY <1>1
<1>3. \A s \in Stmt \ Live' : cursor_name'[s] = None
  BY <1>1 DEF Live
<1>4. cursor_name' \in [Stmt -> Name \cup {None}]
  BY <1>1 DEF NamesInv
<1>5. \A s \in Stmt, i \in DOMAIN Generated : cursor_name'[s] = Generated[i] => i <= made'
  BY <1>1, <1>2, NamesAre DEF NamesInv
<1>6. \A s, other \in Stmt :
        s # other /\ cursor_name'[s] # None => cursor_name'[s] # cursor_name'[other]
  BY <1>2 DEF NamesInv
<1>. QED  BY <1>1, <1>3, <1>4, <1>5, <1>6 DEF NamesInv

LEMMA SetCursorNameKeeps ==
  ASSUME NamesInv, NEW s \in Stmt, NEW name \in Name, SetCursorName(s, name)
  PROVE  NamesInv'
<1>1. /\ s \in Live /\ cursor_name' = [cursor_name EXCEPT ![s] = name]
      /\ made' = made /\ Live' = Live
      /\ \A other \in Live \ {s} : cursor_name[other] # name
  BY DEF SetCursorName, allVars, attrVars, Live
<1>2. \A i \in DOMAIN Generated : Generated[i] # name
  BY DEF SetCursorName, ValidName, Contains
<1>3. \A other \in Stmt : other # s => cursor_name[other] # name
  BY <1>1, NamesAre DEF NamesInv
<1>4. /\ cursor_name' \in [Stmt -> Name \cup {None}] /\ cursor_name'[s] = name
      /\ \A other \in Stmt : other # s => cursor_name'[other] = cursor_name[other]
  BY <1>1 DEF NamesInv
<1>5. \A t, other \in Stmt :
        t # other /\ cursor_name'[t] # None => cursor_name'[t] # cursor_name'[other]
  BY <1>3, <1>4 DEF NamesInv
<1>6. \A t \in Stmt, i \in DOMAIN Generated : cursor_name'[t] = Generated[i] => i <= made'
  BY <1>1, <1>2, <1>4 DEF NamesInv
<1>7. \A t \in Stmt \ Live' : cursor_name'[t] = None
  BY <1>1, <1>4 DEF NamesInv
<1>. QED  BY <1>1, <1>4, <1>5, <1>6, <1>7 DEF NamesInv

LEMMA GetCursorNameKeeps ==
  ASSUME NamesInv, NEW s \in Stmt, GetCursorName(s)
  PROVE  NamesInv'
<1> DEFINE name == Generated[made + 1]
<1>1. /\ s \in Live /\ cursor_name' = [cursor_name EXCEPT ![s] = name]
      /\ made' = made + 1 /\ made < Len(Generated) /\ Live' = Live
  BY DEF GetCursorName, allVars, attrVars, Live
<1>2. made \in Nat /\ made + 1 \in DOMAIN Generated
  BY <1>1, NamesAre DEF NamesInv
<1>3. name \in Name /\ name # None /\ \A i \in DOMAIN Generated : Generated[i] = name => i = made + 1
  BY <1>2, NamesAre
<1>4. \A other \in Stmt : cursor_name[other] # name
  BY <1>2 DEF NamesInv
<1>. HIDE DEF name
<1>5. /\ cursor_name' \in [Stmt -> Name \cup {None}] /\ cursor_name'[s] = name
      /\ \A other \in Stmt : other # s => cursor_name'[other] = cursor_name[other]
  BY <1>1, <1>3 DEF NamesInv
<1>6. \A t, other \in Stmt :
        t # other /\ cursor_name'[t] # None => cursor_name'[t] # cursor_name'[other]
  BY <1>4, <1>5 DEF NamesInv
<1>7. \A t \in Stmt, i \in DOMAIN Generated : cursor_name'[t] = Generated[i] => i <= made'
  <2> SUFFICES ASSUME NEW t \in Stmt, NEW i \in DOMAIN Generated, cursor_name'[t] = Generated[i]
               PROVE  i <= made + 1
    BY <1>1
  <2>1. i \in Nat
    BY NamesAre
  <2>2. CASE t = s
    <3>1. i = made + 1
      BY <1>3, <1>5, <2>2
    <3>. QED  BY <1>2, <3>1
  <2>3. CASE t # s
    <3>1. i <= made
      BY <1>5, <2>3 DEF NamesInv
    <3>. QED  BY <1>2, <2>1, <3>1
  <2>. QED  BY <2>2, <2>3
<1>8. \A t \in Stmt \ Live' : cursor_name'[t] = None
  BY <1>1, <1>5 DEF NamesInv
<1>. QED  BY <1>1, <1>2, <1>5, <1>6, <1>7, <1>8 DEF NamesInv

LEMMA NamesStepKeeps ==
  ASSUME NamesInv, [RequestNext]_requestsVars
  PROVE  NamesInv'
<1>1. CASE UNCHANGED requestsVars
  BY <1>1 DEF requestsVars, allVars, attrVars, nameVars, NamesInv, Live
<1>2. CASE NamesFollow
  BY <1>2, NamesFollowKeeps
<1>3. CASE NameNext
  BY <1>3, NamesFollowKeeps, SetCursorNameKeeps, GetCursorNameKeeps DEF NameNext
<1>. QED  BY <1>1, <1>2, <1>3 DEF RequestNext, DriverConnect, ConnectWith, BrowseConnect,
                                  KeepsRequest

-----------------------------------------------------------------------------
(***************************************************************************)
(* Scans.  A scan over 1..n is told from its end: what it finds at a place *)
(* follows from what it finds at a later one.  Recursive definitions of    *)
(* that kind have a function that satisfies them, and what holds at the    *)
(* end and is carried back holds everywhere.                               *)
(***************************************************************************)
\* A set of numbers has a least element.
LEMMA LeastElement ==
  ASSUME NEW T, T \subseteq Nat, T # {}
  PROVE  \E x \in T : \A y \in T : x <= y
<1>. DEFINE Below == OpToRel(<, Nat)
<1>1. \E x \in T : \A y \in T : ~ (<<y, x>> \in Below)
  BY NatLessThanWellFounded, WFMin, Zenon
<1>2. \A x, y \in Nat : <<y, x>> \in Below <=> y < x
  BY DEF OpToRel
<1>. HIDE DEF Below
<1>3. \A x, y \in Nat : ~ (y < x) <=> x <= y
  OBVIOUS
<1>. QED  BY <1>1, <1>2, <1>3, Zenon


\* A recursion over 0..n that goes back to an earlier place, and a scan over
\* 1..n that goes on at a later one, with the place each step rests on.
Recursion(n, S, base, prev, step) ==
  /\ n \in Nat /\ base \in S
  /\ prev \in [1..n -> Nat] /\ \A i \in 1..n : prev[i] < i
  /\ step \in [1..n -> [S -> S]]
ScanOf(n, S, base, next, step) ==
  /\ n \in Nat /\ base \in S
  /\ next \in [1..n -> Nat] /\ \A i \in 1..n : i < next[i] /\ next[i] <= n + 1
  /\ step \in [1..n -> [S -> S]]

\* There is a function that satisfies such a recursion.
LEMMA UpwardRecursion ==
  ASSUME NEW n, NEW S, NEW base, NEW prev, NEW step, Recursion(n, S, base, prev, step)
  PROVE  \E f \in [0..n -> S] : f[0] = base /\ \A i \in 1..n : f[i] = step[i][f[prev[i]]]
<1>. DEFINE Up(m, f) == f \in [0..m -> S] /\ f[0] = base /\ \A i \in 1..m : f[i] = step[i][f[prev[i]]]
            Bad == {m \in 0..n : ~ \E f : Up(m, f)}
<1>. /\ n \in Nat /\ base \in S
     /\ prev \in [1..n -> Nat] /\ \A i \in 1..n : prev[i] < i
     /\ step \in [1..n -> [S -> S]]
  BY DEF Recursion
<1>1. CASE Bad = {}
  <2>1. n \in 0..n
    OBVIOUS
  <2>2. \E f : Up(n, f)
    <3>. HIDE DEF Up
    <3>. QED  BY <1>1, <2>1
  <2>. QED  BY <2>2
<1>2. CASE Bad # {}
  <2>1. PICK m \in Bad : \A k \in Bad : m <= k
    <3>1. Bad \subseteq Nat
      <4>. HIDE DEF Up
      <4>. QED  OBVIOUS
    <3>. HIDE DEF Bad
    <3>. QED  BY <1>2, <3>1, LeastElement
  <2>2. m \in 0..n /\ ~ \E f : Up(m, f)
    <3>. HIDE DEF Up
    <3>. QED  BY <2>1
  <2>3. Up(0, [i \in 0..0 |-> base])
    OBVIOUS
  <2>4. m # 0
    <3>. HIDE DEF Up
    <3>. QED  BY <2>2, <2>3
  <2>5. PICK f : Up(m - 1, f)
    <3>1. m - 1 \in 0..n /\ ~ (m <= m - 1)
      BY <2>2, <2>4
    <3>2. m - 1 \notin Bad
      <4>. HIDE DEF Bad
      <4>. QED  BY <2>1, <3>1
    <3>. HIDE DEF Up
    <3>. QED  BY <3>1, <3>2
  <2>. DEFINE last == step[m][f[prev[m]]]
              g == [i \in 0..m |-> IF i < m THEN f[i] ELSE last]
  <2>6. m \in 1..n /\ prev[m] \in 0..m - 1
    BY <2>2, <2>4
  <2>7. last \in S
    BY <2>5, <2>6
  <2>8. \A i \in 0..m - 1 : g[i] = f[i]
    BY <2>6
  <2>9. g[m] = step[m][g[prev[m]]]
    BY <2>6, <2>8
  <2>10. \A i \in 1..m - 1 : prev[i] \in 0..m - 1
    BY <2>6
  <2>11. g \in [0..m -> S] /\ g[0] = base
    BY <2>5, <2>6, <2>7
  <2>12. \A i \in 1..m - 1 : g[i] = step[i][g[prev[i]]]
    <3>. HIDE DEF g
    <3>. QED  BY <2>5, <2>8, <2>10, <2>6
  <2>13. Up(m, g)
    <3>. HIDE DEF g
    <3>. QED  BY <2>6, <2>9, <2>11, <2>12
  <2>. HIDE DEF Up
  <2>. QED  BY <2>2, <2>13
<1>. QED  BY <1>1, <1>2

\* What holds at 0 and is carried on by every step holds everywhere.
LEMMA UpwardInduction ==
  ASSUME NEW n \in Nat, NEW P, NEW prev \in [1..n -> Nat], \A i \in 1..n : prev[i] < i,
         0 \in P, \A i \in 1..n : prev[i] \in P => i \in P
  PROVE  0..n \subseteq P
<1>. DEFINE Bad == (0..n) \ P
<1>. SUFFICES ASSUME Bad # {} PROVE FALSE
  OBVIOUS
<1>1. PICK m \in Bad : \A k \in Bad : m <= k
  <2>1. Bad \subseteq Nat
    OBVIOUS
  <2>. HIDE DEF Bad
  <2>. QED  BY <2>1, LeastElement
<1>2. m \in 1..n
  BY <1>1
<1>3. prev[m] \in 0..n /\ ~ (m <= prev[m])
  BY <1>2
<1>. QED  BY <1>1, <1>2, <1>3

\* The same for a scan that goes upward and is told from its end.
LEMMA ScanRecursion ==
  ASSUME NEW n, NEW S, NEW base, NEW next, NEW step, ScanOf(n, S, base, next, step)
  PROVE  \E f \in [1..n + 1 -> S] : f[n + 1] = base /\ \A i \in 1..n : f[i] = step[i][f[next[i]]]
<1>. DEFINE prev == [i \in 1..n |-> n + 1 - next[n + 1 - i]]
            back == [i \in 1..n |-> step[n + 1 - i]]
<1>0. /\ n \in Nat /\ base \in S
      /\ next \in [1..n -> Nat] /\ \A i \in 1..n : i < next[i] /\ next[i] <= n + 1
      /\ step \in [1..n -> [S -> S]]
  BY DEF ScanOf
<1>1. \A i \in 1..n : n + 1 - i \in 1..n
  BY <1>0
<1>2. prev \in [1..n -> Nat] /\ \A i \in 1..n : prev[i] < i
  BY <1>0, <1>1
<1>3. back \in [1..n -> [S -> S]]
  BY <1>0, <1>1
<1>4. PICK g \in [0..n -> S] : g[0] = base /\ \A i \in 1..n : g[i] = back[i][g[prev[i]]]
  <2>. HIDE DEF prev, back
  <2>1. Recursion(n, S, base, prev, back)
    BY <1>0, <1>2, <1>3 DEF Recursion
  <2>. QED  BY <2>1, UpwardRecursion
<1>. DEFINE f == [i \in 1..n + 1 |-> g[n + 1 - i]]
<1>5. f \in [1..n + 1 -> S] /\ f[n + 1] = base
  BY <1>0, <1>4
<1>6. ASSUME NEW i \in 1..n PROVE f[i] = step[i][f[next[i]]]
  <2>1. n + 1 - i \in 1..n /\ n + 1 - (n + 1 - i) = i
    BY <1>0
  <2>2. f[i] = g[n + 1 - i] /\ prev[n + 1 - i] = n + 1 - next[i] /\ back[n + 1 - i] = step[i]
    BY <1>0, <2>1
  <2>3. f[next[i]] = g[n + 1 - next[i]]
    <3>1. next[i] \in 1..n + 1
      BY <1>0
    <3>. HIDE DEF prev, back
    <3>. QED  BY <3>1
  <2>. HIDE DEF f, prev, back
  <2>. QED  BY <1>4, <2>1, <2>2, <2>3
<1>. QED  BY <1>5, <1>6

\* What holds at the end and is carried back by every step holds everywhere.
LEMMA ScanInduction ==
  ASSUME NEW n \in Nat, NEW P, NEW next \in [1..n -> Nat],
         \A i \in 1..n : i < next[i] /\ next[i] <= n + 1,
         n + 1 \in P, \A i \in 1..n : next[i] \in P => i \in P
  PROVE  1..n + 1 \subseteq P
<1>. DEFINE prev == [i \in 1..n |-> n + 1 - next[n + 1 - i]]
            Q == {j \in 0..n : n + 1 - j \in P}
<1>1. prev \in [1..n -> Nat] /\ \A i \in 1..n : prev[i] < i
  OBVIOUS
<1>2. 0 \in Q /\ \A i \in 1..n : prev[i] \in Q => i \in Q
  <2>1. 0 \in Q
    OBVIOUS
  <2>2. ASSUME NEW i \in 1..n, prev[i] \in Q PROVE i \in Q
    <3>1. n + 1 - i \in 1..n /\ prev[i] = n + 1 - next[n + 1 - i]
      OBVIOUS
    <3>2. n + 1 - prev[i] = next[n + 1 - i]
      BY <3>1
    <3>3. next[n + 1 - i] \in P
      BY <2>2, <3>2
    <3>. QED  BY <3>1, <3>3
  <2>. QED  BY <2>1, <2>2
<1>3. 0..n \subseteq Q
  <2>. HIDE DEF prev, Q
  <2>. QED  BY <1>1, <1>2, UpwardInduction
<1>4. ASSUME NEW i \in 1..n + 1 PROVE i \in P
  <2>1. n + 1 - i \in 0..n /\ n + 1 - (n + 1 - i) = i
    OBVIOUS
  <2>. QED  BY <1>3, <2>1
<1>. QED  BY <1>4

-----------------------------------------------------------------------------
(***************************************************************************)
(* FlattenSeq: the sequences stand in what it makes one after the other.   *)
(***************************************************************************)
Sequences(T, seqs) == seqs \in Seq(Seq(T))

\* The beginnings of what FlattenSeq makes of some sequences.
Beginnings(T, seqs, f) ==
  /\ f \in [0..Len(seqs) -> Seq(T)] /\ f[0] = <<>>
  /\ \A i \in 1..Len(seqs) : f[i] = f[i - 1] \o seqs[i]

LEMMA ConcatIs ==
  ASSUME NEW T, NEW a \in Seq(T), NEW b \in Seq(T), NEW c, c = a \o b
  PROVE  /\ c \in Seq(T) /\ Len(c) = Len(a) + Len(b) /\ Len(a) \in Nat /\ Len(b) \in Nat
         /\ \A j \in 1..Len(a) : c[j] = a[j]
         /\ \A j \in 1..Len(b) : c[Len(a) + j] = b[j]
OBVIOUS

\* FlattenSeq is the last of the beginnings it is put together from.
LEMMA FlattenSeqIs ==
  ASSUME NEW T, NEW seqs, Sequences(T, seqs)
  PROVE  \E f : Beginnings(T, seqs, f) /\ FlattenSeq(seqs) = f[Len(seqs)]
<1>. DEFINE n == Len(seqs)
            S == Seq(T)
            prev == [i \in 1..n |-> i - 1]
            step == [i \in 1..n |-> [x \in S |-> x \o seqs[i]]]
<1>0. n \in Nat /\ \A i \in 1..n : seqs[i] \in S
  BY DEF Sequences
<1>. HIDE DEF n
<1>1. <<>> \in S /\ prev \in [1..n -> Nat] /\ \A i \in 1..n : prev[i] < i
  BY <1>0
<1>2. step \in [1..n -> [S -> S]]
  <2>1. \A i \in 1..n : \A x \in S : x \o seqs[i] \in S
    BY <1>0
  <2>. QED  BY <2>1
<1>3. Recursion(n, S, <<>>, prev, step)
  <2>. HIDE DEF S, prev, step
  <2>. QED  BY <1>0, <1>1, <1>2 DEF Recursion
<1>4. PICK f \in [0..n -> S] : f[0] = <<>> /\ \A i \in 1..n : f[i] = step[i][f[prev[i]]]
  <2>. HIDE DEF S, prev, step
  <2>. QED  BY <1>3, UpwardRecursion
<1>5. ASSUME NEW i \in 1..n PROVE f[i] = f[i - 1] \o seqs[i]
  <2>1. prev[i] = i - 1 /\ i - 1 \in 0..n
    BY <1>0
  <2>2. f[i - 1] \in S
    BY <2>1, <1>4
  <2>. QED  BY <1>4, <2>1, <2>2
<1>6. Beginnings(T, seqs, f)
  BY <1>4, <1>5 DEF Beginnings, n
<1>7. CASE n = 0
  <2>1. seqs = <<>>
    BY <1>7 DEF n, Sequences
  <2>. QED  BY <1>4, <1>6, <1>7, <2>1 DEF FlattenSeq, n
<1>8. CASE n # 0
  <2>. DEFINE Body(g) == [i \in 1..n |-> IF i = 1 THEN seqs[i] ELSE g[i - 1] \o seqs[i]]
              g == CHOOSE g : g = Body(g)
  <2>. DEFINE h == [i \in 1..n |-> f[i]]
  <2>0. f[1] = seqs[1]
    <3>1. 1 \in 1..n /\ 1 - 1 = 0
      BY <1>0, <1>8
    <3>2. f[1] = f[1 - 1] \o seqs[1] /\ seqs[1] \in Seq(T)
      BY <1>0, <1>5, <3>1, Zenon
    <3>3. f[1] = <<>> \o seqs[1]
      BY <1>4, <3>1, <3>2, Zenon
    <3>4. <<>> \o seqs[1] = seqs[1]
      BY <3>2
    <3>. QED  BY <3>3, <3>4, Zenon
  <2>1. h = Body(h)
    <3>1. ASSUME NEW i \in 1..n
          PROVE  h[i] = IF i = 1 THEN seqs[i] ELSE h[i - 1] \o seqs[i]
      <4>1. CASE i = 1
        BY <2>0, <4>1
      <4>2. CASE i # 1
        <5>1. i - 1 \in 1..n
          BY <1>0, <4>2
        <5>2. h[i] = f[i] /\ h[i - 1] = f[i - 1]
          BY <5>1
        <5>. HIDE DEF h
        <5>. QED  BY <1>5, <4>2, <5>2
      <4>. QED  BY <4>1, <4>2
    <3>2. h = [i \in 1..n |-> h[i]]
      OBVIOUS
    <3>. HIDE DEF h
    <3>3. [i \in 1..n |-> h[i]] = Body(h)
      BY <3>1, Zenon
    <3>. QED  BY <3>2, <3>3
  <2>2. g = Body(g)
    <3>. HIDE DEF Body
    <3>. QED  BY <2>1
  <2>. HIDE DEF g
  <2>. DEFINE P == {i \in 0..n : i = 0 \/ g[i] = f[i]}
  <2>3. 0 \in P /\ \A i \in 1..n : prev[i] \in P => i \in P
    <3>1. 0 \in P
      BY <1>0
    <3>2. ASSUME NEW i \in 1..n, prev[i] \in P PROVE i \in P
      <4>1. g[i] = IF i = 1 THEN seqs[i] ELSE g[i - 1] \o seqs[i]
        BY <2>2
      <4>2. CASE i = 1
        <5>1. g[i] = f[i]
          BY <2>0, <4>1, <4>2
        <5>2. i \in 0..n
          BY <1>0
        <5>. QED  BY <5>1, <5>2
      <4>3. CASE i # 1
        <5>1. prev[i] = i - 1 /\ i - 1 # 0
          BY <1>0, <4>3
        <5>2. g[i - 1] = f[i - 1]
          BY <3>2, <5>1
        <5>3. g[i] = f[i]
          BY <1>5, <4>1, <4>3, <5>2, Zenon
        <5>4. i \in 0..n
          BY <1>0
        <5>. QED  BY <5>3, <5>4
      <4>. QED  BY <4>2, <4>3
    <3>. QED  BY <3>1, <3>2
  <2>4. 0..n \subseteq P
    <3>. HIDE DEF P, prev
    <3>. QED  BY <1>0, <1>1, <2>3, UpwardInduction
  <2>5. g[n] = f[n]
    <3>1. n \in 0..n
      BY <1>0
    <3>2. n \in P
      BY <2>4, <3>1
    <3>. QED  BY <3>2, <1>8
  <2>6. FlattenSeq(seqs) = g[n]
    BY <1>8, Zenon DEF FlattenSeq, g, n
  <2>. QED  BY <1>6, <2>5, <2>6 DEF n
<1>. QED  BY <1>7, <1>8

\* Where each of the sequences stands in a text that starts behind c.
Laid(text, c, seqs, at) ==
  /\ at \in [1..Len(seqs) + 1 -> Nat] /\ at[1] = 0
  /\ \A m \in 1..Len(seqs) : /\ at[m + 1] = at[m] + Len(seqs[m])
                             /\ \A j \in 1..Len(seqs[m]) : text[c + at[m] + j] = seqs[m][j]

\* Each sequence stands where the lengths of those before it put it.
LEMMA FlattenSeqLays ==
  ASSUME NEW T, NEW seqs, Sequences(T, seqs)
  PROVE  /\ FlattenSeq(seqs) \in Seq(T)
         /\ \E at : Laid(FlattenSeq(seqs), 0, seqs, at) /\ Len(FlattenSeq(seqs)) = at[Len(seqs) + 1]
<1>. DEFINE n == Len(seqs)
<1>1. PICK f : Beginnings(T, seqs, f) /\ FlattenSeq(seqs) = f[n]
  BY FlattenSeqIs
<1>2. /\ n \in Nat /\ \A i \in 1..n : seqs[i] \in Seq(T)
      /\ f \in [0..n -> Seq(T)] /\ f[0] = <<>>
      /\ \A i \in 1..n : f[i] = f[i - 1] \o seqs[i]
  <2>1. n \in Nat /\ \A i \in 1..n : seqs[i] \in Seq(T)
    BY DEF Sequences
  <2>. QED  BY <1>1, <2>1, Zenon DEF Beginnings, n
<1>. HIDE DEF n
<1>. DEFINE Prefix(i, k) == Len(f[i]) <= Len(f[k]) /\ \A j \in 1..Len(f[i]) : f[k][j] = f[i][j]
            P == {k \in 0..n : \A i \in 0..k : Prefix(i, k)}
            prev == [i \in 1..n |-> i - 1]
<1>3. 0 \in P
  <2>1. \A i \in 0..0 : i = 0
    OBVIOUS
  <2>2. Prefix(0, 0)
    BY <1>2
  <2>. HIDE DEF Prefix
  <2>. QED  BY <1>2, <2>1, <2>2
<1>4. ASSUME NEW k \in 1..n, k - 1 \in P PROVE k \in P
  <2>1. k - 1 \in 0..n /\ \A i \in 0..k - 1 : Prefix(i, k - 1)
    <3>. HIDE DEF Prefix
    <3>. QED  BY <1>4
  <2>2. f[k - 1] \in Seq(T) /\ seqs[k] \in Seq(T) /\ f[k] = f[k - 1] \o seqs[k]
    BY <1>2, <2>1
  <2>. DEFINE a == f[k - 1]
              b == seqs[k]
              c == f[k]
  <2>3. /\ Len(c) = Len(a) + Len(b) /\ Len(a) \in Nat /\ Len(b) \in Nat
        /\ \A j \in 1..Len(a) : c[j] = a[j]
    <3>1. a \in Seq(T) /\ b \in Seq(T) /\ c = a \o b
      BY <2>2, Zenon
    <3>. HIDE DEF a, b, c
    <3>. QED  BY <3>1, ConcatIs
  <2>5. ASSUME NEW i \in 0..k PROVE Prefix(i, k)
    <3>1. CASE i = k
      <4>1. f[k] \in Seq(T)
        BY <1>2
      <4>2. Len(f[k]) \in Nat
        BY <4>1
      <4>. QED  BY <3>1, <4>2
    <3>2. CASE i # k
      <4>1. i \in 0..k - 1 /\ i \in 0..n
        BY <3>2, <1>2
      <4>2. Prefix(i, k - 1)
        <5>. HIDE DEF Prefix
        <5>. QED  BY <2>1, <4>1
      <4>3. f[i] \in Seq(T)
        BY <1>2, <4>1
      <4>. DEFINE d == f[i]
      <4>4. Len(d) \in Nat
        BY <4>3
      <4>5. Len(d) <= Len(a) /\ \A j \in 1..Len(d) : a[j] = d[j]
        BY <4>2, Zenon
      <4>6. Len(d) <= Len(c) /\ \A j \in 1..Len(d) : c[j] = d[j]
        <5>. HIDE DEF a, b, c, d
        <5>. QED  BY <2>3, <4>4, <4>5
      <4>. QED  BY <4>6, Zenon
    <3>. QED  BY <3>1, <3>2
  <2>. HIDE DEF Prefix
  <2>. QED  BY <1>2, <2>5
<1>5. 0..n \subseteq P
  <2>1. prev \in [1..n -> Nat] /\ \A i \in 1..n : prev[i] < i
    BY <1>2
  <2>2. \A i \in 1..n : prev[i] \in P => i \in P
    <3>. HIDE DEF P
    <3>. QED  BY <1>4
  <2>. HIDE DEF P, prev
  <2>. QED  BY <1>2, <1>3, <2>1, <2>2, UpwardInduction
<1>. DEFINE at == [m \in 1..n + 1 |-> Len(f[m - 1])]
<1>6. \A i \in 0..n : Prefix(i, n)
  <2>1. n \in P
    <3>. HIDE DEF P
    <3>. QED  BY <1>2, <1>5
  <2>. HIDE DEF Prefix
  <2>. QED  BY <2>1
<1>7. at \in [1..n + 1 -> Nat] /\ at[1] = 0 /\ at[n + 1] = Len(f[n])
  <2>1. \A m \in 1..n + 1 : m - 1 \in 0..n
    BY <1>2
  <2>2. \A m \in 1..n + 1 : Len(f[m - 1]) \in Nat
    BY <1>2, <2>1
  <2>3. at[1] = Len(f[0]) /\ at[n + 1] = Len(f[n])
    BY <1>2
  <2>. QED  BY <1>2, <2>2, <2>3
<1>8. ASSUME NEW m \in 1..n
      PROVE  /\ at[m + 1] = at[m] + Len(seqs[m])
             /\ \A j \in 1..Len(seqs[m]) : f[n][0 + at[m] + j] = seqs[m][j]
  <2>1. m - 1 \in 0..n /\ m \in 0..n /\ m + 1 - 1 = m
    BY <1>2
  <2>2. f[m - 1] \in Seq(T) /\ seqs[m] \in Seq(T) /\ f[m] = f[m - 1] \o seqs[m]
    BY <1>2, <2>1
  <2>3. at[m] = Len(f[m - 1]) /\ at[m + 1] = Len(f[m])
    BY <1>2, <2>1
  <2>. DEFINE a == f[m - 1]
              b == seqs[m]
              c == f[m]
  <2>4. /\ Len(c) = Len(a) + Len(b) /\ Len(a) \in Nat /\ Len(b) \in Nat
        /\ \A j \in 1..Len(b) : c[Len(a) + j] = b[j]
    <3>1. a \in Seq(T) /\ b \in Seq(T) /\ c = a \o b
      BY <2>2, Zenon
    <3>. HIDE DEF a, b, c
    <3>. QED  BY <3>1, ConcatIs
  <2>5. ASSUME NEW j \in 1..Len(b) PROVE f[n][0 + at[m] + j] = b[j]
    <3>1. at[m] = Len(a)
      BY <2>3
    <3>2. Len(a) + j \in 1..Len(c) /\ 0 + Len(a) + j = Len(a) + j
      <4>. HIDE DEF a, b, c
      <4>. QED  BY <2>4
    <3>3. \A x \in 1..Len(c) : f[n][x] = c[x]
      <4>1. Prefix(m, n)
        <5>. HIDE DEF Prefix
        <5>. QED  BY <1>6, <2>1
      <4>. QED  BY <4>1
    <3>. HIDE DEF a, b, c, at
    <3>. QED  BY <2>4, <3>1, <3>2, <3>3, Zenon
  <2>6. at[m + 1] = at[m] + Len(seqs[m])
    BY <2>3, <2>4, Zenon
  <2>. QED  BY <2>5, <2>6, Zenon
<1>9. Laid(f[n], 0, seqs, at)
  <2>. HIDE DEF at
  <2>. QED  BY <1>7, <1>8 DEF Laid, n
<1>10. f[n] \in Seq(T)
  BY <1>2
<1>. QED  BY <1>1, <1>7, <1>9, <1>10 DEF n

-----------------------------------------------------------------------------
(***************************************************************************)
(* FirstOf and Trimmed.                                                    *)
(***************************************************************************)
LEMMA GreatestElement ==
  ASSUME NEW n \in Nat, NEW T, T \subseteq 0..n, T # {}
  PROVE  \E x \in T : \A y \in T : y <= x
<1>. DEFINE M == {n - x : x \in T}
<1>1. M \subseteq Nat /\ M # {}
  <2>1. \A x \in T : n - x \in Nat
    OBVIOUS
  <2>. QED  BY <2>1, Zenon
<1>2. PICK m \in M : \A y \in M : m <= y
  <2>. HIDE DEF M
  <2>. QED  BY <1>1, LeastElement
<1>3. PICK x \in T : m = n - x
  BY <1>2
<1>4. ASSUME NEW y \in T PROVE y <= x
  <2>1. n - x <= n - y
    BY <1>2, <1>3
  <2>. QED  BY <2>1
<1>. QED  BY <1>4

\* FirstOf is the first place of its kind, and the end when there is none.
LEMMA FirstOfIs ==
  ASSUME NEW T, NEW text \in Seq(T), NEW i \in Nat, i <= Len(text) + 1, NEW S
  PROVE  LET at == FirstOf(text, i, S)
         IN  /\ at \in Nat /\ i <= at /\ at <= Len(text) + 1
             /\ at <= Len(text) => text[at] \in S
             /\ \A j \in Nat : i <= j /\ j < at => text[j] \notin S
<1>. DEFINE n == Len(text)
            found == {j \in i..n : text[j] \in S}
            least == CHOOSE j \in found : \A k \in found : j <= k
<1>0. n \in Nat
  OBVIOUS
<1>. HIDE DEF n
<1>1. CASE found = {}
  <2>1. FirstOf(text, i, S) = n + 1
    BY <1>1, Zenon DEF FirstOf, n
  <2>2. \A j \in Nat : i <= j /\ j < n + 1 => text[j] \notin S
    BY <1>0, <1>1
  <2>. QED  BY <1>0, <2>1, <2>2 DEF n
<1>2. CASE found # {}
  <2>1. FirstOf(text, i, S) = least
    BY <1>2, Zenon DEF FirstOf, n
  <2>2. \E j \in found : \A k \in found : j <= k
    <3>1. found \subseteq Nat
      BY <1>0
    <3>. HIDE DEF found
    <3>. QED  BY <1>2, <3>1, LeastElement
  <2>3. least \in found /\ \A k \in found : least <= k
    <3>. HIDE DEF found
    <3>. QED  BY <2>2
  <2>. HIDE DEF least
  <2>4. least \in i..n /\ text[least] \in S
    BY <2>3
  <2>5. ASSUME NEW j \in Nat, i <= j, j < least PROVE text[j] \notin S
    <3>1. j \in i..n
      BY <1>0, <2>4, <2>5
    <3>. QED  BY <2>3, <2>4, <2>5, <3>1
  <2>. QED  BY <1>0, <2>1, <2>4, <2>5 DEF n
<1>. QED  BY <1>1, <1>2

LEMMA FirstOfAt ==
  ASSUME NEW T, NEW text \in Seq(T), NEW i \in Nat, NEW S, NEW k \in Nat,
         i <= k, k <= Len(text) + 1, k <= Len(text) => text[k] \in S,
         \A j \in Nat : i <= j /\ j < k => text[j] \notin S
  PROVE  FirstOf(text, i, S) = k
<1>. DEFINE at == FirstOf(text, i, S)
            n == Len(text)
<1>1. n \in Nat /\ k <= n + 1
  OBVIOUS
<1>2. /\ at \in Nat /\ i <= at /\ at <= n + 1
      /\ at <= n => text[at] \in S
      /\ \A j \in Nat : i <= j /\ j < at => text[j] \notin S
  BY FirstOfIs
<1>. HIDE DEF at, n
<1>3. ~ (at < k)
  BY <1>1, <1>2
<1>4. ~ (k < at)
  <2>. SUFFICES ASSUME k < at PROVE FALSE
    OBVIOUS
  <2>1. k <= n
    BY <1>1, <1>2
  <2>. QED  BY <1>2, <2>1 DEF n
<1>5. at = k
  BY <1>1, <1>2, <1>3, <1>4
<1>. QED  BY <1>5 DEF at

\* Trimming takes nothing but blanks.
LEMMA TrimmedIs ==
  ASSUME NEW T, NEW text \in Seq(T)
  PROVE  /\ Trimmed(text) \in Seq(T)
         /\ text # <<>> /\ text[1] # " " => Trimmed(text) # <<>> /\ Trimmed(text)[1] = text[1]
         /\ (text # <<>> => text[1] # " " /\ text[Len(text)] # " ") => Trimmed(text) = text
<1>. DEFINE n == Len(text)
            kept == {j \in 1..n : text[j] # " "}
            first == CHOOSE j \in kept : \A k \in kept : j <= k
            last == CHOOSE j \in kept : \A k \in kept : k <= j
<1>0. n \in Nat
  OBVIOUS
<1>a. text = <<>> => n = 0
  OBVIOUS
<1>b. n = 0 => text = <<>>
  OBVIOUS
<1>c. kept \subseteq Nat /\ kept \subseteq 0..n
  <2>1. 1..n \subseteq Nat /\ 1..n \subseteq 0..n
    BY <1>0
  <2>. QED  BY <2>1, Zenon
<1>. HIDE DEF n
<1>1. CASE kept = {}
  <2>1. Trimmed(text) = <<>>
    BY <1>1, Zenon DEF Trimmed, n
  <2>2. \A j \in 1..n : text[j] = " "
    BY <1>1
  <2>3. CASE n = 0
    BY <1>b, <2>1, <2>3 DEF n
  <2>4. CASE n # 0
    <3>1. 1 \in 1..n /\ n \in 1..n
      BY <1>0, <2>4
    <3>2. text[1] = " " /\ text # <<>>
      BY <1>a, <2>2, <2>4, <3>1, Zenon
    <3>3. Trimmed(text) \in Seq(T)
      BY <2>1
    <3>. QED  BY <3>2, <3>3, Zenon DEF n
  <2>. QED  BY <2>3, <2>4, Zenon
<1>2. CASE kept # {}
  <2>1. Trimmed(text) = SubSeq(text, first, last)
    BY <1>2, Zenon DEF Trimmed, n
  <2>2. first \in kept /\ \A k \in kept : first <= k
    <3>2. \E j \in kept : \A k \in kept : j <= k
      <4>. HIDE DEF kept
      <4>. QED  BY <1>2, <1>c, LeastElement
    <3>. HIDE DEF kept
    <3>. QED  BY <3>2
  <2>3. last \in kept /\ \A k \in kept : k <= last
    <3>2. \E j \in kept : \A k \in kept : k <= j
      <4>. HIDE DEF kept
      <4>. QED  BY <1>0, <1>2, <1>c, GreatestElement
    <3>. HIDE DEF kept
    <3>. QED  BY <3>2
  <2>. HIDE DEF first, last
  <2>4. first \in 1..n /\ last \in 1..n /\ first <= last
    BY <2>2, <2>3
  <2>5. SubSeq(text, first, last) \in Seq(T) /\ Len(SubSeq(text, first, last)) = last - first + 1
        /\ SubSeq(text, first, last)[1] = text[first]
    BY <1>0, <2>4 DEF n
  <2>6. ASSUME text[1] # " " PROVE first = 1
    <3>1. 1 \in 1..n
      BY <1>0, <2>4
    <3>2. 1 \in kept
      BY <2>6, <3>1, Zenon
    <3>3. first <= 1
      BY <2>2, <3>2, Zenon
    <3>. QED  BY <2>4, <3>3
  <2>7. ASSUME text[n] # " " PROVE last = n
    <3>1. n \in 1..n
      BY <1>0, <2>4
    <3>2. n \in kept
      BY <2>7, <3>1, Zenon
    <3>3. n <= last
      BY <2>3, <3>2, Zenon
    <3>. QED  BY <1>0, <2>4, <3>3
  <2>8. Trimmed(text) # <<>>
    <3>1. Len(Trimmed(text)) # 0
      BY <2>1, <2>4, <2>5
    <3>. QED  BY <3>1
  <2>9. SubSeq(text, 1, n) = text
    BY SubSeqFull DEF n
  <2>10. ASSUME text # <<>> => text[1] # " " /\ text[n] # " " PROVE Trimmed(text) = text
    <3>1. n # 0
      BY <2>4, <1>0
    <3>2. first = 1 /\ last = n
      BY <1>a, <2>6, <2>7, <2>10, <3>1, Zenon
    <3>. QED  BY <2>1, <2>9, <3>2, Zenon
  <2>11. text[1] # " " => Trimmed(text)[1] = text[1]
    BY <2>1, <2>5, <2>6, Zenon
  <2>12. Trimmed(text) \in Seq(T)
    BY <2>1, <2>5, Zenon
  <2>. QED  BY <2>8, <2>10, <2>11, <2>12, Zenon DEF n
<1>. QED  BY <1>1, <1>2, Zenon

-----------------------------------------------------------------------------
(***************************************************************************)
(* Closing and Undoubled are what their scans say.                         *)
(***************************************************************************)
\* Where the scan for the closing brace, or of what is doubled, goes on.
Doubles(text, k) == k < Len(text) /\ text[k + 1] = "}"
Behind(text, k) == IF text[k] = "}" /\ Doubles(text, k) THEN k + 2 ELSE k + 1
ClosingOf(text, close) ==
  /\ close[Len(text) + 1] = Len(text) + 1
  /\ \A k \in 1..Len(text) :
       close[k] = IF text[k] = "}" /\ ~Doubles(text, k) THEN k ELSE close[Behind(text, k)]

LEMMA BehindIs ==
  ASSUME NEW T, NEW text \in Seq(T), NEW k \in 1..Len(text)
  PROVE  Behind(text, k) \in Nat /\ k < Behind(text, k) /\ Behind(text, k) <= Len(text) + 1
<1>1. Len(text) \in Nat
  OBVIOUS
<1>2. CASE text[k] = "}" /\ Doubles(text, k)
  <2>1. Behind(text, k) = k + 2 /\ k < Len(text)
    BY <1>2, Zenon DEF Behind, Doubles
  <2>. QED  BY <1>1, <2>1
<1>3. CASE ~ (text[k] = "}" /\ Doubles(text, k))
  <2>1. Behind(text, k) = k + 1
    BY <1>3, Zenon DEF Behind
  <2>. QED  BY <1>1, <2>1
<1>. QED  BY <1>2, <1>3

\* Closing is a scan for a brace that is not doubled, and stays in the text.
LEMMA ClosingIs ==
  ASSUME NEW T, NEW text \in Seq(T)
  PROVE  \E close : /\ ClosingOf(text, close)
                    /\ \A i \in 1..Len(text) + 1 : Closing(text, i) = close[i]
                    /\ \A i \in 1..Len(text) + 1 : close[i] \in Nat /\ i <= close[i] /\ close[i] <= Len(text) + 1
<1>. DEFINE n == Len(text)
            next == [k \in 1..n |-> Behind(text, k)]
            Ends(k) == text[k] = "}" /\ ~Doubles(text, k)
            step == [k \in 1..n |-> [x \in Nat |-> IF Ends(k) THEN k ELSE x]]
            Body(f) == [k \in 1..n + 1 |-> IF k > n THEN n + 1
                                           ELSE IF text[k] # "}" THEN f[k + 1]
                                           ELSE IF Doubles(text, k) THEN f[k + 2] ELSE k]
            g == CHOOSE f : f = Body(f)
<1>0. n \in Nat /\ \A k \in 1..n : Behind(text, k) \in Nat /\ k < Behind(text, k) /\ Behind(text, k) <= n + 1
  BY BehindIs
<1>. HIDE DEF n
<1>a. 1..n \subseteq Nat
  BY <1>0
<1>1. ScanOf(n, Nat, n + 1, next, step)
  <2>1. next \in [1..n -> Nat] /\ \A i \in 1..n : i < next[i] /\ next[i] <= n + 1
    BY <1>0
  <2>2. step \in [1..n -> [Nat -> Nat]]
    BY <1>a, Zenon
  <2>3. n + 1 \in Nat
    BY <1>0
  <2>. HIDE DEF next, step
  <2>. QED  BY <1>0, <2>1, <2>2, <2>3, Zenon DEF ScanOf
<1>2. PICK f \in [1..n + 1 -> Nat] : f[n + 1] = n + 1 /\ \A i \in 1..n : f[i] = step[i][f[next[i]]]
  <2>. HIDE DEF next, step
  <2>. QED  BY <1>1, ScanRecursion
<1>3. ASSUME NEW k \in 1..n + 1, NEW h
      PROVE  Body(h)[k] = IF k = n + 1 THEN n + 1 ELSE IF Ends(k) THEN k ELSE h[Behind(text, k)]
  <2>0. k > n <=> k = n + 1
    BY <1>0
  <2>1. Body(h)[k] = IF k > n THEN n + 1
                     ELSE IF text[k] # "}" THEN h[k + 1]
                     ELSE IF Doubles(text, k) THEN h[k + 2] ELSE k
    BY Zenon
  <2>. HIDE DEF Body
  <2>2. CASE k = n + 1
    BY <2>0, <2>1, <2>2, Zenon
  <2>3. CASE k # n + 1
    <3>1. CASE text[k] # "}"
      BY <2>0, <2>1, <2>3, <3>1, Zenon DEF Behind
    <3>2. CASE text[k] = "}" /\ Doubles(text, k)
      BY <2>0, <2>1, <2>3, <3>2, Zenon DEF Behind
    <3>3. CASE text[k] = "}" /\ ~Doubles(text, k)
      BY <2>0, <2>1, <2>3, <3>3, Zenon DEF Behind
    <3>. QED  BY <3>1, <3>2, <3>3, Zenon
  <2>. QED  BY <2>2, <2>3, Zenon
<1>4. f = Body(f)
  <2>1. ASSUME NEW k \in 1..n + 1 PROVE f[k] = Body(f)[k]
    <3>1. CASE k = n + 1
      <4>. HIDE DEF Body
      <4>. QED  BY <1>2, <1>3, <3>1, Zenon
    <3>2. CASE k # n + 1
      <4>1. k \in 1..n /\ next[k] \in 1..n + 1
        BY <1>0, <3>2
      <4>2. f[next[k]] \in Nat
        BY <1>2, <4>1, Zenon
      <4>3. step[k][f[next[k]]] = IF Ends(k) THEN k ELSE f[next[k]]
        BY <4>1, <4>2, Zenon
      <4>4. next[k] = Behind(text, k)
        BY <4>1
      <4>. HIDE DEF Body, next, step
      <4>. QED  BY <1>2, <1>3, <3>2, <4>1, <4>3, <4>4, Zenon
    <3>. QED  BY <3>1, <3>2
  <2>2. Body(f) = [k \in 1..n + 1 |-> Body(f)[k]]
    OBVIOUS
  <2>. HIDE DEF Body
  <2>. QED  BY <1>2, <2>1, <2>2
<1>5. g = Body(g)
  <2>. HIDE DEF Body
  <2>. QED  BY <1>4
<1>6. \A i \in 1..n + 1 : Closing(text, i) = g[i]
  BY Zenon DEF Closing, g, n, Doubles
<1>7. \A k \in 1..n + 1 : g[k] = IF k = n + 1 THEN n + 1 ELSE IF Ends(k) THEN k ELSE g[Behind(text, k)]
  <2>. HIDE DEF Body, g
  <2>. QED  BY <1>3, <1>5, Zenon
<1>. HIDE DEF g, Body
<1>8. ClosingOf(text, g)
  <2>1. n + 1 \in 1..n + 1 /\ \A k \in 1..n : k \in 1..n + 1 /\ k # n + 1
    BY <1>0
  <2>. QED  BY <1>7, <2>1, Zenon DEF ClosingOf, n
<1>. DEFINE P == {i \in 1..n + 1 : g[i] \in Nat /\ i <= g[i] /\ g[i] <= n + 1}
<1>9. n + 1 \in P /\ \A i \in 1..n : next[i] \in P => i \in P
  <2>1. n + 1 \in P
    <3>1. n + 1 \in 1..n + 1 /\ n + 1 \in Nat /\ n + 1 <= n + 1
      BY <1>0
    <3>2. g[n + 1] = n + 1
      BY <1>7, <3>1, Zenon
    <3>. QED  BY <3>1, <3>2, Zenon
  <2>2. ASSUME NEW i \in 1..n, next[i] \in P PROVE i \in P
    <3>1. i \in 1..n + 1 /\ i # n + 1 /\ next[i] = Behind(text, i) /\ i < Behind(text, i)
      BY <1>0
    <3>2. g[i] = IF Ends(i) THEN i ELSE g[Behind(text, i)]
      BY <1>7, <3>1, Zenon
    <3>3. g[Behind(text, i)] \in Nat /\ Behind(text, i) <= g[Behind(text, i)] /\ g[Behind(text, i)] <= n + 1
      BY <2>2, <3>1, Zenon
    <3>4. CASE Ends(i)
      <4>1. g[i] = i
        BY <3>2, <3>4, Zenon
      <4>2. i \in Nat /\ i <= i /\ i <= n + 1
        BY <1>0
      <4>. QED  BY <3>1, <4>1, <4>2, Zenon
    <3>5. CASE ~Ends(i)
      <4>1. g[i] = g[Behind(text, i)]
        BY <3>2, <3>5, Zenon
      <4>. QED  BY <1>0, <3>1, <3>3, <4>1
    <3>. QED  BY <3>4, <3>5
  <2>. QED  BY <2>1, <2>2
<1>10. 1..n + 1 \subseteq P
  <2>1. next \in [1..n -> Nat] /\ \A i \in 1..n : i < next[i] /\ next[i] <= n + 1
    BY <1>0
  <2>. HIDE DEF P, next
  <2>. QED  BY <1>0, <1>9, <2>1, ScanInduction
<1>11. \A i \in 1..n + 1 : g[i] \in Nat /\ i <= g[i] /\ g[i] <= n + 1
  BY <1>10
<1>. QED  BY <1>6, <1>8, <1>11, Zenon DEF n

\* What is kept of a braced value.
Past(text, k) == IF text[k] = "}" /\ k < Len(text) THEN k + 2 ELSE k + 1
UndoubledOf(text, out) ==
  /\ out[Len(text) + 1] = <<>>
  /\ \A k \in 1..Len(text) : out[k] = <<text[k]>> \o out[Past(text, k)]

LEMMA PastIs ==
  ASSUME NEW T, NEW text \in Seq(T), NEW k \in 1..Len(text)
  PROVE  Past(text, k) \in Nat /\ k < Past(text, k) /\ Past(text, k) <= Len(text) + 1
<1>1. Len(text) \in Nat
  OBVIOUS
<1>2. CASE text[k] = "}" /\ k < Len(text)
  <2>1. Past(text, k) = k + 2 /\ k < Len(text)
    BY <1>2, Zenon DEF Past
  <2>. QED  BY <1>1, <2>1
<1>3. CASE ~ (text[k] = "}" /\ k < Len(text))
  <2>1. Past(text, k) = k + 1
    BY <1>3, Zenon DEF Past
  <2>. QED  BY <1>1, <2>1
<1>. QED  BY <1>2, <1>3

\* Undoubled is a scan that passes over the second of two braces.
LEMMA UndoubledIs ==
  ASSUME NEW T, NEW text \in Seq(T)
  PROVE  \E out \in [1..Len(text) + 1 -> Seq(T)] : UndoubledOf(text, out) /\ Undoubled(text) = out[1]
<1>. DEFINE n == Len(text)
            next == [k \in 1..n |-> Past(text, k)]
            step == [k \in 1..n |-> [x \in Seq(T) |-> <<text[k]>> \o x]]
            Body(f) == [k \in 1..n + 1 |-> IF k > n THEN <<>>
                          ELSE <<text[k]>> \o f[IF text[k] = "}" /\ k < n THEN k + 2 ELSE k + 1]]
            g == CHOOSE f : f = Body(f)
<1>0. n \in Nat /\ \A k \in 1..n : Past(text, k) \in Nat /\ k < Past(text, k) /\ Past(text, k) <= n + 1
  BY PastIs
<1>t. <<>> \in Seq(T) /\ \A k \in 1..n : \A x \in Seq(T) : <<text[k]>> \o x \in Seq(T)
  <2>1. \A k \in 1..n : text[k] \in T
    OBVIOUS
  <2>2. \A k \in 1..n : <<text[k]>> \in Seq(T)
    BY <2>1
  <2>3. \A a, b \in Seq(T) : a \o b \in Seq(T)
    OBVIOUS
  <2>. QED  BY <2>2, <2>3
<1>b. \A k : Past(text, k) = IF text[k] = "}" /\ k < n THEN k + 2 ELSE k + 1
  BY Zenon DEF Past
<1>. HIDE DEF n
<1>1. ScanOf(n, Seq(T), <<>>, next, step)
  <2>1. next \in [1..n -> Nat] /\ \A i \in 1..n : i < next[i] /\ next[i] <= n + 1
    BY <1>0
  <2>2. step \in [1..n -> [Seq(T) -> Seq(T)]]
    BY <1>t, Zenon
  <2>. HIDE DEF next, step
  <2>. QED  BY <1>0, <1>t, <2>1, <2>2, Zenon DEF ScanOf
<1>2. PICK f \in [1..n + 1 -> Seq(T)] : f[n + 1] = <<>> /\ \A i \in 1..n : f[i] = step[i][f[next[i]]]
  <2>. HIDE DEF next, step
  <2>. QED  BY <1>1, ScanRecursion
<1>3. ASSUME NEW k \in 1..n + 1, NEW h
      PROVE  Body(h)[k] = IF k = n + 1 THEN <<>> ELSE <<text[k]>> \o h[Past(text, k)]
  <2>0. k > n <=> k = n + 1
    BY <1>0
  <2>1. Body(h)[k] = IF k > n THEN <<>>
                     ELSE <<text[k]>> \o h[IF text[k] = "}" /\ k < n THEN k + 2 ELSE k + 1]
    BY Zenon
  <2>. HIDE DEF Body
  <2>2. (IF text[k] = "}" /\ k < n THEN k + 2 ELSE k + 1) = Past(text, k)
    BY <1>b, Zenon
  <2>3. CASE k = n + 1
    BY <2>0, <2>1, <2>3, Zenon
  <2>4. CASE k # n + 1
    BY <2>0, <2>1, <2>2, <2>4, Zenon
  <2>. QED  BY <2>3, <2>4, Zenon
<1>4. f = Body(f)
  <2>1. ASSUME NEW k \in 1..n + 1 PROVE f[k] = Body(f)[k]
    <3>1. CASE k = n + 1
      <4>. HIDE DEF Body
      <4>. QED  BY <1>2, <1>3, <3>1, Zenon
    <3>2. CASE k # n + 1
      <4>1. k \in 1..n /\ next[k] \in 1..n + 1
        BY <1>0, <3>2
      <4>2. f[next[k]] \in Seq(T)
        BY <1>2, <4>1, Zenon
      <4>3. step[k][f[next[k]]] = <<text[k]>> \o f[next[k]]
        BY <4>1, <4>2, Zenon
      <4>4. next[k] = Past(text, k)
        BY <4>1
      <4>. HIDE DEF Body, next, step
      <4>. QED  BY <1>2, <1>3, <3>2, <4>1, <4>3, <4>4, Zenon
    <3>. QED  BY <3>1, <3>2
  <2>2. Body(f) = [k \in 1..n + 1 |-> Body(f)[k]]
    OBVIOUS
  <2>. HIDE DEF Body
  <2>. QED  BY <1>2, <2>1, <2>2
<1>5. g = Body(g)
  <2>. HIDE DEF Body
  <2>. QED  BY <1>4
<1>6. Undoubled(text) = g[1]
  BY Zenon DEF Undoubled, g, n
<1>7. \A k \in 1..n + 1 : g[k] = IF k = n + 1 THEN <<>> ELSE <<text[k]>> \o g[Past(text, k)]
  <2>. HIDE DEF Body, g
  <2>. QED  BY <1>3, <1>5, Zenon
<1>d. g = [k \in 1..n + 1 |-> g[k]]
  <2>1. Body(g) = [k \in 1..n + 1 |-> Body(g)[k]]
    OBVIOUS
  <2>. HIDE DEF Body, g
  <2>. QED  BY <1>5, <2>1, Zenon
<1>. HIDE DEF g, Body
<1>8. UndoubledOf(text, g)
  <2>1. n + 1 \in 1..n + 1 /\ \A k \in 1..n : k \in 1..n + 1 /\ k # n + 1
    BY <1>0
  <2>. QED  BY <1>7, <2>1, Zenon DEF UndoubledOf, n
<1>. DEFINE P == {i \in 1..n + 1 : g[i] \in Seq(T)}
<1>9. n + 1 \in P /\ \A i \in 1..n : next[i] \in P => i \in P
  <2>1. n + 1 \in P
    <3>1. n + 1 \in 1..n + 1
      BY <1>0
    <3>2. g[n + 1] = <<>>
      BY <1>7, <3>1, Zenon
    <3>. QED  BY <1>t, <3>1, <3>2, Zenon
  <2>2. ASSUME NEW i \in 1..n, next[i] \in P PROVE i \in P
    <3>1. i \in 1..n + 1 /\ i # n + 1 /\ next[i] = Past(text, i)
      BY <1>0
    <3>2. g[i] = <<text[i]>> \o g[Past(text, i)]
      BY <1>7, <3>1, Zenon
    <3>3. g[Past(text, i)] \in Seq(T)
      BY <2>2, <3>1, Zenon
    <3>. QED  BY <1>t, <3>1, <3>2, <3>3, Zenon
  <2>. QED  BY <2>1, <2>2
<1>10. 1..n + 1 \subseteq P
  <2>1. next \in [1..n -> Nat] /\ \A i \in 1..n : i < next[i] /\ next[i] <= n + 1
    BY <1>0
  <2>. HIDE DEF P, next
  <2>. QED  BY <1>0, <1>9, <2>1, ScanInduction
<1>11. g \in [1..n + 1 -> Seq(T)]
  <2>1. \A k \in 1..n + 1 : g[k] \in Seq(T)
    BY <1>10
  <2>. QED  BY <1>d, <2>1, Zenon
<1>. QED  BY <1>6, <1>8, <1>11, Zenon DEF n

-----------------------------------------------------------------------------
(***************************************************************************)
(* A doubled value: its pieces, and the brace that closes it.              *)
(***************************************************************************)
LEMMA SeqIs ==
  ASSUME NEW T, NEW v \in Seq(T)
  PROVE  Len(v) \in Nat /\ \A k \in 1..Len(v) : v[k] \in T
OBVIOUS
LEMMA OneIs ==
  ASSUME NEW T, NEW x \in T
  PROVE  <<x>> \in Seq(T) /\ Len(<<x>>) = 1 /\ <<x>>[1] = x
OBVIOUS
LEMMA TwoAre ==
  ASSUME NEW T, NEW x \in T, NEW y \in T
  PROVE  <<x, y>> \in Seq(T) /\ Len(<<x, y>>) = 2 /\ <<x, y>>[1] = x /\ <<x, y>>[2] = y
OBVIOUS
LEMMA MadeIs ==
  ASSUME NEW T, NEW n \in Nat, NEW p, p = [k \in 1..n |-> p[k]], \A k \in 1..n : p[k] \in T
  PROVE  p \in Seq(T) /\ Len(p) = n
<1>1. p \in [1..n -> T]
  BY Zenon
<1>. QED  BY <1>1

\* By a name, which the provers take more easily than the string.
Brace == "}"

Pieces(v) == [i \in 1..Len(v) |-> IF v[i] = "}" THEN <<"}", "}">> ELSE <<v[i]>>]

\* What Laid says, one place after the other.
Sized(seqs, n) == n \in Nat /\ n = Len(seqs) /\ \A m \in 1..n : Len(seqs[m]) \in Nat
Places(text, c, seqs, at, n) ==
  /\ \A m \in 1..n + 1 : at[m] \in Nat /\ at[m] <= at[n + 1]
  /\ at[1] = 0
  /\ \A m \in 1..n : /\ at[m + 1] = at[m] + Len(seqs[m])
                     /\ \A j \in 1..Len(seqs[m]) : text[c + at[m] + j] = seqs[m][j]
LEMMA LaidIs ==
  ASSUME NEW text, NEW c, NEW seqs, NEW at, Laid(text, c, seqs, at), NEW n, Sized(seqs, n)
  PROVE  Places(text, c, seqs, at, n)
<1>0. n \in Nat /\ n = Len(seqs) /\ \A m \in 1..n : Len(seqs[m]) \in Nat
  BY Zenon DEF Sized
<1>1. /\ at \in [1..n + 1 -> Nat] /\ at[1] = 0
      /\ \A m \in 1..n : /\ at[m + 1] = at[m] + Len(seqs[m])
                         /\ \A j \in 1..Len(seqs[m]) : text[c + at[m] + j] = seqs[m][j]
  BY <1>0, Zenon DEF Laid
<1>. DEFINE P == {m \in 1..n + 1 : at[m] <= at[n + 1]}
            next == [m \in 1..n |-> m + 1]
<1>2. n + 1 \in P
  <2>1. n + 1 \in 1..n + 1
    BY <1>0
  <2>2. at[n + 1] \in Nat
    BY <1>1, <2>1, Zenon
  <2>3. at[n + 1] <= at[n + 1]
    BY <2>2
  <2>. QED  BY <2>1, <2>3, Zenon
<1>3. ASSUME NEW m \in 1..n, next[m] \in P PROVE m \in P
  <2>1. next[m] = m + 1 /\ m \in 1..n + 1 /\ m + 1 \in 1..n + 1 /\ n + 1 \in 1..n + 1
    BY <1>0
  <2>2. at[m + 1] <= at[n + 1] /\ at[m + 1] = at[m] + Len(seqs[m])
    BY <1>1, <1>3, <2>1, Zenon
  <2>3. at[m] \in Nat /\ at[n + 1] \in Nat /\ Len(seqs[m]) \in Nat
    BY <1>0, <1>1, <2>1, Zenon
  <2>4. at[m] <= at[n + 1]
    <3>. DEFINE a == at[m]
                b == at[n + 1]
                l == Len(seqs[m])
    <3>1. a \in Nat /\ b \in Nat /\ l \in Nat /\ a + l <= b
      BY <2>2, <2>3, Zenon
    <3>. HIDE DEF a, b, l
    <3>2. a <= b
      BY <3>1
    <3>. QED  BY <3>2 DEF a, b
  <2>. QED  BY <2>1, <2>4
<1>4. 1..n + 1 \subseteq P
  <2>1. next \in [1..n -> Nat] /\ \A i \in 1..n : i < next[i] /\ next[i] <= n + 1
    BY <1>0
  <2>. HIDE DEF P, next
  <2>. QED  BY <1>0, <1>2, <1>3, <2>1, ScanInduction
<1>5. \A m \in 1..n + 1 : at[m] \in Nat /\ at[m] <= at[n + 1]
  BY <1>1, <1>4, Zenon
<1>. QED  BY <1>1, <1>5, Zenon DEF Places

\* The pieces of a doubled value: a closing brace is two, all else is one.
LEMMA PiecesAre ==
  ASSUME NEW T, Brace \in T, NEW v \in Seq(T)
  PROVE  /\ Sequences(T, Pieces(v)) /\ Len(Pieces(v)) = Len(v)
         /\ \A k \in 1..Len(v) :
              /\ v[k] = "}" => Len(Pieces(v)[k]) = 2 /\ Pieces(v)[k][1] = "}" /\ Pieces(v)[k][2] = "}"
              /\ v[k] # "}" => Len(Pieces(v)[k]) = 1 /\ Pieces(v)[k][1] = v[k]
<1>1. Len(v) \in Nat /\ \A k \in 1..Len(v) : v[k] \in T
  BY SeqIs
<1>2. \A k \in 1..Len(v) : Pieces(v)[k] = IF v[k] = Brace THEN <<Brace, Brace>> ELSE <<v[k]>>
  BY Zenon DEF Pieces, Brace
<1>5. \A k \in 1..Len(v) :
        /\ Pieces(v)[k] \in Seq(T)
        /\ v[k] = Brace => Len(Pieces(v)[k]) = 2 /\ Pieces(v)[k][1] = Brace /\ Pieces(v)[k][2] = Brace
        /\ v[k] # Brace => Len(Pieces(v)[k]) = 1 /\ Pieces(v)[k][1] = v[k]
  <2>. TAKE k \in 1..Len(v)
  <2>1. CASE v[k] = Brace
    <3>1. Pieces(v)[k] = <<Brace, Brace>>
      BY <1>2, <2>1, Zenon
    <3>2. /\ <<Brace, Brace>> \in Seq(T) /\ Len(<<Brace, Brace>>) = 2
          /\ <<Brace, Brace>>[1] = Brace /\ <<Brace, Brace>>[2] = Brace
      BY TwoAre
    <3>. QED  BY <2>1, <3>1, <3>2, Zenon
  <2>2. CASE v[k] # Brace
    <3>1. Pieces(v)[k] = <<v[k]>>
      BY <1>2, <2>2, Zenon
    <3>2. <<v[k]>> \in Seq(T) /\ Len(<<v[k]>>) = 1 /\ <<v[k]>>[1] = v[k]
      BY <1>1, OneIs, Zenon
    <3>. QED  BY <2>2, <3>1, <3>2, Zenon
  <2>. QED  BY <2>1, <2>2, Zenon
<1>6. Pieces(v) = [k \in 1..Len(v) |-> Pieces(v)[k]]
  BY Zenon DEF Pieces
<1>7. Pieces(v) \in Seq(Seq(T)) /\ Len(Pieces(v)) = Len(v)
  BY <1>1, <1>5, <1>6, MadeIs
<1>. QED  BY <1>5, <1>7, Zenon DEF Sequences, Brace

LEMMA DoubledIs ==
  ASSUME NEW T, Brace \in T, NEW v \in Seq(T)
  PROVE  /\ Doubled(v) \in Seq(T)
         /\ \E at : Laid(Doubled(v), 0, Pieces(v), at) /\ Len(Doubled(v)) = at[Len(v) + 1]
<1>1. Doubled(v) = FlattenSeq(Pieces(v))
  BY Zenon DEF Doubled, Pieces
<1>2. Sequences(T, Pieces(v)) /\ Len(Pieces(v)) = Len(v)
  BY PiecesAre
<1>. QED  BY <1>1, <1>2, FlattenSeqLays, Zenon

\* A text with a doubled value behind c and a brace at end that closes it.
Braced(T, text, c, v, end) ==
  /\ Brace \in T /\ text \in Seq(T) /\ v \in Seq(T)
  /\ \A j \in 1..Len(Doubled(v)) : text[c + j] = Doubled(v)[j]
  /\ end = c + Len(Doubled(v)) + 1 /\ end <= Len(text)
  /\ text[end] = "}" /\ ~Doubles(text, end)

\* The scan for the closing brace passes over a doubled value.
LEMMA DoubledCloses ==
  ASSUME NEW T, NEW text, NEW v, NEW c \in Nat, NEW end \in Nat, Braced(T, text, c, v, end)
  PROVE  Closing(text, c + 1) = end
<1>. DEFINE n == Len(v)
            N == Len(text)
            D == Doubled(v)
            p == Pieces(v)
<1>1. PICK at : Laid(D, 0, p, at) /\ Len(D) = at[n + 1]
  BY DoubledIs, Zenon DEF Braced
<1>2. PICK close : /\ ClosingOf(text, close)
                   /\ \A i \in 1..N + 1 : Closing(text, i) = close[i]
                   /\ \A i \in 1..N + 1 : close[i] \in Nat
  BY ClosingIs, Zenon DEF Braced
<1>3. /\ Len(p) = n
      /\ \A k \in 1..n : /\ v[k] = Brace => Len(p[k]) = 2 /\ p[k][1] = Brace /\ p[k][2] = Brace
                         /\ v[k] # Brace => Len(p[k]) = 1 /\ p[k][1] = v[k]
  BY PiecesAre, Zenon DEF Braced, Brace
<1>4. n \in Nat /\ N \in Nat
  BY SeqIs, Zenon DEF Braced
<1>5. /\ \A m \in 1..n + 1 : at[m] \in Nat /\ at[m] <= at[n + 1]
      /\ at[1] = 0
      /\ \A m \in 1..n : /\ at[m + 1] = at[m] + Len(p[m])
                         /\ \A j \in 1..Len(p[m]) : D[0 + at[m] + j] = p[m][j]
  <2>1. ASSUME NEW m \in 1..n PROVE Len(p[m]) \in Nat
    <3>1. Len(p[m]) = 1 \/ Len(p[m]) = 2
      BY <1>3, Zenon
    <3>. HIDE DEF p
    <3>. QED  BY <3>1
  <2>2. Sized(p, n)
    BY <1>3, <1>4, <2>1, Zenon DEF Sized
  <2>3. Places(D, 0, p, at, n)
    BY <1>1, <2>2, LaidIs, Zenon
  <2>. HIDE DEF n, D, p
  <2>. QED  BY <2>3, Zenon DEF Places
<1>6. \A j \in 1..at[n + 1] : text[c + j] = D[j]
  BY <1>1, Zenon DEF Braced
<1>7. end = c + at[n + 1] + 1 /\ end <= N
  BY <1>1, Zenon DEF Braced
<1>e. text[end] = Brace /\ ~Doubles(text, end)
  BY Zenon DEF Braced, Brace
<1>8. \A k \in 1..N : close[k] = IF text[k] = Brace /\ ~Doubles(text, k) THEN k ELSE close[Behind(text, k)]
  BY <1>2, Zenon DEF ClosingOf, Brace
<1>9. \A k : Doubles(text, k) <=> k < N /\ text[k + 1] = Brace
  BY Zenon DEF Doubles, Brace
<1>b. \A k : Behind(text, k) = IF text[k] = Brace /\ Doubles(text, k) THEN k + 2 ELSE k + 1
  BY Zenon DEF Behind, Brace
<1>. HIDE DEF n, N, D, p
<1>. DEFINE next == [k \in 1..n |-> k + 1]
            P == {k \in 1..n + 1 : close[c + at[k] + 1] = end}
<1>10. n + 1 \in P
  <2>1. n + 1 \in 1..n + 1 /\ at[n + 1] \in Nat
    BY <1>4, <1>5
  <2>2. end \in 1..N
    BY <1>4, <1>7, <2>1
  <2>3. close[end] = end
    BY <1>e, <1>8, <2>2, Zenon
  <2>. QED  BY <1>7, <2>1, <2>3, Zenon
<1>11. ASSUME NEW k \in 1..n, next[k] \in P PROVE k \in P
  <2>1. k \in 1..n + 1 /\ next[k] = k + 1 /\ k + 1 \in 1..n + 1 /\ n + 1 \in 1..n + 1
    BY <1>4
  <2>2. close[c + at[k + 1] + 1] = end
    BY <1>11, <2>1, Zenon
  <2>. DEFINE a == at[k]
              b == at[n + 1]
  <2>3. a \in Nat /\ b \in Nat /\ at[k + 1] <= b /\ at[k + 1] = a + Len(p[k])
        /\ \A j \in 1..Len(p[k]) : D[0 + a + j] = p[k][j]
    BY <1>5, <2>1, Zenon
  <2>4. CASE v[k] = Brace
    <3>1. Len(p[k]) = 2 /\ p[k][1] = Brace /\ p[k][2] = Brace
      BY <1>3, <2>4, Zenon
    <3>0. 1 \in 1..2 /\ 2 \in 1..2
      OBVIOUS
    <3>2. D[0 + a + 1] = Brace /\ D[0 + a + 2] = Brace
      BY <2>3, <3>0, <3>1, Zenon
    <3>. HIDE DEF a, b
    <3>3. a + 2 <= b
      BY <2>3, <3>1
    <3>4. /\ a + 1 \in 1..b /\ a + 2 \in 1..b /\ 0 + a + 1 = a + 1 /\ 0 + a + 2 = a + 2
          /\ c + (a + 1) = c + a + 1 /\ c + (a + 2) = c + a + 1 + 1
      BY <2>3, <3>3
    <3>5. text[c + (a + 1)] = D[a + 1] /\ text[c + (a + 2)] = D[a + 2]
      BY <1>6, <3>4, Zenon DEF b
    <3>6. text[c + a + 1] = Brace /\ text[c + a + 1 + 1] = Brace
      BY <3>2, <3>4, <3>5, Zenon
    <3>7. c + a + 1 \in 1..N /\ c + a + 1 < N /\ c + a + 1 + 2 = c + (a + 2) + 1
      <4>1. end = c + b + 1 /\ end <= N
        BY <1>7 DEF b
      <4>. QED  BY <1>4, <2>3, <3>3, <4>1
    <3>8. Doubles(text, c + a + 1)
      BY <1>9, <3>6, <3>7, Zenon
    <3>b. Behind(text, c + a + 1) = c + a + 1 + 2
      BY <1>b, <3>6, <3>8, Zenon
    <3>c. close[c + a + 1] = close[Behind(text, c + a + 1)]
      BY <1>8, <3>7, <3>8, Zenon
    <3>9. close[c + a + 1] = close[c + (a + 2) + 1]
      BY <3>7, <3>b, <3>c, Zenon
    <3>. QED  BY <2>1, <2>2, <2>3, <3>1, <3>9, Zenon DEF a
  <2>5. CASE v[k] # Brace
    <3>1. Len(p[k]) = 1 /\ p[k][1] = v[k]
      BY <1>3, <2>5, Zenon
    <3>0. 1 \in 1..1
      OBVIOUS
    <3>2. D[0 + a + 1] = v[k]
      BY <2>3, <3>0, <3>1, Zenon
    <3>. HIDE DEF a, b
    <3>3. a + 1 <= b
      BY <2>3, <3>1
    <3>4. a + 1 \in 1..b /\ 0 + a + 1 = a + 1 /\ c + (a + 1) = c + a + 1
      BY <2>3, <3>3
    <3>5. text[c + (a + 1)] = D[a + 1]
      BY <1>6, <3>4, Zenon DEF b
    <3>6. text[c + a + 1] # Brace
      BY <2>5, <3>2, <3>4, <3>5, Zenon
    <3>7. c + a + 1 \in 1..N /\ c + a + 1 + 1 = c + (a + 1) + 1
      <4>1. end = c + b + 1 /\ end <= N
        BY <1>7 DEF b
      <4>. QED  BY <1>4, <2>3, <3>3, <4>1
    <3>8. close[c + a + 1] = close[c + (a + 1) + 1]
      BY <1>8, <3>6, <3>7, <1>b, Zenon
    <3>. QED  BY <2>1, <2>2, <2>3, <3>1, <3>8, Zenon DEF a
  <2>. QED  BY <2>4, <2>5, Zenon
<1>12. 1..n + 1 \subseteq P
  <2>1. next \in [1..n -> Nat] /\ \A i \in 1..n : i < next[i] /\ next[i] <= n + 1
    BY <1>4
  <2>. HIDE DEF P, next
  <2>. QED  BY <1>4, <1>10, <1>11, <2>1, ScanInduction
<1>13. close[c + 1] = end
  <2>1. 1 \in 1..n + 1 /\ c + 0 + 1 = c + 1
    BY <1>4
  <2>2. close[c + at[1] + 1] = end
    BY <1>12, <2>1, Zenon
  <2>. QED  BY <1>5, <2>1, <2>2, Zenon
<1>14. c + 1 \in 1..N + 1
  <2>1. n + 1 \in 1..n + 1
    BY <1>4
  <2>2. at[n + 1] \in Nat
    BY <1>5, <2>1, Zenon
  <2>. QED  BY <1>4, <1>7, <2>2
<1>. QED  BY <1>2, <1>13, <1>14, Zenon DEF N

LEMMA RestIs ==
  ASSUME NEW T, NEW v \in Seq(T)
  PROVE  /\ SubSeq(v, Len(v) + 1, Len(v)) = <<>>
         /\ SubSeq(v, 1, Len(v)) = v
         /\ \A k \in 1..Len(v) : <<v[k]>> \o SubSeq(v, k + 1, Len(v)) = SubSeq(v, k, Len(v))
<1>0. Len(v) \in Nat
  OBVIOUS
<1>1. SubSeq(v, Len(v) + 1, Len(v)) = <<>>
  BY <1>0
<1>2. SubSeq(v, 1, Len(v)) = v
  BY <1>0
<1>3. ASSUME NEW k \in 1..Len(v)
      PROVE  <<v[k]>> \o SubSeq(v, k + 1, Len(v)) = SubSeq(v, k, Len(v))
  <2>. DEFINE n == Len(v)
              rest == SubSeq(v, k + 1, n)
              one == <<v[k]>>
              all == SubSeq(v, k, n)
              both == one \o rest
  <2>1. rest \in Seq(T) /\ Len(rest) = n - k /\ \A j \in 1..n - k : rest[j] = v[k + j]
    BY <1>0
  <2>2. all \in Seq(T) /\ Len(all) = n - k + 1 /\ \A j \in 1..n - k + 1 : all[j] = v[k + j - 1]
    BY <1>0
  <2>3. one \in Seq(T) /\ Len(one) = 1 /\ one[1] = v[k]
    OBVIOUS
  <2>4. /\ both \in Seq(T) /\ Len(both) = 1 + (n - k)
        /\ both[1] = v[k] /\ \A j \in 1..n - k : both[1 + j] = v[k + j]
    <3>0. one \in Seq(T) /\ rest \in Seq(T) /\ both = one \o rest
      BY <2>1, <2>3, Zenon
    <3>. HIDE DEF one, rest, both
    <3>1. /\ both \in Seq(T) /\ Len(both) = Len(one) + Len(rest)
          /\ \A j \in 1..Len(one) : both[j] = one[j]
          /\ \A j \in 1..Len(rest) : both[Len(one) + j] = rest[j]
      BY <3>0, ConcatIs
    <3>. QED  BY <2>1, <2>3, <3>1, <1>0
  <2>5. \A j \in 1..n - k + 1 : both[j] = all[j]
    <3>. TAKE j \in 1..n - k + 1
    <3>. HIDE DEF both, all
    <3>1. CASE j = 1
      <4>1. k + 1 - 1 = k /\ 1 \in 1..n - k + 1
        BY <1>0
      <4>. QED  BY <2>2, <2>4, <3>1, <4>1
    <3>2. CASE j # 1
      <4>1. j - 1 \in 1..n - k /\ 1 + (j - 1) = j /\ k + (j - 1) = k + j - 1
        BY <1>0, <3>2
      <4>. QED  BY <2>2, <2>4, <4>1
    <3>. QED  BY <3>1, <3>2
  <2>. HIDE DEF both, all
  <2>6. both = all
    BY <2>2, <2>4, <2>5, <1>0
  <2>. QED  BY <2>6 DEF both, all, one, rest, n
<1>. QED  BY <1>1, <1>2, <1>3

\* What is doubled and undoubled again is what it was.
LEMMA DoubledUndone ==
  ASSUME NEW T, Brace \in T, NEW v \in Seq(T)
  PROVE  Undoubled(Doubled(v)) = v
<1>. DEFINE n == Len(v)
            D == Doubled(v)
            N == Len(D)
            p == Pieces(v)
<1>1. D \in Seq(T) /\ \E at : Laid(D, 0, p, at) /\ N = at[n + 1]
  BY DoubledIs, Zenon
<1>2. PICK at : Laid(D, 0, p, at) /\ N = at[n + 1]
  BY <1>1, Zenon
<1>3. PICK out : UndoubledOf(D, out) /\ Undoubled(D) = out[1]
  BY <1>1, UndoubledIs, Zenon
<1>4. /\ Len(p) = n
      /\ \A k \in 1..n : /\ v[k] = Brace => Len(p[k]) = 2 /\ p[k][1] = Brace /\ p[k][2] = Brace
                         /\ v[k] # Brace => Len(p[k]) = 1 /\ p[k][1] = v[k]
  BY PiecesAre, Zenon DEF Brace
<1>5. n \in Nat /\ N \in Nat
  BY <1>1, SeqIs, Zenon
<1>6. /\ \A m \in 1..n + 1 : at[m] \in Nat /\ at[m] <= at[n + 1]
      /\ at[1] = 0
      /\ \A m \in 1..n : /\ at[m + 1] = at[m] + Len(p[m])
                         /\ \A j \in 1..Len(p[m]) : D[0 + at[m] + j] = p[m][j]
  <2>1. ASSUME NEW m \in 1..n PROVE Len(p[m]) \in Nat
    <3>1. Len(p[m]) = 1 \/ Len(p[m]) = 2
      BY <1>4, Zenon
    <3>. HIDE DEF p
    <3>. QED  BY <3>1
  <2>2. Sized(p, n)
    BY <1>4, <1>5, <2>1, Zenon DEF Sized
  <2>3. Places(D, 0, p, at, n)
    BY <1>2, <2>2, LaidIs, Zenon
  <2>. HIDE DEF n, D, p
  <2>. QED  BY <2>3, Zenon DEF Places
<1>7. out[N + 1] = <<>> /\ \A k \in 1..N : out[k] = <<D[k]>> \o out[Past(D, k)]
  BY <1>3, Zenon DEF UndoubledOf
<1>8. \A k : Past(D, k) = IF D[k] = Brace /\ k < N THEN k + 2 ELSE k + 1
  BY Zenon DEF Past, Brace
<1>9. /\ SubSeq(v, n + 1, n) = <<>> /\ SubSeq(v, 1, n) = v
      /\ \A k \in 1..n : <<v[k]>> \o SubSeq(v, k + 1, n) = SubSeq(v, k, n)
  BY RestIs, Zenon
<1>. HIDE DEF n, N, D, p
<1>. DEFINE rest(k) == SubSeq(v, k, n)
            next == [k \in 1..n |-> k + 1]
            P == {k \in 1..n + 1 : out[at[k] + 1] = rest(k)}
<1>10. n + 1 \in P
  <2>1. n + 1 \in 1..n + 1
    BY <1>5
  <2>. QED  BY <1>2, <1>7, <1>9, <2>1, Zenon
<1>11. ASSUME NEW k \in 1..n, next[k] \in P PROVE k \in P
  <2>1. k \in 1..n + 1 /\ next[k] = k + 1 /\ k + 1 \in 1..n + 1 /\ n + 1 \in 1..n + 1
    BY <1>5
  <2>2. out[at[k + 1] + 1] = rest(k + 1)
    BY <1>11, <2>1, Zenon
  <2>. DEFINE a == at[k]
  <2>3. a \in Nat /\ at[k + 1] <= N /\ at[k + 1] = a + Len(p[k])
        /\ \A j \in 1..Len(p[k]) : D[0 + a + j] = p[k][j]
    BY <1>2, <1>6, <2>1, Zenon
  <2>0. 1 \in 1..2 /\ 1 \in 1..1
    OBVIOUS
  <2>4. CASE v[k] = Brace
    <3>1. Len(p[k]) = 2 /\ p[k][1] = Brace
      BY <1>4, <2>4, Zenon
    <3>2. D[0 + a + 1] = Brace
      BY <2>0, <2>3, <3>1, Zenon
    <3>. HIDE DEF a
    <3>3. a + 2 <= N
      BY <2>3, <3>1
    <3>4. 0 + a + 1 = a + 1 /\ a + 1 \in 1..N /\ a + 1 < N /\ a + 1 + 2 = a + 2 + 1
      BY <1>5, <2>3, <3>3
    <3>5. Past(D, a + 1) = a + 2 + 1 /\ D[a + 1] = v[k]
      BY <1>8, <2>4, <3>2, <3>4, Zenon
    <3>6. out[a + 1] = <<v[k]>> \o rest(k + 1)
      <4>1. out[a + 1] = <<D[a + 1]>> \o out[Past(D, a + 1)]
        BY <1>7, <3>4, Zenon
      <4>2. at[k + 1] + 1 = a + 2 + 1
        BY <2>3, <3>1, Zenon
      <4>3. out[a + 2 + 1] = rest(k + 1)
        BY <2>2, <4>2, Zenon
      <4>. HIDE DEF rest
      <4>. QED  BY <3>5, <4>1, <4>3, Zenon
    <3>. QED  BY <1>9, <2>1, <3>6, Zenon DEF a
  <2>5. CASE v[k] # Brace
    <3>1. Len(p[k]) = 1 /\ p[k][1] = v[k]
      BY <1>4, <2>5, Zenon
    <3>2. D[0 + a + 1] = v[k]
      BY <2>0, <2>3, <3>1, Zenon
    <3>. HIDE DEF a
    <3>3. a + 1 <= N
      BY <2>3, <3>1
    <3>4. 0 + a + 1 = a + 1 /\ a + 1 \in 1..N
      BY <1>5, <2>3, <3>3
    <3>5. Past(D, a + 1) = a + 1 + 1 /\ D[a + 1] = v[k]
      BY <1>8, <2>5, <3>2, <3>4, Zenon
    <3>6. out[a + 1] = <<v[k]>> \o rest(k + 1)
      <4>1. out[a + 1] = <<D[a + 1]>> \o out[Past(D, a + 1)]
        BY <1>7, <3>4, Zenon
      <4>2. at[k + 1] + 1 = a + 1 + 1
        BY <2>3, <3>1, Zenon
      <4>3. out[a + 1 + 1] = rest(k + 1)
        BY <2>2, <4>2, Zenon
      <4>. HIDE DEF rest
      <4>. QED  BY <3>5, <4>1, <4>3, Zenon
    <3>. QED  BY <1>9, <2>1, <3>6, Zenon DEF a
  <2>. QED  BY <2>4, <2>5, Zenon
<1>12. 1..n + 1 \subseteq P
  <2>1. next \in [1..n -> Nat] /\ \A i \in 1..n : i < next[i] /\ next[i] <= n + 1
    BY <1>5
  <2>. HIDE DEF P, next
  <2>. QED  BY <1>5, <1>10, <1>11, <2>1, ScanInduction
<1>13. out[1] = v
  <2>1. 1 \in 1..n + 1 /\ 0 + 1 = 1
    BY <1>5
  <2>2. out[at[1] + 1] = rest(1)
    BY <1>12, <2>1, Zenon
  <2>. QED  BY <1>6, <1>9, <2>1, <2>2, Zenon
<1>. QED  BY <1>3, <1>13 DEF D

-----------------------------------------------------------------------------
(***************************************************************************)
(* One step of Parse, and the settings it files.                           *)
(***************************************************************************)
\* What settings are: finitely many keywords, each with a string.
Filed(s) ==
  /\ IsFiniteSet(DOMAIN s) /\ DOMAIN s \subseteq Keyword
  /\ s \in [DOMAIN s -> Seq(Token)]
Settings == UNION {[D -> Seq(Token)] : D \in {D \in SUBSET Keyword : IsFiniteSet(D)}}

\* Being settings, told as a set and as a property.
LEMMA SettingsAre ==
  ASSUME NEW s
  PROVE  s \in Settings <=> Filed(s)
<1>1. ASSUME s \in Settings PROVE Filed(s)
  <2>1. PICK D \in SUBSET Keyword : IsFiniteSet(D) /\ s \in [D -> Seq(Token)]
    BY <1>1, Zenon DEF Settings
  <2>2. DOMAIN s = D
    BY <2>1, Zenon
  <2>. QED  BY <2>1, <2>2, Zenon DEF Filed
<1>2. ASSUME Filed(s) PROVE s \in Settings
  <2>1. DOMAIN s \in {D \in SUBSET Keyword : IsFiniteSet(D)}
    BY <1>2, Zenon DEF Filed
  <2>. QED  BY <1>2, <2>1, Zenon DEF Filed, Settings
<1>. QED  BY <1>1, <1>2, Zenon

LEMMA NoneFiled == NoSettings \in Settings
<1>1. DOMAIN NoSettings = {}
  BY DEF NoSettings
<1>2. NoSettings \in [DOMAIN NoSettings -> Seq(Token)]
  BY DEF NoSettings
<1>3. IsFiniteSet({})
  BY FS_EmptySet, Zenon
<1>4. Filed(NoSettings)
  BY <1>1, <1>2, <1>3, Zenon DEF Filed
<1>. QED  BY <1>4, SettingsAre, Zenon

LEMMA OneFiled ==
  ASSUME NEW k \in Keyword, NEW v \in Seq(Token)
  PROVE  [x \in {k} |-> v] \in Settings
<1>. DEFINE s == [x \in {k} |-> v]
<1>1. DOMAIN s = {k} /\ s \in [DOMAIN s -> Seq(Token)]
  BY Zenon
<1>2. IsFiniteSet({k})
  BY FS_Singleton, Zenon
<1>3. Filed(s)
  <2>. HIDE DEF s
  <2>. QED  BY <1>1, <1>2, Zenon DEF Filed
<1>. QED  BY <1>3, SettingsAre, Zenon

LEMMA MergeFiled ==
  ASSUME NEW s \in Settings, NEW t \in Settings
  PROVE  Merge(s, t) \in Settings
<1>1. Filed(s) /\ Filed(t)
  BY SettingsAre, Zenon
<1>. DEFINE D == DOMAIN s \cup DOMAIN t
            m == [k \in D |-> IF k \in DOMAIN s THEN s[k] ELSE t[k]]
<1>2. Merge(s, t) = m /\ DOMAIN m = D
  BY Zenon DEF Merge
<1>3. IsFiniteSet(D) /\ D \subseteq Keyword
  BY <1>1, FS_Union, Zenon DEF Filed
<1>4. ASSUME NEW k \in D PROVE (IF k \in DOMAIN s THEN s[k] ELSE t[k]) \in Seq(Token)
  BY <1>1, Zenon DEF Filed
<1>5. m \in [D -> Seq(Token)]
  <2>. HIDE DEF D
  <2>. QED  BY <1>4, Zenon
<1>6. Filed(m)
  <2>. HIDE DEF D, m
  <2>. QED  BY <1>2, <1>3, <1>5, Zenon DEF Filed
<1>. QED  BY <1>2, <1>6, SettingsAre, Zenon

\* The parts of one step of Parse: the mark that ends a keyword, the value
\* behind it, what is filed and where the scan goes on.
Stop(text, i) == FirstOf(text, i, {"=", ";"})
Start(text, stop) == FirstOf(text, stop + 1, Range(text) \ {" "})
Quoted(text, stop) == Start(text, stop) <= Len(text) /\ text[Start(text, stop)] = "{"
End(text, stop) ==
  IF Quoted(text, stop) THEN Closing(text, Start(text, stop) + 1)
  ELSE FirstOf(text, Start(text, stop), {";"})
Value(text, stop) ==
  IF Quoted(text, stop) THEN Undoubled(SubSeq(text, Start(text, stop) + 1, End(text, stop) - 1))
  ELSE Trimmed(SubSeq(text, Start(text, stop), End(text, stop) - 1))
Blank(text, i) == text[i] \in {";", " "}
Passed(text, i) == Blank(text, i) \/ Stop(text, i) > Len(text) \/ text[Stop(text, i)] = ";"
Onward(text, i) ==
  IF Blank(text, i) THEN i + 1
  ELSE IF Stop(text, i) > Len(text) THEN Len(text) + 1
  ELSE IF text[Stop(text, i)] = ";" THEN Stop(text, i)
  ELSE FirstOf(text, End(text, Stop(text, i)), {";"})
Found(text, i) == Setting(SubSeq(text, i, Stop(text, i) - 1), Value(text, Stop(text, i)))
ParseOf(text, f) ==
  /\ f[Len(text) + 1] = NoSettings
  /\ \A i \in 1..Len(text) :
       f[i] = IF Passed(text, i) THEN f[Onward(text, i)] ELSE Merge(Found(text, i), f[Onward(text, i)])

LEMMA StopIs ==
  ASSUME NEW T, NEW text \in Seq(T), NEW i \in 1..Len(text)
  PROVE  /\ Stop(text, i) \in Nat /\ i <= Stop(text, i) /\ Stop(text, i) <= Len(text) + 1
         /\ Stop(text, i) <= Len(text) => text[Stop(text, i)] \in {"=", ";"}
         /\ \A j \in Nat : i <= j /\ j < Stop(text, i) => text[j] \notin {"=", ";"}
<1>1. i \in Nat /\ i <= Len(text) + 1
  OBVIOUS
<1>. QED  BY <1>1, FirstOfIs, Zenon DEF Stop

LEMMA EndIs ==
  ASSUME NEW T, NEW text \in Seq(T), NEW stop \in 1..Len(text)
  PROVE  /\ Start(text, stop) \in Nat /\ stop < Start(text, stop) /\ Start(text, stop) <= Len(text) + 1
         /\ End(text, stop) \in Nat /\ stop < End(text, stop) /\ End(text, stop) <= Len(text) + 1
<1>. DEFINE v == Start(text, stop)
            n == Len(text)
<1>0. n \in Nat
  OBVIOUS
<1>1. v \in Nat /\ stop < v /\ v <= n + 1
  <2>1. stop + 1 \in Nat /\ stop + 1 <= n + 1
    OBVIOUS
  <2>2. v \in Nat /\ stop + 1 <= v /\ v <= n + 1
    BY <2>1, FirstOfIs, Zenon DEF Start
  <2>. HIDE DEF v
  <2>. QED  BY <2>2
<1>2. CASE Quoted(text, stop)
  <2>1. v <= n /\ End(text, stop) = Closing(text, v + 1)
    BY <1>2, Zenon DEF Quoted, End
  <2>. HIDE DEF v
  <2>2. v + 1 \in 1..n + 1
    BY <1>0, <1>1, <2>1
  <2>3. Closing(text, v + 1) \in Nat /\ v + 1 <= Closing(text, v + 1) /\ Closing(text, v + 1) <= n + 1
    BY <2>2, ClosingIs, Zenon
  <2>4. stop < Closing(text, v + 1)
    BY <1>0, <1>1, <2>3
  <2>. QED  BY <1>1, <2>1, <2>3, <2>4, Zenon DEF v
<1>3. CASE ~Quoted(text, stop)
  <2>1. End(text, stop) = FirstOf(text, v, {";"})
    BY <1>3, Zenon DEF End
  <2>. HIDE DEF v
  <2>. DEFINE e == FirstOf(text, v, {";"})
  <2>3. e \in Nat /\ v <= e /\ e <= n + 1
    BY <1>1, FirstOfIs, Zenon
  <2>. HIDE DEF e
  <2>4. stop < e
    BY <1>0, <1>1, <2>3
  <2>. QED  BY <1>1, <2>1, <2>3, <2>4, Zenon DEF v, e
<1>. QED  BY <1>2, <1>3, Zenon

\* The scan of Parse moves on, and not past the end.
LEMMA OnwardIs ==
  ASSUME NEW T, NEW text \in Seq(T), NEW i \in 1..Len(text)
  PROVE  Onward(text, i) \in Nat /\ i < Onward(text, i) /\ Onward(text, i) <= Len(text) + 1
<1>. DEFINE n == Len(text)
            s == Stop(text, i)
<1>0. n \in Nat /\ i \in Nat
  OBVIOUS
<1>1. s \in Nat /\ i <= s /\ s <= n + 1
  BY StopIs, Zenon
<1>. HIDE DEF n, s
<1>2. CASE Blank(text, i)
  <2>1. Onward(text, i) = i + 1
    BY <1>2, Zenon DEF Onward
  <2>. QED  BY <2>1 DEF n
<1>3. CASE ~Blank(text, i) /\ s > n
  <2>1. Onward(text, i) = n + 1
    BY <1>3, Zenon DEF Onward, n, s
  <2>2. n + 1 \in Nat /\ i < n + 1 /\ n + 1 <= n + 1
    BY <1>0 DEF n
  <2>. QED  BY <2>1, <2>2, Zenon DEF n
<1>4. CASE ~Blank(text, i) /\ ~(s > n) /\ text[s] = ";"
  <2>1. Onward(text, i) = s
    BY <1>4, Zenon DEF Onward, n, s
  <2>2. s # i
    BY <1>4, Zenon DEF Blank
  <2>3. i < s
    BY <1>0, <1>1, <2>2
  <2>. QED  BY <1>1, <2>1, <2>3, Zenon DEF n
<1>5. CASE ~Blank(text, i) /\ ~(s > n) /\ text[s] # ";"
  <2>. DEFINE e == End(text, s)
              o == FirstOf(text, e, {";"})
  <2>1. Onward(text, i) = o
    BY <1>5, Zenon DEF Onward, n, s
  <2>2. s \in 1..n
    <3>1. ~(s > n)
      BY <1>5
    <3>. QED  BY <1>0, <1>1, <3>1
  <2>3. e \in Nat /\ s < e /\ e <= n + 1
    BY <2>2, EndIs, Zenon DEF n
  <2>. HIDE DEF e
  <2>4. o \in Nat /\ e <= o /\ o <= n + 1
    BY <2>3, FirstOfIs, Zenon DEF n
  <2>. HIDE DEF o
  <2>5. i < o
    BY <1>0, <1>1, <2>3, <2>4
  <2>. QED  BY <2>1, <2>4, <2>5, Zenon DEF n
<1>. QED  BY <1>2, <1>3, <1>4, <1>5, Zenon

LEMMA PartIs ==
  ASSUME NEW T, NEW text \in Seq(T), NEW a \in Nat, NEW b \in Int, 1 <= a, b <= Len(text)
  PROVE  /\ SubSeq(text, a, b) \in Seq(T)
         /\ a <= b => SubSeq(text, a, b) # <<>> /\ SubSeq(text, a, b)[1] = text[a]
         /\ ~(a <= b) => SubSeq(text, a, b) = <<>>
<1>1. SubSeq(text, a, b) \in Seq(T)
  OBVIOUS
<1>2. a <= b => Len(SubSeq(text, a, b)) = b - a + 1 /\ SubSeq(text, a, b)[1] = text[a]
  OBVIOUS
<1>3. ~(a <= b) => SubSeq(text, a, b) = <<>>
  OBVIOUS
<1>4. a <= b => SubSeq(text, a, b) # <<>>
  <2>1. a <= b => Len(SubSeq(text, a, b)) # 0
    BY <1>2
  <2>. QED  BY <1>1, <2>1
<1>. QED  BY <1>1, <1>2, <1>3, <1>4

\* What a step of Parse files is settings: the keyword is a word in lower case.
LEMMA FoundFiled ==
  ASSUME NEW text \in Seq(Token), NEW i \in 1..Len(text), ~Passed(text, i)
  PROVE  Found(text, i) \in Settings
<1>. DEFINE n == Len(text)
            s == Stop(text, i)
            v == Start(text, s)
            e == End(text, s)
            key == SubSeq(text, i, s - 1)
<1>0. n \in Nat /\ i \in Nat /\ i <= n /\ 1 <= i
  OBVIOUS
<1>1. /\ s \in Nat /\ i <= s /\ s <= n + 1
      /\ \A j \in Nat : i <= j /\ j < s => text[j] \notin {"=", ";"}
  BY StopIs, Zenon
<1>2. ~(s > n) /\ ~Blank(text, i)
  BY Zenon DEF Passed
<1>3. s \in 1..n /\ s - 1 \in Int /\ s - 1 <= n
  <2>1. s \in Nat /\ i <= s /\ ~(s > n)
    BY <1>1, <1>2, Zenon
  <2>. HIDE DEF n, s
  <2>. QED  BY <1>0, <2>1
<1>4. v \in Nat /\ s < v /\ v <= n + 1 /\ e \in Nat /\ s < e /\ e <= n + 1
  BY <1>3, EndIs, Zenon
<1>5. Value(text, s) \in Seq(Token)
  <2>1. 1 <= v /\ 1 <= v + 1 /\ v + 1 \in Nat /\ e - 1 \in Int /\ e - 1 <= n
    <3>. HIDE DEF n, s, v, e
    <3>. QED  BY <1>0, <1>3, <1>4
  <2>2. SubSeq(text, v, e - 1) \in Seq(Token) /\ SubSeq(text, v + 1, e - 1) \in Seq(Token)
    BY <1>4, <2>1, PartIs, Zenon
  <2>. DEFINE a == SubSeq(text, v, e - 1)
              b == SubSeq(text, v + 1, e - 1)
  <2>3. Value(text, s) = IF Quoted(text, s) THEN Undoubled(b) ELSE Trimmed(a)
    BY Zenon DEF Value
  <2>. HIDE DEF a, b
  <2>4. Trimmed(a) \in Seq(Token)
    BY <2>2, TrimmedIs, Zenon DEF a
  <2>5. Undoubled(b) \in Seq(Token)
    <3>1. PICK out \in [1..Len(b) + 1 -> Seq(Token)] : Undoubled(b) = out[1]
      BY <2>2, UndoubledIs, Zenon DEF b
    <3>2. 1 \in 1..Len(b) + 1
      <4>1. Len(b) \in Nat
        BY <2>2, SeqIs, Zenon DEF b
      <4>. QED  BY <4>1
    <3>. QED  BY <3>1, <3>2, Zenon
  <2>. QED  BY <2>3, <2>4, <2>5, Zenon
<1>6. CASE key = <<>>
  <2>1. Found(text, i) = NoSettings
    BY <1>6, Zenon DEF Found, Setting
  <2>. QED  BY <2>1, NoneFiled, Zenon
<1>7. CASE key # <<>>
  <2>. DEFINE word == Trimmed(key)[1]
              k == IF word \in DOMAIN Lower THEN Lower[word] ELSE word
  <2>1. key \in Seq(Token) /\ i <= s - 1 /\ key[1] = text[i]
    BY <1>0, <1>3, <1>7, PartIs, Zenon
  <2>2. text[i] \in Token \ {";", "=", " "}
    <3>1. i < s
      <4>. HIDE DEF n, s, key
      <4>. QED  BY <1>0, <1>3, <2>1
    <3>2. i <= i
      BY <1>0
    <3>3. text[i] \notin {"=", ";"}
      BY <1>0, <1>1, <3>1, <3>2, Zenon
    <3>4. text[i] \in Token
      BY SeqIs, Zenon
    <3>. QED  BY <1>2, <3>3, <3>4, Zenon DEF Blank
  <2>3. word = text[i]
    <3>1. key[1] # " "
      BY <2>1, <2>2, Zenon
    <3>. HIDE DEF key
    <3>. QED  BY <1>7, <2>1, <3>1, TrimmedIs, Zenon
  <2>4. k \in Keyword
    <3>1. CASE word \in DOMAIN Lower
      BY <3>1, StringAssumption, Zenon
    <3>2. CASE word \notin DOMAIN Lower
      BY <2>2, <2>3, <3>2, Zenon DEF Keyword
    <3>. QED  BY <3>1, <3>2, Zenon
  <2>5. Found(text, i) = [x \in {k} |-> Value(text, s)]
    BY <1>7, Zenon DEF Found, Setting
  <2>. HIDE DEF k
  <2>6. \A w \in Seq(Token) : [x \in {k} |-> w] \in Settings
    BY <2>4, OneFiled, Zenon
  <2>7. [x \in {k} |-> Value(text, s)] \in Settings
    <3>. HIDE DEF s
    <3>. QED  BY <1>5, <2>6, Zenon
  <2>. QED  BY <2>5, <2>7, Zenon
<1>. QED  BY <1>6, <1>7, Zenon

\* Parse is what its scan finds from the first place on.
LEMMA ParseIs ==
  ASSUME NEW text \in Seq(Token)
  PROVE  \E f \in [1..Len(text) + 1 -> Settings] : ParseOf(text, f) /\ Parse(text) = f[1]
<1>. DEFINE n == Len(text)
            next == [i \in 1..n |-> Onward(text, i)]
            step == [i \in 1..n |-> [x \in Settings |-> IF Passed(text, i) THEN x ELSE Merge(Found(text, i), x)]]
            Body(f) ==
              [i \in 1..n + 1 |->
                 IF i > n THEN NoSettings
                 ELSE IF text[i] \in {";", " "} THEN f[i + 1]
                 ELSE IF Stop(text, i) > n THEN NoSettings
                 ELSE IF text[Stop(text, i)] = ";" THEN f[Stop(text, i)]
                 ELSE Merge(Found(text, i), f[FirstOf(text, End(text, Stop(text, i)), {";"})])]
            g == CHOOSE f : f = Body(f)
<1>0. n \in Nat /\ \A k \in 1..n : Onward(text, k) \in Nat /\ k < Onward(text, k) /\ Onward(text, k) <= n + 1
  BY OnwardIs
<1>t. NoSettings \in Settings /\ \A k \in 1..n : ~Passed(text, k) => \A x \in Settings : Merge(Found(text, k), x) \in Settings
  BY NoneFiled, FoundFiled, MergeFiled, Zenon
<1>b. \A k : Passed(text, k) <=> Blank(text, k) \/ Stop(text, k) > n \/ text[Stop(text, k)] = ";"
  BY Zenon DEF Passed
<1>c. \A k : Onward(text, k) = IF Blank(text, k) THEN k + 1
                               ELSE IF Stop(text, k) > n THEN n + 1
                               ELSE IF text[Stop(text, k)] = ";" THEN Stop(text, k)
                               ELSE FirstOf(text, End(text, Stop(text, k)), {";"})
  BY Zenon DEF Onward
<1>d. \A k : Blank(text, k) <=> text[k] \in {";", " "}
  BY Zenon DEF Blank
<1>6. Parse(text) = g[1]
  BY Zenon DEF Parse, g, Body, n, Found, Value, End, Quoted, Start, Stop
<1>. HIDE DEF n
<1>1. ScanOf(n, Settings, NoSettings, next, step)
  <2>1. next \in [1..n -> Nat] /\ \A i \in 1..n : i < next[i] /\ next[i] <= n + 1
    BY <1>0
  <2>2. step \in [1..n -> [Settings -> Settings]]
    BY <1>t, Zenon
  <2>. HIDE DEF next, step
  <2>. QED  BY <1>0, <1>t, <2>1, <2>2, Zenon DEF ScanOf
<1>2. PICK f \in [1..n + 1 -> Settings] : f[n + 1] = NoSettings /\ \A i \in 1..n : f[i] = step[i][f[next[i]]]
  <2>. HIDE DEF next, step
  <2>. QED  BY <1>1, ScanRecursion
<1>3. ASSUME NEW k \in 1..n + 1, NEW h, h[n + 1] = NoSettings
      PROVE  Body(h)[k] = IF k = n + 1 THEN NoSettings
                          ELSE IF Passed(text, k) THEN h[Onward(text, k)]
                          ELSE Merge(Found(text, k), h[Onward(text, k)])
  <2>0. k > n <=> k = n + 1
    BY <1>0
  <2>1. Body(h)[k] = IF k > n THEN NoSettings
                     ELSE IF text[k] \in {";", " "} THEN h[k + 1]
                     ELSE IF Stop(text, k) > n THEN NoSettings
                     ELSE IF text[Stop(text, k)] = ";" THEN h[Stop(text, k)]
                     ELSE Merge(Found(text, k), h[FirstOf(text, End(text, Stop(text, k)), {";"})])
    BY Zenon
  <2>. HIDE DEF Body
  <2>2. CASE k = n + 1
    BY <2>0, <2>1, <2>2, Zenon
  <2>3. CASE k # n + 1 /\ Blank(text, k)
    BY <2>0, <2>1, <2>3, <1>b, <1>c, <1>d, Zenon
  <2>4. CASE k # n + 1 /\ ~Blank(text, k) /\ Stop(text, k) > n
    <3>1. Onward(text, k) = n + 1 /\ Passed(text, k)
      BY <2>4, <1>b, <1>c, Zenon
    <3>2. Body(h)[k] = NoSettings
      BY <2>0, <2>1, <2>4, <1>d, Zenon
    <3>. QED  BY <1>3, <2>4, <3>1, <3>2, Zenon
  <2>5. CASE k # n + 1 /\ ~Blank(text, k) /\ ~(Stop(text, k) > n) /\ text[Stop(text, k)] = ";"
    BY <2>0, <2>1, <2>5, <1>b, <1>c, <1>d, Zenon
  <2>6. CASE k # n + 1 /\ ~Blank(text, k) /\ ~(Stop(text, k) > n) /\ text[Stop(text, k)] # ";"
    BY <2>0, <2>1, <2>6, <1>b, <1>c, <1>d, Zenon
  <2>. QED  BY <2>2, <2>3, <2>4, <2>5, <2>6, Zenon
<1>4. f = Body(f)
  <2>1. ASSUME NEW k \in 1..n + 1 PROVE f[k] = Body(f)[k]
    <3>1. CASE k = n + 1
      <4>. HIDE DEF Body
      <4>. QED  BY <1>2, <1>3, <3>1, Zenon
    <3>2. CASE k # n + 1
      <4>1. k \in 1..n /\ next[k] \in 1..n + 1
        BY <1>0, <3>2
      <4>2. f[next[k]] \in Settings
        BY <1>2, <4>1, Zenon
      <4>3. step[k][f[next[k]]] = IF Passed(text, k) THEN f[next[k]] ELSE Merge(Found(text, k), f[next[k]])
        BY <4>1, <4>2, Zenon
      <4>4. next[k] = Onward(text, k)
        BY <4>1
      <4>. HIDE DEF Body, next, step
      <4>. QED  BY <1>2, <1>3, <3>2, <4>1, <4>3, <4>4, Zenon
    <3>. QED  BY <3>1, <3>2
  <2>2. Body(f) = [k \in 1..n + 1 |-> Body(f)[k]]
    OBVIOUS
  <2>. HIDE DEF Body
  <2>. QED  BY <1>2, <2>1, <2>2
<1>5. g = Body(g)
  <2>. HIDE DEF Body
  <2>. QED  BY <1>4
<1>7. g[n + 1] = NoSettings
  <2>1. n + 1 \in 1..n + 1 /\ n + 1 > n
    BY <1>0
  <2>2. Body(g)[n + 1] = NoSettings
    <3>. HIDE DEF g
    <3>. QED  BY <2>1, Zenon
  <2>. HIDE DEF Body, g
  <2>. QED  BY <1>5, <2>2, Zenon
<1>8. \A k \in 1..n + 1 : g[k] = IF k = n + 1 THEN NoSettings
                                 ELSE IF Passed(text, k) THEN g[Onward(text, k)]
                                 ELSE Merge(Found(text, k), g[Onward(text, k)])
  <2>. HIDE DEF Body, g
  <2>. QED  BY <1>3, <1>5, <1>7, Zenon
<1>e. g = [k \in 1..n + 1 |-> g[k]]
  <2>1. Body(g) = [k \in 1..n + 1 |-> Body(g)[k]]
    OBVIOUS
  <2>. HIDE DEF Body, g
  <2>. QED  BY <1>5, <2>1, Zenon
<1>. HIDE DEF g, Body
<1>9. ParseOf(text, g)
  <2>1. n + 1 \in 1..n + 1 /\ \A k \in 1..n : k \in 1..n + 1 /\ k # n + 1
    BY <1>0
  <2>. QED  BY <1>7, <1>8, <2>1, Zenon DEF ParseOf, n
<1>. DEFINE P == {i \in 1..n + 1 : g[i] \in Settings}
<1>10. n + 1 \in P /\ \A i \in 1..n : next[i] \in P => i \in P
  <2>1. n + 1 \in P
    <3>1. n + 1 \in 1..n + 1
      BY <1>0
    <3>. QED  BY <1>t, <1>7, <3>1, Zenon
  <2>2. ASSUME NEW i \in 1..n, next[i] \in P PROVE i \in P
    <3>1. i \in 1..n + 1 /\ i # n + 1 /\ next[i] = Onward(text, i)
      BY <1>0
    <3>2. g[i] = IF Passed(text, i) THEN g[Onward(text, i)] ELSE Merge(Found(text, i), g[Onward(text, i)])
      BY <1>8, <3>1, Zenon
    <3>3. g[Onward(text, i)] \in Settings
      BY <2>2, <3>1, Zenon
    <3>. QED  BY <1>t, <3>1, <3>2, <3>3, Zenon
  <2>. QED  BY <2>1, <2>2
<1>11. 1..n + 1 \subseteq P
  <2>1. next \in [1..n -> Nat] /\ \A i \in 1..n : i < next[i] /\ next[i] <= n + 1
    BY <1>0
  <2>. HIDE DEF P, next
  <2>. QED  BY <1>0, <1>10, <2>1, ScanInduction
<1>12. g \in [1..n + 1 -> Settings]
  <2>1. \A k \in 1..n + 1 : g[k] \in Settings
    BY <1>11
  <2>. QED  BY <1>e, <2>1, Zenon
<1>. QED  BY <1>6, <1>9, <1>12, Zenon DEF n

\* Parse gives settings.
LEMMA ParseFiled ==
  ASSUME NEW text \in Seq(Token)
  PROVE  Parse(text) \in Settings
<1>1. PICK f \in [1..Len(text) + 1 -> Settings] : Parse(text) = f[1]
  BY ParseIs, Zenon
<1>2. 1 \in 1..Len(text) + 1
  <2>1. Len(text) \in Nat
    BY SeqIs, Zenon
  <2>. QED  BY <2>1
<1>. QED  BY <1>1, <1>2, Zenon

-----------------------------------------------------------------------------
(***************************************************************************)
(* A setting as it is rendered, and as it is read again.                   *)
(***************************************************************************)
LEMMA PartAt ==
  ASSUME NEW T, NEW text \in Seq(T), NEW a \in Nat, NEW n \in Nat, a + n <= Len(text)
  PROVE  /\ SubSeq(text, a + 1, a + n) \in Seq(T) /\ Len(SubSeq(text, a + 1, a + n)) = n
         /\ \A j \in 1..n : SubSeq(text, a + 1, a + n)[j] = text[a + j]
<1>1. Len(text) \in Nat
  OBVIOUS
<1>2. SubSeq(text, a + 1, a + n) \in Seq(T) /\ Len(SubSeq(text, a + 1, a + n)) = n
  BY <1>1
<1>3. ASSUME NEW j \in 1..n PROVE SubSeq(text, a + 1, a + n)[j] = text[a + j]
  <2>1. a + 1 + j - 1 = a + j
    OBVIOUS
  <2>. QED  BY <1>1, <2>1
<1>. QED  BY <1>2, <1>3

\* A part of a text is the value that is shown there.
LEMMA SameIs ==
  ASSUME NEW T, NEW text \in Seq(T), NEW w \in Seq(T), NEW a \in Nat,
         a + Len(w) <= Len(text), \A j \in 1..Len(w) : text[a + j] = w[j]
  PROVE  SubSeq(text, a + 1, a + Len(w)) = w
<1>. DEFINE n == Len(w)
            part == SubSeq(text, a + 1, a + n)
<1>0. n \in Nat /\ a + n <= Len(text)
  OBVIOUS
<1>. HIDE DEF n
<1>1. part \in Seq(T) /\ Len(part) = n /\ \A j \in 1..n : part[j] = text[a + j]
  BY <1>0, PartAt
<1>2. \A j \in 1..n : part[j] = w[j]
  BY <1>1, Zenon DEF n
<1>3. part = w
  <2>. HIDE DEF part
  <2>. QED  BY <1>1, <1>2 DEF n
<1>. QED  BY <1>3 DEF n

LEMMA MarksAreTokens ==
  Brace \in Token /\ "{" \in Token /\ ";" \in Token /\ "=" \in Token
BY Zenon DEF Brace, Token, Mark

LEMMA KeywordsAreTokens ==
  ASSUME NEW k \in Keyword
  PROVE  k \in Token /\ k # ";" /\ k # "=" /\ k # " " /\ k \notin DOMAIN Lower
BY Zenon DEF Keyword

\* One setting, with the braces its value needs.
Wrapped(v) == IF NeedsBraces(v) THEN <<"{">> \o Doubled(v) \o <<"}">> ELSE v
LEMMA WrappedIs ==
  ASSUME NEW v \in Seq(Token)
  PROVE  /\ Wrapped(v) \in Seq(Token) /\ Doubled(v) \in Seq(Token)
         /\ ~NeedsBraces(v) => Wrapped(v) = v
         /\ NeedsBraces(v) => /\ Len(Wrapped(v)) = Len(Doubled(v)) + 2
                              /\ Wrapped(v)[1] = "{" /\ Wrapped(v)[Len(Doubled(v)) + 2] = "}"
                              /\ \A j \in 1..Len(Doubled(v)) : Wrapped(v)[1 + j] = Doubled(v)[j]
<1>. DEFINE d == Doubled(v)
            open == "{"
            a == <<open>>
            z == <<Brace>>
            ad == a \o d
            adz == ad \o z
            l == Len(d)
<1>1. d \in Seq(Token)
  BY MarksAreTokens, DoubledIs, Zenon
<1>2. l \in Nat
  BY <1>1, SeqIs, Zenon
<1>3. a \in Seq(Token) /\ Len(a) = 1 /\ a[1] = open /\ z \in Seq(Token) /\ Len(z) = 1 /\ z[1] = Brace
  BY MarksAreTokens, OneIs, Zenon
<1>4. NeedsBraces(v) => Wrapped(v) = adz
  BY Zenon DEF Wrapped, Brace
<1>5. ~NeedsBraces(v) => Wrapped(v) = v
  BY Zenon DEF Wrapped
<1>6. Brace = "}"
  BY Zenon DEF Brace
<1>7. ad = a \o d /\ adz = ad \o z
  BY Zenon
<1>. HIDE DEF d, open, a, z, ad, adz
<1>8. /\ ad \in Seq(Token) /\ Len(ad) = Len(a) + Len(d)
      /\ \A j \in 1..Len(a) : ad[j] = a[j]
      /\ \A j \in 1..Len(d) : ad[Len(a) + j] = d[j]
  <2>1. a \in Seq(Token) /\ d \in Seq(Token) /\ ad = a \o d
    BY <1>1, <1>3, <1>7, Zenon
  <2>. QED  BY <2>1, ConcatIs
<1>9. /\ adz \in Seq(Token) /\ Len(adz) = Len(ad) + Len(z)
      /\ \A j \in 1..Len(ad) : adz[j] = ad[j]
      /\ \A j \in 1..Len(z) : adz[Len(ad) + j] = z[j]
  <2>1. ad \in Seq(Token) /\ z \in Seq(Token) /\ adz = ad \o z
    BY <1>3, <1>7, <1>8, Zenon
  <2>. QED  BY <2>1, ConcatIs
<1>. HIDE DEF l
<1>l. Len(d) = l
  BY DEF l
<1>10. Len(ad) = 1 + l /\ Len(adz) = l + 2
  <2>1. Len(ad) = 1 + l
    BY <1>3, <1>8, <1>l, Zenon
  <2>2. Len(adz) = 1 + l + 1
    BY <1>3, <1>9, <2>1, Zenon
  <2>. QED  BY <1>2, <2>1, <2>2
<1>11. adz[1] = open /\ adz[l + 2] = Brace /\ \A j \in 1..l : adz[1 + j] = d[j]
  <2>1. 1 \in 1..1 /\ 1 \in 1..1 + l /\ 1 + l + 1 = l + 2
    BY <1>2
  <2>2. adz[1] = open
    <3>1. ad[1] = open
      BY <1>3, <1>8, <2>1, Zenon
    <3>2. adz[1] = ad[1]
      BY <1>9, <1>10, <2>1, Zenon
    <3>. QED  BY <3>1, <3>2, Zenon
  <2>3. adz[l + 2] = Brace
    BY <1>3, <1>9, <1>10, <2>1, Zenon
  <2>4. ASSUME NEW j \in 1..l PROVE adz[1 + j] = d[j]
    <3>1. 1 + j \in 1..1 + l
      BY <1>2
    <3>. QED  BY <1>3, <1>8, <1>9, <1>10, <1>l, <3>1, Zenon
  <2>. QED  BY <2>2, <2>3, <2>4
<1>12. NeedsBraces(v) => /\ Len(Wrapped(v)) = l + 2
                         /\ Wrapped(v)[1] = "{" /\ Wrapped(v)[l + 2] = "}"
                         /\ \A j \in 1..l : Wrapped(v)[1 + j] = d[j]
  BY <1>4, <1>6, <1>10, <1>11, Zenon DEF open
<1>13. Wrapped(v) \in Seq(Token)
  BY <1>4, <1>5, <1>9, Zenon
<1>. QED  BY <1>1, <1>5, <1>12, <1>13, Zenon DEF d, l

LEMMA RenderedIs ==
  ASSUME NEW k \in Keyword, NEW v \in Seq(Token)
  PROVE  /\ Rendered(k, v) \in Seq(Token) /\ Len(Rendered(k, v)) = 2 + Len(Wrapped(v))
         /\ Rendered(k, v)[1] = k /\ Rendered(k, v)[2] = "="
         /\ \A j \in 1..Len(Wrapped(v)) : Rendered(k, v)[2 + j] = Wrapped(v)[j]
<1>. DEFINE sign == "="
            a == <<k, sign>>
            b == Wrapped(v)
            r == Rendered(k, v)
<1>1. a \in Seq(Token) /\ Len(a) = 2 /\ a[1] = k /\ a[2] = sign
  BY MarksAreTokens, KeywordsAreTokens, TwoAre, Zenon
<1>2. b \in Seq(Token)
  BY WrappedIs, Zenon
<1>3. r = a \o b
  BY Zenon DEF Rendered, Wrapped
<1>. HIDE DEF sign, a, b, r
<1>4. /\ r \in Seq(Token) /\ Len(r) = Len(a) + Len(b)
      /\ \A j \in 1..Len(a) : r[j] = a[j]
      /\ \A j \in 1..Len(b) : r[Len(a) + j] = b[j]
  <2>1. a \in Seq(Token) /\ b \in Seq(Token) /\ r = a \o b
    BY <1>1, <1>2, <1>3, Zenon
  <2>. QED  BY <2>1, ConcatIs
<1>5. 1 \in 1..2 /\ 2 \in 1..2
  OBVIOUS
<1>6. r[1] = k /\ r[2] = "="
  BY <1>1, <1>4, <1>5, Zenon DEF sign
<1>7. Len(r) = 2 + Len(b) /\ \A j \in 1..Len(b) : r[2 + j] = b[j]
  BY <1>1, <1>4, Zenon
<1>. QED  BY <1>4, <1>6, <1>7, Zenon DEF r, b

LEMMA SeqHas ==
  ASSUME NEW T, NEW v \in Seq(T)
  PROVE  Len(v) \in Nat /\ DOMAIN v = 1..Len(v) /\ (Len(v) = 0 => v = <<>>)
OBVIOUS

LEMMA OneOf ==
  ASSUME NEW T, NEW text \in Seq(T), NEW i \in Nat, 1 <= i, i <= Len(text)
  PROVE  SubSeq(text, i, i) \in Seq(T) /\ SubSeq(text, i, i) # <<>> /\ SubSeq(text, i, i)[1] = text[i]
<1>1. i \in Int /\ i <= i
  OBVIOUS
<1>. QED  BY <1>1, PartIs

LEMMA FirstOfHere ==
  ASSUME NEW T, NEW text \in Seq(T), NEW i \in Nat, NEW S, i <= Len(text) + 1, i <= Len(text) => text[i] \in S
  PROVE  FirstOf(text, i, S) = i
<1>1. \A j \in Nat : i <= j /\ j < i => text[j] \notin S
  OBVIOUS
<1>2. i <= i
  OBVIOUS
<1>. QED  BY <1>1, <1>2, FirstOfAt, Zenon

\* A text in which a setting is shown behind c, the last one or with a ";" after it.
Shown(text, c, k, v, end) ==
  /\ text \in Seq(Token) /\ k \in Keyword /\ v \in Seq(Token)
  /\ text[c + 1] = k /\ text[c + 2] = "="
  /\ \A j \in 1..Len(Wrapped(v)) : text[c + 2 + j] = Wrapped(v)[j]
  /\ end = c + 2 + Len(Wrapped(v)) /\ end <= Len(text)
  /\ end < Len(text) => text[end + 1] = ";"

\* A value that needs braces is read from between them.
LEMMA BracedRead ==
  ASSUME NEW text, NEW c \in Nat, NEW k, NEW v, NEW end \in Nat, Shown(text, c, k, v, end), NeedsBraces(v)
  PROVE  /\ Value(text, c + 2) = v
         /\ FirstOf(text, End(text, c + 2), {";"}) = end + 1
<1>. DEFINE N == Len(text)
            d == Doubled(v)
            l == Len(d)
            b == Wrapped(v)
            S == Range(text) \ {" "}
<1>1. text \in Seq(Token) /\ v \in Seq(Token) /\ end <= N /\ (end < N => text[end + 1] = ";")
      /\ end = c + 2 + Len(b) /\ \A j \in 1..Len(b) : text[c + 2 + j] = b[j]
  BY Zenon DEF Shown
<1>2. /\ d \in Seq(Token) /\ Len(b) = l + 2 /\ b[1] = "{" /\ b[l + 2] = "}"
      /\ \A j \in 1..l : b[1 + j] = d[j]
  BY <1>1, WrappedIs, Zenon
<1>3. l \in Nat /\ N \in Nat
  BY <1>1, <1>2, SeqIs, Zenon
<1>4. DOMAIN text = 1..N
  BY <1>1, SeqHas, Zenon
<1>a. c + 2 + Len(b) = c + 2 + (l + 2)
  BY <1>2, Zenon
<1>. HIDE DEF N, l, b, d
<1>5. /\ end = c + 3 + l + 1 /\ c + 3 \in 1..N /\ end \in 1..N /\ c + 2 + 1 = c + 3
      /\ c + 2 + (l + 2) = end /\ c + 3 + 1 = c + 4 /\ end - 1 = c + 3 + l /\ c + 3 + l <= N
      /\ c + 3 <= N /\ c + 3 \in Nat /\ c + 3 <= N + 1 /\ c + 3 <= c + 3
      /\ end + 1 <= N + 1 /\ end + 1 \in Nat /\ end <= end + 1
  <2>1. end = c + 2 + (l + 2) /\ end <= N
    BY <1>1, <1>a, Zenon
  <2>. QED  BY <1>3, <2>1
<1>6. text[c + 3] = "{" /\ text[end] = "}" /\ \A j \in 1..l : text[c + 3 + j] = d[j]
  <2>1. 1 \in 1..l + 2 /\ l + 2 \in 1..l + 2
    BY <1>3
  <2>2. text[c + 2 + 1] = "{" /\ text[c + 2 + (l + 2)] = "}"
    BY <1>1, <1>2, <2>1, Zenon
  <2>3. ASSUME NEW j \in 1..l PROVE text[c + 3 + j] = d[j]
    <3>1. 1 + j \in 1..l + 2 /\ c + 2 + (1 + j) = c + 3 + j
      BY <1>3
    <3>2. text[c + 2 + (1 + j)] = b[1 + j]
      BY <1>1, <1>2, <3>1, Zenon
    <3>. QED  BY <1>2, <3>1, <3>2, Zenon
  <2>. QED  BY <1>5, <2>2, <2>3, Zenon
<1>7. Start(text, c + 2) = c + 3
  <2>1. text[c + 3] \in S
    BY <1>4, <1>5, <1>6, Zenon DEF Range
  <2>2. \A j \in Nat : ~ (c + 3 <= j /\ j < c + 3)
    BY <1>5
  <2>3. FirstOf(text, c + 3, S) = c + 3
    <3>. HIDE DEF S
    <3>. QED  BY <1>1, <1>5, <2>1, <2>2, FirstOfAt, Zenon DEF N
  <2>. QED  BY <1>5, <2>3, Zenon DEF Start
<1>8. Quoted(text, c + 2)
  BY <1>5, <1>6, <1>7, Zenon DEF Quoted, N
<1>9. End(text, c + 2) = end
  <2>1. ~Doubles(text, end)
    <3>1. end < N => text[end + 1] # "}"
      BY <1>1, Zenon
    <3>. QED  BY <3>1, Zenon DEF Doubles, N
  <2>2. Braced(Token, text, c + 3, v, end)
    BY <1>1, <1>5, <1>6, <2>1, MarksAreTokens, Zenon DEF Braced, N, d, l
  <2>3. Closing(text, c + 3 + 1) = end
    BY <1>5, <2>2, DoubledCloses, Zenon
  <2>. QED  BY <1>7, <1>8, <2>3, Zenon DEF End
<1>10. SubSeq(text, c + 3 + 1, c + 3 + l) = d
  BY <1>1, <1>2, <1>5, <1>6, SameIs, Zenon DEF N, l
<1>11. Value(text, c + 2) = v
  <2>1. Value(text, c + 2) = Undoubled(SubSeq(text, c + 3 + 1, end - 1))
    BY <1>7, <1>8, <1>9, Zenon DEF Value
  <2>2. Undoubled(d) = v
    BY <1>1, MarksAreTokens, DoubledUndone, Zenon DEF d
  <2>. QED  BY <1>5, <1>10, <2>1, <2>2, Zenon
<1>12. FirstOf(text, end, {";"}) = end + 1
  <2>1. \A j \in Nat : end <= j /\ j < end + 1 => j = end
    OBVIOUS
  <2>2. text[end] \notin {";"}
    BY <1>6, Zenon
  <2>3. \A j \in Nat : end <= j /\ j < end + 1 => text[j] \notin {";"}
    BY <2>1, <2>2, Zenon
  <2>4. end + 1 <= N => end < N
    BY <1>3
  <2>5. end + 1 <= N => text[end + 1] \in {";"}
    BY <1>1, <2>4, Zenon
  <2>. DEFINE Semicolon == {";"}
  <2>. HIDE DEF Semicolon
  <2>6. FirstOf(text, end, Semicolon) = end + 1
    BY <1>1, <1>5, <2>3, <2>5, FirstOfAt, Zenon DEF N, Semicolon
  <2>. QED  BY <2>6 DEF Semicolon
<1>. QED  BY <1>9, <1>11, <1>12, Zenon

\* Any other is read up to the ";" or the end.
LEMMA PlainRead ==
  ASSUME NEW text, NEW c \in Nat, NEW k, NEW v, NEW end \in Nat, Shown(text, c, k, v, end), ~NeedsBraces(v)
  PROVE  /\ Value(text, c + 2) = v
         /\ FirstOf(text, End(text, c + 2), {";"}) = end + 1
<1>. DEFINE N == Len(text)
            l == Len(v)
            S == Range(text) \ {" "}
            Semicolon == {";"}
<1>1. text \in Seq(Token) /\ v \in Seq(Token) /\ end <= N /\ (end < N => text[end + 1] = ";")
      /\ end = c + 2 + Len(Wrapped(v)) /\ \A j \in 1..Len(Wrapped(v)) : text[c + 2 + j] = Wrapped(v)[j]
  BY Zenon DEF Shown
<1>2. Wrapped(v) = v
  BY <1>1, WrappedIs, Zenon
<1>3. end = c + 2 + l /\ \A j \in 1..l : text[c + 2 + j] = v[j]
  BY <1>1, <1>2, Zenon
<1>4. l \in Nat /\ N \in Nat /\ DOMAIN v = 1..l /\ DOMAIN text = 1..N
  BY <1>1, SeqHas, Zenon
<1>5. (\A j \in 1..l : v[j] \notin Mark) /\ (v # <<>> => v[1] # " " /\ v[l] # " ")
  <2>1. \A j \in 1..l : v[j] \notin Mark
    BY <1>4, Zenon DEF NeedsBraces
  <2>2. v # <<>> => v[1] # " " /\ v[l] # " "
    BY Zenon DEF NeedsBraces, Last
  <2>. QED  BY <2>1, <2>2
<1>6. l = 0 => v = <<>>
  BY <1>1, SeqHas, Zenon
<1>. HIDE DEF N, l
<1>7. /\ end \in Nat /\ c + 3 \in Nat /\ c + 3 <= N + 1 /\ c + 3 <= end + 1 /\ end + 1 <= N + 1
      /\ end + 1 \in Nat /\ (end + 1) - 1 = end /\ c + 2 + 1 = c + 3 /\ c + 2 \in Nat /\ c + 2 + l <= N
      /\ end + 1 <= end + 1 /\ c + 3 <= c + 3
  <2>1. end = c + 2 + l /\ end <= N
    BY <1>1, <1>3, Zenon
  <2>. QED  BY <1>4, <2>1
<1>8. end + 1 <= N => text[end + 1] = ";"
  <2>1. end + 1 <= N => end < N
    BY <1>4
  <2>. QED  BY <1>1, <2>1, Zenon
<1>9. c + 3 <= N => text[c + 3] # " " /\ text[c + 3] # "{"
  <2>1. CASE l = 0
    <3>1. c + 3 = end + 1
      <4>1. end = c + 2 + l
        BY <1>3
      <4>. QED  BY <2>1, <4>1
    <3>. QED  BY <1>8, <3>1, Zenon
  <2>2. CASE l # 0
    <3>1. 1 \in 1..l
      BY <1>4, <2>2
    <3>2. v # <<>>
      <4>1. Len(<<>>) = 0
        OBVIOUS
      <4>. QED  BY <2>2, <4>1, Zenon DEF l
    <3>3. text[c + 2 + 1] = v[1] /\ v[1] \notin Mark /\ v[1] # " "
      BY <1>3, <1>5, <3>1, <3>2, Zenon
    <3>. QED  BY <1>7, <3>3, Zenon DEF Mark
  <2>. QED  BY <2>1, <2>2
<1>10. Start(text, c + 2) = c + 3
  <2>1. c + 3 <= N => text[c + 3] \in S
    <3>1. c + 3 <= N => c + 3 \in 1..N
      OBVIOUS
    <3>. QED  BY <1>4, <1>9, <3>1, Zenon DEF Range
  <2>2. text \in Seq(Token) /\ c + 3 \in Nat /\ c + 3 <= N + 1
    BY <1>1, <1>7, Zenon
  <2>. HIDE DEF S
  <2>3. FirstOf(text, c + 3, S) = c + 3
    BY <2>1, <2>2, FirstOfHere, Zenon DEF N
  <2>. QED  BY <1>7, <2>3, Zenon DEF Start, S
<1>11. ~Quoted(text, c + 2)
  BY <1>9, <1>10, Zenon DEF Quoted, N
<1>12. FirstOf(text, c + 3, Semicolon) = end + 1
  <2>1. ASSUME NEW j \in Nat, c + 3 <= j, j < end + 1 PROVE text[j] \notin Semicolon
    <3>1. j - (c + 2) \in 1..l /\ c + 2 + (j - (c + 2)) = j
      <4>1. end = c + 2 + l
        BY <1>3
      <4>. QED  BY <1>4, <2>1, <4>1
    <3>2. text[j] \notin Mark
      BY <1>3, <1>5, <3>1, Zenon
    <3>. QED  BY <3>2, Zenon DEF Mark
  <2>2. end + 1 <= N => text[end + 1] \in Semicolon
    BY <1>8, Zenon
  <2>. HIDE DEF Semicolon
  <2>. QED  BY <1>1, <1>7, <2>1, <2>2, FirstOfAt, Zenon DEF N
<1>13. FirstOf(text, end + 1, Semicolon) = end + 1
  <2>1. text \in Seq(Token) /\ end + 1 \in Nat /\ end + 1 <= N + 1
    BY <1>1, <1>7, Zenon
  <2>2. end + 1 <= N => text[end + 1] \in Semicolon
    BY <1>8, Zenon
  <2>. HIDE DEF Semicolon
  <2>3. FirstOf(text, end + 1, Semicolon) = end + 1
    BY <2>1, <2>2, FirstOfHere, Zenon DEF N
  <2>. QED  BY <2>3
<1>14. End(text, c + 2) = end + 1
  BY <1>10, <1>11, <1>12, Zenon DEF End
<1>15. SubSeq(text, c + 2 + 1, c + 2 + l) = v
  BY <1>1, <1>3, <1>7, SameIs, Zenon DEF N, l
<1>16. Trimmed(v) = v
  BY <1>1, <1>5, TrimmedIs, Zenon DEF l
<1>17. Value(text, c + 2) = v
  <2>1. Value(text, c + 2) = Trimmed(SubSeq(text, c + 3, (end + 1) - 1))
    <3>1. Value(text, c + 2) = Trimmed(SubSeq(text, Start(text, c + 2), End(text, c + 2) - 1))
      BY <1>11, Zenon DEF Value
    <3>. QED  BY <1>10, <1>14, <3>1, Zenon
  <2>. QED  BY <1>3, <1>7, <1>15, <1>16, <2>1, Zenon
<1>. QED  BY <1>13, <1>14, <1>17, Zenon

Only(k, v) == [x \in {k} |-> v]

\* A setting that is shown is found as it is, and the scan goes on behind it.
LEMMA RenderedFound ==
  ASSUME NEW text, NEW c \in Nat, NEW k, NEW v, NEW end \in Nat, Shown(text, c, k, v, end)
  PROVE  /\ ~Passed(text, c + 1) /\ Onward(text, c + 1) = end + 1
         /\ Found(text, c + 1) = Only(k, v)
<1>. DEFINE N == Len(text)
            S == {"=", ";"}
            key == SubSeq(text, c + 1, c + 1)
<1>1. text \in Seq(Token) /\ k \in Keyword /\ v \in Seq(Token) /\ text[c + 1] = k /\ text[c + 2] = "="
      /\ end = c + 2 + Len(Wrapped(v)) /\ end <= N
  BY Zenon DEF Shown
<1>2. k # ";" /\ k # "=" /\ k # " " /\ k \notin DOMAIN Lower
  BY <1>1, KeywordsAreTokens, Zenon
<1>3. c + 1 \in Nat /\ c + 2 \in Nat /\ 1 <= c + 1 /\ c + 2 <= N /\ c + 1 <= N /\ c + 2 <= N + 1 /\ c + 1 <= c + 2
      /\ (c + 2) - 1 = c + 1 /\ ~(c + 2 > N) /\ c + 1 \in Int /\ c + 1 <= c + 1
  <2>1. Len(Wrapped(v)) \in Nat /\ N \in Nat
    BY <1>1, WrappedIs, SeqIs, Zenon
  <2>2. end = c + 2 + Len(Wrapped(v)) /\ end <= N
    BY <1>1, Zenon
  <2>. HIDE DEF N
  <2>. QED  BY <2>1, <2>2
<1>4. Stop(text, c + 1) = c + 2
  <2>1. \A j \in Nat : c + 1 <= j /\ j < c + 2 => j = c + 1
    OBVIOUS
  <2>2. \A j \in Nat : c + 1 <= j /\ j < c + 2 => text[j] \notin S
    BY <1>1, <1>2, <2>1, Zenon
  <2>3. text[c + 2] \in S
    BY <1>1, Zenon
  <2>4. FirstOf(text, c + 1, S) = c + 2
    <3>. HIDE DEF S
    <3>. QED  BY <1>1, <1>3, <2>2, <2>3, FirstOfAt, Zenon
  <2>. QED  BY <2>4, Zenon DEF Stop
<1>5. ~Blank(text, c + 1)
  BY <1>1, <1>2, Zenon DEF Blank
<1>6. text[c + 2] # ";"
  BY <1>1, Zenon
<1>7. ~Passed(text, c + 1)
  BY <1>3, <1>4, <1>5, <1>6, Zenon DEF Passed
<1>8. Value(text, c + 2) = v /\ FirstOf(text, End(text, c + 2), {";"}) = end + 1
  <2>1. CASE NeedsBraces(v)
    BY <2>1, BracedRead, Zenon
  <2>2. CASE ~NeedsBraces(v)
    BY <2>2, PlainRead, Zenon
  <2>. QED  BY <2>1, <2>2
<1>9. Onward(text, c + 1) = end + 1
  BY <1>3, <1>4, <1>5, <1>6, <1>8, Zenon DEF Onward
<1>10. key \in Seq(Token) /\ key # <<>> /\ key[1] = k
  <2>1. text \in Seq(Token) /\ c + 1 \in Nat /\ 1 <= c + 1 /\ c + 1 <= Len(text)
    BY <1>1, <1>3, Zenon
  <2>2. key \in Seq(Token) /\ key # <<>> /\ key[1] = text[c + 1]
    BY <2>1, OneOf, Zenon
  <2>. QED  BY <1>1, <2>2, Zenon
<1>11. Trimmed(key)[1] = k
  <2>. HIDE DEF key
  <2>. QED  BY <1>2, <1>10, TrimmedIs, Zenon
<1>12. Found(text, c + 1) = Setting(key, v)
  <2>1. Found(text, c + 1) = Setting(SubSeq(text, c + 1, Stop(text, c + 1) - 1), Value(text, Stop(text, c + 1)))
    BY Zenon DEF Found
  <2>2. Stop(text, c + 1) - 1 = c + 1
    BY <1>3, <1>4, Zenon
  <2>. QED  BY <1>4, <1>8, <2>1, <2>2, Zenon
<1>13. Setting(key, v) = [x \in {k} |-> v]
  <2>. HIDE DEF key
  <2>. QED  BY <1>2, <1>10, <1>11, Zenon DEF Setting
<1>. QED  BY <1>7, <1>9, <1>12, <1>13, Zenon DEF Only

-----------------------------------------------------------------------------
(***************************************************************************)
(* All the settings of a string, in whatever order the map is walked in.   *)
(***************************************************************************)
LEMMA OrderCovers ==
  ASSUME NEW D, IsFiniteSet(D), NEW order \in SetToSeqs(D)
  PROVE  /\ Len(order) \in Nat /\ order \in [1..Len(order) -> D]
         /\ \A k \in D : \E m \in 1..Len(order) : order[m] = k
<1>. DEFINE n == Cardinality(D)
<1>1. n \in Nat
  BY FS_CardinalityType, Zenon
<1>2. order \in [1..n -> D] /\ \A i, j \in 1..n : i # j => order[i] # order[j]
  BY Zenon DEF SetToSeqs
<1>. HIDE DEF n
<1>3. Len(order) = n
  BY <1>1, <1>2
<1>4. IsFiniteSet(1..n) /\ Cardinality(1..n) = n
  <2>1. Cardinality(1..n) = IF 1 > n THEN 0 ELSE n - 1 + 1
    BY <1>1, FS_Interval
  <2>2. IsFiniteSet(1..n)
    BY <1>1, FS_Interval
  <2>. QED  BY <1>1, <2>1, <2>2
<1>5. order \in Injection(1..n, D)
  BY <1>2, Zenon DEF Injection, IsInjective
<1>6. order \in Surjection(1..n, D)
  BY <1>4, <1>5, FS_Injection, Zenon DEF n
<1>7. \A k \in D : \E m \in 1..n : order[m] = k
  BY <1>6, Zenon DEF Surjection
<1>. QED  BY <1>1, <1>2, <1>3, <1>7, Zenon

Segments(s, order) ==
  [m \in 1..Len(order) |-> (IF m = 1 THEN <<>> ELSE <<";">>) \o Rendered(order[m], s[order[m]])]

\* The offset of a setting in its segment.
Gap(m) == IF m = 1 THEN 0 ELSE 1

\* The segments of a string: each but the first is led in by a ";".
LEMMA SegmentsAre ==
  ASSUME NEW s \in Settings, NEW order \in SetToSeqs(DOMAIN s)
  PROVE  /\ Sequences(Token, Segments(s, order)) /\ Len(Segments(s, order)) = Len(order)
         /\ \A m \in 1..Len(order) :
              LET seg == Segments(s, order)[m]
                  v == s[order[m]]
              IN  /\ Len(seg) = Gap(m) + 2 + Len(Wrapped(v))
                  /\ m # 1 => seg[1] = ";"
                  /\ seg[Gap(m) + 1] = order[m] /\ seg[Gap(m) + 2] = "="
                  /\ \A j \in 1..Len(Wrapped(v)) : seg[Gap(m) + 2 + j] = Wrapped(v)[j]
<1>. DEFINE n == Len(order)
            segs == Segments(s, order)
<1>1. Filed(s)
  BY SettingsAre, Zenon
<1>2. n \in Nat /\ \A m \in 1..n : order[m] \in DOMAIN s
  <2>1. IsFiniteSet(DOMAIN s)
    BY <1>1, Zenon DEF Filed
  <2>2. Len(order) \in Nat /\ order \in [1..Len(order) -> DOMAIN s]
    BY <2>1, OrderCovers, Zenon
  <2>. QED  BY <2>2, Zenon
<1>3. \A m \in 1..n : order[m] \in Keyword /\ s[order[m]] \in Seq(Token)
  BY <1>1, <1>2, Zenon DEF Filed
<1>4. segs = [m \in 1..n |-> segs[m]]
  BY Zenon DEF Segments
<1>5. ASSUME NEW m \in 1..n
      PROVE  LET seg == segs[m]
                 v == s[order[m]]
             IN  /\ seg \in Seq(Token)
                 /\ Len(seg) = Gap(m) + 2 + Len(Wrapped(v))
                 /\ m # 1 => seg[1] = ";"
                 /\ seg[Gap(m) + 1] = order[m] /\ seg[Gap(m) + 2] = "="
                 /\ \A j \in 1..Len(Wrapped(v)) : seg[Gap(m) + 2 + j] = Wrapped(v)[j]
  <2>. DEFINE v == s[order[m]]
              r == Rendered(order[m], v)
              semicolon == ";"
              seg == segs[m]
              l == Len(Wrapped(v))
  <2>1. /\ r \in Seq(Token) /\ Len(r) = 2 + l
        /\ r[1] = order[m] /\ r[2] = "=" /\ \A j \in 1..l : r[2 + j] = Wrapped(v)[j]
    BY <1>3, RenderedIs, Zenon
  <2>2. l \in Nat
    BY <1>3, WrappedIs, SeqIs, Zenon
  <2>3. seg = (IF m = 1 THEN <<>> ELSE <<semicolon>>) \o r
    BY Zenon DEF Segments
  <2>4. semicolon \in Token
    BY MarksAreTokens, Zenon
  <2>. SUFFICES /\ seg \in Seq(Token)
                /\ Len(seg) = Gap(m) + 2 + l
                /\ m # 1 => seg[1] = semicolon
                /\ seg[Gap(m) + 1] = order[m] /\ seg[Gap(m) + 2] = "="
                /\ \A j \in 1..l : seg[Gap(m) + 2 + j] = Wrapped(v)[j]
    BY Zenon
  <2>. HIDE DEF v, r, semicolon, seg, l
  <2>5. CASE m = 1
    <3>1. <<>> \o r = r
      BY <2>1
    <3>2. seg = r /\ Gap(m) = 0
      BY <2>3, <2>5, <3>1, Zenon DEF Gap
    <3>3. 0 + 2 + l = 2 + l /\ 0 + 1 = 1 /\ 0 + 2 = 2 /\ \A j \in 1..l : 0 + 2 + j = 2 + j
      BY <2>2
    <3>. QED  BY <2>1, <2>5, <3>2, <3>3, Zenon
  <2>6. CASE m # 1
    <3>1. seg = <<semicolon>> \o r /\ Gap(m) = 1
      BY <2>3, <2>6, Zenon DEF Gap
    <3>2. <<semicolon>> \in Seq(Token) /\ Len(<<semicolon>>) = 1 /\ <<semicolon>>[1] = semicolon
      BY <2>4, OneIs, Zenon
    <3>. DEFINE a == <<semicolon>>
    <3>. HIDE DEF a
    <3>3. a \in Seq(Token) /\ r \in Seq(Token) /\ seg = a \o r
      BY <2>1, <3>1, <3>2, Zenon DEF a
    <3>4. /\ seg \in Seq(Token) /\ Len(seg) = Len(a) + Len(r)
          /\ \A j \in 1..Len(a) : seg[j] = a[j]
          /\ \A j \in 1..Len(r) : seg[Len(a) + j] = r[j]
      BY <3>3, ConcatIs
    <3>5. /\ 1 + (2 + l) = 1 + 2 + l /\ 1 \in 1..2 + l /\ 2 \in 1..2 + l /\ 1 \in 1..1
          /\ \A j \in 1..l : 2 + j \in 1..2 + l /\ 1 + (2 + j) = 1 + 2 + j
      BY <2>2
    <3>6. Len(a) = 1 /\ a[1] = semicolon
      BY <3>2, Zenon DEF a
    <3>7. Len(seg) = 1 + 2 + l /\ seg[1] = semicolon
      BY <2>1, <3>4, <3>5, <3>6, Zenon
    <3>8. \A j \in 1..2 + l : seg[1 + j] = r[j]
      BY <2>1, <3>4, <3>6, Zenon
    <3>9. seg[1 + 1] = order[m] /\ seg[1 + 2] = "="
      BY <2>1, <3>5, <3>8, Zenon
    <3>10. ASSUME NEW j \in 1..l PROVE seg[1 + 2 + j] = Wrapped(v)[j]
      <4>1. seg[1 + (2 + j)] = r[2 + j]
        BY <3>5, <3>8, Zenon
      <4>. QED  BY <2>1, <3>5, <4>1, Zenon
    <3>. QED  BY <3>1, <3>4, <3>7, <3>9, <3>10, Zenon
  <2>. QED  BY <2>5, <2>6
<1>6. \A m \in 1..n : segs[m] \in Seq(Token)
  BY <1>5, Zenon
<1>7. segs \in Seq(Seq(Token)) /\ Len(segs) = n
  BY <1>2, <1>4, <1>6, MadeIs
<1>. QED  BY <1>5, <1>7, Zenon DEF Sequences

\* What is rendered and parsed again is what it was.
LEMMA ParseRendered ==
  ASSUME NEW s \in Settings, NEW order \in SetToSeqs(DOMAIN s)
  PROVE  ToConnectionString(s, order) \in Seq(Token) /\ Parse(ToConnectionString(s, order)) = s
<1>. DEFINE n == Len(order)
            segs == Segments(s, order)
            text == ToConnectionString(s, order)
            N == Len(text)
            len(m) == Len(Wrapped(s[order[m]]))
<1>1. Filed(s)
  BY SettingsAre, Zenon
<1>2. /\ n \in Nat /\ (\A m \in 1..n : order[m] \in DOMAIN s)
      /\ \A k \in DOMAIN s : \E m \in 1..n : order[m] = k
  <2>1. IsFiniteSet(DOMAIN s)
    BY <1>1, Zenon DEF Filed
  <2>2. /\ Len(order) \in Nat /\ order \in [1..Len(order) -> DOMAIN s]
        /\ \A k \in DOMAIN s : \E m \in 1..Len(order) : order[m] = k
    BY <2>1, OrderCovers, Zenon
  <2>. QED  BY <2>2, Zenon
<1>3. \A m \in 1..n : order[m] \in Keyword /\ s[order[m]] \in Seq(Token)
  BY <1>1, <1>2, Zenon DEF Filed
<1>4. /\ Sequences(Token, segs) /\ Len(segs) = n
      /\ \A m \in 1..n :
           /\ Len(segs[m]) = Gap(m) + 2 + len(m)
           /\ m # 1 => segs[m][1] = ";"
           /\ segs[m][Gap(m) + 1] = order[m] /\ segs[m][Gap(m) + 2] = "="
           /\ \A j \in 1..len(m) : segs[m][Gap(m) + 2 + j] = Wrapped(s[order[m]])[j]
  BY SegmentsAre, Zenon
<1>5. text = FlattenSeq(segs)
  BY Zenon DEF ToConnectionString, Segments
<1>6. text \in Seq(Token) /\ \E at : Laid(text, 0, segs, at) /\ N = at[n + 1]
  <2>. HIDE DEF segs
  <2>1. /\ FlattenSeq(segs) \in Seq(Token)
        /\ \E at : Laid(FlattenSeq(segs), 0, segs, at) /\ Len(FlattenSeq(segs)) = at[Len(segs) + 1]
    BY <1>4, FlattenSeqLays, Zenon
  <2>. QED  BY <1>4, <1>5, <2>1, Zenon
<1>7. PICK at : Laid(text, 0, segs, at) /\ N = at[n + 1]
  BY <1>6, Zenon
<1>8. PICK f : ParseOf(text, f) /\ Parse(text) = f[1]
  BY <1>6, ParseIs, Zenon
<1>9. N \in Nat /\ \A m \in 1..n : len(m) \in Nat
  BY <1>3, <1>6, WrappedIs, SeqIs, Zenon
<1>g. \A m : (m = 1 => Gap(m) = 0) /\ (m # 1 => Gap(m) = 1)
  BY Zenon DEF Gap
<1>. HIDE DEF n, N, segs, text, len
<1>h. \A m : Gap(m) \in 0..1
  <2>. TAKE m
  <2>1. Gap(m) = 0 \/ Gap(m) = 1
    BY <1>g, Zenon
  <2>. QED  BY <2>1
<1>10. /\ \A m \in 1..n + 1 : at[m] \in Nat /\ at[m] <= N
       /\ at[1] = 0
       /\ \A m \in 1..n : /\ at[m + 1] = at[m] + Len(segs[m])
                          /\ \A j \in 1..Len(segs[m]) : text[0 + at[m] + j] = segs[m][j]
  <2>1. ASSUME NEW m \in 1..n PROVE Len(segs[m]) \in Nat
    <3>1. Len(segs[m]) = Gap(m) + 2 + len(m)
      BY <1>4, Zenon
    <3>2. Gap(m) \in 0..1 /\ len(m) \in Nat
      BY <1>9, <1>h
    <3>. QED  BY <3>1, <3>2
  <2>2. Sized(segs, n)
    BY <1>2, <1>4, <2>1, Zenon DEF Sized
  <2>3. Places(text, 0, segs, at, n)
    BY <1>7, <2>2, LaidIs, Zenon
  <2>. QED  BY <1>7, <2>3, Zenon DEF Places
<1>11. /\ f[N + 1] = NoSettings
       /\ \A i \in 1..N : f[i] = IF Passed(text, i) THEN f[Onward(text, i)] ELSE Merge(Found(text, i), f[Onward(text, i)])
  BY <1>8, Zenon DEF ParseOf, N
<1>12. ASSUME NEW m \in 1..n
       PROVE  /\ at[m] + Gap(m) \in Nat /\ at[m + 1] \in Nat /\ at[m] + Gap(m) + 1 \in 1..N
              /\ Shown(text, at[m] + Gap(m), order[m], s[order[m]], at[m + 1])
              /\ m # 1 => text[at[m] + 1] = ";" /\ at[m] + 1 \in 1..N
  <2>. DEFINE a == at[m]
              e == at[m + 1]
              g == Gap(m)
              l == len(m)
              L == Len(segs[m])
  <2>1. m \in 1..n + 1 /\ m + 1 \in 1..n + 1
    BY <1>2
  <2>2. a \in Nat /\ e \in Nat /\ e <= N /\ e = a + L /\ L = g + 2 + l /\ l \in Nat /\ g \in 0..1
    BY <1>4, <1>9, <1>10, <1>h, <2>1, Zenon
  <2>3. \A j \in 1..L : text[0 + a + j] = segs[m][j]
    BY <1>10, Zenon
  <2>. HIDE DEF a, e, g, l, L
  <2>4. /\ a + g \in Nat /\ a + g + 1 \in 1..N /\ e = a + g + 2 + l /\ a + 1 \in 1..N
        /\ 1 \in 1..L /\ 0 + a + 1 = a + 1 /\ g + 1 \in 1..L /\ g + 2 \in 1..L
        /\ 0 + a + (g + 1) = a + g + 1 /\ 0 + a + (g + 2) = a + g + 2
    BY <1>9, <2>2
  <2>5. \A j \in 1..l : g + 2 + j \in 1..L /\ 0 + a + (g + 2 + j) = a + g + 2 + j
    BY <2>2
  <2>6. text[a + 1] = segs[m][1] /\ text[a + g + 1] = segs[m][g + 1] /\ text[a + g + 2] = segs[m][g + 2]
    <3>1. text[0 + a + 1] = segs[m][1]
      BY <2>3, <2>4, Zenon
    <3>2. text[0 + a + (g + 1)] = segs[m][g + 1]
      BY <2>3, <2>4, Zenon
    <3>3. text[0 + a + (g + 2)] = segs[m][g + 2]
      BY <2>3, <2>4, Zenon
    <3>. QED  BY <2>4, <3>1, <3>2, <3>3, Zenon
  <2>7. ASSUME NEW j \in 1..l PROVE text[a + g + 2 + j] = Wrapped(s[order[m]])[j]
    <3>1. text[a + g + 2 + j] = segs[m][g + 2 + j]
      <4>1. g + 2 + j \in 1..L /\ 0 + a + (g + 2 + j) = a + g + 2 + j
        BY <2>5, Zenon
      <4>2. text[0 + a + (g + 2 + j)] = segs[m][g + 2 + j]
        BY <2>3, <4>1, Zenon
      <4>. QED  BY <4>1, <4>2, Zenon
    <3>. QED  BY <1>4, <3>1, Zenon DEF g, l
  <2>8. text[a + g + 1] = order[m] /\ text[a + g + 2] = "="
    BY <1>4, <2>6, Zenon DEF g
  <2>9. m # 1 => text[a + 1] = ";"
    BY <1>4, <2>6, Zenon
  <2>10. e < N => text[e + 1] = ";"
    <3>. SUFFICES ASSUME e < N PROVE text[e + 1] = ";"
      OBVIOUS
    <3>1. m # n
      <4>1. m = n => e = N
        BY <1>7, Zenon DEF e
      <4>. QED  BY <1>9, <2>2, <4>1
    <3>2. m + 1 \in 1..n /\ m + 1 # 1
      BY <1>2, <3>1
    <3>3. segs[m + 1][1] = ";" /\ Len(segs[m + 1]) = Gap(m + 1) + 2 + len(m + 1) /\ len(m + 1) \in Nat
          /\ Gap(m + 1) \in 0..1
      BY <1>4, <1>9, <1>h, <3>2, Zenon
    <3>4. 1 \in 1..Len(segs[m + 1])
      <4>. DEFINE gg == Gap(m + 1)
                  ll == len(m + 1)
      <4>1. Len(segs[m + 1]) = gg + 2 + ll /\ gg \in 0..1 /\ ll \in Nat
        BY <3>3, Zenon
      <4>. HIDE DEF gg, ll
      <4>. QED  BY <4>1
    <3>5. text[0 + e + 1] = ";"
      BY <1>10, <3>2, <3>3, <3>4, Zenon DEF e
    <3>6. 0 + e + 1 = e + 1
      BY <2>2
    <3>. QED  BY <3>5, <3>6, Zenon
  <2>11. Shown(text, a + g, order[m], s[order[m]], e)
    BY <1>3, <1>6, <2>2, <2>4, <2>7, <2>8, <2>10, Zenon DEF Shown, N, l, len, text
  <2>. QED  BY <2>2, <2>4, <2>9, <2>11, Zenon DEF a, e, g
<1>. DEFINE Later(m) == {order[j] : j \in m..n}
            rest(m) == [k \in Later(m) |-> s[k]]
            next == [m \in 1..n |-> m + 1]
            P == {m \in 1..n + 1 : f[at[m] + 1] = rest(m)}
<1>13. n + 1 \in P
  <2>1. n + 1 \in 1..n + 1 /\ (n + 1)..n = {}
    BY <1>2
  <2>2. Later(n + 1) = {}
    BY <2>1, Zenon
  <2>3. rest(n + 1) = NoSettings
    <3>. HIDE DEF Later
    <3>1. [k \in {} |-> s[k]] = NoSettings
      BY DEF NoSettings
    <3>. QED  BY <2>2, <3>1, Zenon
  <2>. HIDE DEF rest
  <2>. QED  BY <1>7, <1>11, <2>1, <2>3, Zenon
<1>14. ASSUME NEW m \in 1..n, next[m] \in P PROVE m \in P
  <2>. DEFINE c == at[m] + Gap(m)
              k == order[m]
  <2>1. m \in 1..n + 1 /\ next[m] = m + 1 /\ m + 1 \in 1..n + 1
    BY <1>2
  <2>2. f[at[m + 1] + 1] = rest(m + 1)
    BY <1>14, <2>1, Zenon
  <2>3. c + 1 \in 1..N /\ ~Passed(text, c + 1) /\ Onward(text, c + 1) = at[m + 1] + 1
        /\ Found(text, c + 1) = Only(k, s[k])
    <3>1. c \in Nat /\ at[m + 1] \in Nat /\ c + 1 \in 1..N /\ Shown(text, c, k, s[k], at[m + 1])
      BY <1>12, Zenon
    <3>. DEFINE e == at[m + 1]
                v == s[k]
    <3>. HIDE DEF c, k, e, v
    <3>2. /\ ~Passed(text, c + 1) /\ Onward(text, c + 1) = e + 1
          /\ Found(text, c + 1) = Only(k, v)
      <4>1. c \in Nat /\ e \in Nat /\ Shown(text, c, k, v, e)
        BY <3>1, Zenon DEF e, v
      <4>2. ~Passed(text, c + 1)
        BY <4>1, RenderedFound, Zenon
      <4>3. Onward(text, c + 1) = e + 1
        BY <4>1, RenderedFound, Zenon
      <4>4. Found(text, c + 1) = Only(k, v)
        BY <4>1, RenderedFound
      <4>. QED  BY <4>2, <4>3, <4>4
    <3>. QED  BY <3>1, <3>2, Zenon DEF e, v
  <2>4. f[c + 1] = Merge(Only(k, s[k]), rest(m + 1))
    <3>. HIDE DEF rest, c, k
    <3>. QED  BY <1>11, <2>2, <2>3, Zenon
  <2>5. Later(m) = {k} \cup Later(m + 1)
    <3>1. \A j : j \in m..n <=> j = m \/ j \in m + 1..n
      BY <1>2
    <3>. QED  BY <3>1, Zenon
  <2>6. Merge(Only(k, s[k]), rest(m + 1)) = rest(m)
    <3>. HIDE DEF Later, k
    <3>. DEFINE u == Only(k, s[k])
                w == rest(m + 1)
    <3>1. DOMAIN u = {k} /\ DOMAIN w = Later(m + 1) /\ (\A y \in {k} : u[y] = s[y]) /\ \A y \in Later(m + 1) : w[y] = s[y]
      BY Zenon DEF Only
    <3>2. Merge(u, w) = [y \in DOMAIN u \cup DOMAIN w |-> IF y \in DOMAIN u THEN u[y] ELSE w[y]]
      BY Zenon DEF Merge
    <3>. HIDE DEF u, w
    <3>3. DOMAIN u \cup DOMAIN w = Later(m)
      BY <2>5, <3>1, Zenon
    <3>4. \A y \in Later(m) : (IF y \in DOMAIN u THEN u[y] ELSE w[y]) = s[y]
      BY <2>5, <3>1, Zenon
    <3>5. Merge(u, w) = [y \in Later(m) |-> s[y]]
      BY <3>2, <3>3, <3>4, Zenon
    <3>. QED  BY <3>5, Zenon DEF u, w
  <2>7. f[at[m] + 1] = f[c + 1]
    <3>0. at[m] \in Nat
      BY <1>10, <2>1, Zenon
    <3>1. CASE m = 1
      <4>1. Gap(m) = 0
        BY <1>g, <3>1, Zenon
      <4>2. at[m] + 0 = at[m]
        BY <3>0
      <4>. QED  BY <4>1, <4>2, Zenon
    <3>2. CASE m # 1
      <4>1. Gap(m) = 1 /\ text[at[m] + 1] = ";" /\ at[m] + 1 \in 1..N
        BY <1>12, <1>g, <3>2, Zenon
      <4>2. Passed(text, at[m] + 1) /\ Onward(text, at[m] + 1) = at[m] + 1 + 1
        BY <4>1, Zenon DEF Passed, Onward, Blank
      <4>3. f[at[m] + 1] = f[at[m] + 1 + 1]
        <5>. DEFINE p == at[m] + 1
        <5>. HIDE DEF p
        <5>1. p \in 1..N /\ Passed(text, p) /\ Onward(text, p) = p + 1
          BY <4>1, <4>2, Zenon DEF p
        <5>2. f[p] = f[p + 1]
          BY <1>11, <5>1, Zenon
        <5>. QED  BY <5>2, Zenon DEF p
      <4>. QED  BY <4>1, <4>3, Zenon
    <3>. QED  BY <3>1, <3>2
  <2>. HIDE DEF rest
  <2>. QED  BY <2>1, <2>4, <2>6, <2>7, Zenon
<1>15. 1..n + 1 \subseteq P
  <2>1. next \in [1..n -> Nat] /\ \A i \in 1..n : i < next[i] /\ next[i] <= n + 1
    BY <1>2
  <2>. HIDE DEF P, next
  <2>. QED  BY <1>2, <1>13, <1>14, <2>1, ScanInduction
<1>16. f[1] = rest(1)
  <2>1. 1 \in 1..n + 1 /\ 0 + 1 = 1
    BY <1>2
  <2>2. f[at[1] + 1] = rest(1)
    BY <1>15, <2>1, Zenon
  <2>. QED  BY <1>10, <2>1, <2>2, Zenon
<1>17. rest(1) = s
  <2>1. Later(1) = DOMAIN s
    BY <1>2, Zenon
  <2>2. s = [k \in DOMAIN s |-> s[k]]
    BY <1>1, Zenon DEF Filed
  <2>. HIDE DEF Later
  <2>. QED  BY <2>1, <2>2, Zenon
<1>. QED  BY <1>6, <1>8, <1>16, <1>17, Zenon DEF text

-----------------------------------------------------------------------------
(***************************************************************************)
(* What merging gives: what is there stays, and what comes from the data   *)
(* source's section is in a file.                                          *)
(***************************************************************************)
LEMMA MergeIs ==
  ASSUME NEW settings, NEW more
  PROVE  /\ DOMAIN Merge(settings, more) = DOMAIN settings \cup DOMAIN more
         /\ \A k \in DOMAIN settings : Merge(settings, more)[k] = settings[k]
         /\ \A k \in DOMAIN more \ DOMAIN settings : Merge(settings, more)[k] = more[k]
BY DEF Merge

\* What a call's settings are once the files of the data sources it names are under them.
Adds(filed, explicit, named) ==
  /\ DOMAIN explicit \subseteq DOMAIN filed
  /\ \A k \in DOMAIN explicit : filed[k] = explicit[k]
  /\ \A k \in DOMAIN filed \ DOMAIN explicit :
       \E d \in named : k \in DOMAIN DsnKeys(d) /\ filed[k] = DsnKeys(d)[k]

LEMMA FileAdds ==
  ASSUME NEW explicit, NEW dsn
  PROVE  Adds(Merge(explicit, DsnKeys(dsn)), explicit, {dsn})
<1> DEFINE more == DsnKeys(dsn)
           filed == Merge(explicit, more)
<1>1. /\ DOMAIN filed = DOMAIN explicit \cup DOMAIN more
      /\ \A k \in DOMAIN explicit : filed[k] = explicit[k]
      /\ \A k \in DOMAIN more \ DOMAIN explicit : filed[k] = more[k]
  <2>. HIDE DEF more
  <2>. QED  BY MergeIs
<1>. HIDE DEF filed
<1>2. Adds(filed, explicit, {dsn})
  BY <1>1 DEF Adds
<1>. QED  BY <1>2 DEF filed

LEMMA StringAdds ==
  ASSUME NEW explicit
  PROVE  Adds(MergeDsnParams(explicit), explicit, Named(explicit))
<1>1. CASE "dsn" \in DOMAIN explicit
  <2>1. MergeDsnParams(explicit) = Merge(explicit, DsnKeys(explicit["dsn"]))
    BY <1>1, Zenon DEF MergeDsnParams
  <2>2. Named(explicit) = {explicit["dsn"]}
    BY <1>1, Zenon DEF Named
  <2>. QED  BY <2>1, <2>2, FileAdds
<1>2. CASE "dsn" \notin DOMAIN explicit
  <2>1. MergeDsnParams(explicit) = explicit
    BY <1>2, Zenon DEF MergeDsnParams
  <2>. QED  BY <2>1 DEF Adds
<1>. QED  BY <1>1, <1>2

LEMMA AskedByIs ==
  ASSUME NEW explicit, NEW named, NEW before
  PROVE  LET ask == AskedBy(explicit, named, before) IN
         /\ ask.sources = before.sources \cup named
         /\ DOMAIN ask.value = DOMAIN explicit \cup DOMAIN before.value
         /\ \A k \in DOMAIN explicit : ask.value[k] = explicit[k]
         /\ \A k \in DOMAIN before.value \ DOMAIN explicit :
              /\ ask.value[k] = before.value[k]
              /\ ask.later[k] = before.later[k] \cup named
BY DEF AskedBy

LEMMA FileGivesIs ==
  ASSUME NEW ask, NEW k, NEW v
  PROVE  v \in FileGives(ask, k) <=>
           \E d \in ask.sources :
             /\ k \in DOMAIN DsnKeys(d)
             /\ k \in DOMAIN ask.value => d \in ask.later[k]
             /\ v = DsnKeys(d)[k]
BY DEF FileGives

(***************************************************************************)
(* One more call of a sequence: its own settings, then its file, then what *)
(* the sequence had.  A value that stays was asked for or filed before, a  *)
(* value that is replaced gives way to a data source named later.          *)
(***************************************************************************)
LEMMA CallAsksFor ==
  ASSUME NEW explicit, NEW named, NEW filed, Adds(filed, explicit, named),
         NEW old, NEW before, SettingsAskedFor(old, before), NEW merged,
         DOMAIN merged = DOMAIN filed \cup DOMAIN old,
         \A k \in DOMAIN filed : merged[k] = filed[k],
         \A k \in DOMAIN old \ DOMAIN filed : merged[k] = old[k]
  PROVE  SettingsAskedFor(merged, AskedBy(explicit, named, before))
<1> DEFINE ask == AskedBy(explicit, named, before)
<1>1. /\ ask.sources = before.sources \cup named
      /\ DOMAIN ask.value = DOMAIN explicit \cup DOMAIN before.value
      /\ \A k \in DOMAIN explicit : ask.value[k] = explicit[k]
      /\ \A k \in DOMAIN before.value \ DOMAIN explicit :
           /\ ask.value[k] = before.value[k]
           /\ ask.later[k] = before.later[k] \cup named
  BY AskedByIs
<1>. HIDE DEF ask
<1>2. DOMAIN ask.value \subseteq DOMAIN merged
  BY <1>1 DEF Adds, SettingsAskedFor
<1>3. ASSUME NEW k \in DOMAIN merged
      PROVE  merged[k] \in Given(ask, k) \cup FileGives(ask, k)
  <2>1. CASE k \in DOMAIN explicit
    BY <1>1, <2>1 DEF Adds, Given
  <2>2. CASE k \in DOMAIN filed \ DOMAIN explicit
    <3>1. PICK d \in named : k \in DOMAIN DsnKeys(d) /\ filed[k] = DsnKeys(d)[k]
      BY <2>2 DEF Adds
    <3>2. merged[k] = DsnKeys(d)[k] /\ d \in ask.sources
      BY <1>1, <2>2, <3>1
    <3>3. k \in DOMAIN ask.value => d \in ask.later[k]
      BY <1>1, <2>2
    <3>. QED  BY <3>1, <3>2, <3>3, FileGivesIs
  <2>3. CASE k \in DOMAIN old \ DOMAIN filed
    <3>1. k \notin DOMAIN explicit /\ merged[k] = old[k]
      BY <2>3 DEF Adds
    <3>2. old[k] \in Given(before, k) \cup FileGives(before, k)
      BY <2>3 DEF SettingsAskedFor
    <3>3. CASE old[k] \in Given(before, k)
      BY <1>1, <3>1, <3>3 DEF Given
    <3>4. CASE old[k] \in FileGives(before, k)
      <4>1. PICK d \in before.sources :
              /\ k \in DOMAIN DsnKeys(d)
              /\ k \in DOMAIN before.value => d \in before.later[k]
              /\ old[k] = DsnKeys(d)[k]
        BY <3>4, FileGivesIs
      <4>2. d \in ask.sources /\ (k \in DOMAIN ask.value => d \in ask.later[k])
        BY <1>1, <3>1, <4>1
      <4>. QED  BY <3>1, <4>1, <4>2, FileGivesIs
    <3>. QED  BY <3>2, <3>3, <3>4
  <2>. QED  BY <2>1, <2>2, <2>3
<1>4. SettingsAskedFor(merged, ask)
  BY <1>2, <1>3 DEF SettingsAskedFor
<1>. QED  BY <1>4 DEF ask

LEMMA NoneAskedFor == SettingsAskedFor(NoSettings, NothingAsked) /\ DOMAIN NoSettings = {}
BY DEF SettingsAskedFor, NoSettings, NothingAsked

\* The first call of a sequence.
LEMMA FirstAsksFor ==
  ASSUME NEW explicit, NEW named, NEW filed, Adds(filed, explicit, named)
  PROVE  SettingsAskedFor(filed, AskedBy(explicit, named, NothingAsked))
<1>1. DOMAIN filed = DOMAIN filed \cup DOMAIN NoSettings
  BY NoneAskedFor
<1>. QED  BY <1>1, NoneAskedFor, CallAsksFor

(***************************************************************************)
(* A credential is one of the two settings, so what is true of these is    *)
(* true of it, and no file gives the one that is read second while the     *)
(* application gave the one that is read first.                            *)
(***************************************************************************)
LEMMA CredentialFollows ==
  ASSUME NEW settings, NEW ask, SettingsAskedFor(settings, ask), NEW name, NEW alias
  PROVE  CredentialAskedFor(settings, ask, name, alias)
<1> SUFFICES ASSUME {name, alias} \cap DOMAIN ask.value # {}
             PROVE  \/ Credential(settings, name, alias) = Credential(ask.value, name, alias)
                    \/ Credential(settings, name, alias) \in FileGives(ask, name)
                    \/ /\ name \notin DOMAIN ask.value
                       /\ Credential(settings, name, alias) \in FileGives(ask, alias)
  BY DEF CredentialAskedFor
<1>1. /\ DOMAIN ask.value \subseteq DOMAIN settings
      /\ \A k \in DOMAIN settings :
           \/ k \in DOMAIN ask.value /\ settings[k] = ask.value[k]
           \/ settings[k] \in FileGives(ask, k)
  BY DEF SettingsAskedFor, Given
<1>2. CASE name \in DOMAIN settings
  <2>1. Credential(settings, name, alias) = settings[name]
    BY <1>2 DEF Credential
  <2>. QED  BY <1>1, <1>2, <2>1 DEF Credential
<1>3. CASE name \notin DOMAIN settings
  <2>1. name \notin DOMAIN ask.value /\ alias \in DOMAIN settings
    BY <1>1, <1>3
  <2>2. /\ Credential(settings, name, alias) = settings[alias]
        /\ Credential(ask.value, name, alias) = ask.value[alias]
    BY <1>3, <2>1 DEF Credential
  <2>. QED  BY <1>1, <2>1, <2>2
<1>. QED  BY <1>2, <1>3

LEMMA OpenedGrants ==
  ASSUME NEW settings, NEW answers, NEW browsed, Opened(settings, answers, browsed),
         SettingsAskedFor(settings, asked'), browsed => Key \subseteq DOMAIN settings
  PROVE  RequestGranted'
<1>1. PICK answer \in answers :
        opened' = [settings |-> settings, answer |-> answer, browsed |-> browsed]
  BY DEF Opened
<1>2. opened'.settings = settings /\ opened'.browsed = browsed
  BY <1>1
<1>3. CredentialAskedFor(settings, asked', "user", "uid")
  BY CredentialFollows
<1>4. CredentialAskedFor(settings, asked', "password", "pwd")
  BY CredentialFollows
<1>. QED  BY <1>2, <1>3, <1>4 DEF RequestGranted

\* Nothing is remembered, as the connection is not being browsed for.
LEMMA NothingAskedFor ==
  ASSUME conn'.browse = None, Forgotten
  PROVE  RequestInv'
BY NoneAskedFor DEF Forgotten, RequestInv, RequestGranted

LEMMA ConnectOpens ==
  ASSUME IInv
  PROVE  /\ ConnectSucceeds => conn'.open /\ conn'.browse = None
         /\ conn.browse \in (SUBSET Key) \cup {None}
BY DEF IInv, TypeOK, ConnectSucceeds

LEMMA ConnectAsks ==
  ASSUME IInv, NEW explicit, NEW named, NEW filed, Adds(filed, explicit, named),
         NEW answers, Connect, Opened(filed, answers, FALSE),
         asked' = AskedBy(explicit, named, NothingAsked)
  PROVE  RequestInv'
<1>1. SettingsAskedFor(filed, asked')
  BY FirstAsksFor
<1>2. RequestGranted'
  BY <1>1, OpenedGrants
<1>3. conn'.open /\ conn'.browse = None
  BY ConnectOpens DEF Connect, Opened, Opens
<1>. QED  BY <1>2, <1>3 DEF RequestInv, Opened

LEMMA BrowseAsks ==
  ASSUME IInv, RequestInv, NEW text, BrowseConnect(text)
  PROVE  RequestInv'
<1> DEFINE explicit == Parse(text)
           filed == MergeDsnParams(explicit)
           merged == Merge(filed, request)
           keys == DOMAIN merged \cap Key
           ask == AskedBy(explicit, Named(explicit), asked)
           answers == {ToConnectionString(merged, order) : order \in SetToSeqs(DOMAIN merged)}
<1>1. /\ Browse(keys)
      /\ \/ conn'.browse # None /\ request' = merged /\ opened' = None /\ asked' = ask
         \/ ~conn'.open /\ conn'.browse = None /\ Forgotten
         \/ Opened(merged, answers, TRUE) /\ asked' = ask
  BY DEF BrowseConnect
<1>2. DOMAIN request \subseteq DOMAIN merged /\ SettingsAskedFor(merged, ask)
  <2>1. SettingsAskedFor(request, asked)
    BY <1>1 DEF RequestInv, Browse
  <2>2. Adds(filed, explicit, Named(explicit))
    BY StringAdds
  <2>. HIDE DEF filed, explicit
  <2>3. /\ DOMAIN merged = DOMAIN filed \cup DOMAIN request
        /\ \A k \in DOMAIN filed : merged[k] = filed[k]
        /\ \A k \in DOMAIN request \ DOMAIN filed : merged[k] = request[k]
    BY MergeIs
  <2>. HIDE DEF merged
  <2>. QED  BY <2>1, <2>2, <2>3, CallAsksFor
<1>3. conn.browse = None \/ conn.browse \subseteq DOMAIN request
  BY DEF RequestInv
<1>. HIDE DEF explicit, merged, answers, ask
<1>4. \/ ConnectSucceeds /\ Key \subseteq DOMAIN merged
      \/ ~conn'.open /\ conn'.browse = None
      \/ ~conn'.open /\ conn'.browse # None /\ conn'.browse \subseteq DOMAIN merged
  <2>1. conn.browse \in (SUBSET Key) \cup {None} /\ ~conn.open
    BY <1>1, ConnectOpens DEF Browse
  <2> DEFINE all == keys \cup IF conn.browse = None THEN {} ELSE conn.browse
  <2>2. all \subseteq DOMAIN merged /\ all \in SUBSET Key
    BY <1>2, <1>3, <2>1
  <2>3. all # None
    BY <2>2, SessionAssumption
  <2>4. \/ all # Key /\ conn' = [conn EXCEPT !.browse = all]
        \/ all = Key /\ ConnectSucceeds
        \/ conn' = [conn EXCEPT !.browse = None]
    BY <1>1 DEF Browse
  <2>. HIDE DEF all
  <2>. QED  BY <2>1, <2>2, <2>3, <2>4 DEF IInv, TypeOK
<1>5. CASE conn'.browse # None /\ request' = merged /\ opened' = None /\ asked' = ask
  <2>1. conn'.browse \subseteq DOMAIN merged
    BY <1>4, <1>5, ConnectOpens
  <2>2. RequestGranted'
    BY <1>5 DEF RequestGranted
  <2>. QED  BY <1>2, <1>5, <2>1, <2>2 DEF RequestInv
<1>6. CASE conn'.browse = None /\ Forgotten
  BY <1>6, NothingAskedFor
<1>7. CASE Opened(merged, answers, TRUE) /\ asked' = ask
  <2>1. conn'.open /\ request' = NoSettings
    BY <1>7 DEF Opened, Opens
  <2>2. conn'.browse = None /\ Key \subseteq DOMAIN merged
    BY <1>4, <2>1, ConnectOpens
  <2>3. RequestGranted'
    BY <1>2, <1>7, <2>2, OpenedGrants
  <2>. QED  BY <2>1, <2>2, <2>3 DEF RequestInv
<1>. QED  BY <1>1, <1>5, <1>6, <1>7

\* Only a connect, or the end of the browse, changes what it lacks.
LEMMA BrowseKept ==
  ASSUME IInv, AttrNext \/ UNCHANGED allVars, conn'.browse # None
  PROVE  conn'.browse = conn.browse
<1>. USE DEF IInv, TypeOK
<1>1. CASE LeavesAttributes
  BY <1>1 DEF LeavesAttributes, SetAutocommit, SetTxnIsolation, CancelBrowse, EndTranFails, Work
<1>2. CASE EndsTransaction \/ Disconnects
  BY <1>2 DEF EndsTransaction, Disconnects, EndTran, Disconnect
<1>3. ASSUME NEW s, PrepareStmt(s) \/ \E at \in {"executed", "cursor"} : ExecuteStmt(s, at)
      PROVE  conn'.browse = conn.browse
  BY <1>3 DEF PrepareStmt, ExecuteStmt, Work
<1>4. CASE UNCHANGED vars
  BY <1>4 DEF vars
<1>5. \/ LeavesAttributes \/ EndsTransaction \/ Disconnects \/ UNCHANGED vars
      \/ \E s \in Stmt : PrepareStmt(s) \/ \E at \in {"executed", "cursor"} : ExecuteStmt(s, at)
  BY Zenon DEF AttrNext, allVars, SetCurrentCatalog, SetConnectAttr, AllocStmt, FreeStmt,
               CloseCursor, SetStmtAttr
<1>. QED  BY <1>1, <1>2, <1>3, <1>4, <1>5

LEMMA KeepsRequestAsks ==
  ASSUME IInv, RequestInv, KeepsRequest
  PROVE  RequestInv'
<1>1. CASE conn'.browse = None
  BY <1>1, NothingAskedFor DEF KeepsRequest
<1>2. CASE conn'.browse # None
  <2>1. request' = request /\ asked' = asked /\ opened' = None
    BY <1>2 DEF KeepsRequest
  <2>2. conn'.browse = conn.browse
    BY <1>2, BrowseKept DEF KeepsRequest, NameNext, SetCursorName, GetCursorName
  <2>. QED  BY <1>2, <2>1, <2>2 DEF RequestInv, RequestGranted
<1>. QED  BY <1>1, <1>2

LEMMA RequestStepKeeps ==
  ASSUME IInv, RequestInv, [RequestNext]_requestsVars
  PROVE  RequestInv'
<1>1. CASE UNCHANGED requestsVars
  BY <1>1 DEF requestsVars, allVars, vars, requestVars, RequestInv, RequestGranted
<1>2. ASSUME NEW text, DriverConnect(text)  PROVE RequestInv'
  <2> DEFINE explicit == Parse(text)
             filed == MergeDsnParams(explicit)
  <2>1. /\ Connect /\ Opened(filed, {text}, FALSE)
        /\ asked' = AskedBy(explicit, Named(explicit), NothingAsked)
    BY <1>2 DEF DriverConnect
  <2>2. Adds(filed, explicit, Named(explicit))
    BY StringAdds
  <2>. HIDE DEF explicit, filed
  <2>. QED  BY <2>1, <2>2, ConnectAsks
<1>3. ASSUME NEW text, BrowseConnect(text)  PROVE RequestInv'
  BY <1>3, BrowseAsks
<1>4. ASSUME NEW arguments, ConnectWith(arguments)  PROVE RequestInv'
  <2> DEFINE explicit == Arguments(arguments.server, arguments.user, arguments.authentication)
             filed == Merge(explicit, DsnKeys(arguments.server))
  <2>1. /\ Connect /\ Opened(filed, {None}, FALSE)
        /\ asked' = AskedBy(explicit, {arguments.server}, NothingAsked)
    BY <1>4 DEF ConnectWith
  <2>2. Adds(filed, explicit, {arguments.server})
    BY FileAdds
  <2>. HIDE DEF explicit, filed
  <2>. QED  BY <2>1, <2>2, ConnectAsks
<1>5. CASE KeepsRequest
  BY <1>5, KeepsRequestAsks
<1>. QED  BY <1>1, <1>2, <1>3, <1>4, <1>5 DEF RequestNext

-----------------------------------------------------------------------------
(***************************************************************************)
(* The string a connect answers with.                                      *)
(***************************************************************************)
\* What odbc.ini has for a data source, merged or not, are settings.
LEMMA DsnKeysFiled ==
  ASSUME NEW dsn
  PROVE  DsnKeys(dsn) \in Settings
<1>1. CASE dsn \notin DOMAIN OdbcIni
  BY <1>1, NoneFiled, Zenon DEF DsnKeys
<1>2. CASE dsn \in DOMAIN OdbcIni
  <2>. DEFINE section == OdbcIni[dsn]
              D == DOMAIN section \ {"driver"}
              kept == [k \in D |-> section[k]]
  <2>1. IsFiniteSet(DOMAIN section) /\ DOMAIN section \subseteq Keyword
        /\ \A k \in DOMAIN section : section[k] \in Seq(Token)
    BY <1>2, StringAssumption, Zenon
  <2>2. DsnKeys(dsn) = kept
    BY <1>2, Zenon DEF DsnKeys, Restrict
  <2>3. D \subseteq DOMAIN section
    BY Zenon
  <2>4. IsFiniteSet(D)
    BY <2>1, <2>3, FS_Subset, Zenon
  <2>5. \A k \in D : section[k] \in Seq(Token)
    BY <2>1, <2>3, Zenon
  <2>6. DOMAIN kept = D /\ kept \in [D -> Seq(Token)] /\ D \subseteq Keyword
    <3>. HIDE DEF D
    <3>. QED  BY <2>1, <2>3, <2>5, Zenon
  <2>7. Filed(kept)
    <3>. HIDE DEF kept, D
    <3>. QED  BY <2>4, <2>6, Zenon DEF Filed
  <2>. QED  BY <2>2, <2>7, SettingsAre, Zenon
<1>. QED  BY <1>1, <1>2

LEMMA MergeDsnFiled ==
  ASSUME NEW settings \in Settings
  PROVE  MergeDsnParams(settings) \in Settings
BY DsnKeysFiled, MergeFiled, Zenon DEF MergeDsnParams

\* Settings to which the file of their data source adds nothing.
Complete(settings) ==
  "dsn" \in DOMAIN settings => DOMAIN DsnKeys(settings["dsn"]) \subseteq DOMAIN settings

\* Complete settings are not changed by their file.
LEMMA NothingAdded ==
  ASSUME NEW settings \in Settings, Complete(settings)
  PROVE  MergeDsnParams(settings) = settings
<1>1. CASE "dsn" \notin DOMAIN settings
  BY <1>1, Zenon DEF MergeDsnParams
<1>2. CASE "dsn" \in DOMAIN settings
  <2>. DEFINE more == DsnKeys(settings["dsn"])
  <2>1. MergeDsnParams(settings) = Merge(settings, more) /\ DOMAIN more \subseteq DOMAIN settings
    BY <1>2, Zenon DEF MergeDsnParams, Complete
  <2>. HIDE DEF more
  <2>2. DOMAIN settings \cup DOMAIN more = DOMAIN settings
    BY <2>1, Zenon
  <2>3. Merge(settings, more) = [k \in DOMAIN settings |-> settings[k]]
    BY <2>2, Zenon DEF Merge
  <2>4. settings = [k \in DOMAIN settings |-> settings[k]]
    BY SettingsAre, Zenon DEF Filed
  <2>. QED  BY <2>1, <2>3, <2>4, Zenon
<1>. QED  BY <1>1, <1>2

\* What a browse gathers stays complete, whether its data source is named
\* by the call or by one before.
LEMMA GatheredComplete ==
  ASSUME NEW explicit, NEW before, Complete(before)
  PROVE  Complete(Merge(MergeDsnParams(explicit), before))
<1>. DEFINE filed == MergeDsnParams(explicit)
            merged == Merge(filed, before)
<1>1. /\ DOMAIN merged = DOMAIN filed \cup DOMAIN before
      /\ \A k \in DOMAIN filed : merged[k] = filed[k]
      /\ \A k \in DOMAIN before \ DOMAIN filed : merged[k] = before[k]
  <2>. HIDE DEF filed
  <2>. QED  BY MergeIs
<1>2. CASE "dsn" \in DOMAIN explicit
  <2>1. filed = Merge(explicit, DsnKeys(explicit["dsn"]))
    BY <1>2, Zenon DEF MergeDsnParams
  <2>2. /\ DOMAIN filed = DOMAIN explicit \cup DOMAIN DsnKeys(explicit["dsn"])
        /\ filed["dsn"] = explicit["dsn"]
    <3>. DEFINE more == DsnKeys(explicit["dsn"])
    <3>. HIDE DEF more
    <3>1. /\ DOMAIN Merge(explicit, more) = DOMAIN explicit \cup DOMAIN more
          /\ \A k \in DOMAIN explicit : Merge(explicit, more)[k] = explicit[k]
      BY MergeIs
    <3>2. filed = Merge(explicit, more)
      BY <2>1, Zenon DEF more
    <3>. QED  BY <1>2, <3>1, <3>2, Zenon DEF more
  <2>. HIDE DEF filed, merged
  <2>3. merged["dsn"] = explicit["dsn"]
    BY <1>1, <1>2, <2>2, Zenon
  <2>4. Complete(merged)
    BY <1>1, <2>2, <2>3, Zenon DEF Complete
  <2>. QED  BY <2>4 DEF merged, filed
<1>3. CASE "dsn" \notin DOMAIN explicit
  <2>1. filed = explicit
    BY <1>3, Zenon DEF MergeDsnParams
  <2>. HIDE DEF filed, merged
  <2>2. Complete(merged)
    <3>1. CASE "dsn" \in DOMAIN before
      <4>1. merged["dsn"] = before["dsn"]
        BY <1>1, <1>3, <2>1, <3>1, Zenon
      <4>. QED  BY <1>1, <3>1, <4>1, Zenon DEF Complete
    <3>2. CASE "dsn" \notin DOMAIN before
      BY <1>1, <1>3, <2>1, <3>2, Zenon DEF Complete
    <3>. QED  BY <3>1, <3>2
  <2>. QED  BY <2>2 DEF merged, filed
<1>. QED  BY <1>2, <1>3

(***************************************************************************)
(* What a browse remembers are settings to which their file adds nothing;  *)
(* so the string it answers with in the end reads as just these.           *)
(***************************************************************************)
RememberedInv == request \in Settings /\ Complete(request)
AnswersInv == RememberedInv /\ AnswerConnectsAgain

LEMMA NothingRemembered == NoSettings \in Settings /\ Complete(NoSettings)
<1>1. DOMAIN NoSettings = {}
  BY DEF NoSettings
<1>. QED  BY <1>1, NoneFiled, Zenon DEF Complete

LEMMA AnswerReads ==
  ASSUME NEW settings, NEW answers, NEW browsed, Opened(settings, answers, browsed),
         \A answer \in answers : answer # None => MergeDsnParams(Parse(answer)) = settings
  PROVE  AnswerConnectsAgain'
<1>1. PICK answer \in answers :
        opened' = [settings |-> settings, answer |-> answer, browsed |-> browsed]
  BY DEF Opened
<1>2. opened'.settings = settings /\ opened'.answer = answer
  BY <1>1
<1>. QED  BY <1>2, Zenon DEF AnswerConnectsAgain

\* SQLBrowseConnectW remembers and answers as AnswersInv says.
LEMMA BrowseAnswers ==
  ASSUME AnswersInv, NEW text \in Seq(Token), BrowseConnect(text)
  PROVE  AnswersInv'
<1>. DEFINE explicit == Parse(text)
            merged == Merge(MergeDsnParams(explicit), request)
            answers == {ToConnectionString(merged, order) : order \in SetToSeqs(DOMAIN merged)}
<1>1. \/ request' = merged /\ opened' = None
      \/ Forgotten
      \/ Opened(merged, answers, TRUE)
  BY Zenon DEF BrowseConnect
<1>2. merged \in Settings /\ Complete(merged)
  <2>1. explicit \in Settings
    BY ParseFiled, Zenon
  <2>2. MergeDsnParams(explicit) \in Settings
    BY <2>1, MergeDsnFiled, Zenon
  <2>. QED  BY <2>2, MergeFiled, GatheredComplete, Zenon DEF AnswersInv, RememberedInv
<1>. HIDE DEF merged, explicit
<1>3. \A answer \in answers : MergeDsnParams(Parse(answer)) = merged
  <2>1. \A order \in SetToSeqs(DOMAIN merged) : Parse(ToConnectionString(merged, order)) = merged
    BY <1>2, ParseRendered, Zenon
  <2>2. MergeDsnParams(merged) = merged
    BY <1>2, NothingAdded, Zenon
  <2>3. ASSUME NEW answer \in answers PROVE MergeDsnParams(Parse(answer)) = merged
    <3>1. PICK order \in SetToSeqs(DOMAIN merged) : answer = ToConnectionString(merged, order)
      BY <2>3, Zenon
    <3>2. Parse(answer) = merged
      BY <2>1, <3>1, Zenon
    <3>. QED  BY <2>2, <3>2, Zenon
  <2>. QED  BY <2>3
<1>. HIDE DEF answers
<1>4. CASE (request' = merged /\ opened' = None) \/ Forgotten
  BY <1>2, <1>4, NothingRemembered, Zenon DEF Forgotten, AnswersInv, RememberedInv, AnswerConnectsAgain
<1>5. CASE Opened(merged, answers, TRUE)
  <2>1. AnswerConnectsAgain'
    BY <1>3, <1>5, AnswerReads, Zenon
  <2>. QED  BY <1>5, <2>1, NothingRemembered, Zenon DEF Opened, AnswersInv, RememberedInv
<1>. QED  BY <1>1, <1>4, <1>5, Zenon

\* So do the calls that connect at once.
LEMMA ConnectAnswers ==
  ASSUME NEW settings, NEW answers, NEW browsed, Opened(settings, answers, browsed),
         \A answer \in answers : answer # None => MergeDsnParams(Parse(answer)) = settings
  PROVE  AnswersInv'
<1>1. AnswerConnectsAgain'
  BY AnswerReads, Zenon
<1>. QED  BY <1>1, NothingRemembered, Zenon DEF Opened, AnswersInv, RememberedInv

LEMMA AnswersStepKeeps ==
  ASSUME AnswersInv, [RequestNext]_requestsVars
  PROVE  AnswersInv'
<1>1. CASE UNCHANGED requestsVars
  BY <1>1, Zenon DEF requestsVars, requestVars, AnswersInv, RememberedInv, AnswerConnectsAgain
<1>2. ASSUME NEW text, DriverConnect(text)  PROVE AnswersInv'
  <2>1. Opened(MergeDsnParams(Parse(text)), {text}, FALSE)
    BY <1>2, Zenon DEF DriverConnect
  <2>. DEFINE settings == MergeDsnParams(Parse(text))
              answers == {text}
  <2>2. \A answer \in answers : answer # None => MergeDsnParams(Parse(answer)) = settings
    BY Zenon
  <2>3. Opened(settings, answers, FALSE)
    BY <2>1, Zenon
  <2>. HIDE DEF settings, answers
  <2>. QED  BY <2>1, <2>2, <2>3, ConnectAnswers
<1>3. ASSUME NEW text \in Strings, BrowseConnect(text)  PROVE AnswersInv'
  <2>1. text \in Seq(Token)
    BY TextsAssumption, Zenon DEF Strings
  <2>. QED  BY <1>3, <2>1, BrowseAnswers, Zenon
<1>4. ASSUME NEW arguments, ConnectWith(arguments)  PROVE AnswersInv'
  <2>. DEFINE explicit == Arguments(arguments.server, arguments.user, arguments.authentication)
              settings == Merge(explicit, DsnKeys(arguments.server))
              answers == {None}
  <2>1. Opened(settings, answers, FALSE)
    BY <1>4, Zenon DEF ConnectWith
  <2>2. \A answer \in answers : answer # None => MergeDsnParams(Parse(answer)) = settings
    BY Zenon
  <2>. HIDE DEF explicit, settings, answers
  <2>. QED  BY <2>1, <2>2, ConnectAnswers
<1>5. CASE KeepsRequest
  <2>1. opened' = None /\ request' \in {request, NoSettings}
    BY <1>5 DEF KeepsRequest, Forgotten
  <2>. QED  BY <2>1, NothingRemembered DEF AnswersInv, RememberedInv, AnswerConnectsAgain
<1>. QED  BY <1>1, <1>2, <1>3, <1>4, <1>5, Zenon DEF RequestNext

LEMMA AnswersInitInv == RequestInit => AnswersInv
BY NothingRemembered, Zenon DEF RequestInit, AnswersInv, RememberedInv, AnswerConnectsAgain

-----------------------------------------------------------------------------
(***************************************************************************)
(* Every call keeps all five; the first four need each other in order.     *)
(***************************************************************************)
SessionInv == IInv /\ AttrInv /\ NamesInv /\ RequestInv /\ AnswersInv

LEMMA RequestInitInv == RequestInit => SessionInv
<1> SUFFICES ASSUME RequestInit  PROVE SessionInv
  OBVIOUS
<1>1. IInv /\ AttrInv
  BY InitIInv, AttrInitInv DEF RequestInit, NameInit, AttrInit
<1>2. /\ cursor_name = [s \in Stmt |-> None] /\ made = 0
      /\ request = NoSettings /\ asked = NothingAsked /\ opened = None /\ conn.browse = None
  BY DEF RequestInit, NameInit, AttrInit, Init
<1>3. NamesInv
  <2>1. \A s \in Stmt, i \in DOMAIN Generated : cursor_name[s] # Generated[i]
    BY <1>2, NamesAre
  <2>. QED  BY <1>2, <2>1 DEF NamesInv
<1>4. RequestInv
  BY <1>2, NoneAskedFor DEF RequestInv, RequestGranted
<1>. QED  BY <1>1, <1>3, <1>4, AnswersInitInv DEF SessionInv

LEMMA SessionStepKeeps == SessionInv /\ [RequestNext]_requestsVars => SessionInv'
<1> SUFFICES ASSUME SessionInv, [RequestNext]_requestsVars  PROVE SessionInv'
  OBVIOUS
<1>1. Connects \/ AttrNext \/ UNCHANGED allVars
  BY RequestIsCall
<1>2. IInv'
  BY <1>1, CallIsSessionStep, NextIInv DEF SessionInv
<1>3. AttrInv'
  BY <1>1, <1>2, AttrStepKeeps DEF SessionInv
<1>4. NamesInv' /\ RequestInv' /\ AnswersInv'
  BY NamesStepKeeps, RequestStepKeeps, AnswersStepKeeps DEF SessionInv
<1>. QED  BY <1>2, <1>3, <1>4 DEF SessionInv

LEMMA SessionInvariance == RequestSpec => []SessionInv
BY RequestInitInv, SessionStepKeeps, PTL DEF RequestSpec, requestsVars

LEMMA SessionIsInForce ==
  ASSUME IInv, AttrInv
  PROVE  SessionInForce
<1> SUFFICES ASSUME conn.open
             PROVE  /\ "catalog" \notin moved =>
                         server.catalog = GetConnectAttr("current_catalog", FALSE)
                    /\ server.access = GetConnectAttr("access_mode", FALSE)
                    /\ \A a \in Timeouts \ moved : server.timeouts[a] = GetConnectAttr(a, FALSE)
                    /\ session.autocommit = GetConnectAttr("autocommit", FALSE)
                    /\ session.isolation = GetConnectAttr("txn_isolation", FALSE)
  BY DEF SessionInForce
<1>. USE DEF GetConnectAttr, ConnKept, Ranged, Timeouts
<1>1. GetConnectAttr("current_catalog", FALSE)
        = IF attrs.catalog # None THEN attrs.catalog ELSE server.catalog
  OBVIOUS
<1>2. \A a \in {"access_mode"} \cup Timeouts : GetConnectAttr(a, FALSE) = Kept(a)
  OBVIOUS
<1>3. GetConnectAttr("autocommit", FALSE) = Autocommit(conn)
  OBVIOUS
<1>4. GetConnectAttr("txn_isolation", FALSE) = Isolation(conn)
  OBVIOUS
<1>. HIDE DEF GetConnectAttr, ConnKept, Ranged, Timeouts
<1>. QED  BY <1>1, <1>2, <1>3, <1>4 DEF IInv, AttributesInForce, AttrInv, ServerKept

LEMMA LimitsAreInForce ==
  ASSUME AttrInv
  PROVE  LimitsInForce
<1>1. \A s \in Live, a \in Limit : GetStmtAttr(s, a) = stmts[s].stored[a]
  BY AttributeAssumption DEF GetStmtAttr, Unreadable
<1>2. \A a \in Limit : enforcer[a] \in {"source", "core", "nobody"}
  BY AttributeAssumption DEF AttrInv, AttrTyped
<1>3. \A s \in Live, a \in Limit :
        /\ enforcer[a] = "source" => (setter[a] = s => server.limit[a] = GetStmtAttr(s, a))
        /\ enforcer[a] = "core" => stmts[s].core = GetStmtAttr(s, a)
        /\ enforcer[a] = "nobody" => GetStmtAttr(s, a) = 0
  BY <1>1 DEF AttrInv, LimitsKept
<1>. QED  BY <1>2, <1>3 DEF LimitsInForce

LEMMA AnswersAreListed == AnswersListed
<1>1. \A a \in {"access_mode", "packet_size", "async_enable", "enlist_in_dtc"} :
        SetAnswer(a, 2) \in {"HY024", "HY011", "HYC00", "00000"}
  BY DEF SetAnswer
<1>2. \A a \in {"quiet_mode", "unknown"} : GetConnectAttr(a, FALSE) \in {"HYC00", "HY092"}
  BY DEF GetConnectAttr, ConnKept, Ranged, Timeouts
<1>3. \A s \in Live, a \in ReadOnly : Unreadable(s, a) \in {"24000", "HYC00", "00000"}
  BY DEF Unreadable
<1>4. /\ \A f : f = "SetConnectAttr" => SetConnectAttrStates \subseteq Listed(f)
      /\ \A f : f = "GetConnectAttr" => GetConnectAttrStates \subseteq Listed(f)
      /\ \A f : f = "GetStmtAttr" => GetStmtAttrStates \subseteq Listed(f)
  BY DEF Listed
<1>5. /\ {"HY024", "HY011", "HYC00"} \subseteq SetConnectAttrStates
      /\ {"HYC00", "HY092"} \subseteq GetConnectAttrStates
      /\ {"24000", "HYC00"} \subseteq GetStmtAttrStates
  BY DEF SetConnectAttrStates, GetConnectAttrStates, GetStmtAttrStates, ReadAttrStates
<1>. QED  BY <1>1, <1>2, <1>3, <1>4, <1>5 DEF AnswersListed

-----------------------------------------------------------------------------
(***************************************************************************)
(* The limits a statement reports are enforced by whoever enforces them,   *)
(* and the session runs with the attributes the connection reports.        *)
(***************************************************************************)
THEOREM ReportedAlwaysInForce == RequestSpec => []ReportedInForce
<1>1. SessionInv => ReportedInForce
  BY SessionIsInForce, LimitsAreInForce, AnswersAreListed DEF SessionInv, ReportedInForce
<1>. QED  BY <1>1, SessionInvariance, PTL

(***************************************************************************)
(* No two statements of a connection have the same cursor name, chosen or  *)
(* made up, in whatever order they take, lose and free them.               *)
(***************************************************************************)
THEOREM CursorNamesAlwaysDistinct == RequestSpec => []CursorNamesDistinct
<1>1. SessionInv => CursorNamesDistinct
  BY DEF SessionInv, NamesInv, CursorNamesDistinct, Live
<1>. QED  BY <1>1, SessionInvariance, PTL

(***************************************************************************)
(* A connection is made with what was asked for.  Every setting is the     *)
(* last the application gave in this call or this browse, or is in the     *)
(* file of a data source this call or browse named; a file replaces a      *)
(* value the application gave only when it is named in a later call, or    *)
(* gives User or Password where the application gave UID or PWD alone.     *)
(* None that is required is missing when a browse ends, and the string it  *)
(* answers, given to SQLDriverConnectW, connects with the same settings    *)
(* again, whatever marks their values contain and in whatever order the    *)
(* map is walked.                                                          *)
(***************************************************************************)
THEOREM ConnectsAlwaysAsAsked == RequestSpec => []ConnectsAsAsked
<1>1. SessionInv => ConnectsAsAsked
  BY DEF SessionInv, RequestInv, AnswersInv, ConnectsAsAsked
<1>. QED  BY <1>1, SessionInvariance, PTL

(***************************************************************************)
(* No step but the application's own SQL changes the catalog of the        *)
(* session under a result set that is pending.                             *)
(***************************************************************************)
THEOREM CatalogAlwaysHeld == RequestSpec => CatalogHeldUnderResultSet
<1> DEFINE Held == \A s \in Live : stmts[s].at = "cursor" /\ stmts'[s] = stmts[s]
                     => server.catalog' = server.catalog \/ "catalog" \in moved'
<1>1. ASSUME SessionInv, [RequestNext]_requestsVars  PROVE [Held]_allVars
  <2> SUFFICES ASSUME ~UNCHANGED allVars,
                      NEW s \in Live, stmts[s].at = "cursor", stmts'[s] = stmts[s]
               PROVE  server'.catalog = server.catalog \/ "catalog" \in moved'
    OBVIOUS
  <2>1. s \in Stmt /\ stmts[s] # None /\ conn.open /\ server \in Server
    BY <1>1, StatementsAre DEF SessionInv, AttrInv, AttrTyped
  <2>2. Connects \/ AttrNext
    BY <1>1, RequestIsCall
  <2>3. ~Connects
    BY <2>1 DEF Connects, Connect, Browse
  <2>4. CASE LeavesAttributes \/ EndsTransaction
    BY <2>4 DEF LeavesAttributes, EndsTransaction, attrVars
  <2>5. ASSUME Disconnects  PROVE FALSE
    BY <2>1, <2>5 DEF Disconnects
  <2>6. ASSUME NEW c \in Catalog, SetCurrentCatalog(c)  PROVE FALSE
    BY <2>6 DEF SetCurrentCatalog, ResultSetPending
  <2>7. ASSUME NEW a \in ConnStored, NEW value, SetConnectAttr(a, value)  PROVE FALSE
    BY <2>7 DEF SetConnectAttr
  <2>8. ASSUME NEW t \in Stmt, AllocStmt(t) \/ FreeStmt(t) \/ PrepareStmt(t) \/ CloseCursor(t)
        PROVE  server' = server
    BY <2>8 DEF AllocStmt, FreeStmt, PrepareStmt, CloseCursor
  <2>9. ASSUME NEW t \in Stmt, NEW at, ExecuteStmt(t, at)
        PROVE  server' = server \/ "catalog" \in moved'
    BY <2>9 DEF ExecuteStmt
  <2>10. ASSUME NEW t \in Stmt, NEW a, NEW value, SetStmtAttr(t, a, value)
         PROVE  server'.catalog = server.catalog
    BY <2>1, <2>10 DEF SetStmtAttr, OfferLimit, Server
  <2>. QED  BY <2>2, <2>3, <2>4, <2>5, <2>6, <2>7, <2>8, <2>9, <2>10 DEF AttrNext
<1>. QED  BY <1>1, SessionInvariance, PTL DEF RequestSpec, requestsVars, CatalogHeldUnderResultSet

=============================================================================
