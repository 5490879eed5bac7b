-------------------------- MODULE SessionAttributes --------------------------
(***************************************************************************)
(* The attributes of a connection and of its statements over the session   *)
(* of ConnectionSession: the current catalog, which no pending result set  *)
(* may see change, the access mode and the timeouts a connect carries, and *)
(* the limits a statement asks for and the data source, or core's own      *)
(* deadline, enforces.  The limits are stored per statement; the data      *)
(* source has one of each per session.                                     *)
(***************************************************************************)
EXTENDS ConnectionSession, ListedStates

CONSTANTS
  Stmt,           \* statement handles
  Limit,          \* SQL_ATTR_MAX_ROWS, SQL_ATTR_MAX_LENGTH, SQL_ATTR_QUERY_TIMEOUT
  Enforcers,      \* what backends do with one: "source", "core" (CoreCancels), "nobody"
  ConnStored,     \* bound: the connection attributes an application varies
  StmtVaried,     \* bound: the statement attributes it sets
  Catalog,        \* catalogs
  DefaultCatalog  \* the one a new session is in

\* Values are 0, the default, and 1; 2 stands for a value outside the range.
Timeouts == {"login_timeout", "connection_timeout"}
Ranged == {"access_mode", "trace", "odbc_cursors"}
ConnKept == Ranged \cup Timeouts
            \cup {"packet_size", "translate_option", "async_enable", "metadata_id"}

\* A StatementHandle: the limits it stores, core's deadline, and whether it was
\* executed, with a result set or without.
Statement == [stored : [Limit -> 0 .. 1], core : 0 .. 1, at : {"idle", "executed", "cursor"}]

ASSUME AttributeAssumption == /\ Limit \subseteq {"max_rows", "max_length", "query_timeout"}
                              /\ Enforcers \subseteq {"source", "core", "nobody"}
                              /\ ConnStored \subseteq ConnKept
                              /\ DefaultCatalog \in Catalog
                              /\ None \notin Catalog \cup Stmt \cup Statement

VARIABLES
  attrs,     \* ConnectionHandle::attrs and attr_strings
  server,    \* external: what the session runs with
  enforcer,  \* external: who enforces each limit
  stmts,     \* the StatementHandles, None when free
  setter,    \* history: who last set each limit of the data source
  moved      \* history: what changed after the connect other than through core

attrVars == <<attrs, server, enforcer, stmts, setter, moved>>
allVars == <<vars, attrVars>>

NewStmt == [stored |-> [a \in Limit |-> 0], core |-> 0, at |-> "idle"]
Live == {s \in Stmt : stmts[s] # None}

AttrInit == /\ Init
            /\ attrs = [catalog |-> None, kept |-> [a \in ConnStored |-> 0]]
            /\ server = None /\ moved = {}
            /\ enforcer \in {e \in [Limit -> Enforcers] :
                              \A a \in Limit : e[a] = "core" => a = "query_timeout"}
            /\ stmts = [s \in Stmt |-> None]
            /\ setter = [a \in Limit |-> None]

Kept(a) == IF a \in ConnStored THEN attrs.kept[a] ELSE 0

-----------------------------------------------------------------------------
(***************************************************************************)
(* A connect carries the timeouts to the backend and then applies the      *)
(* stored access mode and catalog (apply_pending_connect_attrs, which      *)
(* applies autocommit and the isolation level before them).                *)
(***************************************************************************)
NewServer == [catalog |-> IF attrs.catalog = None THEN DefaultCatalog ELSE attrs.catalog,
              access |-> Kept("access_mode"),
              timeouts |-> [a \in Timeouts |-> Kept(a)],
              limit |-> [a \in Limit |-> 0]]
OpenServer == server' = NewServer

Opens == ~conn.open /\ conn'.open
Carries ==
  /\ IF Opens THEN OpenServer /\ moved' = {} ELSE UNCHANGED <<server, moved>>
  /\ UNCHANGED <<attrs, enforcer, stmts, setter>>

\* A statement call that is refused, or fails, may have opened a transaction.
LeavesAttributes ==
  /\ \/ \E value \in {"on", "off"} : SetAutocommit(value)
     \/ \E level \in Level : SetTxnIsolation(level)
     \/ CancelBrowse \/ EndTranFails
     \/ Live # {} /\ Work
  /\ UNCHANGED attrVars

\* apply_cursor_behavior on every statement of the connection.
Behaved(stmt, behavior) ==
  CASE behavior = "close" /\ stmt.at = "cursor" -> [stmt EXCEPT !.at = "executed"]
    [] behavior = "delete" -> [stmt EXCEPT !.at = "idle"]
    [] OTHER -> stmt
EndsTransaction ==
  /\ EndTran
  /\ \E behavior \in {"close", "delete", "preserve"} :
       stmts' = [s \in Stmt |-> IF s \in Live THEN Behaved(stmts[s], behavior) ELSE None]
  /\ UNCHANGED <<attrs, server, enforcer, setter, moved>>

\* Disconnecting frees the statements.
Disconnects ==
  /\ Disconnect
  /\ server' = None /\ stmts' = [s \in Stmt |-> None]
  /\ setter' = [a \in Limit |-> None]
  /\ UNCHANGED <<attrs, enforcer, moved>>

-----------------------------------------------------------------------------
\* A fault: an executed statement is taken for one with a result set.
ExecutedPending == \E s \in Live : stmts[s].at = "executed"
\* connection_has_result_set_pending.
ResultSetPending == \E s \in Live : stmts[s].at = "cursor"

\* SQLSetConnectAttrW, one action per attribute or group of them.
SetCurrentCatalog(c) ==
  /\ ~ResultSetPending
  /\ attrs' = [attrs EXCEPT !.catalog = c]
  /\ IF conn.open THEN server' = [server EXCEPT !.catalog = c] /\ moved' = moved \ {"catalog"}
     ELSE UNCHANGED <<server, moved>>
  /\ UNCHANGED <<vars, enforcer, stmts, setter>>

\* The SQLSTATE of a refusal, or success.  An attribute nobody knows is
\* accepted and dropped.
SetAnswer(a, value) ==
  CASE a \in Ranged /\ value > 1 -> "HY024"
    [] a = "packet_size" /\ conn.open -> "HY011"
    [] a = "async_enable" /\ value # 0 -> "HYC00"
    [] a = "enlist_in_dtc" -> "HYC00"
    [] a = "connection_dead" -> "HY024"
    [] OTHER -> "00000"

\* The application varies these only while it has no statement (a bound).
SetConnectAttr(a, value) ==
  /\ Live = {}
  /\ SetAnswer(a, value) = "00000"
  /\ attrs' = IF a \in ConnStored THEN [attrs EXCEPT !.kept[a] = value] ELSE attrs
  /\ server' = IF a = "access_mode" /\ conn.open THEN [server EXCEPT !.access = value] ELSE server
  /\ moved' = IF a \in Timeouts \cap ConnStored /\ conn.open THEN moved \cup {a} ELSE moved
  /\ UNCHANGED <<vars, enforcer, stmts, setter>>

\* SQLGetConnectAttrW; dead is what the backend says of an open session.
GetConnectAttr(a, dead) ==
  CASE a = "current_catalog" -> IF attrs.catalog # None THEN attrs.catalog
                                ELSE IF conn.open THEN server.catalog ELSE ""
    [] a = "autocommit" -> Autocommit(conn)
    [] a = "txn_isolation" -> IF conn.isolation = None /\ ~conn.open THEN 0 ELSE Isolation(conn)
    [] a = "connection_dead" -> conn.open /\ dead
    [] a = "auto_ipd" -> FALSE
    [] a \in ConnKept -> Kept(a)
    [] a \in {"enlist_in_dtc", "quiet_mode"} -> "HYC00"
    [] OTHER -> "HY092"

-----------------------------------------------------------------------------
Defaults == \A a \in ConnStored : attrs.kept[a] = 0

AllocStmt(s) ==
  /\ conn.open /\ Defaults /\ s \notin Live
  /\ stmts' = [stmts EXCEPT ![s] = NewStmt]
  /\ UNCHANGED <<vars, attrs, server, enforcer, setter, moved>>

FreeStmt(s) ==
  /\ s \in Live
  /\ stmts' = [stmts EXCEPT ![s] = None]
  /\ setter' = [a \in Limit |-> IF setter[a] = s THEN None ELSE setter[a]]
  /\ UNCHANGED <<vars, attrs, server, enforcer, moved>>

\* SQLPrepareW; a cursor still open goes with the statement it belongs to.
PrepareStmt(s) ==
  /\ s \in Live
  /\ Work
  /\ stmts' = [stmts EXCEPT ![s].at = "idle"]
  /\ UNCHANGED <<attrs, server, enforcer, setter, moved>>

\* SQLExecDirectW or SQLExecute, of a query or of SQL that may move the session
\* to another catalog.
ExecuteStmt(s, at) ==
  /\ s \in Live /\ stmts[s].at # "cursor"
  /\ Work
  /\ stmts' = [stmts EXCEPT ![s].at = at]
  /\ \/ UNCHANGED <<server, moved>>
     \/ /\ at = "executed"
        /\ \E c \in Catalog : server' = [server EXCEPT !.catalog = c]
        /\ moved' = moved \cup {"catalog"}
  /\ UNCHANGED <<attrs, enforcer, setter>>

\* SQLFreeStmt(SQL_CLOSE) discards the execution, with a cursor or without.
CloseCursor(s) ==
  /\ s \in Live /\ stmts[s].at # "idle"
  /\ stmts' = [stmts EXCEPT ![s].at = "idle"]
  /\ UNCHANGED <<vars, attrs, server, enforcer, setter, moved>>

-----------------------------------------------------------------------------
(***************************************************************************)
(* SQLSetStmtAttrW.  24000 under an open cursor and HY011 once prepared    *)
(* for the attributes fixed with the statement; HYC00 for a value core     *)
(* does not do and may not substitute; 01S02, and the value core does, for *)
(* one it may.  A read-only attribute is accepted and dropped.             *)
(***************************************************************************)
Fixed == {"cursor_type", "concurrency", "simulate_cursor", "use_bookmarks"}
Substituted == {"cursor_type", "concurrency", "simulate_cursor", "cursor_scrollable",
                "row_array_size", "paramset_size", "keyset_size", "rowset_size"}
OnlyDefault == {"use_bookmarks", "retrieve_data", "cursor_sensitivity", "enable_auto_ipd",
                "async_enable"}
ReadOnly == {"row_number", "imp_row_desc", "imp_param_desc", "unknown"}
Attribute == Limit \cup Fixed \cup Substituted \cup OnlyDefault \cup ReadOnly
ASSUME VariedAssumption == StmtVaried \subseteq Attribute

Substitutes(a, value) ==
  value # 0 /\ (a \in Substituted \/ (a \in Limit /\ enforcer[a] = "nobody"))

\* Whether the statement holds a prepared text is StatementMachine's to say.
SetStmtAnswer(s, a, value, prepared) ==
  IF a \in Fixed /\ stmts[s].at = "cursor" THEN "24000"
  ELSE IF a \in Fixed /\ prepared THEN "HY011"
  ELSE IF a \in OnlyDefault /\ value # 0 THEN "HYC00"
  ELSE IF Substitutes(a, value) THEN "01S02" ELSE "00000"

\* A fault: the default is stored without a word to the data source.
ResetUnsaid(a, value) ==
  IF enforcer[a] = "source" /\ value # 0 THEN server' = [server EXCEPT !.limit[a] = value]
  ELSE UNCHANGED server
\* offer_to_data_source, reset_at_data_source: a limit, or its withdrawal, is
\* the data source's to apply.
OfferLimit(a, value) ==
  IF enforcer[a] = "source" THEN server' = [server EXCEPT !.limit[a] = value]
  ELSE UNCHANGED server

SetStmtAttr(s, a, value) ==
  /\ s \in Live
  /\ {SetStmtAnswer(s, a, value, prepared) : prepared \in BOOLEAN} \cap {"00000", "01S02"} # {}
  /\ IF a \notin Limit THEN UNCHANGED <<server, stmts, setter>>
     ELSE /\ OfferLimit(a, value)
          /\ stmts' = [stmts EXCEPT
               ![s].stored[a] = IF Substitutes(a, value) THEN 0 ELSE value,
               ![s].core = IF enforcer[a] = "core" THEN value ELSE @]
          /\ setter' = IF enforcer[a] = "source" THEN [setter EXCEPT ![a] = s] ELSE setter
  /\ UNCHANGED <<vars, attrs, enforcer, moved>>

\* SQLGetStmtAttrW: the values core keeps, defaults for those it does not.
Unreadable(s, a) ==
  CASE a = "row_number" /\ stmts[s].at # "cursor" -> "24000"
    [] a = "unknown" -> "HYC00"
    [] OTHER -> "00000"
GetStmtAttr(s, a) ==
  CASE Unreadable(s, a) # "00000" -> Unreadable(s, a)
    [] a \in Limit -> stmts[s].stored[a]
    [] OTHER -> 0

\* Every call but those that connect, which are ConnectRequests'.
AttrNext ==
  \/ LeavesAttributes
  \/ EndsTransaction
  \/ Disconnects
  \/ \E c \in Catalog : SetCurrentCatalog(c)
  \/ \E a \in ConnStored, value \in 0 .. 1 : SetConnectAttr(a, value)
  \/ \E s \in Stmt :
       \/ AllocStmt(s)
       \/ FreeStmt(s)
       \/ PrepareStmt(s)
       \/ \E at \in {"executed", "cursor"} : ExecuteStmt(s, at)
       \/ CloseCursor(s)
       \/ \E a \in StmtVaried, value \in 0 .. 1 : SetStmtAttr(s, a, value)

-----------------------------------------------------------------------------
LimitsInForce ==
  \A s \in Live, a \in Limit :
    CASE enforcer[a] = "source" -> setter[a] = s => server.limit[a] = GetStmtAttr(s, a)
      [] enforcer[a] = "core" -> stmts[s].core = GetStmtAttr(s, a)
      [] enforcer[a] = "nobody" -> GetStmtAttr(s, a) = 0

SessionInForce ==
  conn.open =>
    /\ "catalog" \notin moved => server.catalog = GetConnectAttr("current_catalog", FALSE)
    /\ server.access = GetConnectAttr("access_mode", FALSE)
    /\ \A a \in Timeouts \ moved : server.timeouts[a] = GetConnectAttr(a, FALSE)
    /\ session.autocommit = GetConnectAttr("autocommit", FALSE)
    /\ session.isolation = GetConnectAttr("txn_isolation", FALSE)

AnswersListed ==
  /\ Live = {} =>
       /\ \A a \in {"access_mode", "packet_size", "async_enable", "enlist_in_dtc"} :
            SetAnswer(a, 2) \in Listed("SetConnectAttr") \cup {"00000"}
       /\ \A a \in {"quiet_mode", "unknown"} :
            GetConnectAttr(a, FALSE) \in Listed("GetConnectAttr")
  /\ \A s \in Live, a \in ReadOnly : Unreadable(s, a) \in Listed("GetStmtAttr") \cup {"00000"}

(***************************************************************************)
(* What the handles report is in force.  A limit a statement reports is    *)
(* one somebody enforces: core's deadline, or the data source as long as   *)
(* no other statement of the connection has set it since; a limit it       *)
(* withdrew is enforced by nobody.  The session runs with the catalog, the *)
(* access mode and the timeouts SQLGetConnectAttr reports, those set       *)
(* before the connection included, unless SQL of the application moved it  *)
(* to another catalog or a timeout was set too late for the connect.  An   *)
(* attribute refused is refused as the specification lists.                *)
(***************************************************************************)
ReportedInForce == LimitsInForce /\ SessionInForce /\ AnswersListed

(***************************************************************************)
(* No call changes the catalog under a result set that is pending, before  *)
(* and after it; only the application's own SQL does (the 24000 row of     *)
(* SQLSetConnectAttr).                                                     *)
(***************************************************************************)
CatalogHeldUnderResultSet ==
  [][\A s \in Live : stmts[s].at = "cursor" /\ stmts'[s] = stmts[s]
       => server.catalog' = server.catalog \/ "catalog" \in moved']_allVars
=============================================================================
