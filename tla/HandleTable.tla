----------------------------- MODULE HandleTable -----------------------------
(***************************************************************************)
(* The handle tree: the allocations behind the registry's tokens, and what *)
(* SQLAllocHandle, SQLFreeHandle, SQLConnect, SQLDisconnect and the two    *)
(* application-descriptor attributes of SQLSetStmtAttr do to them.  One    *)
(* action is one call, atomic because the call holds its lock group (see   *)
(* HandleCalls for the calls in flight).  A refused call changes nothing   *)
(* and is no step.                                                         *)
(***************************************************************************)
EXTENDS HandleSlots, FiniteSets, Sequences

CONSTANTS
  MaxAddr,    \* the heap is 1 .. MaxAddr: one allocation more than slots
  Implicit    \* descriptors a statement owns: Ard, Apd, Ird, Ipd

ASSUME TableAssumption ==
  /\ MaxAddr \in Nat
  /\ MaxAddr > MaxSlotIndex + 1
  /\ Implicit \in 2 .. 4
  /\ None \notin Nat

VARIABLES
  slots,   \* Registry::slots
  heap,    \* the boxed handle structs, by address
  dead,    \* history: tokens whose slot was retired
  explicit \* history: tokens SQLAllocHandle(SQL_HANDLE_DESC) handed out

vars == <<slots, heap, dead, explicit>>

Addr == 1 .. MaxAddr
Roles == 1 .. Implicit
Ard == 1
Apd == 2
AppRoles == {Ard, Apd}

\* A statement names its own descriptors once SQLAllocHandle has made them.
Slot == [generation : 0 .. GenerationCap, kind : Kinds \cup {None},
         addr : Addr \cup {None}, group : Token \cup {None},
         parent : Token \cup {None}, cancel : {None}]

Struct ==
  [type : {"Env", "Desc"}, header : Token]
    \cup [type : {"Dbc"}, header : Token, env : Token, open : BOOLEAN]
    \cup [type : {"Stmt"}, header : Token, conn : Token,
          implicit_desc : [Roles -> Token \cup {None}],
          app_override : [AppRoles -> Token \cup {None}]]

ASSUME NullAssumption == None \notin Kinds \cup Struct

\* The part of the state one call rewrites.
Table == [slots |-> slots, heap |-> heap, dead |-> dead, explicit |-> explicit]
Becomes(T) == /\ slots' = T.slots /\ heap' = T.heap
              /\ dead' = T.dead /\ explicit' = T.explicit

Init == /\ slots = [i \in Index |-> EmptySlot]
        /\ heap = [a \in Addr |-> None]
        /\ dead = {}
        /\ explicit = {}

-----------------------------------------------------------------------------
\* The handle structs.  header is the token the registry gave the struct.
Environment == [type |-> "Env", header |-> None]
Connection(env) == [type |-> "Dbc", header |-> None, env |-> env, open |-> FALSE]
Statement(conn) == [type |-> "Stmt", header |-> None, conn |-> conn,
                    implicit_desc |-> [r \in Roles |-> None],
                    app_override |-> [r \in AppRoles |-> None]]
Descriptor == [type |-> "Desc", header |-> None]

\* Box::new then register: a freed address is reused at once, the worst case.
FreeAddr(T) ==
  CHOOSE a \in Addr : /\ T.heap[a] = None
                      /\ \A b \in Addr : T.heap[b] = None => a <= b

New(T, struct, group, parent) ==
  [T EXCEPT
     !.slots = Register(@, struct.type, FreeAddr(T), group, parent),
     !.heap = [@ EXCEPT ![FreeAddr(T)] =
                 [struct EXCEPT !.header = NewToken(T.slots)]]]

\* scope.get: the struct behind a live token, and an update of it.
At(T, t) == T.heap[T.slots[t[1]].addr]
Put(T, t, struct) == [T EXCEPT !.heap = [@ EXCEPT ![T.slots[t[1]].addr] = struct]]

\* A fault: the slots are retired and the allocations leak.
DropSlotsOnly(T, tokens) ==
  LET gone == {t \in tokens : Live(T.slots, t)} IN
  [T EXCEPT !.slots = [i \in Index |->
                         IF \E t \in gone : t[1] = i
                         THEN Unregister(@, <<i, @[i].generation>>)[i] ELSE @[i]],
            !.dead = @ \cup gone]

\* unregister and Box::from_raw for every live token of a set.
DropAll(T, tokens) ==
  LET gone == {t \in tokens : Live(T.slots, t)} IN
  [slots |-> [i \in Index |->
                IF \E t \in gone : t[1] = i
                THEN Unregister(T.slots, <<i, T.slots[i].generation>>)[i]
                ELSE T.slots[i]],
   heap |-> [a \in Addr |->
               IF \E t \in gone : T.slots[t[1]].addr = a THEN None ELSE T.heap[a]],
   dead |-> T.dead \cup gone,
   explicit |-> T.explicit]

-----------------------------------------------------------------------------
(***************************************************************************)
(* Every operation is what it checks (Allowed) and what it then does       *)
(* (Result), so that HandleCalls can let other threads run in between.     *)
(***************************************************************************)
AllocEnvironment ==
  /\ ~Exhausted(slots)
  /\ Becomes(New(Table, Environment, NewToken(slots), None))

\* A connection starts a lock group of its own.
AllocConnectionAllowed(env) == LiveAs(slots, env, "Env")
AllocConnectionResult(env) ==
  IF Exhausted(slots) THEN Table
  ELSE New(Table, Connection(env), NewToken(slots), env)
AllocConnection(env) == /\ AllocConnectionAllowed(env)
                        /\ Becomes(AllocConnectionResult(env))

(***************************************************************************)
(* The statement, then its descriptors one by one, all in the group of the *)
(* connection.  If the registry runs out part-way, the call retires what   *)
(* it created and fails; the generations it used stay used.  B is the      *)
(* table so far, the statement and the descriptors made for it.            *)
(***************************************************************************)
AllocStatementAllowed(conn) == LiveAs(slots, conn, "Dbc")

FirstDescriptor(T, conn) ==
  [table |-> New(T, Statement(conn), T.slots[conn[1]].group, conn),
   group |-> T.slots[conn[1]].group, stmt |-> NewToken(T.slots), descs |-> <<>>]

NextDescriptor(B) ==
  IF Len(B.descs) = Implicit \/ Exhausted(B.table.slots) THEN B
  ELSE [B EXCEPT !.table = New(B.table, Descriptor, B.group, B.stmt),
                 !.descs = Append(B.descs, NewToken(B.table.slots))]

BuiltStatement(B) ==
  IF Len(B.descs) = Implicit
  THEN Put(B.table, B.stmt,
           [At(B.table, B.stmt) EXCEPT !.implicit_desc = B.descs])
  ELSE DropAll(B.table, {B.stmt} \cup {B.descs[r] : r \in DOMAIN B.descs})

\* The loop of the code, over four roles; with fewer the last rounds do nothing.
BuildStatement(T, conn) ==
  BuiltStatement(NextDescriptor(NextDescriptor(NextDescriptor(NextDescriptor(
    FirstDescriptor(T, conn))))))

AllocStatementResult(conn) ==
  IF Exhausted(slots) THEN Table ELSE BuildStatement(Table, conn)
AllocStatement(conn) == /\ AllocStatementAllowed(conn)
                        /\ Becomes(AllocStatementResult(conn))

\* An explicit descriptor is a child of the connection.
AllocDescriptorAllowed(conn) == LiveAs(slots, conn, "Dbc")
AllocDescriptorResult(conn) ==
  IF Exhausted(slots) THEN Table
  ELSE [New(Table, Descriptor, slots[conn[1]].group, conn)
          EXCEPT !.explicit = @ \cup {NewToken(slots)}]
AllocDescriptor(conn) == /\ AllocDescriptorAllowed(conn)
                         /\ Becomes(AllocDescriptorResult(conn))

-----------------------------------------------------------------------------
\* HY010 while any connection still names the environment as its parent.
FreeEnvironmentAllowed(env) == /\ LiveAs(slots, env, "Env")
                               /\ ChildrenOf(slots, env) = {}
FreeEnvironment(env) == /\ FreeEnvironmentAllowed(env)
                        /\ Becomes(DropAll(Table, {env}))

\* A fault: only an open connection is refused.
FreeConnectionUnlessOpen(conn) == LiveAs(slots, conn, "Dbc") /\ ~At(Table, conn).open

\* HY010 while open, or while statements or descriptors remain under it.
FreeConnectionAllowed(conn) == /\ LiveAs(slots, conn, "Dbc")
                               /\ ~At(Table, conn).open
                               /\ ChildrenOf(slots, conn) = {}
FreeConnection(conn) == /\ FreeConnectionAllowed(conn)
                        /\ Becomes(DropAll(Table, {conn}))

\* A fault: the descriptors a statement uses are freed with it.
AllocationWithOverrides(T, stmt) ==
  {stmt} \cup {At(T, stmt).implicit_desc[r] : r \in Roles}
         \cup {At(T, stmt).app_override[r] : r \in AppRoles}

\* free_statement_allocation: the statement and the descriptors it owns, never
\* the ones it merely uses.
StatementAllocation(T, stmt) ==
  {stmt} \cup {At(T, stmt).implicit_desc[r] : r \in Roles}

FreeStatementAllowed(stmt) == LiveAs(slots, stmt, "Stmt")
FreeStatementResult(stmt) == DropAll(Table, StatementAllocation(Table, stmt))
FreeStatement(stmt) == /\ FreeStatementAllowed(stmt)
                       /\ Becomes(FreeStatementResult(stmt))

ChildrenAs(T, t, kind) ==
  {c \in ChildrenOf(T.slots, t) : LiveAs(T.slots, c, kind)}

\* A fault: only the row descriptor is looked at.
RevertRowDescriptor(T, conn, desc) ==
  LET users == {s \in ChildrenAs(T, conn, "Stmt") : At(T, s).app_override[Ard] = desc}
  IN [T EXCEPT !.heap =
        [a \in Addr |-> IF \E s \in users : T.slots[s[1]].addr = a
                        THEN [@[a] EXCEPT !.app_override[Ard] = None] ELSE @[a]]]

\* revert_statements_using, on every statement of the connection.
Reverted(struct, desc) ==
  [struct EXCEPT !.app_override =
     [r \in AppRoles |-> IF struct.app_override[r] = desc THEN None
                         ELSE struct.app_override[r]]]

RevertStatementsUsing(T, conn, desc) ==
  LET users == {s \in ChildrenAs(T, conn, "Stmt") :
                  \E r \in AppRoles : At(T, s).app_override[r] = desc}
  IN [T EXCEPT !.heap =
        [a \in Addr |-> IF \E s \in users : T.slots[s[1]].addr = a
                        THEN Reverted(T.heap[a], desc) ELSE T.heap[a]]]

\* Routed by ownership: only a descriptor whose parent is a connection.
FreeDescriptorAllowed(desc) == ParentKindOf(slots, desc, "Desc") = "Dbc"
FreeDescriptorResult(desc) ==
  DropAll(RevertStatementsUsing(Table, ParentOf(slots, desc, "Desc"), desc), {desc})
FreeDescriptor(desc) == /\ FreeDescriptorAllowed(desc)
                        /\ Becomes(FreeDescriptorResult(desc))

-----------------------------------------------------------------------------
Connect(conn) ==
  /\ LiveAs(slots, conn, "Dbc")
  /\ ~At(Table, conn).open
  /\ Becomes(Put(Table, conn, [At(Table, conn) EXCEPT !.open = TRUE]))

Close(T, conn) == Put(T, conn, [At(T, conn) EXCEPT !.open = FALSE])

(***************************************************************************)
(* The backend connection is closed first (if that fails nothing changes), *)
(* then every statement is freed, then every explicit descriptor.          *)
(***************************************************************************)
DisconnectAllowed(conn) == LiveAs(slots, conn, "Dbc") /\ At(Table, conn).open
DisconnectResult(conn) ==
  LET stmts == ChildrenAs(Table, conn, "Stmt")
      descs == ChildrenAs(Table, conn, "Desc")
  IN DropAll(Close(Table, conn),
             descs \cup UNION {StatementAllocation(Table, s) : s \in stmts})
Disconnect(conn) == /\ DisconnectAllowed(conn)
                    /\ Becomes(DisconnectResult(conn))

\* A backend statement that panics while it is dropped ends the walk there;
\* panic_safe turns the panic into SQL_ERROR and the rest is not freed.
DisconnectInterrupted(conn) ==
  LET stmts == ChildrenAs(Table, conn, "Stmt") IN
  /\ DisconnectAllowed(conn)
  /\ \E last \in stmts :
       Becomes(DropAll(Close(Table, conn),
                 UNION {StatementAllocation(Table, s) :
                          s \in {u \in stmts : u[1] <= last[1]}}))

\* SQL_ATTR_APP_ROW_DESC and SQL_ATTR_APP_PARAM_DESC: any descriptor on this
\* connection, directly or through one of its statements; the statement's own
\* is stored as no override at all.
OnConnection(S, desc, conn) ==
  LET parent == ParentOf(S, desc, "Desc") IN
  /\ parent # None
  /\ parent = conn \/ ParentOf(S, parent, "Stmt") = conn

Overridden(struct, role, desc) ==
  [struct EXCEPT !.app_override =
     [struct.app_override EXCEPT
        ![role] = IF desc = struct.implicit_desc[role] THEN None ELSE desc]]

SetAppDescriptor(stmt) ==
  /\ LiveAs(slots, stmt, "Stmt")
  /\ \E role \in AppRoles, desc \in Token \cup {None} :
       /\ desc # None => OnConnection(slots, desc, At(Table, stmt).conn)
       /\ Becomes(Put(Table, stmt, Overridden(At(Table, stmt), role, desc)))

-----------------------------------------------------------------------------
Next ==
  \/ AllocEnvironment
  \/ \E t \in Token :
       \/ AllocConnection(t) \/ AllocStatement(t) \/ AllocDescriptor(t)
       \/ FreeEnvironment(t) \/ FreeConnection(t)
       \/ FreeStatement(t) \/ FreeDescriptor(t)
       \/ Connect(t) \/ Disconnect(t) \/ DisconnectInterrupted(t)
       \/ SetAppDescriptor(t)

Spec == Init /\ [][Next]_vars

-----------------------------------------------------------------------------
(***************************************************************************)
(* Slots, structs and histories are well typed.                            *)
(***************************************************************************)
TypeOK == /\ \A i \in Index : slots[i] \in Slot
          /\ \A a \in Addr : heap[a] # None => heap[a] \in Struct
          /\ dead \subseteq Token
          /\ explicit \subseteq Token

(***************************************************************************)
(* Between calls every live token owns one allocation of its own kind that *)
(* names it back, every allocation is owned, and a statement owns its full *)
(* set of descriptors: the unsafe Box::from_raw of the free paths reclaims *)
(* each struct once, and no exit leaks one.                                *)
(***************************************************************************)
AllocationsOwnedOnce ==
  /\ \A t \in LiveTokens(slots) :
       LET a == slots[t[1]].addr IN
       /\ heap[a] # None
       /\ heap[a].header = t /\ heap[a].type = slots[t[1]].kind
  /\ \A a \in Addr : heap[a] # None => Live(slots, heap[a].header)
  /\ \A s \in LiveTokens(slots) : slots[s[1]].kind = "Stmt" =>
       LET owned == At(Table, s).implicit_desc IN
       /\ {owned[r] : r \in Roles} = ChildrenOf(slots, s)
       /\ Cardinality(ChildrenOf(slots, s)) = Implicit

(***************************************************************************)
(* No handle outlives its parent, and a connection, its statements and     *)
(* all their descriptors share the connection's lock group.                *)
(***************************************************************************)
ParentsOutliveChildren ==
  \A t \in LiveTokens(slots) :
    LET kind == slots[t[1]].kind
        parent == slots[t[1]].parent
    IN kind # "Env" =>
         /\ Live(slots, parent)
         /\ kind \in {"Stmt", "Desc"} =>
              slots[parent[1]].group = slots[t[1]].group

(***************************************************************************)
(* A descriptor a statement uses is on the statement's own connection, so  *)
(* the lock a call on the statement holds protects it as well; and once an *)
(* explicitly allocated one is freed the statement has reverted to its own *)
(* (the spec sentence quoted at revert_statements_using).                  *)
(***************************************************************************)
OverridesUsable ==
  \A s \in LiveTokens(slots), r \in AppRoles : slots[s[1]].kind = "Stmt" =>
    LET d == At(Table, s).app_override[r] IN
    /\ d \in explicit => LiveAs(slots, d, "Desc")
    /\ Live(slots, d) => slots[d[1]].group = slots[s[1]].group

(***************************************************************************)
(* A call frees only its own handle and what that owns: handles that die   *)
(* together are one statement with its descriptors, unless their           *)
(* connection closes in that very step.                                    *)
(***************************************************************************)
Dying == LiveTokens(slots) \ LiveTokens(slots')
Owner(t) == IF ParentKindOf(slots, t, "Desc") = "Stmt"
            THEN slots[t[1]].parent ELSE t
Closes(conn) == LiveAs(slots, conn, "Dbc") /\ At(Table, conn).open
                /\ ~heap'[slots[conn[1]].addr].open

DieTogether ==
  [][\A t, u \in Dying :
       Owner(t) = Owner(u) \/ Closes(slots[Owner(t)[1]].parent)]_vars
=============================================================================
