----------------------------- MODULE HandleCalls -----------------------------
(***************************************************************************)
(* Calls in flight.  Every entry point runs under panic_safe: it reads the *)
(* lock group of its handle from the registry, locks it, resolves the      *)
(* handle again under the lock (scope.get), works on the structs it        *)
(* reached and unlocks.  The registry is read before the lock is held, so  *)
(* anything may happen to the handle in between.  Three calls differ:      *)
(* SQLEndTran on an environment locks each connection in turn while it     *)
(* holds the environment, SQLCopyDesc locks two groups one after the       *)
(* other, and SQLCancel never waits.  A lock group is named by the token   *)
(* of the handle it was created for.                                       *)
(***************************************************************************)
EXTENDS HandleTable

CONSTANTS
  Thread,
  Ops,        \* the entry points in play
  MaxCalls    \* bound: calls made in all

\* The kind of handle each entry point takes.
OpKind == [AllocConnection |-> "Env", FreeEnvironment |-> "Env",
           EndTranEnvironment |-> "Env",
           AllocStatement |-> "Dbc", AllocDescriptor |-> "Dbc",
           Disconnect |-> "Dbc", FreeConnection |-> "Dbc",
           Execute |-> "Stmt", FreeStatement |-> "Stmt", Cancel |-> "Stmt",
           FreeDescriptor |-> "Desc", CopyDesc |-> "Desc"]

\* The last conjunct: the handles the calls start from fit in the registry.
ASSUME CallsAssumption ==
  /\ Ops \subseteq DOMAIN OpKind
  /\ None \notin Thread
  /\ MaxCalls \in Nat
  /\ MaxSlotIndex >= 4

VARIABLES
  holder,  \* for each lock group, the thread that holds it
  call,    \* the call each thread is in
  calls    \* how many calls were made

table == <<slots, heap, dead, explicit>>
callVars == <<slots, heap, dead, explicit, holder, call, calls>>

\* at: what the call does next.  refs: the tokens it resolved, each with the
\* address it now holds a reference to.  other: SQLCopyDesc's target.  child,
\* todo, attempted: SQLEndTran's walk over the connections.
Idle == [at |-> "idle", op |-> None, handle |-> None, group |-> None,
         refs |-> {}, other |-> None, child |-> None, todo |-> {},
         attempted |-> {}]

Proceed(th, c) == call' = [call EXCEPT ![th] = c]
\* A fault: the lock does not exclude.
AcquireAnyway(th, group) == holder' = [holder EXCEPT ![group] = th]

Acquire(th, group) == /\ holder[group] = None
                      /\ holder' = [holder EXCEPT ![group] = th]
Release(group) == holder' = [holder EXCEPT ![group] = None]

(***************************************************************************)
(* An environment with two connections: one open with a statement, one     *)
(* closed with an explicitly allocated descriptor.                         *)
(***************************************************************************)
InitialTable ==
  LET none == [slots |-> [i \in Index |-> EmptySlot],
               heap |-> [a \in Addr |-> None], dead |-> {}, explicit |-> {}]
      env  == <<0, 1>>
      one  == <<1, 1>>
      two  == <<2, 1>>
      add(T, struct, parent) == New(T, struct, NewToken(T.slots), parent)
      conns == add(add(add(none, Environment, None), Connection(env), env),
                   Connection(env), env)
      desc  == [New(conns, Descriptor, two, two) EXCEPT !.explicit = {<<3, 1>>}]
  IN BuildStatement(Put(desc, one, [At(desc, one) EXCEPT !.open = TRUE]), one)

CallsInit == /\ slots = InitialTable.slots
             /\ heap = InitialTable.heap
             /\ dead = InitialTable.dead
             /\ explicit = InitialTable.explicit
             /\ holder = [g \in Token |-> None]
             /\ call = [th \in Thread |-> Idle]
             /\ calls = 0

-----------------------------------------------------------------------------
\* What the body of each call checks, and what it then does to the table.
Allowed(op, h) ==
  CASE op = "AllocConnection" -> AllocConnectionAllowed(h)
    [] op = "AllocStatement"  -> AllocStatementAllowed(h)
    [] op = "AllocDescriptor" -> AllocDescriptorAllowed(h)
    [] op = "FreeEnvironment" -> FreeEnvironmentAllowed(h)
    [] op = "FreeConnection"  -> FreeConnectionAllowed(h)
    [] op = "FreeStatement"   -> FreeStatementAllowed(h)
    [] op = "FreeDescriptor"  -> FreeDescriptorAllowed(h)
    [] op = "Disconnect"      -> DisconnectAllowed(h)
    [] OTHER                  -> LiveAs(slots, h, OpKind[op])

Result(op, h) ==
  CASE op = "AllocConnection" -> AllocConnectionResult(h)
    [] op = "AllocStatement"  -> AllocStatementResult(h)
    [] op = "AllocDescriptor" -> AllocDescriptorResult(h)
    [] op \in {"FreeEnvironment", "FreeConnection"} -> DropAll(Table, {h})
    [] op = "FreeStatement"   -> FreeStatementResult(h)
    [] op = "FreeDescriptor"  -> FreeDescriptorResult(h)
    [] op = "Disconnect"      -> DisconnectResult(h)
    [] OTHER                  -> Table

\* descriptor_token: the application's descriptor, where it has set one.
RowDescriptor(stmt) ==
  LET override == At(Table, stmt).app_override[Ard] IN
  IF override = None THEN At(Table, stmt).implicit_desc[Ard] ELSE override

\* scope.get on the call's handle; a call on a statement reaches its
\* connection and its row descriptor as well, which an override may have left
\* dangling.
Reached(h) ==
  {h} \cup {t \in IF LiveAs(slots, h, "Stmt")
                  THEN {At(Table, h).conn, RowDescriptor(h)} ELSE {} : Live(slots, t)}
References(h) == {<<t, slots[t[1]].addr>> : t \in Reached(h)}

-----------------------------------------------------------------------------
\* panic_safe reads the group.  A handle that is not live is refused here; a
\* live one may be gone by the time it is looked at again.
Enter(th, op, h) ==
  /\ call[th] = Idle
  /\ calls < MaxCalls
  /\ LiveAs(slots, h, OpKind[op])
  /\ \E other \in IF op = "CopyDesc"
                  THEN {d \in Token : LiveAs(slots, d, "Desc")} ELSE {None} :
       Proceed(th, [Idle EXCEPT !.at = IF op = "Cancel" THEN "try" ELSE "lock",
                                !.op = op, !.handle = h, !.other = other,
                                !.group = GroupOf(slots, h)])
  /\ calls' = calls + 1
  /\ UNCHANGED <<table, holder>>

Lock(th) ==
  /\ call[th].at = "lock"
  /\ Acquire(th, call[th].group)
  /\ Proceed(th, [call[th] EXCEPT !.at = "check"])
  /\ UNCHANGED <<table, calls>>

\* A fault: SQLCopyDesc keeps its source locked while it waits for its target.
LeaveHolding(th) ==
  /\ IF call[th].other = None THEN Release(call[th].group) ELSE UNCHANGED holder
  /\ Proceed(th, IF call[th].other = None THEN Idle
                 ELSE [Idle EXCEPT !.at = "second", !.op = "CopyDesc",
                                   !.handle = call[th].other])

\* Once the body is done: SQLCopyDesc goes on to its target, any other call
\* returns.  The guard is dropped either way.
Leave(th) ==
  /\ Release(call[th].group)
  /\ Proceed(th, IF call[th].other = None THEN Idle
                 ELSE [Idle EXCEPT !.at = "second", !.op = "CopyDesc",
                                   !.handle = call[th].other])

Refuse(th) ==
  /\ call[th].at = "check"
  /\ ~Allowed(call[th].op, call[th].handle)
  /\ Leave(th)
  /\ UNCHANGED <<table, calls>>

Check(th) ==
  /\ call[th].at = "check"
  /\ Allowed(call[th].op, call[th].handle)
  /\ Proceed(th,
       IF call[th].op = "EndTranEnvironment"
       THEN [call[th] EXCEPT !.at = "walk",
                             !.refs = References(call[th].handle),
                             !.todo = ChildrenOf(slots, call[th].handle)]
       ELSE [call[th] EXCEPT !.at = "work",
                             !.refs = References(call[th].handle)])
  /\ UNCHANGED <<table, holder, calls>>

Work(th) ==
  /\ call[th].at = "work"
  /\ Becomes(Result(call[th].op, call[th].handle))
  /\ Leave(th)
  /\ UNCHANGED calls

\* SQLCopyDesc's second phase is an ordinary panic_safe on the target.
SecondPhase(th) ==
  LET group == GroupOf(slots, call[th].handle) IN
  /\ call[th].at = "second"
  /\ Proceed(th, IF group = None THEN Idle
                 ELSE [call[th] EXCEPT !.at = "lock", !.group = group])
  /\ UNCHANGED <<table, holder, calls>>

-----------------------------------------------------------------------------
\* SQLEndTran(SQL_HANDLE_ENV): the snapshot of children is walked in slot
\* order, and a connection freed since is passed over.
FirstOf(tokens) == CHOOSE t \in tokens : \A u \in tokens : t[1] <= u[1]

\* A fault: a connection that is gone ends the walk.
NextUnlessGone(th) ==
  LET c == FirstOf(call[th].todo) IN
  /\ call[th].at = "walk"
  /\ call[th].todo # {}
  /\ Proceed(th, IF GroupOf(slots, c) = None THEN [call[th] EXCEPT !.todo = {}]
                 ELSE [call[th] EXCEPT !.todo = @ \ {c}, !.at = "childlock",
                                       !.child = c])
  /\ UNCHANGED <<table, holder, calls>>

NextConnection(th) ==
  LET c == FirstOf(call[th].todo)
      rest == call[th].todo \ {c}
  IN /\ call[th].at = "walk"
     /\ call[th].todo # {}
     /\ Proceed(th, IF GroupOf(slots, c) = None
                    THEN [call[th] EXCEPT !.todo = rest]
                    ELSE [call[th] EXCEPT !.todo = rest, !.at = "childlock",
                                          !.child = c])
     /\ UNCHANGED <<table, holder, calls>>

\* end_tran_on_connection reaches the connection and all its statements.
EndTranReaches(conn) ==
  IF LiveAs(slots, conn, "Dbc")
  THEN {conn} \cup ChildrenAs(Table, conn, "Stmt") ELSE {}

\* A fault: the environment's lock is thought to cover its connections.
LockChildNot(th) ==
  /\ call[th].at = "childlock"
  /\ Proceed(th, [call[th] EXCEPT
       !.at = "childwork",
       !.refs = @ \cup UNION {References(t) : t \in EndTranReaches(call[th].child)}])
  /\ UNCHANGED <<table, holder, calls>>

\* with_child_group, the crate's one nested lock.
LockChild(th) ==
  /\ call[th].at = "childlock"
  /\ Acquire(th, call[th].child)
  /\ Proceed(th, [call[th] EXCEPT
       !.at = "childwork",
       !.refs = @ \cup UNION {References(t) : t \in EndTranReaches(call[th].child)}])
  /\ UNCHANGED <<table, calls>>

\* end_tran_on_connection, unless the connection is gone by now.
EndTranOnChild(th) ==
  /\ call[th].at = "childwork"
  /\ Release(call[th].child)
  /\ Proceed(th, [call[th] EXCEPT
       !.at = "walk", !.child = None,
       !.refs = {r \in @ : r[1] = call[th].handle},
       !.attempted = IF LiveAs(slots, call[th].child, "Dbc")
                     THEN @ \cup {call[th].child} ELSE @])
  /\ UNCHANGED <<table, calls>>

EndWalk(th) ==
  /\ call[th].at = "walk"
  /\ call[th].todo = {}
  /\ Leave(th)
  /\ UNCHANGED <<table, calls>>

-----------------------------------------------------------------------------
\* A fault: lock() for try_lock().
WaitForLock(th) ==
  /\ call[th].at = "try"
  /\ Acquire(th, call[th].group)
  /\ Proceed(th, [call[th] EXCEPT !.at = "check"])
  /\ UNCHANGED <<table, calls>>

\* SQLCancel: try_lock.  A busy group is not waited for; an idle one gives the
\* call the statement itself, if it is still there.
TryLock(th) ==
  LET free == holder[call[th].group] = None IN
  /\ call[th].at = "try"
  /\ holder' = IF free THEN [holder EXCEPT ![call[th].group] = th] ELSE holder
  /\ Proceed(th, [call[th] EXCEPT !.at = IF free THEN "check" ELSE "signal"])
  /\ UNCHANGED <<table, calls>>

\* The clone of the cancel token is all a busy cancel touches.
Signal(th) ==
  /\ call[th].at = "signal"
  /\ Proceed(th, Idle)
  /\ UNCHANGED <<table, holder, calls>>

-----------------------------------------------------------------------------
Step(th) ==
  \/ Lock(th) \/ Refuse(th) \/ Check(th) \/ Work(th) \/ SecondPhase(th)
  \/ NextConnection(th) \/ LockChild(th) \/ EndTranOnChild(th) \/ EndWalk(th)
  \/ TryLock(th) \/ Signal(th)

\* The application passes any handle it was given, freed ones included.
CallsNext ==
  \E th \in Thread :
    \/ Step(th)
    \/ \E op \in Ops, h \in Token : Enter(th, op, h)

CallsSpec == CallsInit /\ [][CallsNext]_callVars

\* Only a thread inside SQLCancel is known to run: any other may sit in a
\* backend call, holding its lock, for ever.
CancelSpec ==
  CallsSpec /\ \A th \in Thread :
                 WF_callVars(Step(th) /\ call[th].op = "Cancel")

-----------------------------------------------------------------------------
Stages == {"idle", "lock", "check", "work", "second", "walk", "childlock",
           "childwork", "try", "signal"}

(***************************************************************************)
(* Locks are held by threads in calls, and calls are well formed.          *)
(***************************************************************************)
CallsTypeOK ==
  /\ TypeOK
  /\ holder \in [Token -> Thread \cup {None}]
  /\ \A th \in Thread :
       /\ call[th].at \in Stages
       /\ call[th].op \in Ops \cup {None}
       /\ {call[th].handle, call[th].group, call[th].other, call[th].child}
            \subseteq Token \cup {None}
       /\ call[th].todo \cup call[th].attempted \subseteq Token
       /\ call[th].refs \subseteq Token \X Addr
  /\ calls \in 0 .. MaxCalls

(***************************************************************************)
(* No use after free: whatever other threads do, the structs a call holds  *)
(* references to are still the ones it resolved (the safety argument at    *)
(* HandleScope::get).                                                      *)
(***************************************************************************)
NoUseAfterFree ==
  \A th \in Thread : \A r \in call[th].refs :
    heap[r[2]] # None /\ heap[r[2]].header = r[1]

(***************************************************************************)
(* Two threads never hold references to the same struct, so each of them   *)
(* may be a mutable one.                                                   *)
(***************************************************************************)
ExclusiveReferences ==
  \A th, other \in Thread : th # other =>
    {r[2] : r \in call[th].refs} \cap {r[2] : r \in call[other].refs} = {}

(***************************************************************************)
(* When an environment-wide SQLEndTran has finished its walk, every        *)
(* connection the environment has was attempted, whatever was freed or     *)
(* allocated meanwhile ("Every connection is attempted", tran.rs).         *)
(***************************************************************************)
WalkCoversEnvironment ==
  \A th \in Thread : call[th].at = "walk" /\ call[th].todo = {} =>
    ChildrenOf(slots, call[th].handle) \subseteq call[th].attempted

(***************************************************************************)
(* If every thread in a call is scheduled and backend calls return, every  *)
(* call returns: no order of locks, frees, copies in opposite directions   *)
(* and environment-wide commits ends with calls waiting on each other.     *)
(***************************************************************************)
EveryCallReturns ==
  (\A th \in Thread : WF_callVars(Step(th))) =>
    \A th \in Thread : call[th] # Idle ~> call[th] = Idle

(***************************************************************************)
(* SQLCancel returns even when the call it is meant to stop never does.    *)
(***************************************************************************)
CancelNeverBlocks ==
  \A th \in Thread : call[th].op = "Cancel" ~> call[th] = Idle
=============================================================================
