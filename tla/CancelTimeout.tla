---------------------------- MODULE CancelTimeout ----------------------------
(***************************************************************************)
(* One statement's cancellations: SQLCancel from other threads, and the    *)
(* deadline core enforces for SQL_ATTR_QUERY_TIMEOUT with a timer thread   *)
(* per backend call (query_timer.rs).  Both signal the cancel token of the *)
(* execution in force, which is minted per execution and kept in the       *)
(* registry slot; the call that then fails must be told the two apart,     *)
(* HY008 from HYT00.                                                       *)
(***************************************************************************)
EXTENDS Naturals

CONSTANTS
  Canceller,   \* threads that call SQLCancel
  MaxExec,     \* bound: executions, each with a token of its own
  MaxCalls,    \* bound: backend calls, each with at most one timer
  MaxCancels,  \* bound: SQLCancel calls
  None

ASSUME CancelAssumption == /\ {MaxExec, MaxCalls, MaxCancels} \subseteq Nat \ {0}
                           /\ None \notin Nat \cup Canceller
                           /\ None \notin {"caller", "execute", "fetch", "getdata",
                                          "own", "HY008", "HYT00"}
                           /\ "caller" \notin Canceller

Tok == 1 .. MaxExec
Timer == 1 .. MaxCalls

VARIABLES
  current,   \* Slot::cancel of the statement: its execution's token
  execs,     \* how many tokens were minted
  calls,     \* how many backend calls were made
  token,     \* CancelState by token; by: who signalled the backend's half
  timer,     \* Shared::state and the thread of each timer
  caller,    \* the thread inside the driver
  lock,      \* who holds the statement's group lock
  canceller, \* the threads in SQLCancel
  cancels,   \* how many times SQLCancel was called
  aimed,     \* history: executions in force when some SQLCancel began
  last       \* history: how the last failing call was labelled

vars == <<current, execs, calls, token, timer, caller, lock, canceller, cancels,
          aimed, last>>

\* exec numbers the execution a call belongs to, whatever its token is.
NoCall == [at |-> "idle", kind |-> None, exec |-> 0, token |-> None,
           timer |-> None, cause |-> {}, label |-> None]
NoFailure == [kind |-> None, exec |-> 0, cause |-> {}, label |-> None]

Init == /\ current = None
        /\ execs = 0
        /\ calls = 0
        /\ token = [t \in Tok |-> [by |-> {}, timed_out |-> FALSE]]
        /\ timer = [k \in Timer |-> [state |-> "Finished", thread |-> "none", exec |-> 0,
                                     token |-> None, notified |-> FALSE]]
        /\ caller = NoCall
        /\ lock = None
        /\ canceller = [c \in Canceller |-> [at |-> "idle", token |-> None]]
        /\ cancels = 0
        /\ aimed = {}
        /\ last = NoFailure

\* Backend::is_cancelled.
IsCancelled(t) == token[t].by # {}

-----------------------------------------------------------------------------
\* A fault: the statement keeps one token for all its executions.
MintOnce == 1

\* The calling thread.  An execution (SQLExecute, SQLExecDirect, SQLPrepare,
\* the catalog functions) mints a token of its own.  Not among the executions
\* are SQLTables' enumerations: they return the backend's error unrelabelled,
\* which Metadata.Failure has.
Mint == execs + 1

Begin(kind, exec, t) ==
  /\ caller = NoCall
  /\ lock = None
  /\ calls < MaxCalls
  /\ lock' = "caller"
  /\ calls' = calls + 1
  /\ caller' = [NoCall EXCEPT !.at = IF kind = "getdata" THEN "backend" ELSE "arm",
                              !.kind = kind, !.exec = exec, !.token = t]
  /\ UNCHANGED <<token, timer, canceller, cancels, aimed, last>>

Execute ==
  /\ execs < MaxExec
  /\ Begin("execute", execs + 1, Mint)
  /\ current' = Mint
  /\ execs' = execs + 1

\* SQLFetch and SQLGetData belong to the execution that opened the cursor and
\* read its token; SQLGetData carries no timer.
UseCursor(kind) ==
  /\ current # None
  /\ Begin(kind, execs, current)
  /\ UNCHANGED <<current, execs>>

\* QueryTimer::arm; no deadline is set, or the thread cannot be spawned: the
\* call runs untimed.
Arm(timed) ==
  /\ caller.at = "arm"
  /\ caller' = [caller EXCEPT !.at = "backend",
                              !.timer = IF timed THEN calls ELSE None]
  /\ timer' = IF ~timed THEN timer
              ELSE [timer EXCEPT ![calls] =
                      [state |-> "Running", thread |-> "spawned",
                       exec |-> caller.exec, token |-> caller.token,
                       notified |-> FALSE]]
  /\ UNCHANGED <<current, execs, calls, token, lock, canceller, cancels, aimed, last>>

\* The backend call succeeds, signalled or not, or fails of itself.
Succeed ==
  /\ caller.at = "backend"
  /\ caller' = [caller EXCEPT !.at = "disarm"]
  /\ UNCHANGED <<current, execs, calls, token, timer, lock, canceller, cancels, aimed, last>>

Fail(cause) ==
  /\ caller.at = "backend"
  /\ caller' = [caller EXCEPT !.at = "failed", !.cause = cause, !.label = "own"]
  /\ UNCHANGED <<current, execs, calls, token, timer, lock, canceller, cancels, aimed, last>>

FailOfItself == Fail({})
FailCancelled == /\ caller.at = "backend"
                 /\ IsCancelled(caller.token)
                 /\ Fail(token[caller.token].by)

\* reclassify_cancelled.
AskCancelled ==
  /\ caller.at = "failed"
  /\ caller' = [caller EXCEPT
       !.at = IF caller.kind = "getdata" THEN "disarm" ELSE "askfired",
       !.label = IF IsCancelled(caller.token) THEN "HY008" ELSE "own"]
  /\ UNCHANGED <<current, execs, calls, token, timer, lock, canceller, cancels, aimed, last>>

\* QueryTimer::timed_out: this call's timer first, then the token's record.
AskFired ==
  LET fired == caller.timer # None /\ timer[caller.timer].state = "FiredCancel" IN
  /\ caller.at = "askfired"
  /\ caller' = IF fired THEN [caller EXCEPT !.at = "disarm", !.label = "HYT00"]
               ELSE [caller EXCEPT !.at = "asktoken"]
  /\ UNCHANGED <<current, execs, calls, token, timer, lock, canceller, cancels, aimed, last>>

AskToken ==
  /\ caller.at = "asktoken"
  /\ caller' = [caller EXCEPT !.at = "disarm",
                              !.label = IF token[caller.token].timed_out
                                        THEN "HYT00" ELSE @]
  /\ UNCHANGED <<current, execs, calls, token, timer, lock, canceller, cancels, aimed, last>>

\* A fault: the state is set but the thread is not woken.
FinishOnly(k) == [timer EXCEPT ![k].state = IF @ = "Running" THEN "Finished" ELSE @]

\* Drop: a timer still running is stood down, and its thread woken.
StoodDown(r) == [r EXCEPT !.state = IF @ = "Running" THEN "Finished" ELSE @, !.notified = TRUE]
StandDown(k) == [timer EXCEPT ![k] = StoodDown(@)]

Return ==
  /\ caller.at = "disarm"
  /\ timer' = IF caller.timer = None THEN timer ELSE StandDown(caller.timer)
  /\ last' = IF caller.label = None THEN last
             ELSE [kind |-> caller.kind, exec |-> caller.exec,
                   cause |-> caller.cause, label |-> caller.label]
  /\ caller' = NoCall
  /\ lock' = None
  /\ UNCHANGED <<current, execs, calls, token, canceller, cancels, aimed>>

-----------------------------------------------------------------------------
\* The timer thread of timer k.
Thread(k, at, state) ==
  /\ timer' = [timer EXCEPT ![k] = [@ EXCEPT !.thread = at, !.state = state]]
  /\ UNCHANGED <<current, execs, calls, caller, lock, canceller, cancels, aimed, last>>

\* It looks at the state before it waits, so a wake-up sent early is not lost.
StartWaiting(k) ==
  /\ timer[k].thread = "spawned"
  /\ Thread(k, IF timer[k].state = "Running" THEN "waiting" ELSE "done",
            timer[k].state)
  /\ UNCHANGED token

WakeUp(k) ==
  /\ timer[k].thread = "waiting" /\ timer[k].notified
  /\ timer[k].state # "Running"
  /\ Thread(k, "done", timer[k].state)
  /\ UNCHANGED token

\* The deadline passes while the call runs: the thread claims the firing, then
\* records why on the token, then cancels.
Expire(k) ==
  /\ timer[k].thread = "waiting"
  /\ timer[k].state = "Running"
  /\ Thread(k, "fired", "FiredCancel")
  /\ UNCHANGED token

\* A fault: the cancel goes out before the token says why.
CancelUnmarked(k) ==
  /\ timer[k].thread = "fired"
  /\ Thread(k, "marked", timer[k].state)
  /\ token' = [token EXCEPT ![timer[k].token].by = @ \cup {"timer"}]

MarkTimedOut(k) ==
  /\ timer[k].thread = "fired"
  /\ Thread(k, "marked", timer[k].state)
  /\ token' = [token EXCEPT ![timer[k].token].timed_out = TRUE]

TimerCancel(k) ==
  /\ timer[k].thread = "marked"
  /\ Thread(k, "done", timer[k].state)
  /\ token' = [token EXCEPT ![timer[k].token].by = @ \cup {"timer"}]

-----------------------------------------------------------------------------
\* SQLCancel clones the token before it tries the lock.
CancelOf(c) ==
  /\ canceller[c].at = "idle"
  /\ cancels < MaxCancels
  /\ canceller' = [canceller EXCEPT ![c] = [at |-> "try", token |-> current]]
  /\ cancels' = cancels + 1
  /\ aimed' = aimed \cup {execs}
  /\ UNCHANGED <<current, execs, calls, token, timer, caller, lock, last>>

TryLock(c) ==
  /\ canceller[c].at = "try"
  /\ canceller' = [canceller EXCEPT ![c].at = "signal"]
  /\ lock' = IF lock = None THEN c ELSE lock
  /\ UNCHANGED <<current, execs, calls, token, timer, caller, cancels, aimed, last>>

Signal(c) ==
  /\ canceller[c].at = "signal"
  /\ token' = IF canceller[c].token = None THEN token
              ELSE [token EXCEPT ![canceller[c].token].by = @ \cup {"app"}]
  /\ canceller' = [canceller EXCEPT ![c] = [at |-> "idle", token |-> None]]
  /\ lock' = IF lock = c THEN None ELSE lock
  /\ UNCHANGED <<current, execs, calls, timer, caller, cancels, aimed, last>>

-----------------------------------------------------------------------------
TimerStep(k) == StartWaiting(k) \/ WakeUp(k) \/ MarkTimedOut(k) \/ TimerCancel(k)

Next ==
  \/ Execute \/ UseCursor("fetch") \/ UseCursor("getdata")
  \/ Arm(TRUE) \/ Arm(FALSE)
  \/ Succeed \/ FailOfItself \/ FailCancelled
  \/ AskCancelled \/ AskFired \/ AskToken \/ Return
  \/ \E k \in Timer : TimerStep(k) \/ Expire(k)
  \/ \E c \in Canceller : CancelOf(c) \/ TryLock(c) \/ Signal(c)

Spec == Init /\ [][Next]_vars

\* Timer threads are scheduled; no deadline need ever pass.
FairSpec == Spec /\ \A k \in Timer : WF_vars(TimerStep(k))

-----------------------------------------------------------------------------
Kind == {None, "execute", "fetch", "getdata"}
Label == {None, "own", "HY008", "HYT00"}
Signals == SUBSET {"app", "timer"}
TokenState == [by : Signals, timed_out : BOOLEAN]
TimerState ==
  [state : {"Running", "Finished", "FiredCancel"},
   thread : {"none", "spawned", "waiting", "fired", "marked", "done"},
   exec : 0 .. MaxExec, token : Tok \cup {None}, notified : BOOLEAN]
Call ==
  [at : {"idle", "arm", "backend", "failed", "askfired", "asktoken", "disarm"},
   kind : Kind, exec : 0 .. MaxExec, token : Tok \cup {None},
   timer : Timer \cup {None}, cause : Signals, label : Label]
CancelState == [at : {"idle", "try", "signal"}, token : Tok \cup {None}]
Failure == [kind : Kind, exec : 0 .. MaxExec, cause : Signals, label : Label]

(***************************************************************************)
(* Tokens, timers and calls are well typed, and a call that is in the      *)
(* driver holds the statement's lock.                                      *)
(***************************************************************************)
TypeOK ==
  /\ current \in Tok \cup {None}
  /\ execs \in 0 .. MaxExec /\ calls \in 0 .. MaxCalls /\ cancels \in 0 .. MaxCancels
  /\ token \in [Tok -> TokenState]
  /\ timer \in [Timer -> TimerState]
  /\ caller \in Call
  /\ canceller \in [Canceller -> CancelState]
  /\ last \in Failure
  /\ aimed \subseteq 0 .. MaxExec
  /\ lock \in Canceller \cup {"caller", None}
  /\ caller.at # "idle" => lock = "caller"

Timed(kind) == kind \in {"execute", "fetch"}
DeadlinePassed(exec) == \E k \in Timer : /\ timer[k].exec = exec
                                         /\ timer[k].state = "FiredCancel"

(***************************************************************************)
(* A failure names its cause: HYT00 when a deadline cancelled the          *)
(* execution, even an earlier call's (QueryTimer::timed_out gives the two  *)
(* windows), and HY008 when the application did and no deadline of the     *)
(* same execution passed.                                                  *)
(***************************************************************************)
FailureNamesItsCause ==
  /\ Timed(last.kind) /\ last.cause = {"timer"} => last.label = "HYT00"
  /\ last.cause = {"app"} /\ ~DeadlinePassed(last.exec) => last.label = "HY008"

(***************************************************************************)
(* A cancellation reaches only the execution it was meant for: a call is   *)
(* labelled HY008 or HYT00 only if a SQLCancel began, or a deadline        *)
(* passed, during its own execution (the reason mint_cancel_token mints    *)
(* per execution).  By execution number, not by token.                     *)
(***************************************************************************)
NoCancelLeaks ==
  last.label \in {"HY008", "HYT00"} =>
    last.exec \in aimed \/ DeadlinePassed(last.exec)

(***************************************************************************)
(* A timer thread does not outlive the call it timed until the deadline:   *)
(* it ends once that call has returned, even if no deadline ever passes.   *)
(***************************************************************************)
TimerThreadsEnd ==
  \A k \in Timer :
    (timer[k].thread # "none" /\ caller.timer # k) ~> timer[k].thread = "done"
=============================================================================
