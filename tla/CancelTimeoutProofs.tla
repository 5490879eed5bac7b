-------------------------- MODULE CancelTimeoutProofs --------------------------
(***************************************************************************)
(* Proofs about cancellation and the query timeout, for every number of    *)
(* executions, of backend calls and of threads in SQLCancel.  What a       *)
(* failure is called is decided in three looks at shared state that other  *)
(* threads go on writing; the proofs say which of those writes can only be *)
(* added to, and in which order.                                           *)
(***************************************************************************)
EXTENDS CancelTimeout, TLAPS

\* A token is its execution's, and says who signalled it and why.
TokensTellWhy ==
  \A t \in Tok :
    /\ "app" \in token[t].by => t \in aimed
    /\ "timer" \in token[t].by => token[t].timed_out
    /\ token[t].timed_out => DeadlinePassed(t)

\* A timer is armed once, for one execution, and marks its token before it
\* cancels.
TimersMarkFirst ==
  \A k \in Timer :
    /\ timer[k].thread # "none" => /\ timer[k].token = timer[k].exec
                                   /\ timer[k].exec \in Tok
                                   /\ k <= calls /\ (caller.at = "arm" => k < calls)
    /\ timer[k].thread = "none" => timer[k].state = "Finished"
    /\ timer[k].thread \in {"fired", "marked"} => timer[k].state = "FiredCancel"
    /\ timer[k].thread = "marked" => token[timer[k].token].timed_out

\* The call in the driver belongs to one execution, and so does its timer.
CallKnowsExecution ==
  /\ current = IF execs = 0 THEN None ELSE execs
  /\ caller.at = "idle" => caller = NoCall
  /\ caller.at # "idle" => /\ caller.token = caller.exec
                           /\ caller.exec \in Tok
                           /\ caller.cause \subseteq token[caller.exec].by
                           /\ calls \in Timer
  /\ caller.timer # None => /\ timer[caller.timer].exec = caller.exec
                            /\ timer[caller.timer].thread # "none"

\* What the call has concluded so far is justified.
LabelJustified ==
  /\ caller.at \in {"idle", "arm", "backend"} => caller.label = None /\ caller.cause = {}
  /\ caller.at \in {"failed", "askfired", "asktoken"} => caller.label # "HYT00"
  /\ caller.label = "HYT00" => DeadlinePassed(caller.exec)
  /\ caller.label = "HY008" => caller.exec \in aimed \/ DeadlinePassed(caller.exec)
  /\ caller.at \in {"askfired", "asktoken", "disarm"} /\ caller.cause # {}
       => caller.label \in {"HY008", "HYT00"}
  /\ caller.at = "disarm" /\ Timed(caller.kind) /\ caller.cause = {"timer"}
       => caller.label = "HYT00"

\* A SQLCancel holds the token of an execution in force when it began.
CancelsAimed == \A c \in Canceller : canceller[c].token # None => canceller[c].token \in aimed

IInv == /\ TypeOK /\ TokensTellWhy /\ TimersMarkFirst /\ CallKnowsExecution
        /\ LabelJustified /\ CancelsAimed
        /\ FailureNamesItsCause /\ NoCancelLeaks

-----------------------------------------------------------------------------
(***************************************************************************)
(* The bounds, and that the names of lock holders differ.                  *)
(***************************************************************************)
LEMMA BoundsAreNaturals ==
  /\ MaxExec \in Nat \ {0} /\ MaxCalls \in Nat \ {0} /\ MaxCancels \in Nat \ {0}
  /\ None \notin Nat /\ None \notin Canceller /\ None # "caller" /\ "caller" \notin Canceller
  /\ None \notin {"execute", "fetch", "getdata", "own", "HY008", "HYT00"}
BY CancelAssumption

(***************************************************************************)
(* A call that begins is a call, of the execution whose token it has.      *)
(***************************************************************************)
LEMMA BeginKeepsTypes ==
  ASSUME TypeOK, NEW kind \in {"execute", "fetch", "getdata"}, NEW exec \in Tok,
         Begin(kind, exec, exec)
  PROVE  /\ caller' \in Call /\ caller'.at \in {"backend", "arm"}
         /\ caller'.token = exec /\ caller'.exec = exec
         /\ caller'.timer = None /\ caller'.label = None /\ caller'.cause = {}
         /\ calls' \in 0 .. MaxCalls /\ calls' = calls + 1 /\ lock' = "caller"
<1>1. caller' = [at |-> IF kind = "getdata" THEN "backend" ELSE "arm", kind |-> kind,
                 exec |-> exec, token |-> exec, timer |-> None, cause |-> {}, label |-> None]
  BY DEF Begin, NoCall
<1>2. exec \in 0 .. MaxExec
  BY BoundsAreNaturals DEF Tok
<1>3. caller' \in Call
  BY <1>1, <1>2 DEF Call, Kind, Label, Signals
<1>4. calls' \in 0 .. MaxCalls /\ calls' = calls + 1 /\ lock' = "caller"
  BY BoundsAreNaturals DEF Begin, TypeOK
<1>. QED  BY <1>1, <1>3, <1>4

(***************************************************************************)
(* A timer that is stood down is a timer.                                  *)
(***************************************************************************)
LEMMA StoodDownIsTimer ==
  ASSUME NEW r \in TimerState
  PROVE  /\ StoodDown(r) \in TimerState
         /\ StoodDown(r).thread = r.thread /\ StoodDown(r).exec = r.exec
         /\ StoodDown(r).token = r.token
         /\ r.state # "Running" => StoodDown(r).state = r.state
<1>. DEFINE state == IF r.state = "Running" THEN "Finished" ELSE r.state
<1>1. ASSUME NEW any \in {"Running", "Finished", "FiredCancel"}
      PROVE  [r EXCEPT !.state = any, !.notified = TRUE] \in TimerState
  BY DEF TimerState
<1>2. state \in {"Running", "Finished", "FiredCancel"}
  BY DEF TimerState
<1>3. StoodDown(r) = [r EXCEPT !.state = state, !.notified = TRUE]
  BY DEF StoodDown
<1>4. /\ StoodDown(r).thread = r.thread /\ StoodDown(r).exec = r.exec
      /\ StoodDown(r).token = r.token /\ StoodDown(r).state = state
  BY <1>3 DEF TimerState
<1>5. StoodDown(r) \in TimerState
  BY <1>1, <1>2, <1>3
<1>. QED  BY <1>4, <1>5

(***************************************************************************)
(* A step of a timer thread leaves its timer well typed.                   *)
(***************************************************************************)
LEMMA ThreadKeepsTypes ==
  ASSUME TypeOK, NEW k \in Timer, NEW at \in {"waiting", "fired", "marked", "done"},
         NEW state \in {timer[k].state, "FiredCancel"}, Thread(k, at, state)
  PROVE  timer' \in [Timer -> TimerState]
<1>1. timer[k] \in TimerState
  BY DEF TypeOK
<1>2. [timer[k] EXCEPT !.thread = at, !.state = state] \in TimerState
  BY <1>1 DEF TimerState
<1>. QED  BY <1>2 DEF Thread, TypeOK

(***************************************************************************)
(* The calling thread keeps everything well typed, and its own lock.       *)
(***************************************************************************)
LEMMA CallerKeepsTypes ==
  ASSUME TypeOK, CallKnowsExecution,
         \/ Execute \/ UseCursor("fetch") \/ UseCursor("getdata") \/ Arm(TRUE) \/ Arm(FALSE)
         \/ Succeed \/ FailOfItself \/ FailCancelled
         \/ AskCancelled \/ AskFired \/ AskToken \/ Return
  PROVE  TypeOK'
<1>. USE BoundsAreNaturals DEF TypeOK
<1>2. CASE Execute
  <2>1. execs + 1 \in Tok
    BY <1>2 DEF Execute, Tok
  <2>2. Begin("execute", execs + 1, execs + 1)
    BY <1>2 DEF Execute, Mint
  <2>3. caller' \in Call /\ calls' \in 0 .. MaxCalls /\ lock' = "caller"
    BY <2>1, <2>2, BeginKeepsTypes
  <2>. QED  BY <1>2, <2>1, <2>2, <2>3 DEF Execute, Mint, Begin, Tok
<1>3. ASSUME NEW kind \in {"fetch", "getdata"}, UseCursor(kind) PROVE TypeOK'
  <2>1. current = execs /\ execs \in Tok
    BY <1>3 DEF UseCursor, CallKnowsExecution, Tok
  <2>2. caller' \in Call /\ calls' \in 0 .. MaxCalls /\ lock' = "caller"
    BY <1>3, <2>1, BeginKeepsTypes DEF UseCursor
  <2>. QED  BY <1>3, <2>2 DEF UseCursor, Begin
<1>4. ASSUME NEW timed \in BOOLEAN, Arm(timed) PROVE TypeOK'
  <2>1. calls \in Timer /\ caller.token \in Tok \cup {None} /\ caller.exec \in 0 .. MaxExec
    BY <1>4 DEF Arm, CallKnowsExecution, Call
  <2>2. caller' \in Call
    BY <1>4, <2>1 DEF Arm, Call
  <2>3. timer' \in [Timer -> TimerState]
    BY <1>4, <2>1 DEF Arm, TimerState
  <2>4. lock = "caller"
    BY <1>4 DEF Arm
  <2>. QED  BY <1>4, <2>2, <2>3, <2>4 DEF Arm
<1>5. CASE Succeed
  BY <1>5 DEF Succeed, Call
<1>6. ASSUME NEW cause \in Signals, Fail(cause) PROVE TypeOK'
  <2>1. caller' \in Call
    BY <1>6 DEF Fail, Call, Label
  <2>. QED  BY <1>6, <2>1 DEF Fail
<1>7. CASE FailOfItself
  BY <1>6, <1>7 DEF FailOfItself, Signals
<1>8. CASE FailCancelled
  <2>1. token[caller.token].by \in Signals
    BY <1>8 DEF FailCancelled, CallKnowsExecution, TokenState
  <2>. QED  BY <1>6, <1>8, <2>1 DEF FailCancelled
<1>9. CASE AskCancelled
  BY <1>9 DEF AskCancelled, Call, Label
<1>10. CASE AskFired
  BY <1>10 DEF AskFired, Call, Label
<1>11. CASE AskToken
  BY <1>11 DEF AskToken, Call, Label
<1>12. CASE Return
  <2>1. caller' \in Call /\ caller'.at = "idle"
    BY <1>12 DEF Return, NoCall, Call, Kind, Label, Signals
  <2>2. last' \in Failure
    BY <1>12 DEF Return, Call, Failure
  <2>3. ASSUME NEW k \in Timer PROVE StandDown(k) \in [Timer -> TimerState]
    BY StoodDownIsTimer DEF StandDown
  <2>4. timer' \in [Timer -> TimerState]
    BY <1>12, <2>3 DEF Return, Call
  <2>. QED  BY <1>12, <2>1, <2>2, <2>4 DEF Return
<1>. QED
  BY <1>2, <1>3, <1>4, <1>5, <1>7, <1>8, <1>9, <1>10, <1>11, <1>12

(***************************************************************************)
(* The timer threads and the threads in SQLCancel keep everything well     *)
(* typed.                                                                  *)
(***************************************************************************)
LEMMA OthersKeepTypes ==
  ASSUME TypeOK, TimersMarkFirst,
         \/ \E k \in Timer : TimerStep(k) \/ Expire(k)
         \/ \E c \in Canceller : CancelOf(c) \/ TryLock(c) \/ Signal(c)
  PROVE  TypeOK'
<1>. USE BoundsAreNaturals DEF TypeOK
<1>1. ASSUME NEW k \in Timer, StartWaiting(k) \/ WakeUp(k) \/ Expire(k) PROVE TypeOK'
  <2>1. timer' \in [Timer -> TimerState]
    BY <1>1, ThreadKeepsTypes DEF StartWaiting, WakeUp, Expire
  <2>. QED  BY <1>1, <2>1 DEF StartWaiting, WakeUp, Expire, Thread
<1>2. ASSUME NEW k \in Timer, MarkTimedOut(k) \/ TimerCancel(k) PROVE TypeOK'
  <2>1. timer[k].token \in Tok
    BY <1>2 DEF MarkTimedOut, TimerCancel, TimersMarkFirst
  <2>2. ASSUME NEW new \in TokenState, token' = [token EXCEPT ![timer[k].token] = new]
        PROVE  token' \in [Tok -> TokenState]
    BY <2>1, <2>2
  <2>3. token' \in [Tok -> TokenState]
    <3>1. token[timer[k].token] \in TokenState
      BY <2>1
    <3>. QED  BY <1>2, <3>1, <2>1, <2>2 DEF MarkTimedOut, TimerCancel, TokenState, Signals
  <2>4. timer' \in [Timer -> TimerState]
    BY <1>2, ThreadKeepsTypes DEF MarkTimedOut, TimerCancel
  <2>. QED  BY <1>2, <2>3, <2>4 DEF MarkTimedOut, TimerCancel, Thread
<1>4. ASSUME NEW c \in Canceller, CancelOf(c) PROVE TypeOK'
  <2>1. canceller' \in [Canceller -> CancelState]
    BY <1>4 DEF CancelOf, CancelState
  <2>2. cancels' \in 0 .. MaxCancels /\ aimed' \subseteq 0 .. MaxExec
    BY <1>4 DEF CancelOf
  <2>. QED  BY <1>4, <2>1, <2>2 DEF CancelOf
<1>5. ASSUME NEW c \in Canceller, TryLock(c) PROVE TypeOK'
  <2>1. canceller' \in [Canceller -> CancelState]
    BY <1>5 DEF TryLock, CancelState
  <2>. QED  BY <1>5, <2>1 DEF TryLock
<1>6. ASSUME NEW c \in Canceller, Signal(c) PROVE TypeOK'
  <2>1. canceller' \in [Canceller -> CancelState]
    BY <1>6 DEF Signal, CancelState
  <2>2. token' \in [Tok -> TokenState]
    BY <1>6 DEF Signal, TokenState, CancelState, Signals
  <2>. QED  BY <1>6, <2>1, <2>2 DEF Signal
<1>. QED  BY <1>1, <1>2, <1>4, <1>5, <1>6 DEF TimerStep

-----------------------------------------------------------------------------
(***************************************************************************)
(* Only what the proofs rely on is ever added to a token and a deadline    *)
(* that passed stays passed, whichever thread moves.                       *)
(***************************************************************************)
LEMMA HistoryGrows ==
  ASSUME TypeOK, TimersMarkFirst, CallKnowsExecution, [Next]_vars
  PROVE  /\ aimed \subseteq aimed'
         /\ \A t \in Tok : /\ token[t].by \subseteq token'[t].by
                          /\ token[t].timed_out => token'[t].timed_out
         /\ \A e \in 0 .. MaxExec : DeadlinePassed(e) => DeadlinePassed(e)'
<1>. USE BoundsAreNaturals DEF TypeOK
<1>1. aimed \subseteq aimed'
  BY DEF Next, vars, Execute, UseCursor, Begin, Arm, Succeed, FailOfItself, FailCancelled, Fail,
         AskCancelled, AskFired, AskToken, Return, TimerStep, StartWaiting, WakeUp, Expire,
         MarkTimedOut, TimerCancel, Thread, CancelOf, TryLock, Signal
<1>2. ASSUME NEW t \in Tok
      PROVE  token[t].by \subseteq token'[t].by /\ (token[t].timed_out => token'[t].timed_out)
  <2>1. ASSUME NEW j \in Timer, MarkTimedOut(j) \/ TimerCancel(j)
        PROVE  token[t].by \subseteq token'[t].by /\ (token[t].timed_out => token'[t].timed_out)
    BY <2>1 DEF MarkTimedOut, TimerCancel, TokenState
  <2>2. ASSUME NEW c \in Canceller, Signal(c)
        PROVE  token[t].by \subseteq token'[t].by /\ (token[t].timed_out => token'[t].timed_out)
    BY <2>2 DEF Signal, TokenState
  <2>3. \/ token' = token
        \/ \E j \in Timer : MarkTimedOut(j) \/ TimerCancel(j)
        \/ \E c \in Canceller : Signal(c)
    BY DEF Next, vars, Execute, UseCursor, Begin, Arm, Succeed, FailOfItself, FailCancelled, Fail,
           AskCancelled, AskFired, AskToken, Return, TimerStep, StartWaiting, WakeUp, Expire,
           CancelOf, TryLock
  <2>. QED  BY <2>1, <2>2, <2>3
<1>3. ASSUME NEW k \in Timer, timer[k].state = "FiredCancel"
      PROVE  timer'[k].state = "FiredCancel" /\ timer'[k].exec = timer[k].exec
  <2>1. ASSUME NEW timed \in BOOLEAN, Arm(timed)
        PROVE  timer'[k].state = "FiredCancel" /\ timer'[k].exec = timer[k].exec
    <3>1. calls \in Timer /\ timer[calls].thread = "none"
      BY <2>1 DEF Arm, CallKnowsExecution, TimersMarkFirst, Timer, Call
    <3>2. k # calls
      BY <1>3, <3>1 DEF TimersMarkFirst
    <3>. QED  BY <1>3, <2>1, <3>1, <3>2 DEF Arm
  <2>2. CASE Return
    BY <1>3, <2>2, StoodDownIsTimer DEF Return, StandDown, Call
  <2>3. ASSUME NEW j \in Timer, NEW at, NEW state \in {timer[j].state, "FiredCancel"},
               Thread(j, at, state)
        PROVE  timer'[k].state = "FiredCancel" /\ timer'[k].exec = timer[k].exec
    <3>1. timer' = [timer EXCEPT ![j] = [timer[j] EXCEPT !.thread = at, !.state = state]]
      BY <2>3 DEF Thread
    <3>2. CASE k = j
      <4>1. timer'[k] = [timer[k] EXCEPT !.thread = at, !.state = state]
        BY <3>1, <3>2
      <4>2. timer'[k].state = state /\ timer'[k].exec = timer[k].exec
        BY <4>1 DEF TimerState
      <4>. QED  BY <1>3, <3>2, <4>2
    <3>3. CASE k # j
      BY <1>3, <3>1, <3>3
    <3>. QED  BY <3>2, <3>3
  <2>4. ASSUME NEW j \in Timer, TimerStep(j) \/ Expire(j)
        PROVE  timer'[k].state = "FiredCancel" /\ timer'[k].exec = timer[k].exec
    BY <2>3, <2>4 DEF TimerStep, StartWaiting, WakeUp, Expire, MarkTimedOut, TimerCancel
  <2>5. \/ timer' = timer
        \/ \E timed \in BOOLEAN : Arm(timed)
        \/ Return
        \/ \E j \in Timer : TimerStep(j) \/ Expire(j)
    BY DEF Next, vars, Execute, UseCursor, Begin, Succeed, FailOfItself, FailCancelled, Fail,
           AskCancelled, AskFired, AskToken, CancelOf, TryLock, Signal
  <2>. QED  BY <1>3, <2>1, <2>2, <2>4, <2>5
<1>4. ASSUME NEW e \in 0 .. MaxExec, DeadlinePassed(e) PROVE DeadlinePassed(e)'
  BY <1>3, <1>4 DEF DeadlinePassed
<1>. QED  BY <1>1, <1>2, <1>4

-----------------------------------------------------------------------------
(***************************************************************************)
(* A call that begins has concluded nothing yet.                           *)
(***************************************************************************)
LEMMA BeginIsJustified ==
  ASSUME IInv,
         NEW kind \in {"fetch", "getdata"}, Execute \/ UseCursor(kind)
  PROVE  LabelJustified'
<1>. USE BoundsAreNaturals DEF IInv
<1>1. caller'.label = None /\ caller'.cause = {} /\ caller'.at \in {"backend", "arm"}
  <2>1. CASE Execute
    <3>1. execs + 1 \in Tok
      BY <2>1 DEF Execute, Tok, TypeOK
    <3>2. Begin("execute", execs + 1, execs + 1)
      BY <2>1 DEF Execute, Mint
    <3>. QED  BY <3>1, <3>2, BeginKeepsTypes
  <2>2. CASE UseCursor(kind)
    <3>1. current = execs /\ execs \in Tok
      BY <2>2 DEF UseCursor, CallKnowsExecution, TypeOK, Tok
    <3>2. Begin(kind, execs, execs)
      BY <2>2, <3>1 DEF UseCursor
    <3>. QED  BY <3>1, <3>2, BeginKeepsTypes
  <2>. QED  BY <2>1, <2>2
<1>. QED  BY <1>1 DEF LabelJustified

(***************************************************************************)
(* What the backend's is_cancelled decides is justified (reclassify_       *)
(* cancelled): the failed call's token was signalled, by somebody who      *)
(* meant its execution.                                                    *)
(***************************************************************************)
LEMMA AskCancelledIsJustified ==
  ASSUME IInv, AskCancelled
  PROVE  LabelJustified'
<1>. USE BoundsAreNaturals DEF IInv
<1>1. caller.exec \in Tok /\ caller.cause \subseteq token[caller.exec].by
  BY DEF AskCancelled, CallKnowsExecution
<1>2. /\ caller'.at \in {"askfired", "disarm"} /\ caller'.label \in {"own", "HY008"}
      /\ caller'.cause = caller.cause /\ caller'.exec = caller.exec
      /\ caller'.at = "disarm" => caller'.kind = "getdata"
      /\ caller'.label = "HY008" <=> token[caller.exec].by # {}
  BY DEF AskCancelled, IsCancelled, TypeOK, Call, CallKnowsExecution
<1>3. token[caller.exec].by # {} => caller.exec \in aimed \/ DeadlinePassed(caller.exec)
  BY <1>1 DEF TokensTellWhy, TypeOK, TokenState, Signals
<1>4. aimed' = aimed /\ (DeadlinePassed(caller.exec)' <=> DeadlinePassed(caller.exec))
  BY DEF AskCancelled, DeadlinePassed
<1>5. \A e : e = caller.exec => (DeadlinePassed(e)' <=> DeadlinePassed(e))
  BY DEF AskCancelled, DeadlinePassed
<1>. QED  BY <1>1, <1>2, <1>3, <1>4, <1>5 DEF LabelJustified, Timed

(***************************************************************************)
(* Returning from the driver changes no timer but the call's own, which is *)
(* stood down unless it has fired.                                         *)
(***************************************************************************)
LEMMA ReturnStandsDown ==
  ASSUME TypeOK, Return
  PROVE  /\ \A k \in Timer :
              /\ timer'[k].thread = timer[k].thread
              /\ timer'[k].exec = timer[k].exec /\ timer'[k].token = timer[k].token
              /\ timer[k].state # "Running" => timer'[k].state = timer[k].state
         /\ \A e \in 0 .. MaxExec : DeadlinePassed(e)' <=> DeadlinePassed(e)
<1>1. ASSUME NEW k \in Timer
      PROVE  /\ timer'[k].thread = timer[k].thread
             /\ timer'[k].exec = timer[k].exec /\ timer'[k].token = timer[k].token
             /\ timer[k].state # "Running" => timer'[k].state = timer[k].state
             /\ timer'[k].state = "FiredCancel" <=> timer[k].state = "FiredCancel"
  <2>1. timer[k] \in TimerState
    BY DEF TypeOK
  <2>2. timer'[k] \in {timer[k], StoodDown(timer[k])}
    BY <2>1 DEF Return, StandDown, TypeOK
  <2>3. StoodDown(timer[k]).state = "FiredCancel" <=> timer[k].state = "FiredCancel"
    BY <2>1 DEF StoodDown, TimerState
  <2>. QED  BY <2>1, <2>2, <2>3, StoodDownIsTimer
<1>. QED  BY <1>1 DEF DeadlinePassed

(***************************************************************************)
(* The failure a returning call reports is named after its cause, and what *)
(* cancelled it was meant for it.                                          *)
(***************************************************************************)
LEMMA ReturnPreservesIInv ==
  ASSUME IInv, TypeOK', Return
  PROVE  IInv'
<1>. USE BoundsAreNaturals DEF IInv
<1>1. /\ caller' = NoCall /\ token' = token /\ aimed' = aimed /\ calls' = calls
      /\ current' = current /\ execs' = execs /\ canceller' = canceller
      /\ caller.at = "disarm"
  BY DEF Return
<1>2. \/ last' = last
      \/ /\ last'.kind = caller.kind /\ last'.exec = caller.exec
         /\ last'.cause = caller.cause /\ last'.label = caller.label
         /\ caller.label # None
  BY DEF Return
<1>3. TokensTellWhy'
  BY <1>1, ReturnStandsDown DEF TokensTellWhy, Tok, TypeOK
<1>4. TimersMarkFirst'
  BY <1>1, ReturnStandsDown DEF TimersMarkFirst, NoCall, TypeOK, TimerState
<1>5. CallKnowsExecution' /\ CancelsAimed'
  BY <1>1 DEF CallKnowsExecution, CancelsAimed, NoCall
<1>6. LabelJustified'
  BY <1>1 DEF LabelJustified, NoCall
<1>7. caller.exec \in 0 .. MaxExec /\ last.exec \in 0 .. MaxExec
  BY DEF TypeOK, Call, Failure
<1>8. /\ caller.label \in Label /\ caller.cause \in Signals
      /\ caller.cause # {} => caller.label \in {"HY008", "HYT00"}
  BY <1>1 DEF TypeOK, Call, LabelJustified
<1>9. FailureNamesItsCause'
  <2>1. CASE last' = last
    BY <1>7, <2>1, ReturnStandsDown DEF FailureNamesItsCause
  <2>2. CASE last' # last
    BY <1>1, <1>2, <1>7, <1>8, <2>2, ReturnStandsDown DEF FailureNamesItsCause, LabelJustified
  <2>. QED  BY <2>1, <2>2
<1>10. NoCancelLeaks'
  <2>1. CASE last' = last
    BY <1>1, <1>7, <2>1, ReturnStandsDown DEF NoCancelLeaks
  <2>2. CASE last' # last
    BY <1>1, <1>2, <1>7, <2>2, ReturnStandsDown DEF NoCancelLeaks, LabelJustified
  <2>. QED  BY <2>1, <2>2
<1>. QED  BY <1>3, <1>4, <1>5, <1>6, <1>9, <1>10


-----------------------------------------------------------------------------
(***************************************************************************)
(* Every step preserves the invariant.                                     *)
(***************************************************************************)
LEMMA StepsPreserveIInv ==
  ASSUME IInv, TypeOK', [Next]_vars
  PROVE  IInv'
<1>. USE BoundsAreNaturals
     DEF IInv, TypeOK, TokensTellWhy, TimersMarkFirst, CallKnowsExecution, LabelJustified,
         CancelsAimed, FailureNamesItsCause, NoCancelLeaks, DeadlinePassed, Timed, NoCall,
         Call, TokenState, TimerState, CancelState, Failure, Tok, Timer
<1>0. /\ aimed \subseteq aimed'
      /\ \A t \in Tok : /\ token[t].by \subseteq token'[t].by
                       /\ token[t].timed_out => token'[t].timed_out
      /\ \A e \in 0 .. MaxExec : DeadlinePassed(e) => DeadlinePassed(e)'
  BY HistoryGrows
<1>1. CASE Execute
  <2>1. TokensTellWhy'
    BY <1>0, <1>1 DEF Execute, Begin, Mint, NoCall
  <2>2. TimersMarkFirst'
    BY <1>0, <1>1 DEF Execute, Begin, Mint, NoCall
  <2>3. CallKnowsExecution'
    BY <1>0, <1>1 DEF Execute, Begin, Mint, NoCall
  <2>4. LabelJustified'
    BY <1>1, BeginIsJustified
  <2>5. CancelsAimed'
    BY <1>0, <1>1 DEF Execute, Begin, Mint, NoCall
  <2>6. FailureNamesItsCause'
    BY <1>0, <1>1 DEF Execute, Begin, Mint, NoCall
  <2>7. NoCancelLeaks'
    BY <1>0, <1>1 DEF Execute, Begin, Mint, NoCall
  <2>. QED  BY <2>1, <2>2, <2>3, <2>4, <2>5, <2>6, <2>7
<1>2. ASSUME NEW kind \in {"fetch", "getdata"}, UseCursor(kind) PROVE IInv'
  <2>1. TokensTellWhy'
    BY <1>0, <1>2 DEF Begin, UseCursor, NoCall
  <2>2. TimersMarkFirst'
    BY <1>0, <1>2 DEF Begin, UseCursor, NoCall
  <2>3. CallKnowsExecution'
    BY <1>0, <1>2 DEF Begin, UseCursor, NoCall
  <2>4. LabelJustified'
    <3>. HIDE DEF IInv, LabelJustified
    <3>. QED  BY <1>2, BeginIsJustified
  <2>5. CancelsAimed'
    BY <1>0, <1>2 DEF Begin, UseCursor, NoCall
  <2>6. FailureNamesItsCause'
    BY <1>0, <1>2 DEF Begin, UseCursor, NoCall
  <2>7. NoCancelLeaks'
    BY <1>0, <1>2 DEF Begin, UseCursor, NoCall
  <2>. QED  BY <2>1, <2>2, <2>3, <2>4, <2>5, <2>6, <2>7
<1>3. ASSUME NEW timed \in BOOLEAN, Arm(timed) PROVE IInv'
  <2>1. TokensTellWhy'
    BY <1>0, <1>3 DEF Arm
  <2>2. TimersMarkFirst'
    BY <1>0, <1>3 DEF Arm
  <2>3. CallKnowsExecution'
    BY <1>0, <1>3 DEF Arm
  <2>4. LabelJustified'
    BY <1>0, <1>3 DEF Arm
  <2>5. CancelsAimed'
    BY <1>0, <1>3 DEF Arm
  <2>6. FailureNamesItsCause'
    BY <1>0, <1>3 DEF Arm
  <2>7. NoCancelLeaks'
    BY <1>0, <1>3 DEF Arm
  <2>. QED  BY <2>1, <2>2, <2>3, <2>4, <2>5, <2>6, <2>7
<1>4. CASE Succeed
  BY <1>0, <1>4 DEF Succeed
<1>5. CASE FailOfItself
  BY <1>0, <1>5 DEF FailOfItself, Fail
<1>6. CASE FailCancelled
  BY <1>0, <1>6 DEF FailCancelled, Fail, IsCancelled
<1>7. CASE AskCancelled
  <2>1. TokensTellWhy'
    BY <1>0, <1>7 DEF AskCancelled, IsCancelled
  <2>2. TimersMarkFirst'
    BY <1>0, <1>7 DEF AskCancelled, IsCancelled
  <2>3. CallKnowsExecution'
    BY <1>0, <1>7 DEF AskCancelled, IsCancelled
  <2>4. LabelJustified'
    BY <1>7, AskCancelledIsJustified
  <2>5. CancelsAimed'
    BY <1>0, <1>7 DEF AskCancelled, IsCancelled
  <2>6. FailureNamesItsCause'
    BY <1>0, <1>7 DEF AskCancelled, IsCancelled
  <2>7. NoCancelLeaks'
    BY <1>0, <1>7 DEF AskCancelled, IsCancelled
  <2>. QED  BY <2>1, <2>2, <2>3, <2>4, <2>5, <2>6, <2>7
<1>8. CASE AskFired
  <2>1. TokensTellWhy'
    BY <1>0, <1>8 DEF AskFired
  <2>2. TimersMarkFirst'
    BY <1>0, <1>8 DEF AskFired
  <2>3. CallKnowsExecution'
    BY <1>0, <1>8 DEF AskFired
  <2>4. LabelJustified'
    BY <1>0, <1>8 DEF AskFired
  <2>5. CancelsAimed'
    BY <1>0, <1>8 DEF AskFired
  <2>6. FailureNamesItsCause'
    BY <1>0, <1>8 DEF AskFired
  <2>7. NoCancelLeaks'
    BY <1>0, <1>8 DEF AskFired
  <2>. QED  BY <2>1, <2>2, <2>3, <2>4, <2>5, <2>6, <2>7
<1>9. CASE AskToken
  BY <1>0, <1>9 DEF AskToken
<1>10. CASE Return
  BY <1>10, ReturnPreservesIInv
<1>11. ASSUME NEW k \in Timer, StartWaiting(k) PROVE IInv'
  <2>1. TokensTellWhy'
    BY <1>0, <1>11 DEF StartWaiting, Thread
  <2>2. TimersMarkFirst'
    BY <1>0, <1>11 DEF StartWaiting, Thread
  <2>3. CallKnowsExecution'
    BY <1>0, <1>11 DEF StartWaiting, Thread
  <2>4. LabelJustified'
    BY <1>0, <1>11 DEF StartWaiting, Thread
  <2>5. CancelsAimed'
    BY <1>0, <1>11 DEF StartWaiting, Thread
  <2>6. FailureNamesItsCause'
    BY <1>0, <1>11 DEF StartWaiting, Thread
  <2>7. NoCancelLeaks'
    BY <1>0, <1>11 DEF StartWaiting, Thread
  <2>. QED  BY <2>1, <2>2, <2>3, <2>4, <2>5, <2>6, <2>7
<1>12. ASSUME NEW k \in Timer, WakeUp(k) PROVE IInv'
  BY <1>0, <1>12 DEF WakeUp, Thread
<1>13. ASSUME NEW k \in Timer, Expire(k) PROVE IInv'
  BY <1>0, <1>13 DEF Expire, Thread
<1>14. ASSUME NEW k \in Timer, MarkTimedOut(k) PROVE IInv'
  <2>1. TokensTellWhy'
    BY <1>0, <1>14 DEF MarkTimedOut, Thread
  <2>2. TimersMarkFirst'
    BY <1>0, <1>14 DEF MarkTimedOut, Thread
  <2>3. CallKnowsExecution'
    BY <1>0, <1>14 DEF MarkTimedOut, Thread
  <2>4. LabelJustified'
    BY <1>0, <1>14 DEF MarkTimedOut, Thread
  <2>5. CancelsAimed'
    BY <1>0, <1>14 DEF MarkTimedOut, Thread
  <2>6. FailureNamesItsCause'
    BY <1>0, <1>14 DEF MarkTimedOut, Thread
  <2>7. NoCancelLeaks'
    BY <1>0, <1>14 DEF MarkTimedOut, Thread
  <2>. QED  BY <2>1, <2>2, <2>3, <2>4, <2>5, <2>6, <2>7
<1>15. ASSUME NEW k \in Timer, TimerCancel(k) PROVE IInv'
  <2>1. TokensTellWhy'
    BY <1>0, <1>15 DEF TimerCancel, Thread
  <2>2. TimersMarkFirst'
    BY <1>0, <1>15 DEF TimerCancel, Thread
  <2>3. CallKnowsExecution'
    BY <1>0, <1>15 DEF TimerCancel, Thread
  <2>4. LabelJustified'
    BY <1>0, <1>15 DEF TimerCancel, Thread
  <2>5. CancelsAimed'
    BY <1>0, <1>15 DEF TimerCancel, Thread
  <2>6. FailureNamesItsCause'
    BY <1>0, <1>15 DEF TimerCancel, Thread
  <2>7. NoCancelLeaks'
    BY <1>0, <1>15 DEF TimerCancel, Thread
  <2>. QED  BY <2>1, <2>2, <2>3, <2>4, <2>5, <2>6, <2>7
<1>16. ASSUME NEW c \in Canceller, CancelOf(c) PROVE IInv'
  BY <1>0, <1>16 DEF CancelOf
<1>17. ASSUME NEW c \in Canceller, TryLock(c) PROVE IInv'
  BY <1>0, <1>17 DEF TryLock
<1>18. ASSUME NEW c \in Canceller, Signal(c) PROVE IInv'
  BY <1>0, <1>18 DEF Signal
<1>19. CASE UNCHANGED vars
  BY <1>0, <1>19 DEF vars
<1>a. Next => IInv'
  <2>. SUFFICES ASSUME Next PROVE IInv'
    OBVIOUS
  <2>. HIDE DEF IInv
  <2>. QED
    BY <1>1, <1>2, <1>3, <1>4, <1>5, <1>6, <1>7, <1>8, <1>9, 
       <1>10, <1>11, <1>12, <1>13, <1>14, <1>15, <1>16, <1>17, <1>18, <1>19
    DEF Next, TimerStep
<1>. QED  BY <1>a, <1>19 DEF vars

(***************************************************************************)
(* The invariant holds at the start.                                       *)
(***************************************************************************)
LEMMA InitImpliesIInv == Init => IInv
<1>. SUFFICES ASSUME Init PROVE IInv
  OBVIOUS
<1>. USE BoundsAreNaturals DEF Init
<1>1. TypeOK
  BY DEF TypeOK, NoCall, NoFailure, Call, Failure, TokenState, TimerState, CancelState, Kind,
         Label, Signals
<1>2. TokensTellWhy /\ TimersMarkFirst /\ CancelsAimed
  BY DEF TokensTellWhy, TimersMarkFirst, CancelsAimed
<1>3. CallKnowsExecution /\ LabelJustified
  BY DEF CallKnowsExecution, LabelJustified, NoCall, Timed
<1>4. FailureNamesItsCause /\ NoCancelLeaks
  BY DEF FailureNamesItsCause, NoCancelLeaks, NoFailure, Timed
<1>. QED  BY <1>1, <1>2, <1>3, <1>4 DEF IInv

(***************************************************************************)
(* The invariant holds in every state of every behaviour.                  *)
(***************************************************************************)
LEMMA IInvHolds == Spec => []IInv
<1>1. Init => IInv
  BY InitImpliesIInv
<1>2. IInv /\ [Next]_vars => IInv'
  <2>. SUFFICES ASSUME IInv, [Next]_vars PROVE IInv'
    OBVIOUS
  <2>1. TypeOK'
    <3>1. CASE UNCHANGED vars
      BY <3>1 DEF IInv, TypeOK, vars
    <3>2. CASE Next
      BY <3>2, CallerKeepsTypes, OthersKeepTypes DEF IInv, Next
    <3>. QED  BY <3>1, <3>2
  <2>. QED  BY <2>1, StepsPreserveIInv
<1>. QED  BY <1>1, <1>2, PTL DEF Spec

-----------------------------------------------------------------------------
(***************************************************************************)
(* Tokens, timers and calls are well typed, and a call inside the driver   *)
(* holds its statement's lock.                                             *)
(***************************************************************************)
THEOREM TypeCorrect == Spec => []TypeOK
<1>1. IInv => TypeOK
  BY DEF IInv
<1>. QED  BY <1>1, IInvHolds, PTL

(***************************************************************************)
(* A failing call is told HYT00 when a deadline cancelled it and HY008     *)
(* when the application did (reclassify_cancelled, QueryTimer::timed_out), *)
(* however SQLCancel and the timer threads interleave with it.             *)
(***************************************************************************)
THEOREM FailureAlwaysNamesItsCause == Spec => []FailureNamesItsCause
<1>1. IInv => FailureNamesItsCause
  BY DEF IInv
<1>. QED  BY <1>1, IInvHolds, PTL

(***************************************************************************)
(* No call is labelled as cancelled because of a SQLCancel or a deadline   *)
(* that was meant for another execution (mint_cancel_token).               *)
(***************************************************************************)
THEOREM CancelsNeverLeak == Spec => []NoCancelLeaks
<1>1. IInv => NoCancelLeaks
  BY DEF IInv
<1>. QED  BY <1>1, IInvHolds, PTL
=============================================================================
