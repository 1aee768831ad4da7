----------------------------- MODULE FlushTimer -----------------------------
(***************************************************************************)
(* The flush timer of TenantAccountingWorkflow, on top of Accounting.      *)
(*                                                                         *)
(* The main loop builds a Selector on every round; it listens to the       *)
(* future that is in timerFuture at that moment.  A handler of the credit  *)
(* update cancels the timer and later puts a new one in its place, while   *)
(* the main loop may go on listening to the old future: a cancelled timer  *)
(* makes its future ready, and the branch that is then taken does not look *)
(* at the error.  Timers that nobody listens to any more are forgotten.    *)
(***************************************************************************)
EXTENDS Accounting

CONSTANTS
    BaseFlushInterval, MaxFlushInterval

ASSUME FlushTimerAssumption ==
    /\ BaseFlushInterval \in Nat \ {0}
    /\ MaxFlushInterval \in Nat /\ BaseFlushInterval <= MaxFlushInterval

VARIABLES
    interval,    \* CurrentFlushInterval
    future,      \* state of timerFuture
    heard        \* what the Selector listens to: timerFuture, or an older
                 \* future in the given state

timer == <<interval, future, heard>>
timedVars == <<vars, timer>>

TimedInit ==
    /\ Init
    /\ interval = BaseFlushInterval /\ future = "running" /\ heard = "timerFuture"

Ready == (IF heard = "timerFuture" THEN future ELSE heard) \in {"ready", "spent"}

(* The future of a cancelled timer never becomes ready.                    *)
FaultyFires(f) == IF f = "running" THEN "cancelled" ELSE f

(* A cancelled timer makes its future ready, as one that runs out does.    *)
Fires(f) == IF f = "running" THEN "ready" ELSE f

(* No new timer is put in the place of the one that has fired.             *)
FaultyResetTimer(next) == interval' = next /\ heard' = "timerFuture" /\ UNCHANGED future

(* CurrentFlushInterval is set, resetTimer, and the loop goes round.       *)
ResetTimer(next) == interval' = next /\ heard' = "timerFuture" /\ future' = "running"

(* A timer set by the server runs out.                                     *)
Elapse ==
    /\ \/ future = "running" /\ future' = "ready" /\ UNCHANGED heard
       \/ heard = "running" /\ heard' = "ready" /\ UNCHANGED future
    /\ UNCHANGED <<vars, interval>>

-----------------------------------------------------------------------------
(* The main loop.                                                          *)

Flushing == at'[Main] = "submit"

TimedReceiveHeartbeat ==
    /\ ReceiveHeartbeat
    /\ future' = IF Flushing THEN Fires(future) ELSE future
    /\ heard' = "timerFuture"
    /\ UNCHANGED interval

TimedReceiveRegister ==
    /\ \E c \in Cluster : ReceiveRegister(c)
    /\ heard' = "timerFuture"
    /\ UNCHANGED <<interval, future>>

Doubled == IF 2 * interval > MaxFlushInterval THEN MaxFlushInterval ELSE 2 * interval

(* The branch of the timer, which may wait for a flush.                    *)
TimedTimerFires ==
    /\ Ready /\ TimerFires
    /\ IF Flushing
       THEN /\ future' = IF heard = "timerFuture" THEN "spent" ELSE future
            /\ heard' = "timerFuture"
            /\ UNCHANGED interval
       ELSE ResetTimer(Doubled)

(* A new run starts with a timer of its own.                               *)
TimedContinueAsNew ==
    /\ ContinueAsNew
    /\ IF Flushing THEN future' = Fires(future) /\ UNCHANGED <<interval, heard>>
       ELSE ResetTimer(BaseFlushInterval)

(* The steps of a flush; when it has ended, the loop goes on after it.     *)
FlushStep(A) ==
    /\ A
    /\ IF at'[Main] \in {"select", "continue"} THEN ResetTimer(BaseFlushInterval)
       ELSE UNCHANGED timer

-----------------------------------------------------------------------------
(* The update handler.                                                     *)

TimedIssueCredit(u) ==
    /\ IssueCredit(u)
    /\ future' = Fires(future)
    /\ UNCHANGED <<interval, heard>>

(* The Selector of the main loop does not hear of the new timer.           *)
StillHeard == IF at[Main] = "select" /\ heard = "timerFuture" THEN future ELSE heard

HandlerStep(A, u) ==
    /\ A
    /\ IF at'[u] \in {"ok", "error"}
       THEN /\ interval' = BaseFlushInterval
            /\ future' = "running"
            /\ heard' = StillHeard
       ELSE UNCHANGED timer

-----------------------------------------------------------------------------
TimedNext ==
    \/ Elapse
    \/ TimedReceiveHeartbeat \/ TimedReceiveRegister \/ TimedTimerFires \/ TimedContinueAsNew
    \/ FlushStep(SubmitTBBatchDone) \/ FlushStep(CheckSoftLimits)
    \/ FlushStep(Call(Main)) \/ FlushStep(Fault(Main))
    \/ \E u \in Update :
          \/ TimedIssueCredit(u)
          \/ HandlerStep(Handler(u), u) \/ HandlerStep(Call(u), u) \/ HandlerStep(Fault(u), u)
    \/ /\ \/ \E hb \in Heartbeat : SignalHeartbeat(hb)
          \/ \E c \in Cluster : SignalRegisterCluster(c)
          \/ Send \/ Execute \/ Reply
       /\ UNCHANGED timer

(* As in Accounting, but the timer branch is taken because its future is   *)
(* ready, and a timer that runs does run out.                              *)
TimedFairness ==
    /\ WF_timedVars(Elapse)
    /\ WF_timedVars(TimedReceiveHeartbeat) /\ WF_timedVars(TimedReceiveRegister)
    /\ WF_timedVars(TimedTimerFires) /\ WF_timedVars(TimedContinueAsNew)
    /\ WF_timedVars(FlushStep(SubmitTBBatchDone)) /\ WF_timedVars(FlushStep(CheckSoftLimits))
    /\ WF_timedVars(FlushStep(Call(Main)))
    /\ \A u \in Update :
          WF_timedVars(HandlerStep(Handler(u), u)) /\ WF_timedVars(HandlerStep(Call(u), u))
    /\ \A p \in Coroutine : WF_timedVars(SendFor(p) /\ UNCHANGED timer)
    /\ WF_timedVars(Execute /\ UNCHANGED timer) /\ WF_timedVars(Reply /\ UNCHANGED timer)

TimedSpec == TimedInit /\ [][TimedNext]_timedVars /\ TimedFairness

-----------------------------------------------------------------------------
(* The loop never listens to a future whose branch it has already taken,   *)
(* however handlers and flushes interleave: it would flush without end     *)
(* (workflow_accounting.go:142-152, 219-234).                              *)
FiresOnce == at[Main] = "select" => "spent" \notin {heard, future}
=============================================================================
