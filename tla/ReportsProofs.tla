---------------------------- MODULE ReportsProofs ----------------------------
(* The waits, rows and counters of the accounting workflow, what its       *)
(* reports say, its flush timer and its projection.                        *)
(*                                                                         *)
(* A report holds balances that some coroutine fetched, and those are      *)
(* balances the wallets have had; that is what PastInv follows from the    *)
(* lookup to the rows.  The timed workflow takes the steps of Accounting,  *)
(* so the types hold in it as well; TimerInv adds when a timer is pending. *)
(* Projected says what the flush under way knows of the wallets: between   *)
(* its lookup and its last row nothing moves them, as long as nothing      *)
(* fails, no new run begins and no credit is being issued.                 *)
EXTENDS AccountingProofs, Reports, FlushTimer

Reason == {"none", "timer", "threshold", "continueAsNew"}

WaitsOK ==
    /\ at \in [Coroutine -> Wait] /\ at[Main] \in MainWait
    /\ \A u \in Update : at[u] \notin MainWait \ HandlerWait
    /\ reason \in Reason

RowsOK ==
    /\ fetched \in [Coroutine -> [Resource -> Balance]]
    /\ unwritten \in [Coroutine -> SUBSET Resource]
    /\ snapshots \in [Resource -> Balance]
    /\ alertSent \in SUBSET Resource

CountersOK ==
    /\ regCh \in SUBSET Cluster /\ exceededResources \in SUBSET Resource
    /\ copies \in [Heartbeat \cup Registering -> Nat] /\ faults \in Nat /\ runs \in Nat

StateInv == WaitsOK /\ RowsOK /\ CountersOK

(* Where the balances that a coroutine holds, and a row, come from.        *)
RowsKept ==
    /\ RowsOK'
    /\ \A p \in Coroutine : fetched'[p] \in {fetched[p], NoBalance, LookupBalances}
    /\ \A r \in Resource :
          snapshots'[r] = snapshots[r] \/ \E p \in Coroutine : snapshots'[r] = fetched[p][r]

StateKept == WaitsOK' /\ RowsKept /\ CountersOK'

-----------------------------------------------------------------------------
(* The parts that actions share.                                           *)

LEMMA UnmovedWaits == ASSUME WaitsOK, UNCHANGED <<at, reason>> PROVE WaitsOK'
  BY Zenon DEF WaitsOK

LEMMA MainMoves ==
  ASSUME WaitsOK, NEW w \in MainWait, at' = [at EXCEPT ![Main] = w], reason' \in Reason
  PROVE  WaitsOK'
  <1>1. at \in [Coroutine -> Wait] /\ w \in Wait
    BY Zenon DEF WaitsOK, Wait
  <1>2. at' \in [Coroutine -> Wait] /\ at'[Main] = w
    BY Zenon, <1>1, CoroutineFacts
  <1>3. \A u \in Update : at'[u] = at[u]
    BY Zenon, <1>1, CoroutineFacts
  <1> QED
    BY Zenon, <1>2, <1>3 DEF WaitsOK

LEMMA HandlerMoves ==
  ASSUME WaitsOK, NEW u \in Update, NEW w \in HandlerWait \cup {"ok", "error"},
         at' = [at EXCEPT ![u] = w], reason' = reason
  PROVE  WaitsOK'
  <1>1. at \in [Coroutine -> Wait] /\ w \in Wait
    BY Zenon DEF WaitsOK, Wait
  <1>2. at' \in [Coroutine -> Wait] /\ at'[Main] = at[Main]
    BY Zenon, <1>1, CoroutineFacts
  <1>3. \A v \in Update : at'[v] \in {at[v], w}
    BY Zenon, <1>1, CoroutineFacts
  <1>4. w \notin MainWait \ HandlerWait
    BY Zenon DEF MainWait, HandlerWait
  <1> QED
    BY Zenon, <1>2, <1>3, <1>4 DEF WaitsOK

LEMMA SameRows == ASSUME RowsOK, UNCHANGED <<local, pg>> PROVE RowsKept
  <1>1. UNCHANGED <<fetched, unwritten, snapshots, alertSent>>
    BY Zenon DEF local, pg
  <1> QED
    BY Zenon, <1>1 DEF RowsOK, RowsKept

LEMMA SameCounters ==
  ASSUME CountersOK, UNCHANGED <<regCh, exceededResources, copies, faults, runs>>
  PROVE  CountersOK'
  BY Zenon DEF CountersOK

LEMMA NoBalanceOK == NoBalance \in [Resource -> Balance]
  BY DEF NoBalance, Balance

LEMMA LookupOK == ASSUME LedgerTypeOK PROVE LookupBalances \in [Resource -> Balance]
  BY DEF LedgerTypeOK, LookupBalances, Balance

LEMMA Faulted == ASSUME CountersOK PROVE faults + 1 \in Nat /\ runs + 1 \in Nat
  BY DEF CountersOK

(* A flush that starts, and a round of the loop that starts none.          *)
LEMMA StartFlushState ==
  ASSUME WaitsOK, NEW batch, NEW why \in Reason, StartFlush(batch, why)
  PROVE  WaitsOK'
  <1>1. "submit" \in MainWait
    BY Zenon DEF MainWait
  <1> QED
    BY Zenon, <1>1, MainMoves DEF StartFlush

LEMMA NoFlushState == ASSUME WaitsOK, NoFlush PROVE WaitsOK'
  <1>1. PICK w \in AfterSelect : at' = [at EXCEPT ![Main] = w]
    BY Zenon DEF NoFlush
  <1>2. w \in MainWait
    BY Zenon DEF AfterSelect, MainWait
  <1>3. reason' \in Reason
    BY Zenon DEF NoFlush, WaitsOK
  <1> QED
    BY Zenon, <1>1, <1>2, <1>3, MainMoves

LEMMA NewRunState ==
  ASSUME StateInv, NewRun, snapshots' = snapshots, alertSent' \in SUBSET Resource
  PROVE  WaitsOK' /\ RowsKept /\ regCh' \in SUBSET Cluster /\ runs' \in Nat
  <1>1. WaitsOK'
    <2>1. ASSUME NEW p \in Coroutine PROVE at'[p] \in Wait
      <3>1. at'[p] \in {"select", at[p], "aborted"}
        BY Zenon DEF NewRun
      <3> QED
        BY Zenon, <3>1 DEF StateInv, WaitsOK, Wait, MainWait
    <2>2. at' \in [Coroutine -> Wait]
      BY Zenon, <2>1 DEF NewRun
    <2>3. at'[Main] = "select"
      BY Zenon, CoroutineFacts DEF NewRun
    <2>4. \A u \in Update : at'[u] \in {at[u], "aborted"}
      BY Zenon, CoroutineFacts DEF NewRun
    <2> QED
      BY Zenon, <2>2, <2>3, <2>4 DEF NewRun, StateInv, WaitsOK, Reason, MainWait
  <1>2. /\ fetched' = [p \in Coroutine |-> NoBalance]
        /\ unwritten' = [p \in Coroutine |-> {}]
    BY Zenon DEF NewRun
  <1>3. RowsKept
    BY Zenon, <1>2, NoBalanceOK DEF StateInv, RowsOK, RowsKept
  <1>4. regCh' = {} /\ runs' = runs + 1
    BY Zenon DEF NewRun
  <1> QED
    BY Zenon, <1>1, <1>3, <1>4, Faulted DEF StateInv

LEMMA FlushReturnsState ==
  ASSUME StateInv, FlushReturns, snapshots' = snapshots, alertSent' \in SUBSET Resource
  PROVE  WaitsOK' /\ RowsKept /\ regCh' \in SUBSET Cluster /\ runs' \in Nat
  <1>1. CASE reason = "continueAsNew"
    BY Zenon, <1>1, NewRunState DEF FlushReturns
  <1>2. CASE reason # "continueAsNew"
    <2>1. /\ \E w \in AfterSelect : at' = [at EXCEPT ![Main] = w]
          /\ reason' = "none" /\ fetched' = [fetched EXCEPT ![Main] = NoBalance]
          /\ UNCHANGED <<unwritten, channels, runs>>
      BY Zenon, <1>2 DEF FlushReturns
    <2>2. PICK w \in AfterSelect : at' = [at EXCEPT ![Main] = w]
      BY Zenon, <2>1
    <2>3. w \in MainWait /\ reason' \in Reason
      BY Zenon, <2>1 DEF AfterSelect, MainWait, Reason
    <2>4. WaitsOK'
      BY Zenon, <2>2, <2>3, MainMoves DEF StateInv
    <2>5. /\ fetched' \in [Coroutine -> [Resource -> Balance]]
          /\ \A p \in Coroutine : fetched'[p] \in {fetched[p], NoBalance}
      BY Zenon, <2>1, NoBalanceOK, CoroutineFacts DEF StateInv, RowsOK
    <2>6. RowsKept
      BY Zenon, <2>1, <2>5 DEF StateInv, RowsOK, RowsKept
    <2> QED
      BY Zenon, <2>1, <2>4, <2>6 DEF StateInv, CountersOK, channels
  <1> QED
    BY Zenon, <1>1, <1>2

LEMMA RetryOrGiveUpState ==
  ASSUME StateInv, NEW p \in Coroutine, NEW others, RetryOrGiveUp(p, others), UNCHANGED pg
  PROVE  WaitsOK' /\ RowsKept /\ regCh' \in SUBSET Cluster /\ runs' \in Nat
  <1>1. snapshots' = snapshots /\ alertSent' \in SUBSET Resource
    BY Zenon DEF pg, StateInv, RowsOK
  <1>2. CASE tries[p] < MaxAttempts
    BY Zenon, <1>2, UnmovedWaits, SameRows DEF RetryOrGiveUp, StateInv, CountersOK, channels
  <1>3. CASE ~(tries[p] < MaxAttempts) /\ p = Main
    BY Zenon, <1>1, <1>3, FlushReturnsState DEF RetryOrGiveUp
  <1>4. CASE ~(tries[p] < MaxAttempts) /\ p # Main
    <2>1. p \in Update
      BY Zenon, <1>4 DEF Coroutine
    <2>2. at' = [at EXCEPT ![p] = "error"] /\ UNCHANGED <<channels, reason, local, runs>>
      BY Zenon, <1>4 DEF RetryOrGiveUp
    <2>3. WaitsOK'
      BY Zenon, <2>1, <2>2, HandlerMoves DEF StateInv
    <2>4. RowsKept
      BY Zenon, <2>2, SameRows DEF StateInv
    <2> QED
      BY Zenon, <2>2, <2>3, <2>4 DEF StateInv, CountersOK, channels
  <1> QED
    BY Zenon, <1>2, <1>3, <1>4

-----------------------------------------------------------------------------
(* The actions.                                                            *)

LEMMA SignalHeartbeatState ==
  ASSUME StateInv, NEW hb \in Heartbeat, SignalHeartbeat(hb)
  PROVE  StateKept
  <1>1. WaitsOK' /\ RowsKept
    BY Zenon, UnmovedWaits, SameRows DEF StateInv, SignalHeartbeat
  <1>2. copies \in [Heartbeat \cup Registering -> Nat]
    BY Zenon DEF StateInv, CountersOK
  <1>3. copies[hb] + 1 \in Nat
    BY <1>2
  <1>4. copies' \in [Heartbeat \cup Registering -> Nat]
    BY Zenon, <1>2, <1>3 DEF SignalHeartbeat
  <1>5. CountersOK'
    BY Zenon, <1>4 DEF StateInv, CountersOK, SignalHeartbeat, state
  <1> QED
    BY Zenon, <1>1, <1>5 DEF StateKept

LEMMA SignalRegisterClusterState ==
  ASSUME StateInv, NEW c \in Cluster, SignalRegisterCluster(c)
  PROVE  StateKept
  <1>1. WaitsOK' /\ RowsKept
    BY Zenon, UnmovedWaits, SameRows DEF StateInv, SignalRegisterCluster
  <1>2. copies \in [Heartbeat \cup Registering -> Nat] /\ c \in Registering
    BY Zenon DEF StateInv, CountersOK, SignalRegisterCluster
  <1>3. copies[c] + 1 \in Nat
    BY <1>2
  <1>4. copies' \in [Heartbeat \cup Registering -> Nat]
    BY Zenon, <1>2, <1>3 DEF SignalRegisterCluster
  <1>5. CountersOK'
    BY Zenon, <1>4 DEF StateInv, CountersOK, SignalRegisterCluster, state
  <1> QED
    BY Zenon, <1>1, <1>5 DEF StateKept

LEMMA IssueCreditState ==
  ASSUME StateInv, NEW u \in Update, IssueCredit(u)
  PROVE  StateKept
  <1>1. WaitsOK'
    BY Zenon, HandlerMoves DEF StateInv, IssueCredit, HandlerWait
  <1>2. RowsKept /\ CountersOK'
    BY Zenon, SameRows, SameCounters DEF StateInv, IssueCredit, channels
  <1> QED
    BY Zenon, <1>1, <1>2 DEF StateKept

LEMMA ReceiveHeartbeatState ==
  ASSUME StateInv, ReceiveHeartbeat
  PROVE  StateKept
  <1>1. NoFlush \/ StartFlush(Append(curBatch, Head(hbCh)), "threshold")
    BY Zenon DEF ReceiveHeartbeat
  <1>2. "threshold" \in Reason
    BY Zenon DEF Reason
  <1>3. WaitsOK'
    BY Zenon, <1>1, <1>2, NoFlushState, StartFlushState DEF StateInv
  <1>4. RowsKept /\ CountersOK'
    BY Zenon, SameRows, SameCounters DEF StateInv, ReceiveHeartbeat
  <1> QED
    BY Zenon, <1>3, <1>4 DEF StateKept

LEMMA ReceiveRegisterState ==
  ASSUME StateInv, NEW c \in Cluster, ReceiveRegister(c)
  PROVE  StateKept
  <1>1. WaitsOK' /\ RowsKept
    BY Zenon, NoFlushState, SameRows DEF StateInv, ReceiveRegister
  <1>2. CountersOK'
    BY Zenon DEF StateInv, CountersOK, ReceiveRegister
  <1> QED
    BY Zenon, <1>1, <1>2 DEF StateKept

LEMMA TimerFiresState ==
  ASSUME StateInv, TimerFires
  PROVE  StateKept
  <1>1. NoFlush \/ StartFlush(curBatch, "timer")
    BY Zenon DEF TimerFires
  <1>2. "timer" \in Reason
    BY Zenon DEF Reason
  <1>3. WaitsOK'
    BY Zenon, <1>1, <1>2, NoFlushState, StartFlushState DEF StateInv
  <1>4. RowsKept /\ CountersOK'
    BY Zenon, SameRows, SameCounters DEF StateInv, TimerFires, channels
  <1> QED
    BY Zenon, <1>3, <1>4 DEF StateKept

LEMMA ContinueAsNewState ==
  ASSUME StateInv, ContinueAsNew
  PROVE  StateKept
  <1>1. UNCHANGED <<exceededResources, pg, copies, faults>>
    BY Zenon DEF ContinueAsNew
  <1>2. CASE NewRun
    <2>1. snapshots' = snapshots /\ alertSent' \in SUBSET Resource
      BY Zenon, <1>1 DEF StateInv, RowsOK, pg
    <2>2. WaitsOK' /\ RowsKept /\ regCh' \in SUBSET Cluster /\ runs' \in Nat
      BY Zenon, <1>2, <2>1, NewRunState
    <2> QED
      BY Zenon, <1>1, <2>2 DEF StateInv, StateKept, CountersOK
  <1>3. CASE StartFlush(curBatch, "continueAsNew") /\ UNCHANGED <<channels, local, runs>>
    <2>1. "continueAsNew" \in Reason
      BY Zenon DEF Reason
    <2>2. WaitsOK'
      BY Zenon, <1>3, <2>1, StartFlushState DEF StateInv
    <2>3. RowsKept /\ CountersOK'
      BY Zenon, <1>1, <1>3, SameRows, SameCounters DEF StateInv, channels
    <2> QED
      BY Zenon, <2>2, <2>3 DEF StateKept
  <1> QED
    BY Zenon, <1>2, <1>3 DEF ContinueAsNew

LEMMA SubmitTBBatchDoneState ==
  ASSUME StateInv, SubmitTBBatchDone
  PROVE  StateKept
  <1>1. "lookup" \in MainWait /\ reason' \in Reason
    BY Zenon DEF MainWait, StateInv, WaitsOK, SubmitTBBatchDone
  <1>2. WaitsOK'
    BY Zenon, <1>1, MainMoves DEF StateInv, SubmitTBBatchDone
  <1>3. RowsKept
    BY Zenon, SameRows DEF StateInv, SubmitTBBatchDone
  <1>4. PICK a \in attempts : exceededResources' = ExceededAfter(a.per)
    BY Zenon DEF SubmitTBBatchDone
  <1>5. exceededResources' \in SUBSET Resource
    BY Zenon, <1>4 DEF ExceededAfter
  <1>6. CountersOK'
    BY Zenon, <1>5 DEF StateInv, CountersOK, SubmitTBBatchDone, channels
  <1> QED
    BY Zenon, <1>2, <1>3, <1>6 DEF StateKept

LEMMA CheckSoftLimitsState ==
  ASSUME StateInv, CheckSoftLimits
  PROVE  StateKept
  <1>1. PICK marked \in SUBSET Crossing :
          /\ faults' = IF marked = Crossing THEN faults ELSE faults + 1
          /\ alertSent' = alertSent \cup marked
    BY Zenon DEF CheckSoftLimits
  <1>2. snapshots' = snapshots /\ alertSent' \in SUBSET Resource
    BY Zenon, <1>1 DEF CheckSoftLimits, StateInv, RowsOK, Crossing
  <1>3. WaitsOK' /\ RowsKept /\ regCh' \in SUBSET Cluster /\ runs' \in Nat
    BY Zenon, <1>2, FlushReturnsState DEF CheckSoftLimits
  <1>4. faults' \in {faults, faults + 1}
    BY Zenon, <1>1
  <1>5. CountersOK'
    BY Zenon, <1>3, <1>4, Faulted DEF StateInv, CountersOK, CheckSoftLimits
  <1> QED
    BY Zenon, <1>3, <1>5 DEF StateKept

LEMMA SubmitAllocationDoneState ==
  ASSUME StateInv, NEW u \in Update, SubmitAllocationDone(u)
  PROVE  StateKept
  <1>1. WaitsOK'
    BY Zenon, HandlerMoves DEF StateInv, SubmitAllocationDone, HandlerWait
  <1>2. RowsKept
    BY Zenon, SameRows DEF StateInv, SubmitAllocationDone
  <1>3. CountersOK'
    BY Zenon DEF StateInv, CountersOK, SubmitAllocationDone, channels
  <1> QED
    BY Zenon, <1>1, <1>2, <1>3 DEF StateKept

LEMMA ResetSoftLimitAlertState ==
  ASSUME StateInv, NEW u \in Update, ResetSoftLimitAlert(u)
  PROVE  StateKept
  <1>1. WaitsOK'
    BY Zenon, HandlerMoves DEF StateInv, ResetSoftLimitAlert
  <1>2. fetched' = [fetched EXCEPT ![u] = NoBalance] /\ u \in Coroutine
    BY Zenon, CoroutineFacts DEF ResetSoftLimitAlert
  <1>3. /\ fetched' \in [Coroutine -> [Resource -> Balance]]
        /\ \A p \in Coroutine : fetched'[p] \in {fetched[p], NoBalance}
    BY Zenon, <1>2, NoBalanceOK DEF StateInv, RowsOK
  <1>4. alertSent' \in SUBSET Resource /\ faults' \in {faults, faults + 1}
    BY Zenon DEF StateInv, RowsOK, ResetSoftLimitAlert
  <1>5. UNCHANGED <<unwritten, snapshots, regCh, exceededResources, copies, runs>>
    BY Zenon DEF ResetSoftLimitAlert, channels, state
  <1>6. RowsKept
    BY Zenon, <1>3, <1>4, <1>5 DEF StateInv, RowsOK, RowsKept
  <1>7. CountersOK'
    BY Zenon, <1>4, <1>5, Faulted DEF StateInv, CountersOK
  <1> QED
    BY Zenon, <1>1, <1>6, <1>7 DEF StateKept

LEMMA AttemptFailsState ==
  ASSUME StateInv, NEW p \in Coroutine, AttemptFails(p)
  PROVE  StateKept
  <1>1. PICK a \in attempts : RetryOrGiveUp(p, attempts \ {a})
    BY Zenon DEF AttemptFails
  <1>2. UNCHANGED <<exceededResources, pg, copies, faults>>
    BY Zenon DEF AttemptFails
  <1>3. WaitsOK' /\ RowsKept /\ regCh' \in SUBSET Cluster /\ runs' \in Nat
    BY Zenon, <1>1, <1>2, RetryOrGiveUpState
  <1> QED
    BY Zenon, <1>2, <1>3 DEF StateInv, StateKept, CountersOK

LEMMA AttemptTimesOutState ==
  ASSUME StateInv, NEW p \in Coroutine, AttemptTimesOut(p)
  PROVE  StateKept
  <1>1. PICK a \in attempts : RetryOrGiveUp(p, IF Ended(a) THEN attempts \ {a} ELSE attempts)
    BY Zenon DEF AttemptTimesOut
  <1>2. UNCHANGED <<exceededResources, pg, copies>> /\ faults' = faults + 1
    BY Zenon DEF AttemptTimesOut
  <1>3. WaitsOK' /\ RowsKept /\ regCh' \in SUBSET Cluster /\ runs' \in Nat
    BY Zenon, <1>1, <1>2, RetryOrGiveUpState
  <1> QED
    BY Zenon, <1>2, <1>3, Faulted DEF StateInv, StateKept, CountersOK

LEMMA LookupAccountBalancesState ==
  ASSUME LedgerTypeOK, StateInv, NEW p \in Coroutine, LookupAccountBalances(p)
  PROVE  StateKept
  <1>1. WaitsOK'
    <2>1. "snapshots" \in MainWait /\ reason' \in Reason
      BY Zenon DEF MainWait, StateInv, WaitsOK, LookupAccountBalances
    <2>2. CASE p = Main
      BY Zenon, <2>1, <2>2, MainMoves DEF StateInv, LookupAccountBalances
    <2>3. CASE p \in Update
      BY Zenon, <2>3, HandlerMoves DEF StateInv, LookupAccountBalances, HandlerWait
    <2> QED
      BY Zenon, <2>2, <2>3 DEF Coroutine
  <1>2. /\ fetched' = [fetched EXCEPT ![p] = LookupBalances]
        /\ unwritten' = [unwritten EXCEPT ![p] = Resource]
        /\ UNCHANGED <<snapshots, alertSent>>
    BY Zenon DEF LookupAccountBalances, pg
  <1>3. /\ fetched' \in [Coroutine -> [Resource -> Balance]]
        /\ \A q \in Coroutine : fetched'[q] \in {fetched[q], LookupBalances}
    BY Zenon, <1>2, LookupOK DEF StateInv, RowsOK
  <1>4. unwritten' \in [Coroutine -> SUBSET Resource]
    BY Zenon, <1>2 DEF StateInv, RowsOK
  <1>5. RowsKept
    BY Zenon, <1>2, <1>3, <1>4 DEF StateInv, RowsOK, RowsKept
  <1>6. CountersOK'
    BY Zenon, SameCounters DEF StateInv, LookupAccountBalances, channels, state
  <1> QED
    BY Zenon, <1>1, <1>5, <1>6 DEF StateKept

LEMMA AfterSnapshotsState ==
  ASSUME WaitsOK, NEW p \in Coroutine, at' = [at EXCEPT ![p] = AfterSnapshots(p)],
         reason' = reason
  PROVE  WaitsOK'
  <1>1. "softLimits" \in MainWait /\ reason' \in Reason
    BY Zenon DEF MainWait, WaitsOK
  <1>2. CASE p = Main
    BY Zenon, <1>1, <1>2, MainMoves DEF AfterSnapshots
  <1>3. CASE p \in Update
    BY Zenon, <1>3, CoroutineFacts, HandlerMoves DEF AfterSnapshots, HandlerWait
  <1> QED
    BY Zenon, <1>2, <1>3 DEF Coroutine

LEMMA UpsertQuotaSnapshotState ==
  ASSUME StateInv, NEW p \in Coroutine, NEW r \in Resource, UpsertQuotaSnapshot(p, r)
  PROVE  StateKept
  <1>1. WaitsOK'
    <2>1. CASE unwritten[p] = {r}
      BY Zenon, <2>1, AfterSnapshotsState DEF StateInv, UpsertQuotaSnapshot
    <2>2. CASE unwritten[p] # {r}
      <3>1. at' = at /\ reason' = reason
        BY Zenon, <2>2 DEF StateInv, WaitsOK, UpsertQuotaSnapshot
      <3> QED
        BY Zenon, <3>1, UnmovedWaits DEF StateInv
    <2> QED
      BY Zenon, <2>1, <2>2
  <1>2. /\ snapshots' = [snapshots EXCEPT ![r] = fetched[p][r]]
        /\ unwritten' = [unwritten EXCEPT ![p] = @ \ {r}]
        /\ UNCHANGED <<fetched, alertSent>>
    BY Zenon DEF UpsertQuotaSnapshot
  <1>3. fetched[p][r] \in Balance /\ unwritten[p] \ {r} \in SUBSET Resource
    BY Zenon DEF StateInv, RowsOK
  <1>4. snapshots' \in [Resource -> Balance] /\ unwritten' \in [Coroutine -> SUBSET Resource]
    BY Zenon, <1>2, <1>3 DEF StateInv, RowsOK
  <1>5. \A q \in Resource : snapshots'[q] = snapshots[q] \/ snapshots'[q] = fetched[p][q]
    BY Zenon, <1>2 DEF StateInv, RowsOK
  <1>6. RowsKept
    BY Zenon, <1>2, <1>4, <1>5 DEF StateInv, RowsOK, RowsKept
  <1>7. CountersOK'
    BY Zenon, SameCounters DEF StateInv, UpsertQuotaSnapshot, channels, state
  <1> QED
    BY Zenon, <1>1, <1>6, <1>7 DEF StateKept

LEMMA LookupFailsState ==
  ASSUME StateInv, NEW p \in Coroutine, LookupFails(p)
  PROVE  StateKept
  <1>1. UNCHANGED <<exceededResources, pg, copies>> /\ faults' = faults + 1
    BY Zenon DEF LookupFails
  <1>2. CASE p = Main
    <2>1. snapshots' = snapshots /\ alertSent' \in SUBSET Resource
      BY Zenon, <1>1 DEF StateInv, RowsOK, pg
    <2>2. WaitsOK' /\ RowsKept /\ regCh' \in SUBSET Cluster /\ runs' \in Nat
      BY Zenon, <1>2, <2>1, FlushReturnsState DEF LookupFails
    <2> QED
      BY Zenon, <1>1, <2>2, Faulted DEF StateInv, StateKept, CountersOK
  <1>3. CASE p # Main
    <2>1. p \in Update
      BY Zenon, <1>3 DEF Coroutine
    <2>2. at' = [at EXCEPT ![p] = "ok"] /\ UNCHANGED <<channels, reason, local, runs>>
      BY Zenon, <1>3 DEF LookupFails
    <2>3. WaitsOK' /\ RowsKept
      BY Zenon, <1>1, <2>1, <2>2, HandlerMoves, SameRows DEF StateInv
    <2> QED
      BY Zenon, <1>1, <2>2, <2>3, Faulted DEF StateInv, StateKept, CountersOK, channels
  <1> QED
    BY Zenon, <1>2, <1>3

LEMMA UpdateQuotaSnapshotsFailsState ==
  ASSUME StateInv, NEW p \in Coroutine, UpdateQuotaSnapshotsFails(p)
  PROVE  StateKept
  <1>1. WaitsOK'
    BY Zenon, AfterSnapshotsState, UnmovedWaits DEF StateInv, UpdateQuotaSnapshotsFails
  <1>2. \/ unwritten' = [unwritten EXCEPT ![p] = Resource]
        \/ unwritten' = [unwritten EXCEPT ![p] = {}]
    BY Zenon DEF UpdateQuotaSnapshotsFails
  <1>3. unwritten' \in [Coroutine -> SUBSET Resource]
    BY Zenon, <1>2 DEF StateInv, RowsOK
  <1>4. /\ UNCHANGED <<fetched, snapshots, alertSent, regCh, exceededResources, copies, runs>>
        /\ faults' = faults + 1
    BY Zenon DEF UpdateQuotaSnapshotsFails, pg, channels, state
  <1>5. RowsKept
    BY Zenon, <1>3, <1>4 DEF StateInv, RowsOK, RowsKept
  <1>6. CountersOK'
    BY Zenon, <1>4, Faulted DEF StateInv, CountersOK
  <1> QED
    BY Zenon, <1>1, <1>5, <1>6 DEF StateKept

LEMMA UntouchedState ==
  ASSUME StateInv, UNCHANGED <<channels, state, at, reason, local, pg, copies, faults, runs>>
  PROVE  StateKept
  BY Zenon, UnmovedWaits, SameRows, SameCounters DEF StateInv, StateKept, channels, state

LEMMA StateStep == LedgerTypeOK /\ StateInv /\ [Next]_vars => StateKept
  <1> SUFFICES ASSUME LedgerTypeOK, StateInv, [Next]_vars PROVE StateKept
    OBVIOUS
  <1>1. CASE Environment
    BY Zenon, <1>1, SignalHeartbeatState, SignalRegisterClusterState, IssueCreditState
       DEF Environment
  <1>2. CASE MainLoop
    BY Zenon, <1>2, ReceiveHeartbeatState, ReceiveRegisterState, TimerFiresState,
       ContinueAsNewState, SubmitTBBatchDoneState, CheckSoftLimitsState DEF MainLoop
  <1>3. ASSUME NEW u \in Update, Handler(u) PROVE StateKept
    BY Zenon, <1>3, SubmitAllocationDoneState, ResetSoftLimitAlertState DEF Handler
  <1>4. ASSUME NEW p \in Coroutine, Call(p) PROVE StateKept
    BY Zenon, <1>4, AttemptFailsState, LookupAccountBalancesState, UpsertQuotaSnapshotState
       DEF Call
  <1>5. ASSUME NEW p \in Coroutine, Fault(p) PROVE StateKept
    BY Zenon, <1>5, AttemptTimesOutState, LookupFailsState, UpdateQuotaSnapshotsFailsState
       DEF Fault
  <1>6. CASE Send \/ Execute \/ Reply
    BY Zenon, <1>6, UntouchedState DEF Send, Execute, Reply
  <1>7. CASE UNCHANGED vars
    BY Zenon, <1>7, UntouchedState DEF vars
  <1> QED
    BY Zenon, <1>1, <1>2, <1>3, <1>4, <1>5, <1>6, <1>7 DEF Next

LEMMA StateInit == Init => StateInv
  <1> SUFFICES ASSUME Init PROVE StateInv
    OBVIOUS
  <1>1. WaitsOK
    <2>1. \A p \in Coroutine : at[p] \in Wait
      BY Zenon DEF Init, Wait, MainWait
    <2>2. at[Main] = "select" /\ \A u \in Update : at[u] = "idle"
      BY Zenon, CoroutineFacts DEF Init
    <2> QED
      BY Zenon, <2>1, <2>2 DEF Init, WaitsOK, MainWait, Reason
  <1>2. RowsOK
    BY Zenon, NoBalanceOK DEF Init, RowsOK
  <1>3. CountersOK
    BY DEF Init, CountersOK
  <1> QED
    BY Zenon, <1>1, <1>2, <1>3 DEF StateInv

(* Each mark starts at the lowest value its type allows and, as FlowStep   *)
(* says, never goes back.                                                  *)
SeqsOK == processedSeqs \in [Cluster -> Nat \cup {NotSeen}] /\ lastAck \in Nat

LEMMA SeqsKept == ASSUME FlowInv, SeqsOK, MarksKept PROVE SeqsOK'
  <1>1. processedSeqs' \in [Cluster -> Int] /\ lastAck' \in Int
    BY Zenon DEF MarksKept, MarksOK
  <1>2. ASSUME NEW c \in Cluster PROVE processedSeqs'[c] \in Nat \cup {NotSeen}
    <2>1. /\ processedSeqs[c] \in Nat \cup {NotSeen} /\ processedSeqs'[c] \in Int
          /\ processedSeqs'[c] >= processedSeqs[c]
      BY Zenon, <1>1 DEF SeqsOK, MarksKept
    <2> QED
      BY <2>1 DEF NotSeen
  <1>3. lastAck \in Nat /\ lastAck' >= lastAck
    BY Zenon DEF SeqsOK, MarksKept
  <1>4. lastAck' \in Nat
    BY <1>1, <1>3
  <1> QED
    BY Zenon, <1>1, <1>2, <1>4 DEF SeqsOK

WholeInv == LedgerInv /\ FlowInv /\ StateInv /\ SeqsOK

LEMMA WholeInit == Init => WholeInv
  <1> SUFFICES ASSUME Init PROVE WholeInv
    OBVIOUS
  <1>1. SeqsOK
    BY DEF Init, SeqsOK
  <1> QED
    BY Zenon, <1>1, InitInv, FlowInit, StateInit DEF Init, WholeInv

LEMMA WholeStep == WholeInv /\ [Next]_vars => WholeInv' /\ StateKept
  <1> SUFFICES ASSUME WholeInv, [Next]_vars PROVE WholeInv' /\ StateKept
    OBVIOUS
  <1>1. LedgerInv'
    BY Zenon, LedgerSteps, StepInv DEF WholeInv
  <1>2. Kept
    BY Zenon, FlowStep DEF WholeInv
  <1>3. FlowInv' /\ SeqsOK'
    BY Zenon, <1>2, FlowKept, SeqsKept DEF WholeInv, Kept
  <1>4. StateKept
    BY Zenon, StateStep DEF WholeInv, LedgerInv
  <1>5. StateInv'
    BY Zenon, <1>4 DEF StateKept, StateInv, RowsKept
  <1> QED
    BY Zenon, <1>1, <1>3, <1>4, <1>5 DEF WholeInv

(* Type correctness of the whole workflow, its activities and its ledger,  *)
(* for any number of clusters, credits, retries, faults and runs.          *)
THEOREM AccountingTypes == Spec => []TypeOK
  <1>1. WholeInv => TypeOK
    <2> SUFFICES ASSUME WholeInv PROVE TypeOK
      OBVIOUS
    <2>1. attempts \in SUBSET Attempt
      BY Zenon DEF WholeInv, FlowInv, CallsOK, Sound
    <2> QED
      BY Zenon, <2>1 DEF WholeInv, LedgerInv, FlowInv, QueuesOK, MarksOK, GaugeId, CallsOK, SeqsOK,
         StateInv, WaitsOK, Wait, Reason, RowsOK, CountersOK, TypeOK
  <1> QED
    BY <1>1, WholeInit, WholeStep, PTL DEF Spec

-----------------------------------------------------------------------------
(* What is reported.  A balance b of wallet r that was looked up when the  *)
(* wallet had fewer, or as many, credits and debits than cr and po.        *)

Past(b, r, cr, po) ==
    /\ b.credits <= cr /\ b.posted <= po
    /\ b.posted + b.pending <= b.credits
    /\ r # ActiveNodes => b.pending = 0
    /\ b.credits > 0 => InitialCredits[r] <= b.credits

Reserving(items) ==
    \A k \in DOMAIN items : items[k].kind = "pending" => items[k].r = ActiveNodes

(* Only nodes are reserved.                                                *)
ReservesNodes ==
    /\ \A t \in committed : t.kind = "pending" => t.r = ActiveNodes
    /\ Reserving(request.items)
    /\ \A r \in Resource : r # ActiveNodes => pending[r] = 0

Grows == \A r \in Resource : credits[r] <= credits'[r] /\ posted[r] <= posted'[r]

PastInv ==
    /\ ReservesNodes
    /\ \A r \in Resource : InitialCredits[r] <= credits[r]
    /\ \A r \in Resource : Past(snapshots[r], r, credits[r], posted[r])
    /\ \A p \in Coroutine : \A r \in Resource : Past(fetched[p][r], r, credits[r], posted[r])

LEMMA SlotsReserveNodes ==
  ASSUME NEW a, NEW hbs, NEW order
  PROVE  Reserving(UsageSlots(hbs)) /\ Reserving(GaugeSlots(a, order)) /\ Reserving(AllocationSlots(a))
  <1>1. Reserving(UsageSlots(hbs))
    <2>1. ASSUME NEW hb, NEW r PROVE UsageSlot(hb, r).kind # "pending"
      BY Zenon DEF UsageSlot, NoTransfer
    <2> QED
      BY Zenon, <2>1 DEF Reserving, UsageSlots
  <1>2. Reserving(GaugeSlots(a, order))
    <2>1. ASSUME NEW seqNo, NEW old, NEW c PROVE VoidSlot(seqNo, old, c).kind # "pending"
      BY Zenon DEF VoidSlot, NoTransfer
    <2>2. ASSUME NEW seqNo, NEW n, NEW c
          PROVE  PendingSlot(seqNo, n, c).kind = "pending" => PendingSlot(seqNo, n, c).r = ActiveNodes
      BY Zenon DEF PendingSlot, NoTransfer
    <2> SUFFICES ASSUME NEW k \in DOMAIN GaugeSlots(a, order)
                 PROVE  LET t == GaugeSlots(a, order)[k]
                        IN  t.kind = "pending" => t.r = ActiveNodes
      BY Zenon DEF Reserving
    <2>3. CASE \E seqNo, old, c : GaugeSlots(a, order)[k] = VoidSlot(seqNo, old, c)
      BY Zenon, <2>1, <2>3
    <2>4. CASE \E seqNo, n, c : GaugeSlots(a, order)[k] = PendingSlot(seqNo, n, c)
      BY Zenon, <2>2, <2>4
    <2> QED
      BY Zenon, <2>3, <2>4 DEF GaugeSlots
  <1>3. Reserving(AllocationSlots(a))
    BY DEF Reserving, AllocationSlots
  <1> QED
    BY Zenon, <1>1, <1>2, <1>3

LEMMA CommitMoves ==
  ASSUME LedgerTypeOK, ReservesNodes, NEW t \in Transfer, Outcome(t) = "ok", Commit(t),
         t.kind = "pending" => t.r = ActiveNodes
  PROVE  /\ Grows
         /\ \A r \in Resource : r # ActiveNodes => pending'[r] = 0
  <1>1. /\ t.amount \in Nat /\ t.r \in Resource
        /\ credits \in [Resource -> Nat] /\ posted \in [Resource -> Nat]
        /\ pending \in [Resource -> Int]
    BY Zenon DEF Transfer, LedgerTypeOK
  <1>2. Grows
    <2> SUFFICES ASSUME NEW r \in Resource
                 PROVE  credits[r] <= credits'[r] /\ posted[r] <= posted'[r]
      BY Zenon DEF Grows
    <2>1. credits'[r] \in {credits[r], credits[r] + t.amount}
      BY Zenon, <1>1 DEF Commit
    <2>2. posted'[r] \in {posted[r], posted[r] + t.amount}
      BY Zenon, <1>1 DEF Commit
    <2>3. credits[r] \in Nat /\ posted[r] \in Nat
      BY Zenon, <1>1
    <2> QED
      BY <1>1, <2>1, <2>2, <2>3
  <1>3. ASSUME NEW r \in Resource, r # ActiveNodes PROVE pending'[r] = pending[r]
    <2>1. CASE t.kind = "void"
      <3>1. PendingWith(t.ref) # {}
        BY Zenon, <2>1 DEF Outcome
      <3>2. Released(t) \in PendingWith(t.ref)
        BY Zenon, <3>1 DEF Released
      <3>3. Released(t).r = ActiveNodes
        BY Zenon, <3>2 DEF PendingWith, ReservesNodes
      <3> QED
        BY Zenon, <1>1, <1>3, <2>1, <3>3 DEF Commit
    <2>2. CASE t.kind # "void"
      BY Zenon, <1>1, <1>3, <2>2 DEF Commit
    <2> QED
      BY Zenon, <2>1, <2>2
  <1> QED
    BY Zenon, <1>2, <1>3 DEF ReservesNodes

LEMMA SameBalances == ASSUME LedgerTypeOK, UNCHANGED balances PROVE Grows
  <1>1. \A r \in Resource : credits[r] \in Nat /\ posted[r] \in Nat
    BY Zenon DEF LedgerTypeOK
  <1>2. UNCHANGED <<credits, posted>>
    BY Zenon DEF balances
  <1> QED
    BY <1>1, <1>2 DEF Grows

LEMMA ApplyNextMoves ==
  ASSUME LedgerTypeOK, ReservesNodes, ApplyNext
  PROVE  Grows /\ ReservesNodes'
  <1> DEFINE t == Executing
  <1>1. t \in Slot /\ (Outcome(t) # "skipped" => t \in Transfer)
    BY Zenon, ExecutingSlot
  <1>2. t.kind = "pending" => t.r = ActiveNodes
    <2>1. request.items \in Seq(Slot) /\ request.results \in Seq(Result)
      BY Zenon, ExecutingSlot DEF Request
    <2>2. Len(request.results) + 1 \in 1..Len(request.items)
      BY <2>1, LenProperties DEF ApplyNext
    <2> QED
      BY Zenon, <2>1, <2>2, LenProperties DEF ReservesNodes, Reserving, Executing
  <1>3. request'.items = request.items
    BY Zenon DEF ApplyNext
  <1>4. IF Outcome(t) = "ok" THEN Commit(t) ELSE UNCHANGED <<balances, committed>>
    BY Zenon DEF ApplyNext, Executing
  <1> HIDE DEF t
  <1>5. CASE Outcome(t) = "ok"
    <2>1. t \in Transfer /\ Commit(t)
      BY Zenon, <1>1, <1>4, <1>5
    <2>2. Grows /\ \A r \in Resource : r # ActiveNodes => pending'[r] = 0
      BY Zenon, <1>2, <1>5, <2>1, CommitMoves
    <2>3. committed' = committed \cup {t}
      BY Zenon, <2>1 DEF Commit
    <2> QED
      BY Zenon, <1>2, <1>3, <2>2, <2>3 DEF ReservesNodes
  <1>6. CASE Outcome(t) # "ok"
    <2>1. UNCHANGED <<balances, committed, pending>>
      BY Zenon, <1>4, <1>6 DEF balances
    <2> QED
      BY Zenon, <1>3, <2>1, SameBalances DEF ReservesNodes
  <1> QED
    BY Zenon, <1>5, <1>6

LEMMA BalancesMove ==
  ASSUME LedgerTypeOK, ReservesNodes, [Next]_vars
  PROVE  Grows /\ ReservesNodes'
  <1>1. CASE Send
    <2>1. PICK a \in attempts : SendUsage(a) \/ SendGauge(a) \/ SendAllocation(a)
      BY Zenon, <1>1 DEF Send
    <2>2. PICK from, items : CreateTransfers(from, items) /\ Reserving(items)
      BY Zenon, <2>1, SlotsReserveNodes DEF SendUsage, SendGauge, SendAllocation
    <2>3. request'.items = items /\ UNCHANGED <<balances, committed, pending>>
      BY Zenon, <2>2 DEF CreateTransfers, balances
    <2> QED
      BY Zenon, <2>2, <2>3, SameBalances DEF ReservesNodes
  <1>2. CASE Execute
    BY Zenon, <1>2, ApplyNextMoves DEF Execute
  <1>3. CASE Reply
    <2>1. request' = NoRequest /\ UNCHANGED <<balances, committed>>
      BY Zenon, <1>3 DEF Reply, Respond
    <2>2. DOMAIN request'.items = {}
      BY <2>1 DEF NoRequest
    <2> QED
      BY Zenon, <2>1, <2>2, SameBalances DEF ReservesNodes, Reserving, balances
  <1>4. CASE UNCHANGED ledgerVars
    BY Zenon, <1>4, SameBalances DEF ReservesNodes, balances, ledgerVars
  <1> QED
    BY Zenon, <1>1, <1>2, <1>3, <1>4, LedgerUsers

(* What was so in the past stays so.                                       *)
LEMMA PastStays ==
  ASSUME NEW b \in Balance, NEW r, NEW cr \in Nat, NEW po \in Nat, NEW cr2 \in Nat,
         NEW po2 \in Nat, cr <= cr2, po <= po2, Past(b, r, cr, po)
  PROVE  Past(b, r, cr2, po2)
  <1>1. b.credits \in Nat /\ b.posted \in Nat
    BY Zenon DEF Balance
  <1>2. b.credits <= cr2 /\ b.posted <= po2
    BY <1>1 DEF Past
  <1> QED
    BY Zenon, <1>2 DEF Past

LEMMA NothingIsPast ==
  ASSUME NEW r \in Resource, NEW cr \in Nat, NEW po \in Nat
  PROVE  Past(NoBalance[r], r, cr, po)
  BY DEF Past, NoBalance

LEMMA PresentIsPast ==
  ASSUME LedgerTypeOK, HardLimit, ReservesNodes, NEW r \in Resource,
         InitialCredits[r] <= credits[r]
  PROVE  Past(LookupBalances[r], r, credits[r], posted[r])
  <1>1. LookupBalances[r] = [credits |-> credits[r], posted |-> posted[r], pending |-> pending[r]]
    BY Zenon DEF LookupBalances
  <1>2. credits[r] \in Nat /\ posted[r] \in Nat /\ pending[r] \in Int
    BY Zenon DEF LedgerTypeOK
  <1>3. posted[r] + pending[r] <= credits[r] /\ (r # ActiveNodes => pending[r] = 0)
    BY Zenon DEF HardLimit, Used, ReservesNodes
  <1> QED
    BY <1>1, <1>2, <1>3 DEF Past

LEMMA PastInit == Init => PastInv
  <1> SUFFICES ASSUME Init PROVE PastInv
    OBVIOUS
  <1>1. ReservesNodes
    <2>1. DOMAIN request.items = {}
      BY DEF Init, LedgerInit, NoRequest
    <2> QED
      BY Zenon, <2>1 DEF Init, LedgerInit, ReservesNodes, Reserving
  <1>2. \A r \in Resource : InitialCredits[r] \in Nat /\ credits[r] = InitialCredits[r] /\ posted[r] = 0
    BY Zenon, ResourcesAssumption DEF Init, LedgerInit
  <1>3. \A r \in Resource : InitialCredits[r] <= credits[r] /\ credits[r] \in Nat /\ posted[r] \in Nat
    BY <1>2
  <1>4. snapshots = NoBalance /\ \A p \in Coroutine : fetched[p] = NoBalance
    BY Zenon DEF Init
  <1> QED
    BY Zenon, <1>1, <1>3, <1>4, NothingIsPast DEF PastInv

LEMMA PastStep ==
  ASSUME WholeInv, WholeInv', PastInv, StateKept, [Next]_vars
  PROVE  PastInv'
  <1>1. Grows /\ ReservesNodes'
    BY Zenon, BalancesMove DEF WholeInv, LedgerInv, PastInv
  <1>2. ASSUME NEW r \in Resource
        PROVE  /\ credits[r] \in Nat /\ posted[r] \in Nat /\ credits'[r] \in Nat /\ posted'[r] \in Nat
               /\ credits[r] <= credits'[r] /\ posted[r] <= posted'[r]
    BY Zenon, <1>1 DEF WholeInv, LedgerInv, LedgerTypeOK, Grows
  <1>3. ASSUME NEW r \in Resource PROVE InitialCredits[r] <= credits'[r]
    <2>1. InitialCredits[r] \in Nat /\ InitialCredits[r] <= credits[r]
      BY Zenon, ResourcesAssumption DEF PastInv
    <2> QED
      BY <1>2, <2>1
  <1>4. ASSUME NEW r \in Resource, NEW b \in Balance, Past(b, r, credits[r], posted[r])
        PROVE  Past(b, r, credits'[r], posted'[r])
    BY Zenon, <1>2, <1>4, PastStays
  <1>5. ASSUME NEW p \in Coroutine, NEW r \in Resource
        PROVE  fetched[p][r] \in Balance /\ Past(fetched[p][r], r, credits'[r], posted'[r])
    <2>1. fetched[p][r] \in Balance
      BY Zenon DEF WholeInv, StateInv, RowsOK
    <2> QED
      BY Zenon, <1>4, <2>1 DEF PastInv
  <1>6. ASSUME NEW p \in Coroutine, NEW r \in Resource
        PROVE  Past(fetched'[p][r], r, credits'[r], posted'[r])
    <2>1. Past(NoBalance[r], r, credits'[r], posted'[r])
      BY Zenon, <1>2, NothingIsPast
    <2>2. Past(LookupBalances[r], r, credits'[r], posted'[r])
      <3>1. LookupBalances[r] \in Balance
        BY Zenon, LookupOK DEF WholeInv, LedgerInv
      <3>2. Past(LookupBalances[r], r, credits[r], posted[r])
        BY Zenon, PresentIsPast DEF WholeInv, LedgerInv, PastInv
      <3> QED
        BY Zenon, <1>4, <3>1, <3>2
    <2>3. fetched'[p] \in {fetched[p], NoBalance, LookupBalances}
      BY Zenon DEF StateKept, RowsKept
    <2> QED
      BY Zenon, <1>5, <2>1, <2>2, <2>3
  <1>7. ASSUME NEW r \in Resource
        PROVE  Past(snapshots'[r], r, credits'[r], posted'[r])
    <2>1. snapshots[r] \in Balance
      BY Zenon DEF WholeInv, StateInv, RowsOK
    <2>2. Past(snapshots[r], r, credits'[r], posted'[r])
      BY Zenon, <1>4, <2>1 DEF PastInv
    <2>3. snapshots'[r] = snapshots[r] \/ \E p \in Coroutine : snapshots'[r] = fetched[p][r]
      BY Zenon DEF StateKept, RowsKept
    <2> QED
      BY Zenon, <1>5, <2>2, <2>3
  <1> QED
    BY Zenon, <1>1, <1>3, <1>6, <1>7 DEF PastInv

LEMMA PastIsTruthful ==
  ASSUME LedgerTypeOK, ReservesNodes, NEW r \in Resource, NEW b \in Balance,
         Past(b, r, credits[r], posted[r])
  PROVE  Truthful(QuotaInfo(b, r), r)
  <1> DEFINE q == QuotaInfo(b, r)
  <1>1. /\ q.limit = b.credits /\ q.available = Left(b)
        /\ q.used = IF r = ActiveNodes THEN b.pending ELSE b.posted
        /\ q.status = "exceeded" => NoneLeft(b)
    BY Zenon DEF QuotaInfo
  <1> HIDE DEF q
  <1>2. /\ b.credits \in Nat /\ b.posted \in Nat /\ b.pending \in Int
        /\ credits[r] \in Nat /\ posted[r] \in Nat
    BY Zenon DEF Balance, LedgerTypeOK
  <1>3. q.limit <= credits[r] /\ q.available >= 0
    BY <1>1, <1>2 DEF Past, Left
  <1>4. r # ActiveNodes => q.used <= posted[r]
    BY <1>1, <1>2 DEF Past
  <1>5. ASSUME r # ActiveNodes, NoneLeft(b) PROVE q.limit <= Used(r)
    <2>1. pending[r] = 0 /\ b.pending = 0
      BY Zenon, <1>5 DEF ReservesNodes, Past
    <2> QED
      BY <1>1, <1>2, <1>5, <2>1 DEF Past, NoneLeft, Left, Used
  <1> QED
    BY Zenon, <1>1, <1>3, <1>4, <1>5 DEF Truthful, q

(* Every report is of a state that was: neither ListTenantQuotas nor the   *)
(* answer of IssueTenantCredit shows credit or spending that the wallet    *)
(* does not have, an overdrawn wallet, or a wallet as used up that was not *)
(* used up, for any interleaving of flushes, credits, failed writes and    *)
(* new runs.                                                               *)
THEOREM ReportsAreTruthful == Spec => []ReportsArePast
  <1>1. WholeInv /\ PastInv => ReportsArePast
    <2> SUFFICES ASSUME WholeInv, PastInv PROVE ReportsArePast
      OBVIOUS
    <2>1. LedgerTypeOK /\ ReservesNodes /\ RowsOK
      BY Zenon DEF WholeInv, LedgerInv, StateInv, PastInv
    <2>2. ASSUME NEW r \in DOMAIN ListTenantQuotas PROVE Truthful(ListTenantQuotas[r], r)
      <3>1. r \in Resource /\ ListTenantQuotas[r] = QuotaInfo(snapshots[r], r)
        BY Zenon DEF ListTenantQuotas, GetQuotaSnapshots
      <3>2. snapshots[r] \in Balance /\ Past(snapshots[r], r, credits[r], posted[r])
        BY Zenon, <2>1, <3>1 DEF RowsOK, PastInv
      <3> QED
        BY Zenon, <2>1, <3>1, <3>2, PastIsTruthful
    <2>3. ASSUME NEW u \in Update, NEW r \in Resource PROVE Truthful(IssueTenantCredit(u)[r], r)
      <3>1. IssueTenantCredit(u)[r] = QuotaInfo(fetched[u][r], r) /\ u \in Coroutine
        BY Zenon, CoroutineFacts DEF IssueTenantCredit
      <3>2. fetched[u][r] \in Balance /\ Past(fetched[u][r], r, credits[r], posted[r])
        BY Zenon, <2>1, <3>1 DEF RowsOK, PastInv
      <3> QED
        BY Zenon, <2>1, <3>1, <3>2, PastIsTruthful
    <2> QED
      BY Zenon, <2>2, <2>3 DEF ReportsArePast
  <1>2. WholeInv /\ PastInv /\ [Next]_vars => WholeInv' /\ PastInv'
    BY Zenon, WholeStep, PastStep
  <1> QED
    BY <1>1, <1>2, WholeInit, PastInit, PTL DEF Spec

-----------------------------------------------------------------------------
(* The flush timer.                                                        *)

LEMMA TimedSteps == [TimedNext]_timedVars => [Next]_vars
  <1> SUFFICES ASSUME [TimedNext]_timedVars PROVE Next \/ UNCHANGED vars
    OBVIOUS
  <1>1. CASE TimedReceiveHeartbeat \/ TimedReceiveRegister \/ TimedTimerFires \/ TimedContinueAsNew
    BY Zenon, <1>1 DEF TimedReceiveHeartbeat, TimedReceiveRegister, TimedTimerFires,
                       TimedContinueAsNew, Next, MainLoop
  <1>2. CASE FlushStep(SubmitTBBatchDone) \/ FlushStep(CheckSoftLimits)
    BY Zenon, <1>2 DEF FlushStep, Next, MainLoop
  <1>3. CASE FlushStep(Call(Main)) \/ FlushStep(Fault(Main))
    BY Zenon, <1>3, CoroutineFacts DEF FlushStep, Next
  <1>4. ASSUME NEW u \in Update,
               \/ TimedIssueCredit(u)
               \/ HandlerStep(Handler(u), u) \/ HandlerStep(Call(u), u) \/ HandlerStep(Fault(u), u)
        PROVE  Next
    BY Zenon, <1>4, CoroutineFacts DEF TimedIssueCredit, HandlerStep, Next, Environment
  <1>5. CASE \/ \E hb \in Heartbeat : SignalHeartbeat(hb)
             \/ \E c \in Cluster : SignalRegisterCluster(c)
             \/ Send \/ Execute \/ Reply
    BY Zenon, <1>5 DEF Next, Environment
  <1>6. CASE Elapse \/ UNCHANGED timedVars
    BY Zenon, <1>6 DEF Elapse, timedVars
  <1> QED
    BY Zenon, <1>1, <1>2, <1>3, <1>4, <1>5, <1>6 DEF TimedNext

(* Accounting takes the timer branch whenever it likes; with the timers,   *)
(* the futures and the resets of workflow_accounting.go the workflow does  *)
(* nothing that Accounting does not allow, so all that is proved of        *)
(* Accounting holds of it.                                                 *)
THEOREM TimedWorkflowImplementsAccounting == TimedSpec => Spec
  <1>1. TimedInit => Init
    BY Zenon DEF TimedInit
  <1> QED
    BY <1>1, TimedSteps, PTL DEF TimedSpec, Spec

(* A step of a handler leaves the main loop where it is.                   *)
LEMMA HandlerLeavesMain ==
  ASSUME WaitsOK, NEW u \in Update,
         IssueCredit(u) \/ Handler(u) \/ Call(u) \/ Fault(u)
  PROVE  at'[Main] = at[Main]
  <1> SUFFICES at' = at \/ \E w : at' = [at EXCEPT ![u] = w]
    BY Zenon, CoroutineFacts DEF WaitsOK
  <1>1. CASE IssueCredit(u) \/ Handler(u)
    BY Zenon, <1>1 DEF IssueCredit, Handler, SubmitAllocationDone, ResetSoftLimitAlert
  <1>2. ASSUME NEW others, RetryOrGiveUp(u, others)
        PROVE  at' = at \/ \E w : at' = [at EXCEPT ![u] = w]
    BY Zenon, <1>2, CoroutineFacts DEF RetryOrGiveUp
  <1>3. CASE AttemptFails(u) \/ AttemptTimesOut(u)
    BY Zenon, <1>2, <1>3 DEF AttemptFails, AttemptTimesOut
  <1>4. CASE LookupAccountBalances(u) \/ LookupFails(u)
    BY Zenon, <1>4, CoroutineFacts DEF LookupAccountBalances, LookupFails
  <1>5. CASE UpdateQuotaSnapshotsFails(u) \/ \E r \in Resource : UpsertQuotaSnapshot(u, r)
    BY Zenon, <1>5 DEF UpdateQuotaSnapshotsFails, UpsertQuotaSnapshot
  <1> QED
    BY Zenon, <1>1, <1>3, <1>4, <1>5 DEF Call, Fault

(* The Selector is never left with a future whose branch has been taken:   *)
(* such a future is in timerFuture only while a flush is under way.        *)
TimerInv == heard # "spent" /\ (at[Main] \in {"select", "continue"} => future # "spent")

LEMMA TimerStep ==
  ASSUME WaitsOK, TimerInv, [TimedNext]_timedVars
  PROVE  TimerInv'
  <1>1. CASE Elapse
    BY Zenon, <1>1 DEF Elapse, TimerInv, vars
  <1>2. CASE TimedReceiveHeartbeat
    BY Zenon, <1>2 DEF TimedReceiveHeartbeat, ReceiveHeartbeat, TimerInv, Fires
  <1>3. CASE TimedReceiveRegister
    BY Zenon, <1>3 DEF TimedReceiveRegister, ReceiveRegister, TimerInv
  <1>4. CASE TimedTimerFires
    BY Zenon, <1>4 DEF TimedTimerFires, Flushing, ResetTimer, TimerInv
  <1>5. CASE TimedContinueAsNew
    BY Zenon, <1>5 DEF TimedContinueAsNew, Flushing, ResetTimer, TimerInv
  <1>6. CASE \/ FlushStep(SubmitTBBatchDone) \/ FlushStep(CheckSoftLimits)
             \/ FlushStep(Call(Main)) \/ FlushStep(Fault(Main))
    BY Zenon, <1>6 DEF FlushStep, ResetTimer, TimerInv, timer
  <1>7. ASSUME NEW u \in Update, TimedIssueCredit(u) PROVE TimerInv'
    BY Zenon, <1>7, HandlerLeavesMain DEF TimedIssueCredit, TimerInv, Fires
  <1>8. ASSUME NEW u \in Update,
               HandlerStep(Handler(u), u) \/ HandlerStep(Call(u), u) \/ HandlerStep(Fault(u), u)
        PROVE  TimerInv'
    <2>1. at'[Main] = at[Main]
      BY Zenon, <1>8, HandlerLeavesMain DEF HandlerStep
    <2>2. (future' = "running" /\ heard' = StillHeard) \/ UNCHANGED timer
      BY Zenon, <1>8 DEF HandlerStep
    <2> QED
      BY Zenon, <2>1, <2>2 DEF StillHeard, TimerInv, timer
  <1>9. CASE /\ \/ \E hb \in Heartbeat : SignalHeartbeat(hb)
                \/ \E c \in Cluster : SignalRegisterCluster(c)
                \/ Send \/ Execute \/ Reply
             /\ UNCHANGED timer
    <2>1. at' = at
      BY Zenon, <1>9 DEF SignalHeartbeat, SignalRegisterCluster, Send, Execute, Reply
    <2> QED
      BY Zenon, <1>9, <2>1 DEF TimerInv, timer
  <1>10. CASE UNCHANGED timedVars
    BY Zenon, <1>10 DEF timedVars, timer, vars, TimerInv
  <1> QED
    BY Zenon, <1>1, <1>2, <1>3, <1>4, <1>5, <1>6, <1>7, <1>8, <1>9, <1>10 DEF TimedNext

(* The loop never waits on a future whose branch it has already taken, for *)
(* any interleaving of flushes, credits and new runs, so no timer makes it *)
(* flush without end.                                                      *)
THEOREM TimerFiresOnce == TimedSpec => []FiresOnce
  <1>1. TimedInit => WholeInv /\ TimerInv
    BY Zenon, WholeInit DEF TimedInit, TimerInv
  <1>2. WholeInv /\ TimerInv /\ [TimedNext]_timedVars => WholeInv' /\ TimerInv'
    BY Zenon, TimedSteps, WholeStep, TimerStep DEF WholeInv, StateInv
  <1>3. TimerInv => FiresOnce
    BY Zenon DEF TimerInv, FiresOnce
  <1> QED
    BY <1>1, <1>2, <1>3, PTL DEF TimedSpec

-----------------------------------------------------------------------------
(* The projections, as long as nothing has failed, no credit has been      *)
(* issued and the workflow has not continued as new.                       *)

Undisturbed == faults = 0 /\ runs = 0 /\ \A u \in Update : at[u] = "idle"

(* No step ends a disturbance.                                             *)
Disturbs ==
    /\ faults' \in {faults, faults + 1} /\ runs' \in {runs, runs + 1}
    /\ \A u \in Update : at'[u] = "idle" => at[u] = "idle"

LEMMA WaitEntered ==
  ASSUME WaitsOK, NEW p \in Coroutine, NEW w,
         at' = [at EXCEPT ![p] = w], p = Main \/ w # "idle"
  PROVE  \A u \in Update : at'[u] = "idle" => at[u] = "idle"
  BY Zenon, CoroutineFacts DEF WaitsOK

LEMMA StartFlushDisturbs ==
  ASSUME WaitsOK, NEW batch, NEW why, StartFlush(batch, why) \/ NoFlush
  PROVE  \A u \in Update : at'[u] = "idle" => at[u] = "idle"
  <1>1. \E w : at' = [at EXCEPT ![Main] = w]
    BY Zenon DEF StartFlush, NoFlush
  <1> QED
    BY Zenon, <1>1, WaitEntered, CoroutineFacts

LEMMA FlushReturnsDisturbs ==
  ASSUME WaitsOK, FlushReturns
  PROVE  /\ runs' \in {runs, runs + 1}
         /\ \A u \in Update : at'[u] = "idle" => at[u] = "idle"
  <1>1. CASE NewRun
    BY Zenon, <1>1, CoroutineFacts DEF NewRun
  <1>2. CASE ~NewRun
    <2>1. (\E w : at' = [at EXCEPT ![Main] = w]) /\ runs' = runs
      BY Zenon, <1>2 DEF FlushReturns
    <2> QED
      BY Zenon, <2>1, WaitEntered, CoroutineFacts
  <1> QED
    BY Zenon, <1>1, <1>2

LEMMA RetryOrGiveUpDisturbs ==
  ASSUME WaitsOK, NEW p \in Coroutine, NEW others, RetryOrGiveUp(p, others)
  PROVE  /\ runs' \in {runs, runs + 1}
         /\ \A u \in Update : at'[u] = "idle" => at[u] = "idle"
  <1>1. \/ FlushReturns
        \/ UNCHANGED <<at, runs>>
        \/ at' = [at EXCEPT ![p] = "error"] /\ UNCHANGED runs
    BY Zenon DEF RetryOrGiveUp
  <1> QED
    BY Zenon, <1>1, FlushReturnsDisturbs, WaitEntered

LEMMA DisturbingStep == StateInv /\ [Next]_vars => Disturbs
  <1> SUFFICES ASSUME StateInv, [Next]_vars PROVE Disturbs
    OBVIOUS
  <1> USE DEF StateInv
  <1>1. CASE Environment
    <2>1. ASSUME NEW u \in Update, IssueCredit(u) PROVE Disturbs
      BY Zenon, <2>1, WaitEntered, CoroutineFacts DEF IssueCredit, Disturbs
    <2> QED
      BY Zenon, <1>1, <2>1 DEF Environment, SignalHeartbeat, SignalRegisterCluster, Disturbs
  <1>2. CASE ReceiveHeartbeat \/ TimerFires \/ \E c \in Cluster : ReceiveRegister(c)
    <2>1. /\ NoFlush \/ \E batch, why : StartFlush(batch, why)
          /\ UNCHANGED <<faults, runs>>
      BY Zenon, <1>2 DEF ReceiveHeartbeat, TimerFires, ReceiveRegister
    <2> QED
      BY Zenon, <2>1, StartFlushDisturbs DEF Disturbs
  <1>3. CASE ContinueAsNew
    <2>1. CASE NewRun
      BY Zenon, <1>3, <2>1, CoroutineFacts DEF ContinueAsNew, NewRun, Disturbs
    <2>2. CASE StartFlush(curBatch, "continueAsNew") /\ UNCHANGED <<channels, curBatch, local, runs>>
      BY Zenon, <1>3, <2>2, StartFlushDisturbs DEF ContinueAsNew, Disturbs
    <2> QED
      BY Zenon, <1>3, <2>1, <2>2 DEF ContinueAsNew
  <1>4. CASE SubmitTBBatchDone
    BY Zenon, <1>4, WaitEntered, CoroutineFacts DEF SubmitTBBatchDone, Disturbs
  <1>5. CASE CheckSoftLimits
    <2>1. faults' \in {faults, faults + 1}
      BY Zenon, <1>5 DEF CheckSoftLimits
    <2> QED
      BY Zenon, <1>5, <2>1, FlushReturnsDisturbs DEF CheckSoftLimits, Disturbs
  <1>6. ASSUME NEW u \in Update, Handler(u) PROVE Disturbs
    <2>1. \E w \in {"lookup", "ok"} : at' = [at EXCEPT ![u] = w]
      BY Zenon, <1>6 DEF Handler, SubmitAllocationDone, ResetSoftLimitAlert
    <2>2. faults' \in {faults, faults + 1} /\ runs' = runs
      BY Zenon, <1>6 DEF Handler, SubmitAllocationDone, ResetSoftLimitAlert
    <2> QED
      BY Zenon, <2>1, <2>2, WaitEntered, CoroutineFacts DEF Disturbs
  <1>7. ASSUME NEW p \in Coroutine, AttemptFails(p) \/ AttemptTimesOut(p) PROVE Disturbs
    <2>1. \E others : RetryOrGiveUp(p, others)
      BY Zenon, <1>7 DEF AttemptFails, AttemptTimesOut
    <2>2. faults' \in {faults, faults + 1}
      BY Zenon, <1>7 DEF AttemptFails, AttemptTimesOut
    <2> QED
      BY Zenon, <2>1, <2>2, RetryOrGiveUpDisturbs DEF Disturbs
  <1>8. ASSUME NEW p \in Coroutine, LookupFails(p) PROVE Disturbs
    <2>1. FlushReturns \/ (at' = [at EXCEPT ![p] = "ok"] /\ runs' = runs)
      BY Zenon, <1>8 DEF LookupFails
    <2>2. faults' = faults + 1
      BY Zenon, <1>8 DEF LookupFails
    <2> QED
      BY Zenon, <2>1, <2>2, FlushReturnsDisturbs, WaitEntered DEF Disturbs
  <1>9. ASSUME NEW p \in Coroutine,
               \/ LookupAccountBalances(p) \/ UpdateQuotaSnapshotsFails(p)
               \/ \E r \in Resource : UpsertQuotaSnapshot(p, r)
        PROVE  Disturbs
    <2>1. \/ at' = at
          \/ \E w \in {"snapshots", AfterSnapshots(p), at[p]} : at' = [at EXCEPT ![p] = w]
      BY Zenon, <1>9 DEF LookupAccountBalances, UpdateQuotaSnapshotsFails, UpsertQuotaSnapshot
    <2>2. at[p] # "idle" /\ AfterSnapshots(p) # "idle"
      BY Zenon, <1>9 DEF LookupAccountBalances, UpdateQuotaSnapshotsFails, UpsertQuotaSnapshot,
                         AfterSnapshots
    <2>3. faults' \in {faults, faults + 1} /\ runs' = runs
      BY Zenon, <1>9 DEF LookupAccountBalances, UpdateQuotaSnapshotsFails, UpsertQuotaSnapshot
    <2> QED
      BY Zenon, <2>1, <2>2, <2>3, WaitEntered DEF Disturbs
  <1>10. CASE Send \/ Execute \/ Reply \/ UNCHANGED vars
    BY Zenon, <1>10 DEF Send, Execute, Reply, vars, Disturbs
  <1> QED
    BY Zenon, <1>1, <1>2, <1>3, <1>4, <1>5, <1>6, <1>7, <1>8, <1>9, <1>10
       DEF Next, MainLoop, Call, Fault

LEMMA StillUndisturbed ==
  ASSUME StateInv, Disturbs, Undisturbed'
  PROVE  Undisturbed /\ faults' = faults /\ runs' = runs
  <1>1. faults \in Nat /\ runs \in Nat /\ faults' = 0 /\ runs' = 0
    BY Zenon DEF StateInv, CountersOK, Undisturbed
  <1>2. faults' \in {faults, faults + 1} /\ runs' \in {runs, runs + 1}
    BY Zenon DEF Disturbs
  <1>3. faults = 0 /\ runs = 0
    BY <1>1, <1>2
  <1> QED
    BY Zenon, <1>1, <1>3 DEF Disturbs, Undisturbed

Written(r) == snapshots[r] = LookupBalances[r]

Reported ==
    \A r \in Resource : SoftLimit[r] # NoLimit /\ Used(r) >= SoftLimit[r] => r \in alertSent

(* One attempt at most, and only while the loop waits for it: nothing      *)
(* changes a balance between its lookup and the end of the flush.  The     *)
(* batch is empty again only when a flush has gone all the way.            *)
Projected ==
    /\ \A a, b \in attempts : a = b
    /\ at[Main] # "submit" => attempts = {} /\ TBIdle
    /\ at[Main] = "submit" => curBatch # <<>>
    /\ at[Main] \in {"snapshots", "softLimits"} => fetched[Main] = LookupBalances
    /\ at[Main] = "snapshots" => \A r \in Resource \ unwritten[Main] : Written(r)
    /\ at[Main] = "softLimits" => \A r \in Resource : Written(r)
    /\ at[Main] \in {"select", "continue"} /\ curBatch = <<>> /\ lastAck > 0 =>
          Reported /\ \A r \in Resource : Written(r)

(* What the projections are made from and written to.                      *)
projection == <<credits, posted, pending, snapshots, alertSent>>

LEMMA SameProjection ==
  ASSUME UNCHANGED projection
  PROVE  /\ LookupBalances' = LookupBalances
         /\ \A r \in Resource : Written(r) => Written(r)'
         /\ Reported => Reported'
  BY Zenon DEF projection, LookupBalances, Written, Reported, Used

(* The loop has moved and all else is as it was.                           *)
LEMMA RoundProjected ==
  ASSUME WaitsOK, Projected, at[Main] \in {"select", "continue"},
         \/ UNCHANGED <<curBatch, lastAck>> \/ curBatch' # <<>>,
         NoFlush, UNCHANGED <<projection, request>>
  PROVE  Projected'
  <1>1. at'[Main] \in {"select", "continue"} /\ attempts' = attempts
    BY Zenon, CoroutineFacts DEF NoFlush, AfterSelect, WaitsOK, calls
  <1>2. attempts = {} /\ TBIdle
    BY Zenon DEF Projected
  <1> QED
    BY Zenon, <1>1, <1>2, SameProjection DEF Projected, TBIdle

LEMMA FlushProjected ==
  ASSUME WaitsOK, Projected, at[Main] # "submit", NEW batch, NEW why, StartFlush(batch, why),
         curBatch' # <<>>
  PROVE  Projected'
  <1>1. at'[Main] = "submit" /\ attempts = {}
    BY Zenon, CoroutineFacts DEF StartFlush, WaitsOK, Projected
  <1>2. \A a, b \in attempts' : a = b
    BY Zenon, <1>1 DEF StartFlush
  <1> QED
    BY Zenon, <1>1, <1>2 DEF Projected

LEMMA AppendNotEmpty ==
  ASSUME NEW S, NEW q \in Seq(S), NEW e \in S
  PROVE  Append(q, e) # <<>>
  BY AppendProperties, LenProperties, EmptySeq

LEMMA HeadOfSeq ==
  ASSUME NEW S, NEW q \in Seq(S), q # <<>>
  PROVE  Head(q) \in S
  OBVIOUS

LEMMA MainLoopProjected ==
  ASSUME WholeInv, Projected, runs' = runs, faults' = faults, MainLoop
  PROVE  Projected'
  <1>1. WaitsOK /\ runs \in Nat /\ faults \in Nat
    BY Zenon DEF WholeInv, StateInv, CountersOK
  <1>2. ~NewRun
    <2>1. runs + 1 # runs
      BY <1>1
    <2> QED
      BY Zenon, <2>1 DEF NewRun
  <1>3. CASE ReceiveHeartbeat
    <2>1. /\ at[Main] = "select" /\ UNCHANGED <<projection, request, lastAck>>
      BY Zenon, <1>3 DEF ReceiveHeartbeat, projection, ledgerVars, pg
    <2>2. Append(curBatch, Head(hbCh)) # <<>>
      <3>1. hbCh \in Seq(Heartbeat) /\ hbCh # <<>> /\ curBatch \in Seq(Heartbeat)
        BY Zenon, <1>3 DEF ReceiveHeartbeat, WholeInv, FlowInv, QueuesOK
      <3>2. Head(hbCh) \in Heartbeat
        BY Zenon, <3>1, HeadOfSeq
      <3> QED
        BY Zenon, <3>1, <3>2, AppendNotEmpty
    <2>3. \/ UNCHANGED curBatch /\ NoFlush
          \/ curBatch' = Append(curBatch, Head(hbCh)) /\ NoFlush
          \/ /\ curBatch' = Append(curBatch, Head(hbCh))
             /\ StartFlush(Append(curBatch, Head(hbCh)), "threshold")
      BY Zenon, <1>3 DEF ReceiveHeartbeat
    <2> QED
      BY Zenon, <1>1, <2>1, <2>2, <2>3, RoundProjected, FlushProjected
  <1>4. CASE TimerFires \/ \E c \in Cluster : ReceiveRegister(c)
    <2>1. /\ at[Main] = "select" /\ UNCHANGED <<projection, request, lastAck, curBatch>>
          /\ NoFlush \/ (curBatch # <<>> /\ StartFlush(curBatch, "timer"))
      BY Zenon, <1>4 DEF TimerFires, ReceiveRegister, projection, ledgerVars, pg
    <2> QED
      BY Zenon, <1>1, <2>1, RoundProjected, FlushProjected
  <1>5. CASE ContinueAsNew
    <2>1. /\ at[Main] = "continue" /\ curBatch # <<>> /\ curBatch' = curBatch
          /\ StartFlush(curBatch, "continueAsNew")
      BY Zenon, <1>2, <1>5 DEF ContinueAsNew
    <2> QED
      BY Zenon, <1>1, <2>1, FlushProjected
  <1>6. CASE SubmitTBBatchDone
    <2>1. PICK a \in attempts : attempts' = attempts \ {a}
      BY Zenon, <1>6 DEF SubmitTBBatchDone
    <2>2. attempts' = {}
      BY Zenon, <2>1 DEF Projected
    <2>3. at'[Main] = "lookup" /\ TBIdle /\ request' = request
      BY Zenon, <1>1, <1>6, CoroutineFacts DEF SubmitTBBatchDone, WaitsOK, Yielded, ledgerVars
    <2> QED
      BY Zenon, <2>2, <2>3 DEF Projected, TBIdle
  <1>7. CASE CheckSoftLimits
    <2>1. PICK marked \in SUBSET Crossing :
            /\ faults' = IF marked = Crossing THEN faults ELSE faults + 1
            /\ alertSent' = alertSent \cup marked
      BY Zenon, <1>7 DEF CheckSoftLimits
    <2>2. faults + 1 # faults
      BY <1>1
    <2>3. alertSent' = alertSent \cup Crossing
      BY Zenon, <2>1, <2>2
    <2>4. /\ UNCHANGED <<credits, posted, pending, request, snapshots, attempts>>
          /\ at[Main] = "softLimits"
      BY Zenon, <1>7 DEF CheckSoftLimits, ledgerVars, calls
    <2>5. at'[Main] \in {"select", "continue"}
      BY Zenon, <1>1, <1>2, <1>7, CoroutineFacts
         DEF CheckSoftLimits, FlushReturns, AfterSelect, WaitsOK
    <2>6. \A r \in Resource : Written(r)'
      BY Zenon, <2>4 DEF Projected, Written, LookupBalances
    <2>7. Reported'
      <3> SUFFICES ASSUME NEW r \in Resource, SoftLimit[r] # NoLimit, Used(r)' >= SoftLimit[r],
                          r \notin alertSent
                   PROVE  r \in Crossing
        BY Zenon, <2>3 DEF Reported
      <3>1. Used(r)' = posted[r] + pending[r]
        BY Zenon, <2>4 DEF Used
      <3>2. fetched[Main][r] = [credits |-> credits[r], posted |-> posted[r], pending |-> pending[r]]
        BY Zenon, <2>4 DEF Projected, LookupBalances
      <3>3. fetched[Main][r].posted = posted[r] /\ fetched[Main][r].pending = pending[r]
        BY <3>2
      <3> QED
        BY Zenon, <3>1, <3>3 DEF Crossing
    <2> QED
      BY Zenon, <2>4, <2>5, <2>6, <2>7 DEF Projected, TBIdle
  <1> QED
    BY Zenon, <1>3, <1>4, <1>5, <1>6, <1>7 DEF MainLoop

LEMMA CallProjected ==
  ASSUME WholeInv, Projected, runs' = runs, Call(Main)
  PROVE  Projected'
  <1>1. WaitsOK /\ RowsOK /\ runs \in Nat
    BY Zenon DEF WholeInv, StateInv, CountersOK
  <1>2. CASE AttemptFails(Main)
    <2>1. PICK a \in attempts : at[Main] = "submit" /\ RetryOrGiveUp(Main, attempts \ {a})
      BY Zenon, <1>2 DEF AttemptFails, Current
    <2>2. attempts \ {a} = {}
      BY Zenon DEF Projected
    <2>3. CASE tries[Main] < MaxAttempts
      <3>1. UNCHANGED <<at, curBatch>> /\ \E b : attempts' = {} \cup {b}
        BY Zenon, <2>1, <2>2, <2>3 DEF RetryOrGiveUp
      <3>2. \A b, c \in attempts' : b = c
        BY Zenon, <3>1
      <3> QED
        BY Zenon, <2>1, <3>1, <3>2 DEF Projected
    <2>4. CASE ~(tries[Main] < MaxAttempts)
      <3>1. attempts' = {} /\ FlushReturns
        BY Zenon, <2>1, <2>2, <2>4 DEF RetryOrGiveUp
      <3>2. ~NewRun
        <4>1. runs + 1 # runs
          BY <1>1
        <4> QED
          BY Zenon, <4>1 DEF NewRun
      <3>3. at'[Main] \in {"select", "continue"} /\ curBatch' = curBatch
        BY Zenon, <1>1, <3>1, <3>2, CoroutineFacts DEF FlushReturns, AfterSelect, WaitsOK
      <3>4. TBIdle /\ request' = request /\ curBatch # <<>>
        BY Zenon, <1>2, <2>1 DEF AttemptFails, Yielded, ledgerVars, Projected
      <3> QED
        BY Zenon, <3>1, <3>3, <3>4 DEF Projected, TBIdle
    <2> QED
      BY Zenon, <2>3, <2>4
  <1>3. CASE LookupAccountBalances(Main)
    <2>1. /\ at[Main] = "lookup" /\ UNCHANGED <<attempts, request, credits, posted, pending>>
          /\ fetched' = [fetched EXCEPT ![Main] = LookupBalances]
          /\ unwritten' = [unwritten EXCEPT ![Main] = Resource]
          /\ at' = [at EXCEPT ![Main] = "snapshots"]
      BY Zenon, <1>3 DEF LookupAccountBalances, ledgerVars, calls
    <2>2. /\ fetched'[Main] = LookupBalances /\ LookupBalances' = LookupBalances
          /\ unwritten'[Main] = Resource /\ at'[Main] = "snapshots"
      BY Zenon, <1>1, <2>1, CoroutineFacts DEF WaitsOK, RowsOK, LookupBalances
    <2> QED
      BY Zenon, <2>1, <2>2 DEF Projected, TBIdle
  <1>4. ASSUME NEW r \in Resource, UpsertQuotaSnapshot(Main, r) PROVE Projected'
    <2>1. /\ at[Main] = "snapshots" /\ UNCHANGED <<attempts, request, credits, posted, pending, fetched>>
          /\ r \in unwritten[Main]
          /\ snapshots' = [snapshots EXCEPT ![r] = fetched[Main][r]]
          /\ unwritten' = [unwritten EXCEPT ![Main] = @ \ {r}]
          /\ at' = [at EXCEPT ![Main] = IF unwritten[Main] = {r} THEN AfterSnapshots(Main) ELSE @]
      BY Zenon, <1>4 DEF UpsertQuotaSnapshot, ledgerVars, calls
    <2>2. /\ LookupBalances' = LookupBalances /\ fetched[Main] = LookupBalances
          /\ unwritten'[Main] = unwritten[Main] \ {r}
          /\ at'[Main] = IF unwritten[Main] = {r} THEN "softLimits" ELSE "snapshots"
      BY Zenon, <1>1, <2>1, CoroutineFacts
         DEF WaitsOK, RowsOK, LookupBalances, Projected, AfterSnapshots
    <2>3. ASSUME NEW q \in Resource \ unwritten'[Main] PROVE Written(q)'
      <3>1. CASE q = r
        BY Zenon, <1>1, <2>1, <2>2, <3>1 DEF Written, RowsOK
      <3>2. CASE q # r
        BY Zenon, <1>1, <2>1, <2>2, <2>3, <3>2 DEF Written, RowsOK, Projected
      <3> QED
        BY Zenon, <3>1, <3>2
    <2>4. unwritten[Main] = {r} => \A q \in Resource : q \notin unwritten'[Main]
      BY Zenon, <2>2
    <2>5. at'[Main] = "softLimits" => \A q \in Resource : Written(q)'
      BY Zenon, <2>2, <2>3, <2>4
    <2>6. at'[Main] \in {"softLimits", "snapshots"}
      BY Zenon, <2>2
    <2> QED
      BY Zenon, <2>1, <2>2, <2>3, <2>5, <2>6 DEF Projected, TBIdle
  <1> QED
    BY Zenon, <1>2, <1>3, <1>4 DEF Call

LEMMA ActivityProjected ==
  ASSUME Projected, Send \/ Execute \/ Reply
  PROVE  Projected'
  <1>1. at[Main] = "submit"
    <2>1. Send => attempts # {}
      BY Zenon DEF Send
    <2>2. Execute \/ Reply => ~TBIdle
      BY Zenon DEF Execute, ApplyNext, Reply, Respond, Executed
    <2> QED
      BY Zenon, <2>1, <2>2 DEF Projected
  <1>2. at' = at /\ curBatch' = curBatch
    BY Zenon DEF Send, Execute, Reply, state
  <1>3. CASE Send \/ Execute
    BY Zenon, <1>1, <1>2, <1>3 DEF Send, Execute, calls, Projected
  <1>4. CASE Reply
    <2>1. PICK a \in attempts : \E S : /\ attempts' = (attempts \ {a}) \cup S
                                       /\ \A b, c \in S : b = c
      BY Zenon, <1>4 DEF Reply
    <2>2. attempts \ {a} = {}
      BY Zenon DEF Projected
    <2> QED
      BY Zenon, <1>1, <1>2, <2>1, <2>2 DEF Projected
  <1> QED
    BY Zenon, <1>3, <1>4

LEMMA ProjectionStep ==
  ASSUME WholeInv, Undisturbed => Projected, [Next]_vars, Undisturbed'
  PROVE  Projected'
  <1>1. Undisturbed /\ Projected /\ faults' = faults /\ runs' = runs
    BY Zenon, DisturbingStep, StillUndisturbed DEF WholeInv
  <1>2. WaitsOK /\ faults \in Nat
    BY Zenon DEF WholeInv, StateInv, CountersOK
  <1>3. faults + 1 # faults
    BY <1>2
  <1>4. ASSUME NEW u \in Update PROVE at[u] = "idle" /\ at'[u] = "idle"
    BY Zenon, <1>1 DEF Undisturbed
  <1>5. ASSUME UNCHANGED <<projection, request, attempts, at, curBatch, lastAck, fetched, unwritten>>
        PROVE  Projected'
    BY Zenon, <1>1, <1>5, SameProjection DEF Projected, TBIdle
  <1>6. CASE Environment
    <2>1. \A u \in Update : ~IssueCredit(u)
      BY Zenon, <1>2, <1>4, CoroutineFacts DEF IssueCredit, WaitsOK
    <2> QED
      BY Zenon, <1>5, <1>6, <2>1 DEF Environment, SignalHeartbeat, SignalRegisterCluster,
         projection, ledgerVars, state, calls, local, pg
  <1>7. ASSUME NEW u \in Update PROVE ~Handler(u) /\ ~Call(u)
    BY Zenon, <1>4 DEF Handler, SubmitAllocationDone, ResetSoftLimitAlert, Call, AttemptFails,
       Current, LookupAccountBalances, UpsertQuotaSnapshot
  <1>8. ASSUME NEW p \in Coroutine PROVE ~Fault(p)
    BY Zenon, <1>1, <1>3 DEF Fault, AttemptTimesOut, LookupFails, UpdateQuotaSnapshotsFails
  <1>9. CASE UNCHANGED vars
    BY Zenon, <1>5, <1>9 DEF vars, projection, ledgerVars, state, calls, local, pg
  <1>10. ASSUME NEW p \in Coroutine, Call(p) PROVE p = Main
    BY Zenon, <1>7, <1>10 DEF Coroutine
  <1> QED
    BY Zenon, <1>1, <1>6, <1>7, <1>8, <1>9, <1>10, MainLoopProjected, CallProjected, ActivityProjected
       DEF Next

(* Invariant I-4, "PG lags but converges": as long as nothing has failed,  *)
(* no credit has been issued and the workflow has not continued as new,    *)
(* the rows of quota_snapshots are the balances of the wallets whenever    *)
(* all is quiet after a flush, and every wallet that has reached its soft  *)
(* limit has been reported.                                                *)
THEOREM ProjectionsConverge ==
  Spec => [](Undisturbed => SnapshotsConverge /\ SoftLimitIsReported)
  <1>1. Init => WholeInv /\ (Undisturbed => Projected)
    <2> SUFFICES ASSUME Init PROVE WholeInv /\ Projected
      OBVIOUS
    <2>1. at[Main] = "select" /\ ~(lastAck > 0)
      BY CoroutineFacts DEF Init
    <2> QED
      BY Zenon, <2>1, WholeInit DEF Init, LedgerInit, Projected, TBIdle
  <1>2. WholeInv /\ (Undisturbed => Projected) /\ [Next]_vars
        => WholeInv' /\ (Undisturbed => Projected)'
    BY Zenon, WholeStep, ProjectionStep
  <1>3. Projected => SnapshotsConverge /\ SoftLimitIsReported
    BY Zenon DEF Projected, SnapshotsConverge, SoftLimitIsReported, Quiet, Written, Reported,
                 LookupBalances
  <1> QED
    BY <1>1, <1>2, <1>3, PTL DEF Spec

=============================================================================
