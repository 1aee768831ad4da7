----------------------------- MODULE Accounting -----------------------------
(***************************************************************************)
(* TenantAccountingWorkflow, its activities, and the tenant's wallets.     *)
(*                                                                         *)
(* Coroutines.  A Temporal workflow is single-threaded: a coroutine gives  *)
(* up control only when it waits for an activity or for the selector.  The *)
(* main loop is the coroutine Main; each IssueCredit update runs its       *)
(* handler in a coroutine of its own, which can interleave with a flush    *)
(* that waits for an activity.  at[p] names the wait coroutine p is in,    *)
(* and one action takes p from one wait to the next.                       *)
(*                                                                         *)
(* Activities.  An attempt of a TigerBeetle activity is a process of its   *)
(* own: the client call takes no context, so an attempt whose timeout has  *)
(* passed goes on running and its requests may reach TigerBeetle at any    *)
(* later time, or never.  Only the result of the current attempt is        *)
(* delivered.  PostgreSQL calls stop with their context.                   *)
(*                                                                         *)
(* The flush timer may fire whenever Main waits at the selector; module    *)
(* FlushTimer says when it does.                                           *)
(***************************************************************************)
EXTENDS Ledger

CONSTANTS
    ActiveNodes,         \* the gauge resource
    Usage,               \* content of every heartbeat <<cluster, seq>>, per resource
    Update,              \* calls of the IssueCredit update
    Credit,              \* resource and amount of each call
    SoftLimit,           \* quota_configs.soft_limit per resource, or NoLimit
    BatchSizeThreshold,
    MaxAttempts,         \* RetryPolicy.MaximumAttempts
    TwoTo64,             \* 2^64, or less to keep TLC's integers small
    Registering,         \* clusters whose registration is signalled to the workflow
    Ordered,             \* do the first copies of a cluster's heartbeats arrive in order?
    MaxCopies,           \* bound: signals per heartbeat and per registration
    MaxFaults,           \* bound: timeouts and failed reads or writes
    MaxFlushes,          \* bound: flush numbers drawn before the timer stops firing
    MaxRuns              \* bound: Continue-As-New

Heartbeat == DOMAIN Usage

Main == "main"
Coroutine == {Main} \cup Update

NoLimit == -1
NotSeen == -1

ASSUME AccountingAssumption ==
    /\ Heartbeat \subseteq Cluster \X Nat /\ Heartbeat \cap Cluster = {}
    /\ Usage \in [Heartbeat -> [Resource -> Int]]
    /\ Credit \in [Update -> [r : Resource, amount : Int]]
    /\ \A u \in Update : Credit[u].amount < TwoTo64
    /\ SoftLimit \in [Resource -> Nat \cup {NoLimit}]
    /\ BatchSizeThreshold \in Nat \ {0}
    /\ MaxAttempts \in Nat \ {0}
    /\ TwoTo64 \in Nat \ {0}
    /\ Registering \subseteq Cluster /\ Ordered \in BOOLEAN
    /\ MaxCopies \in Nat /\ MaxFaults \in Nat /\ MaxFlushes \in Nat /\ MaxRuns \in Nat
    /\ Main \notin Update

VARIABLES
    hbCh,                \* heartbeat signals not yet received
    regCh,               \* register-cluster signals not yet received
    processedSeqs, curBatch, pendingGaugeIDs, exceededResources, lastAck, flushSeqNo,
    at,                  \* what each coroutine waits for
    reason,              \* what the flush of Main was started for
    callSeq,             \* FlushSeqNo of the current or last call of each coroutine
    tries,               \* attempts made in that call
    attempts,            \* attempts of TigerBeetle activities that still run
    fetched,             \* balances looked up by each coroutine
    unwritten,           \* rows UpdateQuotaSnapshots has still to write
    snapshots,           \* the rows of quota_snapshots
    alertSent,           \* resources whose soft_limit_alert_sent is set
    copies, faults, runs \* the environment's counters

state == <<processedSeqs, curBatch, pendingGaugeIDs, exceededResources, lastAck, flushSeqNo>>
channels == <<hbCh, regCh>>
calls == <<callSeq, tries, attempts>>
local == <<fetched, unwritten>>
pg == <<snapshots, alertSent>>
vars == <<ledgerVars, channels, state, at, reason, calls, local, pg, copies, faults, runs>>

Balance == [credits : Nat, posted : Nat, pending : Int]
NoBalance == [r \in Resource |-> [credits |-> 0, posted |-> 0, pending |-> 0]]

NoGauges == [c \in Cluster |-> NoId]

Init ==
    /\ LedgerInit
    /\ hbCh = <<>> /\ regCh = {}
    /\ processedSeqs = [c \in Cluster |-> NotSeen]
    /\ curBatch = <<>>
    /\ pendingGaugeIDs = NoGauges
    /\ exceededResources = {}
    /\ lastAck = 0 /\ flushSeqNo = 0
    /\ at = [p \in Coroutine |-> IF p = Main THEN "select" ELSE "idle"]
    /\ reason = "none"
    /\ callSeq = [p \in Coroutine |-> 0]
    /\ tries = [p \in Coroutine |-> 0]
    /\ attempts = {}
    /\ fetched = [p \in Coroutine |-> NoBalance]
    /\ unwritten = [p \in Coroutine |-> {}]
    /\ snapshots = NoBalance
    /\ alertSent = {}
    /\ copies = [s \in Heartbeat \cup Registering |-> 0]
    /\ faults = 0 /\ runs = 0

-----------------------------------------------------------------------------
(* Batches of heartbeats.                                                  *)

(* An amount that is passed on as it was received.                         *)
FaultyUint64(x) == x

(* uint64(x) for a signed x.                                               *)
Uint64(x) == x % TwoTo64

(* The positions in I of a heartbeat with the highest sequence number.     *)
Newest(hbs, I) == {i \in I : \A j \in I : hbs[j][2] <= hbs[i][2]}

ClustersOf(hbs) == {hbs[i][1] : i \in DOMAIN hbs}

PositionsOf(hbs, c) == {i \in DOMAIN hbs : hbs[i][1] = c}

(* The heartbeat that comes last in the batch, whatever its number.        *)
FaultyLatest(hbs, c) == {i \in PositionsOf(hbs, c) : \A j \in PositionsOf(hbs, c) : j <= i}

(* latestByCluster[c]: empty when the batch has no heartbeat of c.         *)
Latest(hbs, c) == Newest(hbs, PositionsOf(hbs, c))

UsageSlot(hb, r) ==
    IF r = ActiveNodes \/ Usage[hb][r] = 0 THEN NoTransfer
    ELSE [id |-> DeriveTransferID(hb[1], hb[2], r), kind |-> "usage", r |-> r,
          amount |-> Uint64(Usage[hb][r]), ref |-> NoId]

(* One slot per heartbeat and resource, in the order of the nested loops.  *)
UsageSlots(hbs) ==
    LET n == Len(AllResources)
    IN  [k \in 1..(Len(hbs) * n) |->
            UsageSlot(hbs[((k - 1) \div n) + 1], AllResources[((k - 1) % n) + 1])]

GaugeAmount(hbs, c) ==
    IF Latest(hbs, c) = {} THEN 0
    ELSE Uint64(Usage[hbs[CHOOSE i \in Latest(hbs, c) : TRUE]][ActiveNodes])

VoidSlot(seqNo, old, c) ==
    IF old = NoId THEN NoTransfer
    ELSE [id |-> DeriveGaugeVoidID(seqNo, c, ActiveNodes), kind |-> "void",
          r |-> ActiveNodes, amount |-> 0, ref |-> old]

PendingSlot(seqNo, amount, c) ==
    IF amount = 0 THEN NoTransfer
    ELSE [id |-> DeriveGaugePendingID(seqNo, c, ActiveNodes), kind |-> "pending",
          r |-> ActiveNodes, amount |-> amount, ref |-> NoId]

(* For each cluster, in the order the map iteration happens to take: void  *)
(* the reservation the workflow knows of, then reserve the latest count.   *)
GaugeSlots(a, order) ==
    [k \in 1..(2 * Len(order)) |->
        LET c == order[(k + 1) \div 2]
        IN  IF k % 2 = 1 THEN VoidSlot(a.seqNo, a.gauges[c], c)
            ELSE PendingSlot(a.seqNo, GaugeAmount(a.hbs, c), c)]

(* The clusters of the batch, each once, in any order.                     *)
Orders(hbs) ==
    IF ActiveNodes \notin Resource THEN {<<>>}
    ELSE LET S == ClustersOf(hbs)
         IN  {f \in UNION {[1..n -> S] : n \in 0..Len(hbs)} :
                 /\ \A i, j \in DOMAIN f : f[i] = f[j] => i = j
                 /\ \A c \in S : \E i \in DOMAIN f : f[i] = c}

(* Faulty form: every attempt draws a number of its own.                   *)
FaultyAllocationSlots(a) ==
    LET c == Credit[a.for]
    IN  <<[id |-> DeriveAllocationTransferID(a.seqNo + a.n - 1, c.r), kind |-> "alloc",
           r |-> c.r, amount |-> Uint64(c.amount), ref |-> NoId]>>

AllocationSlots(a) ==
    LET c == Credit[a.for]
    IN  <<[id |-> DeriveAllocationTransferID(a.seqNo, c.r), kind |-> "alloc",
           r |-> c.r, amount |-> Uint64(c.amount), ref |-> NoId]>>

-----------------------------------------------------------------------------
(* What the code makes of TigerBeetle's results.                           *)

Verdict(res) == IF res = "exceeds_credits" THEN "exceeded" ELSE "accepted"

(* PerResource is a map, so the last transfer of a resource decides.       *)
UsageVerdict(r) ==
    LET K == {k \in DOMAIN request.items :
                 request.items[k] # NoTransfer /\ request.items[k].r = r}
        Last == {k \in K : \A j \in K : j <= k}
    IN  IF K = {} THEN "none"
        ELSE IF \E k \in Last : Verdict(request.results[k]) = "exceeded" THEN "exceeded"
        ELSE "accepted"

(* A transfer made by an earlier attempt is not recognised.                *)
FaultyLanded(res) == res = "ok"

Landed(res) == res \in {"ok", "exists"}

(* GaugeUpdates: the reservation of each cluster of the batch, or NoId.    *)
GaugeUpdates(a) ==
    [c \in Cluster |->
        LET id == DeriveGaugePendingID(a.seqNo, c, ActiveNodes)
        IN  IF c \notin ClustersOf(a.hbs) THEN a.gauges[c]
            ELSE IF \E k \in DOMAIN request.items :
                       /\ request.items[k] # NoTransfer /\ request.items[k].id = id
                       /\ Landed(request.results[k])
            THEN id ELSE NoId]

(* submitBatch and SubmitGaugePendingUpdates return an error on a result   *)
(* they do not list.                                                       *)
Unexpected == \E k \in DOMAIN request.results : request.results[k] = "id_already_failed"

AfterUsage(a) ==
    [a EXCEPT !.stage = IF ActiveNodes \in Resource THEN "gauge" ELSE "done",
              !.per = [r \in Resource |-> UsageVerdict(r)]]

AfterGauge(a) ==
    [a EXCEPT !.stage = "done",
              !.per[ActiveNodes] = Verdict(request.results[Len(request.results)]),
              !.gauges = GaugeUpdates(a)]

AfterReply(a) ==
    IF Unexpected THEN [a EXCEPT !.stage = "error"]
    ELSE IF a.stage = "usage" THEN AfterUsage(a)
    ELSE IF a.stage = "gauge" THEN AfterGauge(a)
    ELSE [a EXCEPT !.stage = "done"]

-----------------------------------------------------------------------------
(* Attempts.                                                               *)

Key(a) == <<a.seqNo, a.n>>

(* The attempt whose result coroutine p waits for.                         *)
Current(p, a) == at[p] = "submit" /\ a.for = p /\ a.seqNo = callSeq[p] /\ a.n = tries[p]

Ended(a) == a.stage \in {"done", "error"}

NewAttempt(p, seqNo, n, hbs) ==
    [for |-> p, seqNo |-> seqNo, n |-> n, hbs |-> hbs,
     stage |-> IF p = Main THEN "usage" ELSE "alloc",
     gauges |-> IF p = Main THEN pendingGaugeIDs ELSE NoGauges,
     per |-> [r \in Resource |-> "none"]]

SendUsage(a) == a.stage = "usage" /\ CreateTransfers(Key(a), UsageSlots(a.hbs))

SendGauge(a) ==
    /\ a.stage = "gauge"
    /\ \E order \in Orders(a.hbs) : CreateTransfers(Key(a), GaugeSlots(a, order))

SendAllocation(a) == a.stage = "alloc" /\ CreateTransfers(Key(a), AllocationSlots(a))

Send ==
    /\ \E a \in attempts : SendUsage(a) \/ SendGauge(a) \/ SendAllocation(a)
    /\ UNCHANGED <<channels, state, at, reason, calls, local, pg, copies, faults, runs>>

Execute ==
    /\ ApplyNext
    /\ UNCHANGED <<channels, state, at, reason, calls, local, pg, copies, faults, runs>>

(* The attempt goes on with the response; when it ends and nobody waits    *)
(* for it any more, nothing is left of it.                                 *)
Reply ==
    /\ Respond
    /\ \E a \in attempts :
          /\ Key(a) = request.from
          /\ LET b == AfterReply(a)
                 gone == Ended(b) /\ ~ \E p \in Coroutine : Current(p, b)
             IN  attempts' = (attempts \ {a}) \cup (IF gone THEN {} ELSE {b})
    /\ UNCHANGED <<channels, state, at, reason, callSeq, tries, local, pg, copies, faults, runs>>

-----------------------------------------------------------------------------
(* TigerBeetle and the workflow are between two steps.  At "continue" the  *)
(* main loop has not yielded: it is about to act on the suggestion to      *)
(* continue as new.                                                        *)
Yielded == TBIdle /\ at[Main] # "continue"

(* The environment: the gateway and the provisioning workflow.             *)

SignalHeartbeat(hb) ==
    /\ Yielded
    /\ copies[hb] < MaxCopies
    /\ Ordered => \A e \in Heartbeat : e[1] = hb[1] /\ e[2] < hb[2] => copies[e] > 0
    /\ copies' = [copies EXCEPT ![hb] = @ + 1]
    /\ hbCh' = Append(hbCh, hb)
    /\ UNCHANGED <<ledgerVars, regCh, state, at, reason, calls, local, pg, faults, runs>>

SignalRegisterCluster(c) ==
    /\ Yielded
    /\ c \in Registering \ regCh /\ copies[c] < MaxCopies
    /\ copies' = [copies EXCEPT ![c] = @ + 1]
    /\ regCh' = regCh \cup {c}
    /\ UNCHANGED <<ledgerVars, hbCh, state, at, reason, calls, local, pg, faults, runs>>

-----------------------------------------------------------------------------
(* The main loop.                                                          *)

(* flushBatch up to the call of SubmitTBBatch.                             *)
StartFlush(batch, why) ==
    /\ flushSeqNo' = flushSeqNo + 1
    /\ callSeq' = [callSeq EXCEPT ![Main] = flushSeqNo + 1]
    /\ tries' = [tries EXCEPT ![Main] = 1]
    /\ attempts' = attempts \cup {NewAttempt(Main, flushSeqNo + 1, 1, batch)}
    /\ at' = [at EXCEPT ![Main] = "submit"]
    /\ reason' = why

(* The check after Select: the server may suggest Continue-As-New.         *)
AfterSelect == {"select"} \cup (IF runs < MaxRuns THEN {"continue"} ELSE {})

NoFlush ==
    /\ \E w \in AfterSelect : at' = [at EXCEPT ![Main] = w]
    /\ UNCHANGED <<flushSeqNo, calls, reason>>

(* One too many.                                                           *)
FaultySeen(hb) == processedSeqs[hb[1]] # NotSeen /\ hb[2] <= processedSeqs[hb[1]] + 1

Seen(hb) == processedSeqs[hb[1]] # NotSeen /\ hb[2] <= processedSeqs[hb[1]]

ReceiveHeartbeat ==
    /\ Yielded
    /\ at[Main] = "select" /\ hbCh # <<>>
    /\ hbCh' = Tail(hbCh)
    /\ LET hb == Head(hbCh)
           batch == Append(curBatch, hb)
       IN  IF Seen(hb) THEN UNCHANGED curBatch /\ NoFlush
           ELSE /\ curBatch' = batch
                /\ IF Len(batch) >= BatchSizeThreshold
                   THEN StartFlush(batch, "threshold") ELSE NoFlush
    /\ UNCHANGED <<ledgerVars, regCh, processedSeqs, pendingGaugeIDs, exceededResources,
                   lastAck, local, pg, copies, faults, runs>>

(* A Selector takes the first of its cases that is ready.                  *)
ReceiveRegister(c) ==
    /\ Yielded
    /\ at[Main] = "select" /\ hbCh = <<>> /\ c \in regCh
    /\ NoFlush
    /\ regCh' = regCh \ {c}
    /\ processedSeqs' = IF processedSeqs[c] = NotSeen
                        THEN [processedSeqs EXCEPT ![c] = 0] ELSE processedSeqs
    /\ UNCHANGED <<ledgerVars, hbCh, curBatch, pendingGaugeIDs, exceededResources, lastAck,
                   local, pg, copies, faults, runs>>

TimerFires ==
    /\ Yielded
    /\ at[Main] = "select" /\ hbCh = <<>> /\ regCh = {}
    /\ IF curBatch = <<>> \/ flushSeqNo >= MaxFlushes THEN NoFlush
       ELSE StartFlush(curBatch, "timer")
    /\ UNCHANGED <<ledgerVars, channels, processedSeqs, curBatch, pendingGaugeIDs,
                   exceededResources, lastAck, local, pg, copies, faults, runs>>

(* CarryFlushSeqNo left out of the input of the new run.                   *)
FaultyCarryFlushSeqNo == 0

CarryFlushSeqNo == flushSeqNo

(* A new run starts with the carried state.  What the channels and the     *)
(* batch still held is gone, and so is every handler that has not ended.   *)
NewRun ==
    /\ curBatch' = <<>>
    /\ hbCh' = <<>> /\ regCh' = {}
    /\ at' = [p \in Coroutine |->
                 IF p = Main THEN "select"
                 ELSE IF at[p] \in {"idle", "ok", "error"} THEN at[p] ELSE "aborted"]
    /\ reason' = "none"
    /\ fetched' = [p \in Coroutine |-> NoBalance]
    /\ unwritten' = [p \in Coroutine |-> {}]
    /\ runs' = runs + 1
    /\ flushSeqNo' = CarryFlushSeqNo

(* flushBatch returns, with or without an error, to the code that follows  *)
(* it in the main loop.                                                    *)
FlushReturns ==
    IF reason = "continueAsNew" THEN NewRun
    ELSE /\ \E w \in AfterSelect : at' = [at EXCEPT ![Main] = w]
         /\ reason' = "none"
         /\ fetched' = [fetched EXCEPT ![Main] = NoBalance]
         /\ UNCHANGED <<unwritten, channels, curBatch, flushSeqNo, runs>>

ContinueAsNew ==
    /\ TBIdle
    /\ at[Main] = "continue"
    /\ IF curBatch = <<>>
       THEN NewRun /\ UNCHANGED calls
       ELSE StartFlush(curBatch, "continueAsNew")
            /\ UNCHANGED <<channels, curBatch, local, runs>>
    /\ UNCHANGED <<ledgerVars, processedSeqs, pendingGaugeIDs, exceededResources, lastAck,
                   pg, copies, faults>>

(* The highest of n and the sequence numbers at the positions in I.        *)
Highest(hbs, I, n) ==
    LET J == {i \in Newest(hbs, I) : hbs[i][2] > n}
    IN  IF J = {} THEN n ELSE hbs[CHOOSE i \in J : TRUE][2]

(* Only clusters that have been seen before move on.                       *)
FaultyProcessedAfter(hbs, c) ==
    IF processedSeqs[c] = NotSeen THEN NotSeen
    ELSE Highest(hbs, PositionsOf(hbs, c), processedSeqs[c])

ProcessedAfter(hbs, c) == Highest(hbs, PositionsOf(hbs, c), processedSeqs[c])

AckAfter(hbs) == Highest(hbs, DOMAIN hbs, lastAck)

(* The two branches swapped.                                               *)
FaultyExceededAfter(per) ==
    {r \in Resource : per[r] = "accepted" \/ (per[r] = "none" /\ r \in exceededResources)}

ExceededAfter(per) ==
    {r \in Resource : per[r] = "exceeded" \/ (per[r] = "none" /\ r \in exceededResources)}

(* flushBatch from the result of SubmitTBBatch to the next call.           *)
SubmitTBBatchDone ==
    /\ Yielded
    /\ \E a \in attempts :
          /\ Current(Main, a) /\ a.stage = "done"
          /\ exceededResources' = ExceededAfter(a.per)
          /\ pendingGaugeIDs' = a.gauges
          /\ processedSeqs' = [c \in Cluster |-> ProcessedAfter(curBatch, c)]
          /\ lastAck' = AckAfter(curBatch)
          /\ curBatch' = <<>>
          /\ attempts' = attempts \ {a}
    /\ at' = [at EXCEPT ![Main] = "lookup"]
    /\ UNCHANGED <<ledgerVars, channels, flushSeqNo, reason, callSeq, tries, local, pg,
                   copies, faults, runs>>

-----------------------------------------------------------------------------
(* The IssueCredit update.                                                 *)

(* The validator passes and flushAdjustment runs up to its first call.     *)
IssueCredit(u) ==
    /\ Yielded
    /\ at[u] = "idle" /\ Credit[u].amount > 0
    /\ flushSeqNo' = flushSeqNo + 1
    /\ callSeq' = [callSeq EXCEPT ![u] = flushSeqNo + 1]
    /\ tries' = [tries EXCEPT ![u] = 1]
    /\ attempts' = attempts \cup {NewAttempt(u, flushSeqNo + 1, 1, <<>>)}
    /\ at' = [at EXCEPT ![u] = "submit"]
    /\ UNCHANGED <<ledgerVars, channels, processedSeqs, curBatch, pendingGaugeIDs,
                   exceededResources, lastAck, reason, local, pg, copies, faults, runs>>

SubmitAllocationDone(u) ==
    /\ Yielded
    /\ \E a \in attempts :
          /\ Current(u, a) /\ a.stage = "done"
          /\ attempts' = attempts \ {a}
    /\ exceededResources' = exceededResources \ {Credit[u].r}
    /\ at' = [at EXCEPT ![u] = "lookup"]
    /\ UNCHANGED <<ledgerVars, channels, processedSeqs, curBatch, pendingGaugeIDs, lastAck,
                   flushSeqNo, reason, callSeq, tries, local, pg, copies, faults, runs>>

-----------------------------------------------------------------------------
(* Retries, and the calls both coroutines make.                            *)

(* Temporal schedules the next attempt with the same input, or the call    *)
(* fails: flushBatch and flushAdjustment then return the error.            *)
RetryOrGiveUp(p, others) ==
    IF tries[p] < MaxAttempts
    THEN /\ tries' = [tries EXCEPT ![p] = @ + 1]
         /\ attempts' = others \cup
               {NewAttempt(p, callSeq[p], tries[p] + 1, IF p = Main THEN curBatch ELSE <<>>)}
         /\ UNCHANGED <<channels, curBatch, flushSeqNo, at, reason, local, runs>>
    ELSE /\ attempts' = others
         /\ UNCHANGED tries
         /\ IF p = Main THEN FlushReturns
            ELSE /\ at' = [at EXCEPT ![p] = "error"]
                 /\ UNCHANGED <<channels, curBatch, flushSeqNo, reason, local, runs>>

AttemptFails(p) ==
    /\ Yielded
    /\ \E a \in attempts :
          /\ Current(p, a) /\ a.stage = "error"
          /\ RetryOrGiveUp(p, attempts \ {a})
    /\ UNCHANGED <<ledgerVars, processedSeqs, pendingGaugeIDs, exceededResources, lastAck,
                   callSeq, pg, copies, faults>>

(* The start-to-close timeout passes, or the worker dies; what is left of  *)
(* the attempt may still run.                                              *)
AttemptTimesOut(p) ==
    /\ Yielded
    /\ faults < MaxFaults
    /\ faults' = faults + 1
    /\ \E a \in attempts :
          /\ Current(p, a)
          /\ RetryOrGiveUp(p, IF Ended(a) THEN attempts \ {a} ELSE attempts)
    /\ UNCHANGED <<ledgerVars, processedSeqs, pendingGaugeIDs, exceededResources, lastAck,
                   callSeq, pg, copies>>

(* Reservations left out of the balances.                                  *)
FaultyLookupBalances ==
    [r \in Resource |-> [credits |-> credits[r], posted |-> posted[r], pending |-> 0]]

LookupBalances ==
    [r \in Resource |-> [credits |-> credits[r], posted |-> posted[r], pending |-> pending[r]]]

LookupAccountBalances(p) ==
    /\ Yielded
    /\ at[p] = "lookup"
    /\ fetched' = [fetched EXCEPT ![p] = LookupBalances]
    /\ unwritten' = [unwritten EXCEPT ![p] = Resource]
    /\ at' = [at EXCEPT ![p] = "snapshots"]
    /\ UNCHANGED <<ledgerVars, channels, state, reason, calls, pg, copies, faults, runs>>

(* The call fails for good; flushBatch and flushAdjustment return nil.     *)
LookupFails(p) ==
    /\ Yielded
    /\ at[p] = "lookup" /\ faults < MaxFaults
    /\ faults' = faults + 1
    /\ IF p = Main THEN FlushReturns
       ELSE /\ at' = [at EXCEPT ![p] = "ok"]
            /\ UNCHANGED <<channels, curBatch, flushSeqNo, reason, local, runs>>
    /\ UNCHANGED <<ledgerVars, processedSeqs, pendingGaugeIDs, exceededResources, lastAck,
                   calls, pg, copies>>

(* The handler goes on as a flush does.                                    *)
FaultyAfterSnapshots(p) == "softLimits"

(* The activity that follows UpdateQuotaSnapshots in each coroutine.       *)
AfterSnapshots(p) == IF p = Main THEN "softLimits" ELSE "resetAlert"

(* UpdateQuotaSnapshots upserts one row at a time, in no fixed order.      *)
UpsertQuotaSnapshot(p, r) ==
    /\ Yielded
    /\ at[p] = "snapshots" /\ r \in unwritten[p]
    /\ snapshots' = [snapshots EXCEPT ![r] = fetched[p][r]]
    /\ unwritten' = [unwritten EXCEPT ![p] = @ \ {r}]
    /\ at' = [at EXCEPT ![p] = IF unwritten[p] = {r} THEN AfterSnapshots(p) ELSE @]
    /\ UNCHANGED <<ledgerVars, channels, state, reason, calls, fetched, alertSent, copies,
                   faults, runs>>

(* An attempt of UpdateQuotaSnapshots fails between two rows; the next one *)
(* starts again, and after the last one the rest is not written.           *)
UpdateQuotaSnapshotsFails(p) ==
    /\ Yielded
    /\ at[p] = "snapshots" /\ faults < MaxFaults
    /\ faults' = faults + 1
    /\ \/ unwritten' = [unwritten EXCEPT ![p] = Resource] /\ UNCHANGED at
       \/ unwritten' = [unwritten EXCEPT ![p] = {}]
          /\ at' = [at EXCEPT ![p] = AfterSnapshots(p)]
    /\ UNCHANGED <<ledgerVars, channels, state, reason, calls, fetched, pg, copies, runs>>

(* Reached means exceeded.                                                 *)
FaultyCrossing ==
    {r \in Resource \ alertSent :
        /\ SoftLimit[r] # NoLimit
        /\ fetched[Main][r].posted + fetched[Main][r].pending > SoftLimit[r]}

(* The resources whose fetched balance has reached the soft limit and that *)
(* have not been reported.                                                 *)
Crossing ==
    {r \in Resource \ alertSent :
        /\ SoftLimit[r] # NoLimit
        /\ fetched[Main][r].posted + fetched[Main][r].pending >= SoftLimit[r]}

CheckSoftLimits ==
    /\ Yielded
    /\ at[Main] = "softLimits"
    /\ \E marked \in SUBSET Crossing :
          /\ marked # Crossing => faults < MaxFaults
          /\ faults' = IF marked = Crossing THEN faults ELSE faults + 1
          /\ alertSent' = alertSent \cup marked
    /\ FlushReturns
    /\ UNCHANGED <<ledgerVars, processedSeqs, pendingGaugeIDs, exceededResources, lastAck,
                   calls, snapshots, copies>>

ResetSoftLimitAlert(u) ==
    /\ Yielded
    /\ at[u] = "resetAlert"
    /\ \/ alertSent' = alertSent \ {Credit[u].r} /\ UNCHANGED faults
       \/ faults < MaxFaults /\ faults' = faults + 1 /\ UNCHANGED alertSent
    /\ at' = [at EXCEPT ![u] = "ok"]
    /\ fetched' = [fetched EXCEPT ![u] = NoBalance]
    /\ UNCHANGED <<ledgerVars, channels, state, reason, calls, unwritten, snapshots, copies,
                   runs>>

-----------------------------------------------------------------------------
Environment ==
    \/ \E hb \in Heartbeat : SignalHeartbeat(hb)
    \/ \E c \in Cluster : SignalRegisterCluster(c)
    \/ \E u \in Update : IssueCredit(u)

(* The steps of a worker that Temporal sees to: the next step of each      *)
(* coroutine, and what becomes of the attempt it waits for.                *)
MainLoop ==
    \/ ReceiveHeartbeat
    \/ \E c \in Cluster : ReceiveRegister(c)
    \/ TimerFires
    \/ ContinueAsNew
    \/ SubmitTBBatchDone
    \/ CheckSoftLimits

Handler(u) == SubmitAllocationDone(u) \/ ResetSoftLimitAlert(u)

Call(p) ==
    \/ AttemptFails(p)
    \/ LookupAccountBalances(p)
    \/ \E r \in Resource : UpsertQuotaSnapshot(p, r)

Fault(p) == AttemptTimesOut(p) \/ LookupFails(p) \/ UpdateQuotaSnapshotsFails(p)

Next ==
    \/ Environment
    \/ MainLoop
    \/ \E u \in Update : Handler(u)
    \/ \E p \in Coroutine : Call(p) \/ Fault(p)
    \/ Send \/ Execute \/ Reply

Spec == Init /\ [][Next]_vars

(* What may be counted on: a worker is there, so a coroutine that can go   *)
(* on does and the activity it waits for is run; TigerBeetle answers; the  *)
(* flush timer fires; a received signal is handed to the selector.         *)
SendFor(p) == Send /\ \E a \in attempts : Current(p, a) /\ request'.from = Key(a)

Fairness ==
    /\ WF_vars(ReceiveHeartbeat) /\ WF_vars(TimerFires)
    /\ WF_vars(ContinueAsNew) /\ WF_vars(SubmitTBBatchDone)
    /\ WF_vars(CheckSoftLimits)
    /\ \A u \in Update : WF_vars(Handler(u))
    /\ \A p \in Coroutine : WF_vars(Call(p)) /\ WF_vars(SendFor(p))
    /\ WF_vars(Execute) /\ WF_vars(Reply)

-----------------------------------------------------------------------------
MainWait == {"select", "continue", "submit", "lookup", "snapshots", "softLimits"}
HandlerWait == {"submit", "lookup", "snapshots", "resetAlert"}

Attempt ==
    [for : Coroutine, seqNo : Nat, n : Nat, hbs : Seq(Heartbeat),
     stage : {"usage", "gauge", "alloc", "done", "error"},
     gauges : [Cluster -> TransferId \cup {NoId}],
     per : [Resource -> {"none", "accepted", "exceeded"}]]

TypeOK ==
    /\ LedgerTypeOK
    /\ hbCh \in Seq(Heartbeat) /\ regCh \in SUBSET Cluster
    /\ processedSeqs \in [Cluster -> Nat \cup {NotSeen}]
    /\ curBatch \in Seq(Heartbeat)
    /\ pendingGaugeIDs \in [Cluster -> TransferId \cup {NoId}]
    /\ exceededResources \in SUBSET Resource
    /\ lastAck \in Nat /\ flushSeqNo \in Nat
    /\ at \in [Coroutine -> MainWait \cup HandlerWait \cup {"idle", "ok", "error", "aborted"}]
    /\ at[Main] \in MainWait /\ \A u \in Update : at[u] \notin MainWait \ HandlerWait
    /\ reason \in {"none", "timer", "threshold", "continueAsNew"}
    /\ callSeq \in [Coroutine -> Nat] /\ tries \in [Coroutine -> Nat]
    /\ attempts \in SUBSET Attempt
    /\ fetched \in [Coroutine -> [Resource -> Balance]]
    /\ unwritten \in [Coroutine -> SUBSET Resource]
    /\ snapshots \in [Resource -> Balance]
    /\ alertSent \in SUBSET Resource
    /\ copies \in [Heartbeat \cup Registering -> Nat] /\ faults \in Nat /\ runs \in Nat

-----------------------------------------------------------------------------
(* Heartbeats.                                                             *)

Decided(hb) ==
    \A r \in Resource : UsageSlot(hb, r) # NoTransfer =>
        LET id == DeriveTransferID(hb[1], hb[2], r)
        IN  id \in failed \/ \E t \in committed : t.id = id

Waiting(hb) ==
    \/ \E i \in DOMAIN hbCh : hbCh[i] = hb
    \/ \E i \in DOMAIN curBatch : curBatch[i] = hb

(* No usage is lost: a heartbeat that was signalled waits in the channel   *)
(* or in the batch until TigerBeetle has accepted or refused every one of  *)
(* its transfers, through failed flushes, retries and duplicates (I-2).    *)
NoUsageLost == \A hb \in Heartbeat : copies[hb] > 0 => Waiting(hb) \/ Decided(hb)

(* Across retries and Continue-As-New no cluster's processed sequence      *)
(* number, no acknowledgement and no flush number ever goes back: a        *)
(* heartbeat once processed stays deduplicated and a flush number is never *)
(* drawn again (I-5).                                                      *)
NeverBack ==
    /\ \A c \in Cluster : processedSeqs'[c] >= processedSeqs[c]
    /\ lastAck' >= lastAck
    /\ flushSeqNo' >= flushSeqNo
    /\ \A p \in Coroutine : callSeq'[p] # callSeq[p] => callSeq'[p] > flushSeqNo

NeverGoesBack == [][NeverBack]_vars

(* workflow_accounting.go:359-361: a heartbeat is processed once its batch *)
(* is submitted, "regardless of whether individual transfers were accepted *)
(* or exceeded credits": between flushes, no refused heartbeat is left in  *)
(* the batch.                                                              *)
RefusedIsProcessed ==
    at[Main] = "select" =>
        \A i \in DOMAIN curBatch : \A r \in Resource :
            DeriveTransferID(curBatch[i][1], curBatch[i][2], r) \notin failed

(* Every heartbeat that reaches the workflow is eventually processed, as   *)
(* long as the workflow does not continue as new.                          *)
HeartbeatsAreProcessed ==
    \A hb \in Heartbeat : []<>(copies[hb] > 0 => Seen(hb) \/ runs > 0)

-----------------------------------------------------------------------------
(* Gauge reservations.                                                     *)

Reservations(c) == {t \in LivePending : t.id[3] = c}

(* One reservation per cluster: with nothing left to flush, the only       *)
(* reservation a cluster holds is the one the workflow will void next      *)
(* time, and it is for the node count of the cluster's newest heartbeat.   *)
(* It is checked with one cluster and room for every reservation, or       *)
(* without faults.  Outside that it does not hold: when the reservation of *)
(* one cluster lands, that of another is refused and the result is lost,   *)
(* each retry meets id_already_failed (transfers.go:201-224), the flush    *)
(* fails, and the workflow never learns of the reservation that landed.    *)
OneReservationPerCluster ==
    at[Main] = "select" /\ curBatch = <<>> =>
        \A c \in Cluster :
            /\ {t.id : t \in Reservations(c)} = {pendingGaugeIDs[c]} \ {NoId}
            /\ \A t \in Reservations(c) : t.amount = Usage[<<c, processedSeqs[c]>>][ActiveNodes]

-----------------------------------------------------------------------------
(* Credits.                                                                *)

CreditTransfer(u) ==
    [id |-> DeriveAllocationTransferID(callSeq[u], Credit[u].r), kind |-> "alloc",
     r |-> Credit[u].r, amount |-> Credit[u].amount, ref |-> NoId]

Acknowledged(u) == at[u] \in {"lookup", "snapshots", "resetAlert", "ok"}

(* IssueTenantCredit gives "a real ack": when the update goes on, or ends  *)
(* well, its credit is in the books, at its amount and under an id of its  *)
(* own, whatever was retried and whichever run of the workflow it was in.  *)
AcknowledgedCreditIsPosted ==
    \A u \in Update : Acknowledged(u) =>
        /\ CreditTransfer(u) \in committed
        /\ \A v \in Update \ {u} : at[v] # "idle" => callSeq[v] # callSeq[u]

(* A call of IssueTenantCredit does not hang.                              *)
UpdatesEnd ==
    \A u \in Update : []<>(at[u] \in {"idle", "ok", "error", "aborted"})

-----------------------------------------------------------------------------
(* Projections: exceededResources, quota_snapshots and the alerts.         *)

(* A resource is reported exceeded only if TigerBeetle really refused a    *)
(* transfer of it.                                                         *)
ExceededIsJustified == \A r \in exceededResources : \E id \in failed : id[4] = r

Quiet ==
    /\ TBIdle /\ attempts = {} /\ hbCh = <<>> /\ curBatch = <<>>
    /\ at[Main] = "select" /\ \A u \in Update : at[u] \notin HandlerWait

(* I-4, "PG lags but converges": when all is quiet after a flush, the rows *)
(* of quota_snapshots are the balances of the wallets.                     *)
SnapshotsConverge ==
    Quiet /\ lastAck > 0 =>
        \A r \in Resource :
            snapshots[r] = [credits |-> credits[r], posted |-> posted[r], pending |-> pending[r]]

(* When all is quiet, a wallet whose use has reached its soft limit has    *)
(* been reported.                                                          *)
SoftLimitIsReported ==
    Quiet => \A r \in Resource :
        SoftLimit[r] # NoLimit /\ lastAck > 0 /\ Used(r) >= SoftLimit[r] => r \in alertSent
=============================================================================
