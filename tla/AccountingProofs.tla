-------------------------- MODULE AccountingProofs --------------------------
(* The ledger and the workflow's use of it, for any heartbeats, credits,   *)
(* numbers of attempts, faults and runs.                                   *)
(*                                                                         *)
(* The first part is about the ledger alone: LedgerInv is inductive under  *)
(* LedgerStep, so the hard limit holds for every client.  HardLimit alone  *)
(* is not inductive: that a void does not release more than was reserved   *)
(* needs no invariant (a release only lowers the use of a wallet), but     *)
(* that the amounts are naturals does, and that is part of LedgerTypeOK.   *)
(*                                                                         *)
(* The second part is that the accounting workflow uses the ledger as it   *)
(* may be used: every request is a batch of well-formed transfers.  With   *)
(* that, what is proved of the ledger holds of the system.  The invariant  *)
(* follows the data from the signals through the batch and the attempts to *)
(* the requests; of an attempt it also says which of the three requests it *)
(* may still make.                                                         *)
(*                                                                         *)
(* The third part is that the ledger is a set of idempotent prepaid        *)
(* wallets.  The mapping reads the reservations held off the books (the    *)
(* pending transfers that no void names); that a transfer moves the mapped *)
(* state as one wallet operation does needs the invariant of the first     *)
(* part: an id that enters the books is new, no void in the books names it *)
(* yet, and the reservation that a void names is unique.                   *)
EXTENDS Accounting, LedgerWallets, TLAPS

(* The facts about sequences that all proofs about the ledger rest on.     *)
LEMMA ElementOfSeq ==
  ASSUME NEW S, NEW s \in Seq(S), NEW n \in 1..Len(s)
  PROVE  s[n] \in S
  OBVIOUS

LEMMA LenProperties ==
  ASSUME NEW S, NEW s \in Seq(S)
  PROVE  Len(s) \in Nat /\ DOMAIN s = 1..Len(s)
  OBVIOUS

LEMMA AppendProperties ==
  ASSUME NEW S, NEW s \in Seq(S), NEW e \in S
  PROVE  Append(s, e) \in Seq(S) /\ Len(Append(s, e)) = Len(s) + 1
  OBVIOUS

LEMMA EmptySeq == ASSUME NEW S PROVE <<>> \in Seq(S) /\ Len(<<>>) = 0
  OBVIOUS

LEMMA InitInv == LedgerInit => LedgerInv
  <1> SUFFICES ASSUME LedgerInit PROVE LedgerInv
    OBVIOUS
  <1>1. LedgerTypeOK
    BY ResourcesAssumption DEF LedgerInit, LedgerTypeOK, NoRequest, Request
  <1>2. HardLimit
    BY ResourcesAssumption DEF LedgerInit, HardLimit, Used
  <1>3. OneEntryPerId /\ RefusedIsNotCommitted /\ VoidsAreMatched
    BY Zenon DEF LedgerInit, OneEntryPerId, RefusedIsNotCommitted, VoidsAreMatched
  <1> QED
    BY Zenon, <1>1, <1>2, <1>3 DEF LedgerInv

(* The transfer that ApplyNext executes.                                   *)
Executing == request.items[Len(request.results) + 1]

LEMMA ExecutingSlot ==
  ASSUME LedgerTypeOK, ApplyNext
  PROVE  /\ request \in Request
         /\ Executing \in Slot
         /\ Outcome(Executing) \in Result
         /\ Outcome(Executing) # "skipped" => Executing \in Transfer
  <1>1. request \in Request
    BY Zenon DEF ApplyNext, LedgerTypeOK, TBIdle
  <1>2. request.items \in Seq(Slot) /\ request.results \in Seq(Result)
    BY Zenon, <1>1 DEF Request
  <1>3. Len(request.results) + 1 \in 1..Len(request.items)
    BY <1>2, LenProperties DEF ApplyNext
  <1>4. Executing \in Slot
    BY Zenon, <1>2, <1>3, ElementOfSeq DEF Executing
  <1>5. Outcome(Executing) \in Result
    BY Zenon DEF Outcome, Result
  <1>6. Outcome(Executing) # "skipped" => Executing \in Transfer
    BY Zenon, <1>4 DEF Outcome, Slot
  <1> QED
    BY Zenon, <1>1, <1>4, <1>5, <1>6

LEMMA RequestTypeOK ==
  ASSUME LedgerTypeOK, ApplyNext
  PROVE  /\ request' \in Request
         /\ Len(request'.results) <= Len(request'.items)
  <1>1. request \in Request /\ Outcome(Executing) \in Result
    BY Zenon, ExecutingSlot
  <1>2. request' = [from |-> request.from, items |-> request.items,
                   results |-> Append(request.results, Outcome(Executing))]
    BY Zenon DEF ApplyNext, Executing
  <1>3. request.results \in Seq(Result) /\ request.items \in Seq(Slot)
    BY Zenon, <1>1 DEF Request
  <1>4. /\ Append(request.results, Outcome(Executing)) \in Seq(Result)
        /\ Len(Append(request.results, Outcome(Executing))) = Len(request.results) + 1
    BY Zenon, <1>1, <1>3, AppendProperties
  <1>5. Len(request.results) < Len(request.items)
    BY Zenon DEF ApplyNext
  <1>6. Len(request.results) \in Nat /\ Len(request.items) \in Nat
    BY Zenon, <1>3, LenProperties
  <1> QED
    BY <1>1, <1>2, <1>4, <1>5, <1>6 DEF Request

LEMMA CommitTypeOK ==
  ASSUME LedgerTypeOK, NEW t \in Transfer, Outcome(t) = "ok", Commit(t)
  PROVE  /\ credits' \in [Resource -> Nat]
         /\ posted' \in [Resource -> Nat]
         /\ pending' \in [Resource -> Int]
         /\ committed' \in SUBSET Transfer
  <1>1. t.r \in Resource /\ t.amount \in Nat
    BY Zenon DEF Transfer
  <1>2. credits' \in [Resource -> Nat] /\ posted' \in [Resource -> Nat]
    <2>1. credits \in [Resource -> Nat] /\ posted \in [Resource -> Nat]
      BY Zenon DEF LedgerTypeOK
    <2>2. credits' = credits \/ credits' = [credits EXCEPT ![t.r] = @ + t.amount]
      BY Zenon DEF Commit
    <2>3. posted' = posted \/ posted' = [posted EXCEPT ![t.r] = @ + t.amount]
      BY Zenon DEF Commit
    <2>4. credits' \in [Resource -> Nat]
      BY <1>1, <2>1, <2>2
    <2>5. posted' \in [Resource -> Nat]
      BY <1>1, <2>1, <2>3
    <2> QED
      BY Zenon, <2>4, <2>5
  <1>3. committed' \in SUBSET Transfer
    BY Zenon DEF LedgerTypeOK, Commit
  <1>4. CASE t.kind # "void"
    <2>1. \/ pending' = pending
          \/ pending' = [pending EXCEPT ![t.r] = @ + t.amount]
      BY Zenon, <1>4 DEF Commit
    <2>2. pending \in [Resource -> Int]
      BY Zenon DEF LedgerTypeOK
    <2>3. pending' \in [Resource -> Int]
      BY <1>1, <2>1, <2>2
    <2> QED
      BY Zenon, <1>2, <1>3, <2>3
  <1>5. CASE t.kind = "void"
    <2> DEFINE p == Released(t)
    <2>1. PendingWith(t.ref) # {}
      BY Zenon, <1>5 DEF Outcome
    <2>2. p \in PendingWith(t.ref)
      BY Zenon, <2>1 DEF Released
    <2>3. p.r \in Resource /\ p.amount \in Nat
      BY Zenon, <2>2 DEF PendingWith, LedgerTypeOK, Transfer
    <2>4. pending' = [pending EXCEPT ![p.r] = @ - p.amount]
      BY Zenon, <1>5 DEF Commit
    <2>5. pending \in [Resource -> Int]
      BY Zenon DEF LedgerTypeOK
    <2>6. pending' \in [Resource -> Int]
      BY <2>3, <2>4, <2>5
    <2> QED
      BY Zenon, <1>2, <1>3, <2>6
  <1> QED
    BY Zenon, <1>4, <1>5

(* An accepted transfer keeps the use of every wallet within its credits.  *)
LEMMA CommitHardLimit ==
  ASSUME LedgerTypeOK, HardLimit, NEW t \in Transfer, Outcome(t) = "ok", Commit(t)
  PROVE  HardLimit'
  <1> SUFFICES ASSUME NEW r \in Resource PROVE Used(r)' <= credits'[r]
    BY Zenon DEF HardLimit
  <1>1. t.r \in Resource /\ t.amount \in Nat /\ t # NoTransfer
    BY DEF Transfer, NoTransfer
  <1>2. /\ credits \in [Resource -> Nat]
        /\ posted \in [Resource -> Nat]
        /\ pending \in [Resource -> Int]
    BY Zenon DEF LedgerTypeOK
  <1>3. posted[r] + pending[r] <= credits[r]
    BY Zenon DEF HardLimit, Used
  <1> SUFFICES posted'[r] + pending'[r] <= credits'[r]
    BY Zenon DEF Used
  <1>4. CASE t.kind \in {"usage", "pending"}
    <2>1. ~Overdraws(t)
      BY Zenon, <1>1, <1>4 DEF Outcome
    <2>2. posted[t.r] + pending[t.r] + t.amount <= credits[t.r]
      BY <1>1, <1>2, <1>4, <2>1 DEF Overdraws, Used
    <2>3. /\ credits' = credits
          /\ \/ posted' = [posted EXCEPT ![t.r] = @ + t.amount] /\ pending' = pending
             \/ posted' = posted /\ pending' = [pending EXCEPT ![t.r] = @ + t.amount]
      BY Zenon, <1>4 DEF Commit
    <2> QED
      BY <1>1, <1>2, <1>3, <2>2, <2>3
  <1>5. CASE t.kind = "alloc"
    <2>1. credits' = [credits EXCEPT ![t.r] = @ + t.amount] /\ UNCHANGED <<posted, pending>>
      BY Zenon, <1>5 DEF Commit
    <2> QED
      BY <1>1, <1>2, <1>3, <2>1
  <1>6. CASE t.kind = "void"
    <2> DEFINE p == Released(t)
    <2>1. p \in PendingWith(t.ref)
      BY Zenon, <1>6 DEF Outcome, Released
    <2>2. p.r \in Resource /\ p.amount \in Nat
      BY Zenon, <2>1 DEF PendingWith, LedgerTypeOK, Transfer
    <2>3. pending' = [pending EXCEPT ![p.r] = @ - p.amount]
      BY Zenon, <1>6 DEF Commit
    <2>4. credits' = credits /\ posted' = posted
      BY Zenon, <1>6 DEF Commit
    <2> HIDE DEF p
    <2> QED
      BY <1>2, <1>3, <2>2, <2>3, <2>4
  <1> QED
    BY Zenon, <1>4, <1>5, <1>6 DEF Transfer

(* One step of the ledger preserves its invariant.                         *)
LEMMA ApplyNextInv ==
  ASSUME LedgerInv, ApplyNext
  PROVE  LedgerInv'
  <1> DEFINE t == Executing
  <1>1. LedgerTypeOK /\ HardLimit /\ OneEntryPerId /\ RefusedIsNotCommitted /\ VoidsAreMatched
    BY Zenon DEF LedgerInv
  <1>2. t \in Slot /\ (Outcome(t) # "skipped" => t \in Transfer)
    BY Zenon, <1>1, ExecutingSlot
  <1>3. request' \in Request /\ Len(request'.results) <= Len(request'.items)
    BY Zenon, <1>1, RequestTypeOK
  <1>4. failed' = IF Outcome(t) \in Transient THEN failed \cup {t.id} ELSE failed
    BY Zenon DEF ApplyNext, Executing
  <1>5. IF Outcome(t) = "ok" THEN Commit(t) ELSE UNCHANGED <<balances, committed>>
    BY Zenon DEF ApplyNext, Executing
  <1> HIDE DEF t
  <1>6. failed' \in SUBSET TransferId
    BY Zenon, <1>1, <1>2, <1>4 DEF LedgerTypeOK, Transient, Transfer
  <1>7. CASE Outcome(t) = "ok"
    <2>1. t \in Transfer /\ Commit(t) /\ failed' = failed
      BY Zenon, <1>2, <1>4, <1>5, <1>7 DEF Transient
    <2>2. committed' = committed \cup {t}
      BY Zenon, <2>1 DEF Commit
    <2>3. /\ \A u \in committed : u.id # t.id
          /\ t.id \notin failed
          /\ t.kind = "void" => PendingWith(t.ref) # {} /\ ~Voided(t.ref)
      BY Zenon, <1>7, <2>1 DEF Outcome
    <2>4. LedgerTypeOK'
      BY Zenon, <1>1, <1>3, <1>6, <1>7, <2>1, CommitTypeOK DEF LedgerTypeOK
    <2>5. HardLimit'
      BY Zenon, <1>1, <1>7, <2>1, CommitHardLimit
    <2>6. OneEntryPerId' /\ RefusedIsNotCommitted'
      BY Zenon, <1>1, <2>1, <2>2, <2>3 DEF OneEntryPerId, RefusedIsNotCommitted
    <2>7. VoidsAreMatched'
      BY <1>1, <2>2, <2>3 DEF VoidsAreMatched, PendingWith, Voided
    <2> QED
      BY Zenon, <2>4, <2>5, <2>6, <2>7 DEF LedgerInv
  <1>8. CASE Outcome(t) # "ok"
    <2>1. UNCHANGED <<credits, posted, pending, committed>>
      BY Zenon, <1>5, <1>8 DEF balances
    <2>2. Outcome(t) \in Transient => \A u \in committed : u.id # t.id
      BY Zenon, <1>2 DEF Outcome, Transient
    <2>3. LedgerTypeOK'
      BY Zenon, <1>1, <1>3, <1>6, <2>1 DEF LedgerTypeOK
    <2>4. HardLimit' /\ OneEntryPerId' /\ VoidsAreMatched'
      BY Zenon, <1>1, <2>1 DEF HardLimit, Used, OneEntryPerId, VoidsAreMatched, PendingWith
    <2>5. RefusedIsNotCommitted'
      BY Zenon, <1>1, <1>4, <2>1, <2>2 DEF RefusedIsNotCommitted
    <2> QED
      BY Zenon, <2>3, <2>4, <2>5 DEF LedgerInv
  <1> QED
    BY Zenon, <1>7, <1>8

LEMMA StepInv == LedgerInv /\ [LedgerStep]_ledgerVars => LedgerInv'
  <1> SUFFICES ASSUME LedgerInv, [LedgerStep]_ledgerVars PROVE LedgerInv'
    OBVIOUS
  <1> USE DEF LedgerInv, LedgerTypeOK, HardLimit, Used, OneEntryPerId, RefusedIsNotCommitted,
              VoidsAreMatched, PendingWith
  <1>1. CASE AnyRequest
    <2>1. request' \in Request /\ Len(request'.results) <= Len(request'.items)
      BY <1>1, EmptySeq, LenProperties DEF AnyRequest, Request
    <2> QED
      BY Zenon, <1>1, <2>1 DEF AnyRequest, balances
  <1>2. CASE ApplyNext
    BY Zenon, <1>2, ApplyNextInv
  <1>3. CASE Respond
    <2>1. request' = NoRequest /\ Len(request'.results) <= Len(request'.items)
      BY <1>3 DEF Respond, NoRequest
    <2> QED
      BY Zenon, <1>3, <2>1 DEF Respond, balances
  <1>4. CASE UNCHANGED ledgerVars
    BY Zenon, <1>4 DEF ledgerVars
  <1> QED
    BY Zenon, <1>1, <1>2, <1>3, <1>4 DEF LedgerStep

(* The invariant of the books holds for every client of the ledger, for    *)
(* every set of resources and clusters and for any initial credits.        *)
THEOREM LedgerCorrect == LedgerSpec => []LedgerInv
  <1> QED
    BY InitInv, StepInv, PTL DEF LedgerSpec

(* Invariant I-3: no wallet is ever used beyond its credits, whatever      *)
(* SubmitUsageBatch, SubmitAllocations and SubmitGaugePendingUpdates are   *)
(* asked to submit, in whatever order and however often.                   *)
THEOREM HardLimitHolds == LedgerSpec => []HardLimit
  <1>1. LedgerInv => HardLimit
    BY Zenon DEF LedgerInv
  <1> QED
    BY LedgerCorrect, <1>1, PTL

-----------------------------------------------------------------------------
GaugeId == TransferId \cup {NoId}

Sound(a) ==
    /\ a \in Attempt
    /\ a.stage = "gauge" => ActiveNodes \in Resource
    /\ a.stage = "alloc" => a.for \in Update

QueuesOK == hbCh \in Seq(Heartbeat) /\ curBatch \in Seq(Heartbeat)

MarksOK ==
    /\ pendingGaugeIDs \in [Cluster -> GaugeId]
    /\ processedSeqs \in [Cluster -> Int] /\ lastAck \in Int

CallsOK ==
    /\ flushSeqNo \in Nat
    /\ callSeq \in [Coroutine -> Nat] /\ tries \in [Coroutine -> Nat]
    /\ \A a \in attempts : Sound(a)

FlowInv == QueuesOK /\ MarksOK /\ CallsOK

(* What a step has to keep of the marks and of the calls: NeverBack is the *)
(* part of both that looks at two states.                                  *)
MarksKept ==
    /\ MarksOK'
    /\ \A c \in Cluster : processedSeqs'[c] >= processedSeqs[c]
    /\ lastAck' >= lastAck

CallsKept ==
    /\ CallsOK'
    /\ flushSeqNo' >= flushSeqNo
    /\ \A p \in Coroutine : callSeq'[p] # callSeq[p] => callSeq'[p] > flushSeqNo

Kept == QueuesOK' /\ MarksKept /\ CallsKept

-----------------------------------------------------------------------------
(* Transfers.                                                              *)

LEMMA UnsignedAmount == ASSUME NEW x \in Int PROVE Uint64(x) \in Nat
  BY AccountingAssumption DEF Uint64

LEMMA UsageSlotOK ==
  ASSUME NEW hb \in Heartbeat, NEW r \in Resource
  PROVE  UsageSlot(hb, r) \in Slot
  <1>1. CASE r = ActiveNodes \/ Usage[hb][r] = 0
    BY Zenon, <1>1 DEF UsageSlot, Slot
  <1>2. CASE ~(r = ActiveNodes \/ Usage[hb][r] = 0)
    <2>1. hb \in Cluster \X Nat /\ Usage[hb][r] \in Int
      BY AccountingAssumption
    <2>2. DeriveTransferID(hb[1], hb[2], r) \in TransferId
      BY Zenon, <2>1 DEF DeriveTransferID, TransferId
    <2>3. UsageSlot(hb, r) = [id |-> DeriveTransferID(hb[1], hb[2], r), kind |-> "usage",
                              r |-> r, amount |-> Uint64(Usage[hb][r]), ref |-> NoId]
      BY Zenon, <1>2 DEF UsageSlot
    <2>4. Uint64(Usage[hb][r]) \in Nat
      BY Zenon, <2>1, UnsignedAmount
    <2> QED
      BY <2>2, <2>3, <2>4 DEF Slot, Transfer
  <1> QED
    BY Zenon, <1>1, <1>2

(* The k-th slot of the nested loops is within both sequences.             *)
LEMMA LoopIndex ==
  ASSUME NEW m \in Nat, NEW n \in Nat \ {0}, NEW k \in 1..(m * n)
  PROVE  /\ ((k - 1) \div n) + 1 \in 1..m
         /\ ((k - 1) % n) + 1 \in 1..n
  <1> DEFINE q == (k - 1) \div n
             s == (k - 1) % n
  <1>1. k - 1 \in Nat /\ k - 1 < m * n
    OBVIOUS
  <1>2. q \in Nat /\ s \in 0..(n - 1) /\ k - 1 = n * q + s
    BY <1>1
  <1> HIDE DEF q, s
  <1>3. ASSUME q >= m PROVE FALSE
    <2>1. n * q >= n * m
      BY <1>2, <1>3
    <2> QED
      BY <1>1, <1>2, <2>1
  <1>4. q + 1 \in 1..m
    BY <1>2, <1>3
  <1> QED
    BY <1>2, <1>4 DEF q, s

LEMMA UsageSlotsOK ==
  ASSUME NEW hbs \in Seq(Heartbeat)
  PROVE  UsageSlots(hbs) \in Seq(Slot)
  <1> DEFINE n == Len(AllResources)
             slot(k) == UsageSlot(hbs[((k - 1) \div n) + 1], AllResources[((k - 1) % n) + 1])
  <1>1. n \in Nat \ {0} /\ Len(hbs) \in Nat
    BY ResourcesAssumption, LenProperties
  <1>2. ASSUME NEW k \in 1..(Len(hbs) * n) PROVE slot(k) \in Slot
    <2>1. ((k - 1) \div n) + 1 \in 1..Len(hbs) /\ ((k - 1) % n) + 1 \in 1..n
      BY Zenon, <1>1, LoopIndex
    <2>2. hbs[((k - 1) \div n) + 1] \in Heartbeat
      BY Zenon, <2>1, ElementOfSeq
    <2>3. AllResources[((k - 1) % n) + 1] \in Resource
      BY Zenon, <2>1, ResourcesAssumption, ElementOfSeq
    <2> QED
      BY Zenon, <2>2, <2>3, UsageSlotOK
  <1>3. UsageSlots(hbs) = [k \in 1..(Len(hbs) * n) |-> slot(k)]
    BY Zenon DEF UsageSlots
  <1>4. Len(hbs) * n \in Nat
    BY <1>1
  <1> HIDE DEF slot, n
  <1> QED
    BY <1>2, <1>3, <1>4

LEMMA GaugeSlotsOK ==
  ASSUME NEW a, Sound(a), a.stage = "gauge", NEW order \in Orders(a.hbs)
  PROVE  GaugeSlots(a, order) \in Seq(Slot)
  <1>1. /\ ActiveNodes \in Resource /\ a.seqNo \in Nat /\ a.hbs \in Seq(Heartbeat)
        /\ a.gauges \in [Cluster -> GaugeId]
    BY Zenon DEF Sound, Attempt, GaugeId
  <1>2. ClustersOf(a.hbs) \subseteq Cluster
    <2>1. \A i \in DOMAIN a.hbs : a.hbs[i] \in Cluster \X Nat
      BY <1>1, AccountingAssumption, ElementOfSeq
    <2> QED
      BY Zenon, <2>1 DEF ClustersOf
  <1>3. PICK n \in 0..Len(a.hbs) : order \in [1..n -> ClustersOf(a.hbs)]
    BY SMTT(30), <1>1 DEF Orders
  <1>4. n \in Nat
    BY <1>1, LenProperties
  <1>5. order \in Seq(Cluster) /\ Len(order) = n
    BY <1>2, <1>3, <1>4
  <1>6. ASSUME NEW c \in Cluster PROVE VoidSlot(a.seqNo, a.gauges[c], c) \in Slot
    <2>1. DeriveGaugeVoidID(a.seqNo, c, ActiveNodes) \in TransferId
      BY Zenon, <1>1 DEF DeriveGaugeVoidID, TransferId
    <2>2. a.gauges[c] \in TransferId \cup {NoId}
      BY Zenon, <1>1 DEF GaugeId
    <2> QED
      BY Zenon, <1>1, <2>1, <2>2 DEF VoidSlot, Slot, Transfer
  <1>7. ASSUME NEW c \in Cluster PROVE PendingSlot(a.seqNo, GaugeAmount(a.hbs, c), c) \in Slot
    <2>1. GaugeAmount(a.hbs, c) \in Nat
      <3>1. CASE Latest(a.hbs, c) = {}
        BY Zenon, <3>1 DEF GaugeAmount
      <3>2. CASE Latest(a.hbs, c) # {}
        <4> DEFINE i == CHOOSE i \in Latest(a.hbs, c) : TRUE
        <4>1. i \in DOMAIN a.hbs
          BY Zenon, <3>2 DEF Latest, Newest, PositionsOf
        <4>2. a.hbs[i] \in Heartbeat
          <5>1. i \in 1..Len(a.hbs)
            BY Zenon, <1>1, <4>1, LenProperties
          <5> QED
            BY Zenon, <1>1, <5>1, ElementOfSeq
        <4>3. Usage[a.hbs[i]][ActiveNodes] \in Int
          BY SMTT(30), <1>1, <4>2, AccountingAssumption
        <4> QED
          BY Zenon, <3>2, <4>3, UnsignedAmount DEF GaugeAmount
      <3> QED
        BY Zenon, <3>1, <3>2
    <2>2. DeriveGaugePendingID(a.seqNo, c, ActiveNodes) \in TransferId
      BY Zenon, <1>1 DEF DeriveGaugePendingID, TransferId
    <2> QED
      BY Zenon, <1>1, <2>1, <2>2 DEF PendingSlot, Slot, Transfer
  <1> DEFINE slot(k) == LET c == order[(k + 1) \div 2]
                        IN  IF k % 2 = 1 THEN VoidSlot(a.seqNo, a.gauges[c], c)
                            ELSE PendingSlot(a.seqNo, GaugeAmount(a.hbs, c), c)
  <1>8. ASSUME NEW k \in 1..(2 * Len(order)) PROVE slot(k) \in Slot
    <2>1. Len(order) \in Nat
      BY Zenon, <1>5, LenProperties
    <2>2. (k + 1) \div 2 \in 1..Len(order)
      BY <2>1
    <2>3. order[(k + 1) \div 2] \in Cluster
      BY Zenon, <1>5, <2>2, ElementOfSeq
    <2> QED
      BY Zenon, <2>3, <1>6, <1>7
  <1>9. GaugeSlots(a, order) = [k \in 1..(2 * Len(order)) |-> slot(k)]
    BY Zenon DEF GaugeSlots
  <1>10. 2 * Len(order) \in Nat
    BY SMTT(30), <1>4, <1>5
  <1> HIDE DEF slot
  <1> QED
    BY <1>8, <1>9, <1>10

LEMMA AllocationSlotsOK ==
  ASSUME NEW a, Sound(a), a.stage = "alloc"
  PROVE  AllocationSlots(a) \in Seq(Slot)
  <1>1. a.for \in Update /\ a.seqNo \in Nat
    BY Zenon DEF Sound, Attempt
  <1>2. Credit[a.for].r \in Resource /\ Credit[a.for].amount \in Int
    BY Zenon, <1>1, AccountingAssumption
  <1> DEFINE t == [id |-> DeriveAllocationTransferID(a.seqNo, Credit[a.for].r),
                   kind |-> "alloc", r |-> Credit[a.for].r,
                   amount |-> Uint64(Credit[a.for].amount), ref |-> NoId]
  <1>3. DeriveAllocationTransferID(a.seqNo, Credit[a.for].r) \in TransferId
    BY Zenon, <1>1, <1>2 DEF DeriveAllocationTransferID, TransferId
  <1>4. Uint64(Credit[a.for].amount) \in Nat
    BY Zenon, <1>2, UnsignedAmount
  <1>5. t \in Slot
    BY Zenon, <1>2, <1>3, <1>4 DEF Transfer, Slot
  <1>6. AllocationSlots(a) = <<t>>
    BY Zenon DEF AllocationSlots
  <1> QED
    BY <1>5, <1>6

-----------------------------------------------------------------------------
(* Attempts.                                                               *)

LEMMA NewAttemptOK ==
  ASSUME MarksOK, NEW p \in Coroutine, NEW seqNo \in Nat, NEW n \in Nat,
         NEW hbs \in Seq(Heartbeat)
  PROVE  Sound(NewAttempt(p, seqNo, n, hbs))
  <1> DEFINE a == NewAttempt(p, seqNo, n, hbs)
  <1>1. NoGauges \in [Cluster -> GaugeId]
    BY Zenon DEF NoGauges, GaugeId
  <1>2. (IF p = Main THEN pendingGaugeIDs ELSE NoGauges) \in [Cluster -> TransferId \cup {NoId}]
    BY Zenon, <1>1 DEF MarksOK, GaugeId
  <1>3. a \in Attempt
    BY Zenon, <1>2 DEF NewAttempt, Attempt
  <1>4. a.stage # "gauge" /\ (a.stage = "alloc" => a.for \in Update)
    BY Zenon DEF NewAttempt, Coroutine
  <1> QED
    BY Zenon, <1>3, <1>4 DEF Sound

LEMMA AfterReplyOK ==
  ASSUME NEW a, Sound(a)
  PROVE  Sound(AfterReply(a))
  <1>1. a \in Attempt
    BY Zenon DEF Sound
  <1>2. CASE Unexpected
    BY Zenon, <1>1, <1>2 DEF AfterReply, Sound, Attempt
  <1>3. CASE ~Unexpected /\ a.stage = "usage"
    <2>1. \A r \in Resource : UsageVerdict(r) \in {"none", "accepted", "exceeded"}
      BY Zenon DEF UsageVerdict, Verdict
    <2>2. [r \in Resource |-> UsageVerdict(r)] \in [Resource -> {"none", "accepted", "exceeded"}]
      BY Zenon, <2>1
    <2>3. AfterReply(a) = AfterUsage(a)
      BY Zenon, <1>3 DEF AfterReply
    <2>4. AfterUsage(a) \in Attempt
      BY Zenon, <1>1, <2>2 DEF AfterUsage, Attempt
    <2>5. AfterUsage(a).stage = IF ActiveNodes \in Resource THEN "gauge" ELSE "done"
      BY Zenon, <1>1 DEF AfterUsage, Attempt
    <2> QED
      BY Zenon, <2>3, <2>4, <2>5 DEF Sound
  <1>4. CASE ~Unexpected /\ a.stage = "gauge"
    <2>1. ActiveNodes \in Resource
      BY Zenon, <1>4 DEF Sound
    <2>2. a.seqNo \in Nat /\ a.gauges \in [Cluster -> TransferId \cup {NoId}]
      BY Zenon, <1>1 DEF Attempt
    <2>3. \A c \in Cluster : DeriveGaugePendingID(a.seqNo, c, ActiveNodes) \in TransferId
      BY Zenon, <2>1, <2>2 DEF DeriveGaugePendingID, TransferId
    <2>4. GaugeUpdates(a) \in [Cluster -> TransferId \cup {NoId}]
      BY Zenon, <2>2, <2>3 DEF GaugeUpdates
    <2>5. Verdict(request.results[Len(request.results)]) \in {"none", "accepted", "exceeded"}
      BY Zenon DEF Verdict
    <2>6. AfterReply(a) = AfterGauge(a)
      BY Zenon, <1>4 DEF AfterReply
    <2>7. AfterGauge(a) \in Attempt /\ AfterGauge(a).stage = "done"
      BY Zenon, <1>1, <2>4, <2>5 DEF AfterGauge, Attempt
    <2> QED
      BY Zenon, <2>6, <2>7 DEF Sound
  <1>5. CASE ~Unexpected /\ a.stage \notin {"usage", "gauge"}
    BY Zenon, <1>1, <1>5 DEF AfterReply, Sound, Attempt
  <1> QED
    BY Zenon, <1>2, <1>3, <1>4, <1>5

(* What Highest returns is not below what it started from.                 *)
LEMMA HighestAtLeast ==
  ASSUME NEW hbs \in Seq(Heartbeat), NEW I \in SUBSET DOMAIN hbs, NEW n \in Int
  PROVE  Highest(hbs, I, n) \in Int /\ Highest(hbs, I, n) >= n
  <1> DEFINE J == {i \in Newest(hbs, I) : hbs[i][2] > n}
             i == CHOOSE i \in J : TRUE
  <1>1. CASE J = {}
    BY <1>1 DEF Highest
  <1>2. CASE J # {}
    <2>1. i \in J
      BY Zenon, <1>2
    <2>2. i \in DOMAIN hbs /\ hbs[i][2] > n
      BY Zenon, <2>1 DEF Newest
    <2>3. hbs[i] \in Cluster \X Nat
      BY <2>2, ElementOfSeq, LenProperties, AccountingAssumption
    <2>4. Highest(hbs, I, n) = hbs[i][2]
      BY Zenon, <1>2 DEF Highest
    <2> HIDE DEF i
    <2> QED
      BY <2>2, <2>3, <2>4
  <1> QED
    BY Zenon, <1>1, <1>2

-----------------------------------------------------------------------------
(* The parts that actions share.                                           *)

LEMMA SameMarks ==
  ASSUME MarksOK, UNCHANGED <<processedSeqs, pendingGaugeIDs, lastAck>>
  PROVE  MarksKept
  BY DEF MarksOK, MarksKept

LEMMA FewerCalls ==
  ASSUME CallsOK, UNCHANGED <<flushSeqNo, callSeq, tries>>, attempts' \subseteq attempts
  PROVE  CallsKept
  BY DEF CallsOK, CallsKept

(* A call under a new flush number.                                        *)
LEMMA NewCall ==
  ASSUME MarksOK, CallsOK, NEW p \in Coroutine, NEW hbs \in Seq(Heartbeat),
         flushSeqNo' = flushSeqNo + 1,
         callSeq' = [callSeq EXCEPT ![p] = flushSeqNo + 1],
         tries' = [tries EXCEPT ![p] = 1],
         attempts' = attempts \cup {NewAttempt(p, flushSeqNo + 1, 1, hbs)}
  PROVE  CallsKept
  <1>1. flushSeqNo \in Nat /\ callSeq \in [Coroutine -> Nat] /\ tries \in [Coroutine -> Nat]
    BY Zenon DEF CallsOK
  <1>2. flushSeqNo + 1 \in Nat /\ 1 \in Nat
    BY <1>1
  <1>3. Sound(NewAttempt(p, flushSeqNo + 1, 1, hbs))
    BY Zenon, <1>2, NewAttemptOK
  <1>4. \A a \in attempts' : Sound(a)
    BY Zenon, <1>3 DEF CallsOK
  <1>5. callSeq' \in [Coroutine -> Nat] /\ tries' \in [Coroutine -> Nat]
    BY Zenon, <1>1, <1>2
  <1>6. \A q \in Coroutine : callSeq'[q] # callSeq[q] => callSeq'[q] > flushSeqNo
    BY <1>1
  <1> QED
    BY <1>1, <1>2, <1>4, <1>5, <1>6 DEF CallsKept, CallsOK

LEMMA StartFlushOK ==
  ASSUME MarksOK, CallsOK, NEW batch \in Seq(Heartbeat), NEW why, StartFlush(batch, why)
  PROVE  CallsKept
  <1>1. Main \in Coroutine
    BY Zenon DEF Coroutine
  <1> QED
    BY Zenon, <1>1, NewCall DEF StartFlush

LEMMA FlushReturnsOK ==
  ASSUME QueuesOK, FlushReturns
  PROVE  QueuesOK' /\ flushSeqNo' = flushSeqNo
  <1>1. CASE reason = "continueAsNew"
    <2>1. NewRun
      BY Zenon, <1>1 DEF FlushReturns
    <2>2. curBatch' = <<>> /\ hbCh' = <<>> /\ flushSeqNo' = flushSeqNo
      BY Zenon, <2>1 DEF NewRun, CarryFlushSeqNo
    <2> QED
      BY <2>2 DEF QueuesOK
  <1>2. CASE reason # "continueAsNew"
    <2>1. UNCHANGED <<curBatch, hbCh, flushSeqNo>>
      BY Zenon, <1>2 DEF FlushReturns, channels
    <2> QED
      BY Zenon, <2>1 DEF QueuesOK
  <1> QED
    BY Zenon, <1>1, <1>2

LEMMA RetryOrGiveUpOK ==
  ASSUME FlowInv, NEW p \in Coroutine, NEW others \in SUBSET attempts,
         RetryOrGiveUp(p, others), callSeq' = callSeq
  PROVE  QueuesOK' /\ CallsKept
  <1> USE DEF FlowInv
  <1>1. CASE tries[p] < MaxAttempts
    <2> DEFINE a == NewAttempt(p, callSeq[p], tries[p] + 1, IF p = Main THEN curBatch ELSE <<>>)
    <2>1. /\ tries' = [tries EXCEPT ![p] = @ + 1] /\ attempts' = others \cup {a}
          /\ UNCHANGED <<hbCh, curBatch, flushSeqNo>>
      BY Zenon, <1>1 DEF RetryOrGiveUp, channels
    <2>2. callSeq[p] \in Nat /\ tries[p] + 1 \in Nat
      BY DEF CallsOK
    <2>3. (IF p = Main THEN curBatch ELSE <<>>) \in Seq(Heartbeat)
      BY SMTT(30) DEF QueuesOK
    <2>4. Sound(a)
      BY Zenon, <2>2, <2>3, NewAttemptOK
    <2> HIDE DEF a
    <2>5. \A b \in attempts' : Sound(b)
      BY Zenon, <2>1, <2>4 DEF CallsOK
    <2>6. tries' \in [Coroutine -> Nat]
      BY Zenon, <2>1, <2>2 DEF CallsOK
    <2> QED
      BY SMTT(30), <2>1, <2>5, <2>6 DEF CallsOK, CallsKept, QueuesOK
  <1>2. CASE ~(tries[p] < MaxAttempts)
    <2>1. attempts' \subseteq attempts /\ tries' = tries
      BY Zenon, <1>2 DEF RetryOrGiveUp
    <2>2. QueuesOK' /\ flushSeqNo' = flushSeqNo
      <3>1. CASE p = Main
        BY Zenon, <1>2, <3>1, FlushReturnsOK DEF RetryOrGiveUp
      <3>2. CASE p # Main
        BY Zenon, <1>2, <3>2 DEF RetryOrGiveUp, QueuesOK, channels
      <3> QED
        BY Zenon, <3>1, <3>2
    <2> QED
      BY Zenon, <2>1, <2>2, FewerCalls
  <1> QED
    BY Zenon, <1>1, <1>2

LEMMA Unmoved ==
  ASSUME FlowInv,
         UNCHANGED <<hbCh, curBatch, pendingGaugeIDs, processedSeqs, lastAck, flushSeqNo,
                     callSeq, tries, attempts>>
  PROVE  Kept
  <1>1. QueuesOK'
    BY Zenon DEF FlowInv, QueuesOK
  <1> QED
    BY Zenon, <1>1, SameMarks, FewerCalls DEF FlowInv, Kept

-----------------------------------------------------------------------------
(* The actions.                                                            *)

LEMMA SignalHeartbeatKeeps ==
  ASSUME FlowInv, NEW hb \in Heartbeat, SignalHeartbeat(hb)
  PROVE  Kept
  <1>1. hbCh' = Append(hbCh, hb) /\ curBatch' = curBatch
    BY Zenon DEF SignalHeartbeat, state
  <1>2. QueuesOK'
    BY SMTT(30), <1>1 DEF FlowInv, QueuesOK
  <1>3. MarksKept
    BY Zenon, SameMarks DEF FlowInv, SignalHeartbeat, state
  <1>4. CallsKept
    BY Zenon, FewerCalls DEF FlowInv, SignalHeartbeat, state, calls
  <1> QED
    BY Zenon, <1>2, <1>3, <1>4 DEF Kept

LEMMA ReceiveHeartbeatKeeps ==
  ASSUME FlowInv, ReceiveHeartbeat
  PROVE  Kept
  <1> DEFINE hb == Head(hbCh)
             batch == Append(curBatch, hb)
  <1>1. hbCh # <<>> /\ hbCh \in Seq(Heartbeat) /\ curBatch \in Seq(Heartbeat)
    BY Zenon DEF FlowInv, QueuesOK, ReceiveHeartbeat
  <1>2. hb \in Heartbeat /\ Tail(hbCh) \in Seq(Heartbeat)
    BY <1>1
  <1>3. batch \in Seq(Heartbeat)
    BY <1>1, <1>2
  <1>4. hbCh' = Tail(hbCh) /\ curBatch' \in {curBatch, batch}
    BY Zenon DEF ReceiveHeartbeat
  <1>5. NoFlush \/ StartFlush(batch, "threshold")
    BY Zenon DEF ReceiveHeartbeat
  <1> HIDE DEF hb, batch
  <1>6. QueuesOK'
    BY Zenon, <1>1, <1>2, <1>3, <1>4 DEF QueuesOK
  <1>7. MarksKept
    BY Zenon, SameMarks DEF FlowInv, ReceiveHeartbeat
  <1>8. CallsKept
    <2>1. CASE NoFlush
      BY Zenon, <2>1, FewerCalls DEF FlowInv, NoFlush, calls
    <2>2. CASE StartFlush(batch, "threshold")
      BY Zenon, <1>3, <2>2, StartFlushOK DEF FlowInv
    <2> QED
      BY Zenon, <1>5, <2>1, <2>2
  <1> QED
    BY Zenon, <1>6, <1>7, <1>8 DEF Kept

(* Only a cluster that has not been seen is set to 0.                      *)
LEMMA ReceiveRegisterKeeps ==
  ASSUME FlowInv, NEW c \in Cluster, ReceiveRegister(c)
  PROVE  Kept
  <1>1. /\ UNCHANGED <<hbCh, curBatch, pendingGaugeIDs, lastAck>>
        /\ processedSeqs' = IF processedSeqs[c] = NotSeen
                            THEN [processedSeqs EXCEPT ![c] = 0] ELSE processedSeqs
    BY Zenon DEF ReceiveRegister
  <1>2. QueuesOK'
    BY Zenon, <1>1 DEF FlowInv, QueuesOK
  <1>3. MarksKept
    BY <1>1 DEF FlowInv, MarksOK, MarksKept, NotSeen
  <1>4. CallsKept
    BY Zenon, FewerCalls DEF FlowInv, ReceiveRegister, NoFlush, calls
  <1> QED
    BY Zenon, <1>2, <1>3, <1>4 DEF Kept

LEMMA TimerFiresKeeps ==
  ASSUME FlowInv, TimerFires
  PROVE  Kept
  <1>1. NoFlush \/ StartFlush(curBatch, "timer")
    BY Zenon DEF TimerFires
  <1>2. QueuesOK'
    BY Zenon DEF FlowInv, QueuesOK, TimerFires, channels
  <1>3. MarksKept
    BY Zenon, SameMarks DEF FlowInv, TimerFires
  <1>4. CASE NoFlush
    BY Zenon, <1>2, <1>3, <1>4, FewerCalls DEF Kept, FlowInv, NoFlush, calls
  <1>5. CASE StartFlush(curBatch, "timer")
    BY Zenon, <1>2, <1>3, <1>5, StartFlushOK DEF Kept, FlowInv, QueuesOK
  <1> QED
    BY Zenon, <1>1, <1>4, <1>5

LEMMA ContinueAsNewKeeps ==
  ASSUME FlowInv, ContinueAsNew
  PROVE  Kept
  <1>1. MarksKept
    BY Zenon, SameMarks DEF FlowInv, ContinueAsNew
  <1>2. CASE NewRun /\ UNCHANGED calls
    <2>1. curBatch' = <<>> /\ hbCh' = <<>> /\ flushSeqNo' = flushSeqNo
      BY Zenon, <1>2 DEF NewRun, CarryFlushSeqNo
    <2>2. QueuesOK'
      BY <2>1 DEF QueuesOK
    <2>3. CallsKept
      BY Zenon, <1>2, <2>1, FewerCalls DEF FlowInv, calls
    <2> QED
      BY Zenon, <1>1, <2>2, <2>3 DEF Kept
  <1>3. CASE StartFlush(curBatch, "continueAsNew") /\ UNCHANGED <<channels, curBatch>>
    <2>1. QueuesOK'
      BY Zenon, <1>3 DEF FlowInv, QueuesOK, channels
    <2>2. CallsKept
      BY Zenon, <1>3, StartFlushOK DEF FlowInv, QueuesOK
    <2> QED
      BY Zenon, <1>1, <2>1, <2>2 DEF Kept
  <1> QED
    BY Zenon, <1>2, <1>3 DEF ContinueAsNew

LEMMA SubmitTBBatchDoneKeeps ==
  ASSUME FlowInv, SubmitTBBatchDone
  PROVE  Kept
  <1>1. PICK a \in attempts :
          /\ pendingGaugeIDs' = a.gauges
          /\ processedSeqs' = [c \in Cluster |-> ProcessedAfter(curBatch, c)]
          /\ lastAck' = AckAfter(curBatch)
          /\ curBatch' = <<>>
          /\ attempts' = attempts \ {a}
    BY Zenon DEF SubmitTBBatchDone
  <1>2. hbCh' = hbCh /\ UNCHANGED <<flushSeqNo, callSeq, tries>>
    BY Zenon DEF SubmitTBBatchDone, channels
  <1>3. /\ curBatch \in Seq(Heartbeat) /\ processedSeqs \in [Cluster -> Int]
        /\ lastAck \in Int /\ Sound(a)
    BY Zenon DEF FlowInv, QueuesOK, MarksOK, CallsOK
  <1>4. QueuesOK'
    BY <1>1, <1>2 DEF FlowInv, QueuesOK
  <1>5. a.gauges \in [Cluster -> GaugeId]
    BY Zenon, <1>3 DEF Sound, Attempt, GaugeId
  <1>6. ASSUME NEW c \in Cluster
        PROVE  /\ ProcessedAfter(curBatch, c) \in Int
               /\ ProcessedAfter(curBatch, c) >= processedSeqs[c]
    <2>1. PositionsOf(curBatch, c) \in SUBSET DOMAIN curBatch
      BY Zenon DEF PositionsOf
    <2>2. processedSeqs[c] \in Int
      BY Zenon, <1>3
    <2> QED
      BY Zenon, <1>3, <2>1, <2>2, HighestAtLeast DEF ProcessedAfter
  <1>7. AckAfter(curBatch) \in Int /\ AckAfter(curBatch) >= lastAck
    BY Zenon, <1>3, HighestAtLeast DEF AckAfter
  <1>8. MarksKept
    BY Zenon, <1>1, <1>5, <1>6, <1>7 DEF MarksKept, MarksOK
  <1>9. CallsKept
    BY Zenon, <1>1, <1>2, FewerCalls DEF FlowInv
  <1> QED
    BY Zenon, <1>4, <1>8, <1>9 DEF Kept

LEMMA CheckSoftLimitsKeeps ==
  ASSUME FlowInv, CheckSoftLimits
  PROVE  Kept
  <1>1. QueuesOK' /\ flushSeqNo' = flushSeqNo
    BY Zenon, FlushReturnsOK DEF FlowInv, CheckSoftLimits
  <1>2. MarksKept
    BY Zenon, SameMarks DEF FlowInv, CheckSoftLimits
  <1>3. CallsKept
    BY Zenon, <1>1, FewerCalls DEF FlowInv, CheckSoftLimits, calls
  <1> QED
    BY Zenon, <1>1, <1>2, <1>3 DEF Kept

LEMMA IssueCreditKeeps ==
  ASSUME FlowInv, NEW u \in Update, IssueCredit(u)
  PROVE  Kept
  <1>1. QueuesOK'
    BY Zenon DEF FlowInv, QueuesOK, IssueCredit, channels
  <1>2. MarksKept
    BY Zenon, SameMarks DEF FlowInv, IssueCredit
  <1>3. u \in Coroutine /\ <<>> \in Seq(Heartbeat)
    BY SMTT(30) DEF Coroutine
  <1>4. CallsKept
    BY Zenon, <1>3, NewCall DEF FlowInv, IssueCredit
  <1> QED
    BY Zenon, <1>1, <1>2, <1>4 DEF Kept

LEMMA SubmitAllocationDoneKeeps ==
  ASSUME FlowInv, NEW u \in Update, SubmitAllocationDone(u)
  PROVE  Kept
  <1>1. QueuesOK'
    BY Zenon DEF FlowInv, QueuesOK, SubmitAllocationDone, channels
  <1>2. MarksKept
    BY Zenon, SameMarks DEF FlowInv, SubmitAllocationDone
  <1>3. CallsKept
    BY Zenon, FewerCalls DEF FlowInv, SubmitAllocationDone
  <1> QED
    BY Zenon, <1>1, <1>2, <1>3 DEF Kept

LEMMA AttemptFailsKeeps ==
  ASSUME FlowInv, NEW p \in Coroutine, AttemptFails(p)
  PROVE  Kept
  <1>1. PICK a \in attempts : RetryOrGiveUp(p, attempts \ {a})
    BY Zenon DEF AttemptFails
  <1>2. attempts \ {a} \in SUBSET attempts /\ callSeq' = callSeq
    BY Zenon DEF AttemptFails
  <1>3. QueuesOK' /\ CallsKept
    BY Zenon, <1>1, <1>2, RetryOrGiveUpOK
  <1>4. MarksKept
    BY Zenon, SameMarks DEF FlowInv, AttemptFails
  <1> QED
    BY Zenon, <1>3, <1>4 DEF Kept

LEMMA AttemptTimesOutKeeps ==
  ASSUME FlowInv, NEW p \in Coroutine, AttemptTimesOut(p)
  PROVE  Kept
  <1>1. PICK a \in attempts : RetryOrGiveUp(p, IF Ended(a) THEN attempts \ {a} ELSE attempts)
    BY Zenon DEF AttemptTimesOut
  <1>2. (IF Ended(a) THEN attempts \ {a} ELSE attempts) \in SUBSET attempts /\ callSeq' = callSeq
    BY Zenon DEF AttemptTimesOut
  <1>3. QueuesOK' /\ CallsKept
    BY Zenon, <1>1, <1>2, RetryOrGiveUpOK
  <1>4. MarksKept
    BY Zenon, SameMarks DEF FlowInv, AttemptTimesOut
  <1> QED
    BY Zenon, <1>3, <1>4 DEF Kept

LEMMA LookupFailsKeeps ==
  ASSUME FlowInv, NEW p \in Coroutine, LookupFails(p)
  PROVE  Kept
  <1>1. QueuesOK' /\ flushSeqNo' = flushSeqNo
    <2>1. CASE p = Main
      BY Zenon, <2>1, FlushReturnsOK DEF FlowInv, LookupFails
    <2>2. CASE p # Main
      BY Zenon, <2>2 DEF FlowInv, QueuesOK, LookupFails, channels
    <2> QED
      BY Zenon, <2>1, <2>2
  <1>2. MarksKept
    BY Zenon, SameMarks DEF FlowInv, LookupFails
  <1>3. CallsKept
    BY Zenon, <1>1, FewerCalls DEF FlowInv, LookupFails, calls
  <1> QED
    BY Zenon, <1>1, <1>2, <1>3 DEF Kept

LEMMA ReplyKeeps ==
  ASSUME FlowInv, Reply
  PROVE  Kept
  <1>1. PICK a \in attempts : attempts' \subseteq (attempts \cup {AfterReply(a)})
    BY Zenon DEF Reply
  <1>2. Sound(AfterReply(a))
    BY Zenon, AfterReplyOK DEF FlowInv, CallsOK
  <1>3. \A b \in attempts' : Sound(b)
    BY Zenon, <1>1, <1>2 DEF FlowInv, CallsOK
  <1>4. UNCHANGED <<hbCh, state, callSeq, tries>>
    BY Zenon DEF Reply, channels
  <1>5. QueuesOK'
    BY Zenon, <1>4 DEF FlowInv, QueuesOK, state
  <1>6. MarksKept
    BY Zenon, <1>4, SameMarks DEF FlowInv, state
  <1>7. CallsKept
    BY <1>3, <1>4 DEF FlowInv, CallsOK, CallsKept, state
  <1> QED
    BY Zenon, <1>5, <1>6, <1>7 DEF Kept

-----------------------------------------------------------------------------
LEMMA FlowInit == Init => FlowInv
  <1> SUFFICES ASSUME Init PROVE FlowInv
    OBVIOUS
  <1>1. QueuesOK
    BY DEF Init, QueuesOK
  <1>2. MarksOK
    BY DEF Init, MarksOK, NoGauges, GaugeId, NotSeen
  <1>3. CallsOK
    BY Zenon DEF Init, CallsOK
  <1> QED
    BY Zenon, <1>1, <1>2, <1>3 DEF FlowInv

LEMMA FlowStep == FlowInv /\ [Next]_vars => Kept
  <1> SUFFICES ASSUME FlowInv, [Next]_vars PROVE Kept
    OBVIOUS
  <1>1. CASE Environment
    <2>1. ASSUME NEW c \in Cluster, SignalRegisterCluster(c) PROVE Kept
      BY Zenon, <2>1, Unmoved DEF SignalRegisterCluster, state, calls
    <2> QED
      BY Zenon, <1>1, <2>1, SignalHeartbeatKeeps, IssueCreditKeeps DEF Environment
  <1>2. CASE MainLoop
    BY Zenon, <1>2, ReceiveHeartbeatKeeps, ReceiveRegisterKeeps, TimerFiresKeeps, ContinueAsNewKeeps,
       SubmitTBBatchDoneKeeps, CheckSoftLimitsKeeps DEF MainLoop
  <1>3. ASSUME NEW u \in Update, Handler(u) PROVE Kept
    <2>1. CASE ResetSoftLimitAlert(u)
      BY Zenon, <2>1, Unmoved DEF ResetSoftLimitAlert, channels, state, calls
    <2> QED
      BY Zenon, <1>3, <2>1, SubmitAllocationDoneKeeps DEF Handler
  <1>4. ASSUME NEW p \in Coroutine, Call(p) PROVE Kept
    <2>1. CASE LookupAccountBalances(p)
      BY Zenon, <2>1, Unmoved DEF LookupAccountBalances, channels, state, calls
    <2>2. ASSUME NEW r \in Resource, UpsertQuotaSnapshot(p, r) PROVE Kept
      BY Zenon, <2>2, Unmoved DEF UpsertQuotaSnapshot, channels, state, calls
    <2> QED
      BY Zenon, <1>4, <2>1, <2>2, AttemptFailsKeeps DEF Call
  <1>5. ASSUME NEW p \in Coroutine, Fault(p) PROVE Kept
    <2>1. CASE UpdateQuotaSnapshotsFails(p)
      BY Zenon, <2>1, Unmoved DEF UpdateQuotaSnapshotsFails, channels, state, calls
    <2> QED
      BY Zenon, <1>5, <2>1, AttemptTimesOutKeeps, LookupFailsKeeps DEF Fault
  <1>6. CASE Send \/ Execute
    BY Zenon, <1>6, Unmoved DEF Send, Execute, channels, state, calls
  <1>7. CASE UNCHANGED vars
    BY Zenon, <1>7, Unmoved DEF vars, channels, state, calls
  <1> QED
    BY Zenon, <1>1, <1>2, <1>3, <1>4, <1>5, <1>6, <1>7, ReplyKeeps DEF Next

LEMMA FlowKept == FlowInv /\ [Next]_vars => FlowInv'
  BY Zenon, FlowStep DEF Kept, FlowInv, MarksKept, CallsKept

(* No step of the workflow, of an attempt or of the environment moves a    *)
(* processed sequence number, the acknowledgement or the flush number      *)
(* back, or draws a flush number again (I-5), for any number of retries,   *)
(* faults and runs.                                                        *)
THEOREM NothingGoesBack == Spec => NeverGoesBack
  <1>1. Kept => FlowInv' /\ NeverBack
    BY Zenon DEF Kept, FlowInv, MarksKept, CallsKept, NeverBack
  <1>2. FlowInv /\ [Next]_vars => FlowInv' /\ [NeverBack]_vars
    BY Zenon, <1>1, FlowStep
  <1> QED
    BY <1>2, FlowInit, PTL DEF Spec, NeverGoesBack

-----------------------------------------------------------------------------
(* Requests.                                                               *)

LEMMA WellFormedRequest ==
  ASSUME NEW from \in Caller, NEW items \in Seq(Slot), CreateTransfers(from, items)
  PROVE  AnyRequest
  <1>1. <<>> \in Seq(Result)
    OBVIOUS
  <1>2. request' = [from |-> from, items |-> items, results |-> <<>>]
    BY Zenon DEF CreateTransfers
  <1>3. request' \in Request /\ request'.results = <<>>
    BY Zenon, <1>1, <1>2 DEF Request
  <1> QED
    BY Zenon, <1>3 DEF CreateTransfers, AnyRequest

LEMMA SendIsRequest ==
  ASSUME FlowInv, Send
  PROVE  AnyRequest
  <1>1. PICK a \in attempts : SendUsage(a) \/ SendGauge(a) \/ SendAllocation(a)
    BY Zenon DEF Send
  <1>2. Sound(a)
    BY Zenon DEF FlowInv, CallsOK
  <1>3. Key(a) \in Caller /\ a.hbs \in Seq(Heartbeat)
    BY Zenon, <1>2 DEF Sound, Attempt, Key, Caller
  <1>4. CASE SendUsage(a)
    BY Zenon, <1>3, <1>4, UsageSlotsOK, WellFormedRequest DEF SendUsage
  <1>5. CASE SendGauge(a)
    <2>1. PICK order \in Orders(a.hbs) : CreateTransfers(Key(a), GaugeSlots(a, order))
      BY Zenon, <1>5 DEF SendGauge
    <2>2. GaugeSlots(a, order) \in Seq(Slot)
      BY Zenon, <1>2, <1>5, GaugeSlotsOK DEF SendGauge
    <2> QED
      BY Zenon, <1>3, <2>1, <2>2, WellFormedRequest
  <1>6. CASE SendAllocation(a)
    BY Zenon, <1>2, <1>3, <1>6, AllocationSlotsOK, WellFormedRequest DEF SendAllocation
  <1> QED
    BY Zenon, <1>1, <1>4, <1>5, <1>6

(* Only the attempts of the TigerBeetle activities touch the ledger.       *)
LEMMA LedgerUsers == [Next]_vars => Send \/ Execute \/ Reply \/ UNCHANGED ledgerVars
  <1> SUFFICES ASSUME [Next]_vars PROVE Send \/ Execute \/ Reply \/ UNCHANGED ledgerVars
    OBVIOUS
  <1>1. CASE Environment
    BY Zenon, <1>1 DEF Environment, SignalHeartbeat, SignalRegisterCluster, IssueCredit
  <1>2. CASE MainLoop
    BY Zenon, <1>2 DEF MainLoop, ReceiveHeartbeat, ReceiveRegister, TimerFires, ContinueAsNew,
                SubmitTBBatchDone, CheckSoftLimits
  <1>3. ASSUME NEW u \in Update, Handler(u) PROVE UNCHANGED ledgerVars
    BY Zenon, <1>3 DEF Handler, SubmitAllocationDone, ResetSoftLimitAlert
  <1>4. ASSUME NEW p \in Coroutine, Call(p) PROVE UNCHANGED ledgerVars
    BY ZenonT(60), <1>4 DEF Call, AttemptFails, LookupAccountBalances, UpsertQuotaSnapshot
  <1>5. ASSUME NEW p \in Coroutine, Fault(p) PROVE UNCHANGED ledgerVars
    BY Zenon, <1>5 DEF Fault, AttemptTimesOut, LookupFails, UpdateQuotaSnapshotsFails
  <1>6. CASE UNCHANGED vars
    BY Zenon, <1>6 DEF vars
  <1> QED
    BY Zenon, <1>1, <1>2, <1>3, <1>4, <1>5, <1>6 DEF Next

LEMMA LedgerSteps == FlowInv /\ [Next]_vars => [LedgerStep]_ledgerVars
  BY Zenon, LedgerUsers, SendIsRequest DEF Execute, Reply, LedgerStep

(* The workflow uses the ledger as specified: whatever usage is reported,  *)
(* negative amounts included, and whatever is retried, every request of    *)
(* SubmitUsageBatch, SubmitGaugePendingUpdates and SubmitAllocations is a  *)
(* batch of well-formed transfers, sent when TigerBeetle is idle.          *)
THEOREM AccountingImplementsLedger == Spec => LedgerSpec
  <1>1. Init => LedgerInit
    BY Zenon DEF Init
  <1> QED
    BY <1>1, FlowInit, FlowKept, LedgerSteps, PTL DEF Spec, LedgerSpec

(* The books of the system are sound for any number of clusters,           *)
(* resources, heartbeats, credits, retries, faults and runs: no wallet is  *)
(* overdrawn (I-3), no transfer is entered twice (I-2), no refused one is  *)
(* entered later, and every void releases one reservation.                 *)
THEOREM AccountingKeepsBooks == Spec => []LedgerInv
  <1> QED
    BY AccountingImplementsLedger, LedgerCorrect, PTL

-----------------------------------------------------------------------------
(* The coroutines of the workflow, and what they wait for.                  *)

Wait == MainWait \cup HandlerWait \cup {"idle", "ok", "error", "aborted"}

LEMMA CoroutineFacts ==
  /\ Main \in Coroutine /\ Main \notin Update /\ Update \subseteq Coroutine
  /\ \A p \in Coroutine : p # Main => p \in Update
  BY Zenon, AccountingAssumption DEF Coroutine

-----------------------------------------------------------------------------
(* The abstract view: idempotent prepaid wallets.                           *)

(* The mapped state.                                                       *)
InUse == [r \in Resource |-> Used(r)]
Done == {t.id : t \in committed}

LEMMA WalletInit == LedgerInit => W!Init
  <1> SUFFICES ASSUME LedgerInit PROVE W!Init
    OBVIOUS
  <1>1. credits = InitialCredits /\ posted = [r \in Resource |-> 0] /\ committed = {}
    BY Zenon DEF LedgerInit
  <1>2. \A r \in Resource : Used(r) = 0
    BY DEF LedgerInit, Used
  <1>3. InUse = [r \in Resource |-> 0]
    BY Zenon, <1>2 DEF InUse
  <1>4. LivePending = {} /\ Done = {}
    BY Zenon, <1>1 DEF LivePending, Done
  <1> QED
    BY Zenon, <1>1, <1>3, <1>4 DEF W!Init, InUse, Done

(* The id of an accepted transfer is new, and takes effect now.            *)
LEMMA CommitTakes ==
  ASSUME NEW t \in Transfer, Outcome(t) = "ok", Commit(t)
  PROVE  t.id \notin Done /\ Done' = Done \cup {t.id} /\ t.id \in Done'
  <1>1. t # NoTransfer
    BY DEF Transfer, NoTransfer
  <1>2. \A u \in committed : u.id # t.id
    BY Zenon, <1>1 DEF Outcome
  <1>3. committed' = committed \cup {t}
    BY Zenon DEF Commit
  <1>4. t.id \notin Done
    BY Zenon, <1>2 DEF Done
  <1>5. Done' = Done \cup {t.id}
    BY Zenon, <1>3 DEF Done
  <1> QED
    BY Zenon, <1>4, <1>5

(* A transfer that is neither a reservation nor a release leaves the       *)
(* reservations alone; a reservation adds itself.                          *)
LEMMA CommitHeld ==
  ASSUME LedgerInv, NEW t \in Transfer, Outcome(t) = "ok", Commit(t)
  PROVE  /\ t.kind \in {"usage", "alloc"} => LivePending' = LivePending
         /\ t.kind = "pending" => LivePending' = LivePending \cup {t}
  <1>1. t # NoTransfer
    BY DEF Transfer, NoTransfer
  <1>2. \A u \in committed : u.id # t.id
    BY Zenon, <1>1 DEF Outcome
  <1>3. committed' = committed \cup {t}
    BY Zenon DEF Commit
  <1>4. ASSUME t.kind # "void", NEW id PROVE Voided(id)' <=> Voided(id)
    BY Zenon, <1>3, <1>4 DEF Voided
  <1>5. ~Voided(t.id)
    BY Zenon, <1>2 DEF Voided, LedgerInv, VoidsAreMatched, PendingWith
  <1>6. ASSUME t.kind \in {"usage", "alloc"} PROVE LivePending' = LivePending
    BY Zenon, <1>3, <1>4, <1>6 DEF LivePending
  <1>7. ASSUME t.kind = "pending" PROVE LivePending' = LivePending \cup {t}
    BY Zenon, <1>3, <1>4, <1>5, <1>7 DEF LivePending
  <1> QED
    BY Zenon, <1>6, <1>7

(* A release takes away the one reservation that it names.                 *)
LEMMA ReleaseHeld ==
  ASSUME LedgerInv, NEW t \in Transfer, Outcome(t) = "ok", Commit(t), t.kind = "void"
  PROVE  /\ Released(t) \in LivePending
         /\ LivePending' = LivePending \ {Released(t)}
  <1> DEFINE p == Released(t)
  <1>1. t # NoTransfer
    BY DEF Transfer, NoTransfer
  <1>2. PendingWith(t.ref) # {} /\ ~Voided(t.ref)
    BY Zenon, <1>1 DEF Outcome
  <1>3. p \in PendingWith(t.ref)
    BY Zenon, <1>2 DEF Released
  <1> HIDE DEF p
  <1>4. p \in committed /\ p.kind = "pending" /\ p.id = t.ref
    BY Zenon, <1>3 DEF PendingWith
  <1>5. p \in LivePending
    BY Zenon, <1>2, <1>4 DEF LivePending
  <1>6. committed' = committed \cup {t}
    BY Zenon DEF Commit
  <1>7. \A id : Voided(id)' <=> Voided(id) \/ id = t.ref
    BY Zenon, <1>6 DEF Voided
  <1>8. \A u \in committed : u.id = t.ref => u = p
    BY Zenon, <1>4 DEF LedgerInv, OneEntryPerId
  <1>9. LivePending' = LivePending \ {p}
    BY Zenon, <1>4, <1>6, <1>7, <1>8 DEF LivePending
  <1> QED
    BY Zenon, <1>5, <1>9 DEF p

LEMMA CommitInUse ==
  ASSUME LedgerTypeOK, NEW t \in Transfer, Outcome(t) = "ok", Commit(t),
         t.kind \in {"usage", "pending"}
  PROVE  /\ InUse[t.r] + t.amount <= credits[t.r]
         /\ InUse' = [InUse EXCEPT ![t.r] = @ + t.amount]
  <1>1. t.r \in Resource /\ t.amount \in Nat /\ t # NoTransfer
    BY DEF Transfer, NoTransfer
  <1>2. /\ credits \in [Resource -> Nat]
        /\ posted \in [Resource -> Nat]
        /\ pending \in [Resource -> Int]
    BY Zenon DEF LedgerTypeOK
  <1>3. ~Overdraws(t)
    BY Zenon, <1>1 DEF Outcome
  <1>4. posted[t.r] + pending[t.r] + t.amount <= credits[t.r]
    BY <1>1, <1>2, <1>3 DEF Overdraws, Used
  <1>5. \/ posted' = [posted EXCEPT ![t.r] = @ + t.amount] /\ pending' = pending
        \/ posted' = posted /\ pending' = [pending EXCEPT ![t.r] = @ + t.amount]
    BY Zenon DEF Commit
  <1>6. \A r \in Resource : posted'[r] + pending'[r] =
            (IF r = t.r THEN posted[r] + pending[r] + t.amount ELSE posted[r] + pending[r])
    BY <1>1, <1>2, <1>5
  <1>7. InUse = [r \in Resource |-> posted[r] + pending[r]]
    BY Zenon DEF InUse, Used
  <1>8. InUse' = [r \in Resource |-> posted'[r] + pending'[r]]
    BY Zenon DEF InUse, Used
  <1> QED
    BY Zenon, <1>1, <1>4, <1>6, <1>7, <1>8

(* Every accepted transfer is one operation on the wallets.                *)
LEMMA CommitIsOperation ==
  ASSUME LedgerInv, NEW t \in Transfer, Outcome(t) = "ok", Commit(t)
  PROVE  W!Next
  <1>1. t.r \in Resource /\ t.amount \in Nat
    BY Zenon DEF Transfer
  <1>2. /\ credits \in [Resource -> Nat]
        /\ posted \in [Resource -> Nat]
        /\ pending \in [Resource -> Int]
    BY Zenon DEF LedgerInv, LedgerTypeOK
  <1>3. LedgerTypeOK
    BY Zenon DEF LedgerInv
  <1>4. t.id \notin Done /\ Done' = Done \cup {t.id} /\ t.id \in Done'
    BY Zenon, CommitTakes
  <1>5. W!Takes(t.id)
    BY Zenon, <1>4 DEF W!Takes, Done
  <1>6. CASE t.kind = "alloc"
    <2>1. credits' = [credits EXCEPT ![t.r] = @ + t.amount] /\ UNCHANGED <<posted, pending>>
      BY Zenon, <1>6 DEF Commit
    <2>2. credits'[t.r] >= credits[t.r] /\ credits' = [credits EXCEPT ![t.r] = credits'[t.r]]
      <3>1. credits'[t.r] = credits[t.r] + t.amount
        BY Zenon, <1>1, <1>2, <2>1
      <3>2. credits'[t.r] >= credits[t.r]
        BY <1>1, <1>2, <3>1
      <3>3. credits' = [credits EXCEPT ![t.r] = credits'[t.r]]
        BY Zenon, <2>1, <3>1
      <3> QED
        BY Zenon, <3>2, <3>3
    <2>3. InUse' = InUse
      BY Zenon, <2>1 DEF InUse, Used
    <2>4. LivePending' = LivePending
      BY Zenon, <1>6, CommitHeld
    <2>5. W!Grant(t.id, t.r)
      BY Zenon, <1>5, <2>1, <2>2, <2>3, <2>4 DEF W!Grant, InUse
    <2> QED
      BY Zenon, <1>1, <1>4, <2>5 DEF W!Next, Done
  <1>7. CASE t.kind = "usage"
    <2>1. credits' = credits /\ posted' = [posted EXCEPT ![t.r] = @ + t.amount]
      BY Zenon, <1>7 DEF Commit
    <2>2. posted'[t.r] - posted[t.r] = t.amount /\ posted' = [posted EXCEPT ![t.r] = posted'[t.r]]
      <3>1. posted'[t.r] = posted[t.r] + t.amount
        BY Zenon, <1>1, <1>2, <2>1
      <3>2. posted'[t.r] - posted[t.r] = t.amount
        BY <1>1, <1>2, <3>1
      <3>3. posted' = [posted EXCEPT ![t.r] = posted'[t.r]]
        BY Zenon, <2>1, <3>1
      <3> QED
        BY Zenon, <3>2, <3>3
    <2>3. InUse[t.r] + t.amount <= credits[t.r] /\ InUse' = [InUse EXCEPT ![t.r] = @ + t.amount]
      BY Zenon, <1>3, <1>7, CommitInUse
    <2>4. W!Draw(t.r, t.amount)
      BY <1>1, <2>3 DEF W!Draw, InUse
    <2>5. LivePending' = LivePending
      BY Zenon, <1>7, CommitHeld
    <2>6. W!Spend(t.id, t.r)
      BY Zenon, <1>5, <2>1, <2>2, <2>4, <2>5 DEF W!Spend
    <2> QED
      BY Zenon, <1>1, <1>4, <2>6 DEF W!Next, Done
  <1>8. CASE t.kind = "pending"
    <2>1. credits' = credits /\ posted' = posted
      BY Zenon, <1>8 DEF Commit
    <2>2. InUse[t.r] + t.amount <= credits[t.r] /\ InUse' = [InUse EXCEPT ![t.r] = @ + t.amount]
      BY <1>3, <1>8, CommitInUse
    <2>3. W!Draw(t.r, t.amount)
      BY <1>1, <2>2 DEF W!Draw, InUse
    <2>4. LivePending' = LivePending \cup {t}
      BY Zenon, <1>8, CommitHeld
    <2>5. W!Reserve(t)
      BY Zenon, <1>5, <2>1, <2>3, <2>4 DEF W!Reserve
    <2> QED
      BY Zenon, <2>4, <2>5 DEF W!Next
  <1>9. CASE t.kind = "void"
    <2>0. PICK p : p = Released(t)
      OBVIOUS
    <2>1. p \in LivePending /\ LivePending' = LivePending \ {p}
      BY Zenon, <1>9, <2>0, ReleaseHeld
    <2>2. p.r \in Resource /\ p.amount \in Nat
      BY Zenon, <1>3, <2>1 DEF LivePending, LedgerTypeOK, Transfer
    <2>3. UNCHANGED <<credits, posted>> /\ pending' = [pending EXCEPT ![p.r] = @ - p.amount]
      BY Zenon, <1>9, <2>0 DEF Commit
    <2>4. \A r \in Resource : posted'[r] + pending'[r] =
              (IF r = p.r THEN posted[r] + pending[r] - p.amount ELSE posted[r] + pending[r])
      BY Zenon, <1>2, <2>2, <2>3
    <2>5. InUse' = [InUse EXCEPT ![p.r] = @ - p.amount]
      <3>1. InUse = [r \in Resource |-> posted[r] + pending[r]]
        BY Zenon DEF InUse, Used
      <3>2. InUse' = [r \in Resource |-> posted'[r] + pending'[r]]
        BY Zenon DEF InUse, Used
      <3> QED
        BY <1>2, <2>2, <2>4, <3>1, <3>2
    <2>6. W!Release(t.id, p)
      BY Zenon, <1>5, <2>1, <2>3, <2>5 DEF W!Release, InUse
    <2> QED
      BY Zenon, <1>4, <2>1, <2>6 DEF W!Next, Done
  <1> QED
    BY Zenon, <1>6, <1>7, <1>8, <1>9 DEF Transfer

(* A step of the ledger is one operation on the wallets, or none.          *)
LEMMA WalletStep == LedgerInv /\ [LedgerStep]_ledgerVars => [W!Next]_(W!walletVars)
  <1> SUFFICES ASSUME LedgerInv, [LedgerStep]_ledgerVars PROVE [W!Next]_(W!walletVars)
    OBVIOUS
  <1>1. ASSUME UNCHANGED <<balances, committed>> PROVE UNCHANGED W!walletVars
    <2>1. UNCHANGED <<credits, posted, pending, committed>>
      BY Zenon, <1>1 DEF balances
    <2>2. UNCHANGED <<InUse, Done, LivePending>>
      BY Zenon, <2>1 DEF InUse, Used, Done, LivePending, Voided
    <2> QED
      BY Zenon, <2>1, <2>2 DEF W!walletVars, InUse, Done
  <1>2. CASE AnyRequest \/ Respond \/ UNCHANGED ledgerVars
    BY Zenon, <1>1, <1>2 DEF AnyRequest, Respond, ledgerVars, balances
  <1>3. CASE ApplyNext
    <2>1. LedgerTypeOK
      BY Zenon DEF LedgerInv
    <2>2. Outcome(Executing) # "skipped" => Executing \in Transfer
      BY Zenon, <1>3, <2>1, ExecutingSlot
    <2>3. IF Outcome(Executing) = "ok" THEN Commit(Executing) ELSE UNCHANGED <<balances, committed>>
      BY Zenon, <1>3 DEF ApplyNext, Executing
    <2> QED
      BY Zenon, <1>1, <2>2, <2>3, CommitIsOperation
  <1> QED
    BY Zenon, <1>2, <1>3 DEF LedgerStep

(* The transfers of package internal/ledger implement idempotent prepaid   *)
(* wallets, for every client, set of resources, set of clusters and        *)
(* initial credits: a charge, a credit, a reservation or a release takes   *)
(* effect at most once and never beyond the credits.                       *)
THEOREM LedgerImplementsWallets == LedgerSpec => ImplementsWallets
  <1> QED
    BY LedgerCorrect, WalletInit, WalletStep, PTL DEF LedgerSpec, ImplementsWallets, W!Spec

(* The whole system is an idempotent prepaid wallet per resource.          *)
THEOREM AccountingImplementsWallets == Spec => ImplementsWallets
  <1> QED
    BY AccountingImplementsLedger, LedgerImplementsWallets, PTL
=============================================================================
