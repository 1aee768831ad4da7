-------------------------- MODULE GuaranteesProofs --------------------------
(* What tenants can rely on, for any heartbeats, clusters, numbers of      *)
(* attempts and faults: no usage is lost before the workflow continues as  *)
(* new, and no agent stops unless a resource was refused or used up.       *)
(*                                                                         *)
(* For usage: an attempt that is past its usage request has every          *)
(* heartbeat of its batch decided; a heartbeat in the batch or in the      *)
(* channel has the earlier ones of its cluster before it or decided, so    *)
(* what the sequence check drops has been decided.  For the stops: the     *)
(* marks that an answer is put together from name refused resources, the   *)
(* rows are balances of the past, and neither a refusal nor that a wallet  *)
(* was used up is forgotten.                                               *)
EXTENDS CallsProofs, ReportsProofs, Enforcement

In(s, hb) == \E i \in DOMAIN s : s[i] = hb

Earlier(e) == {hb \in Heartbeat : hb[1] = e[1] /\ hb[2] < e[2]}

StagesOK ==
    \A a \in attempts : a.for = Main /\ a.stage \in {"gauge", "done"} =>
        \A i \in DOMAIN a.hbs : Decided(a.hbs[i])

Settled == {hb \in Heartbeat : Decided(hb)}

(* Signals not yet received have what comes before them settled, in the    *)
(* batch or earlier in the channel.                                        *)
Queued(s, batch, settled) ==
    \A i \in DOMAIN s : \A hb \in Earlier(s[i]) :
        hb \in settled \/ In(batch, hb) \/ \E j \in 1..(i - 1) : s[j] = hb

(* With counts of the signals, a channel and a batch: nothing signalled is *)
(* gone before it is settled, and nothing overtakes what comes before it.  *)
Line(counts, s, batch, settled) ==
    /\ \A hb \in Heartbeat : counts[hb] > 0 => In(s, hb) \/ In(batch, hb) \/ hb \in settled
    /\ \A e \in Heartbeat : In(batch, e) => \A hb \in Earlier(e) : hb \in settled \/ In(batch, hb)
    /\ Queued(s, batch, settled)

SeenOK == \A hb \in Heartbeat : Seen(hb) => hb \in Settled

LineInv == runs = 0 => Line(copies, hbCh, curBatch, Settled) /\ SeenOK

EnvironmentOK ==
    copies \in [Heartbeat \cup Registering -> Nat] /\ runs \in Nat /\ regCh \subseteq Registering

-----------------------------------------------------------------------------
(* What a flush decides.                                                   *)

LEMMA DecidedStays ==
  ASSUME committed \subseteq committed', failed \subseteq failed', NEW hb, Decided(hb)
  PROVE  Decided(hb)'
  BY Zenon DEF Decided

(* The nested loops reach every pair of positions.                         *)
Row(k, n) == ((k - 1) \div n) + 1

Column(k, n) == ((k - 1) % n) + 1

Reached(m, n, i, j) == \E k \in 1..(m * n) : Row(k, n) = i /\ Column(k, n) = j

LEMMA LoopSlot ==
  ASSUME NEW m \in Nat, NEW n \in Nat \ {0}, NEW i \in 1..m, NEW j \in 1..n
  PROVE  Reached(m, n, i, j)
  <1>0. PICK k : k = (i - 1) * n + j
    OBVIOUS
  <1> DEFINE q == (k - 1) \div n
             s == (k - 1) % n
  <1>1. (i - 1) * n \in Nat /\ (i - 1) * n + n <= m * n
    <2>1. i - 1 \in Nat /\ m - i \in Nat
      OBVIOUS
    <2>2. m * n = (i - 1) * n + n + (m - i) * n
      BY <2>1
    <2>3. (i - 1) * n \in Nat /\ (m - i) * n \in Nat
      BY <2>1
    <2> QED
      BY <2>2, <2>3
  <1>2. k \in 1..(m * n) /\ k - 1 \in Nat
    BY <1>0, <1>1
  <1>3. q \in Nat /\ s \in 0..(n - 1) /\ k - 1 = n * q + s
    BY <1>2
  <1>4. k - 1 = n * (i - 1) + (j - 1)
    BY <1>0
  <1> HIDE DEF q, s
  <1>5. ASSUME q < i - 1 PROVE FALSE
    <2>1. n * (i - 1) >= n * q + n
      BY <1>3, <1>5
    <2> QED
      BY <1>2, <1>3, <1>4, <2>1
  <1>6. ASSUME q > i - 1 PROVE FALSE
    <2>1. n * q >= n * (i - 1) + n
      BY <1>3, <1>6
    <2> QED
      BY <1>2, <1>3, <1>4, <2>1
  <1>7. q = i - 1
    BY <1>3, <1>5, <1>6
  <1>8. s = j - 1
    BY <1>3, <1>4, <1>7
  <1> QED
    BY <1>2, <1>7, <1>8 DEF q, s, Reached, Row, Column

(* Every heartbeat of a batch has a slot for every resource.               *)
LEMMA UsageHasSlot ==
  ASSUME NEW hbs \in Seq(Heartbeat), NEW i \in DOMAIN hbs, NEW r \in Resource
  PROVE  \E k \in 1..Len(UsageSlots(hbs)) : UsageSlots(hbs)[k] = UsageSlot(hbs[i], r)
  <1> DEFINE n == Len(AllResources)
             m == Len(hbs)
  <1>1. n \in Nat \ {0} /\ m \in Nat /\ i \in 1..m
    BY ResourcesAssumption, LenProperties
  <1>2. PICK j \in 1..n : AllResources[j] = r
    BY ResourcesAssumption DEF Resource
  <1>3. PICK k \in 1..(m * n) : Row(k, n) = i /\ Column(k, n) = j
    <2>1. Reached(m, n, i, j)
      BY Zenon, <1>1, LoopSlot
    <2> QED
      BY Zenon, <2>1 DEF Reached
  <1>4. UsageSlots(hbs) = [l \in 1..(m * n) |->
            UsageSlot(hbs[Row(l, n)], AllResources[Column(l, n)])]
    BY Zenon DEF UsageSlots, Row, Column
  <1> HIDE DEF m, n
  <1>5. m * n \in Nat
    BY <1>1
  <1>6. UsageSlots(hbs)[k] = UsageSlot(hbs[i], r)
    BY Zenon, <1>2, <1>3, <1>4
  <1>7. Len(UsageSlots(hbs)) = m * n
    BY <1>4, <1>5
  <1> QED
    BY Zenon, <1>6, <1>7

(* Once TigerBeetle has answered a usage request without an error, every   *)
(* heartbeat of the batch is decided.                                      *)
LEMMA UsageDecides ==
  ASSUME CallInv, LedgerTypeOK, Executed, ~Unexpected, NEW hbs \in Seq(Heartbeat),
         request.items = UsageSlots(hbs), NEW i \in DOMAIN hbs
  PROVE  Decided(hbs[i])
  <1> SUFFICES ASSUME NEW r \in Resource, UsageSlot(hbs[i], r) # NoTransfer
               PROVE  LET id == DeriveTransferID(hbs[i][1], hbs[i][2], r)
                      IN  id \in failed \/ \E t \in committed : t.id = id
    BY Zenon DEF Decided
  <1>1. PICK k \in 1..Len(request.items) : request.items[k] = UsageSlot(hbs[i], r)
    BY UsageHasSlot
  <1>2. request.results \in Seq(Result) /\ Len(request.results) = Len(request.items)
    BY Zenon DEF Executed, TBIdle, LedgerTypeOK, Request
  <1>3. k \in 1..Len(request.results) /\ request.results[k] # "id_already_failed"
    BY <1>2 DEF Unexpected
  <1>4. Tells(UsageSlot(hbs[i], r), request.results[k], Entered, failed)
    BY Zenon, <1>1, <1>3 DEF CallInv, ResultsOK
  <1>5. /\ UsageSlot(hbs[i], r).kind = "usage"
        /\ UsageSlot(hbs[i], r).id = DeriveTransferID(hbs[i][1], hbs[i][2], r)
    BY Zenon DEF UsageSlot
  <1> QED
    BY Zenon, <1>3, <1>4, <1>5 DEF Tells, Entered

(* An attempt that is past its usage request.                              *)
LEMMA StagesStep ==
  ASSUME FlowInv, LedgerTypeOK, CallInv, StagesOK, Goes, [Next]_vars
  PROVE  StagesOK'
  <1> SUFFICES ASSUME NEW b \in attempts', b.for = Main, b.stage \in {"gauge", "done"},
                      NEW i \in DOMAIN b.hbs
               PROVE  Decided(b.hbs[i])'
    BY Zenon DEF StagesOK
  <1>1. ASSUME Decided(b.hbs[i]) PROVE Decided(b.hbs[i])'
    BY Zenon, <1>1, BooksGrow, DecidedStays
  <1>2. CASE b \in attempts
    BY Zenon, <1>1, <1>2 DEF StagesOK
  <1>3. CASE Fresh(b)
    BY Zenon, <1>3 DEF Fresh
  <1>4. CASE Replied(b)
    <2>1. PICK a \in attempts : Key(a) = request.from /\ b = AfterReply(a)
      BY Zenon, <1>4 DEF Replied
    <2>2. Sound(a) /\ a.hbs \in Seq(Heartbeat)
      BY Zenon DEF FlowInv, CallsOK, Sound, Attempt
    <2>3. b.for = a.for /\ b.hbs = a.hbs /\ ~Unexpected
      BY Zenon, <2>1, <2>2 DEF AfterReply, AfterUsage, AfterGauge, Sound, Attempt
    <2>4. Asks(a, request.items)
      BY Zenon, <1>4, <2>1 DEF CallInv, RequestOK, AttemptsOK, Replied, Executed
    <2>5. a.stage # "alloc"
      BY Zenon, <2>2, <2>3, CoroutineFacts DEF Sound
    <2>6. CASE a.stage = "gauge"
      BY Zenon, <1>1, <2>3, <2>6 DEF StagesOK
    <2>7. CASE a.stage = "usage"
      <3>1. request.items = UsageSlots(a.hbs)
        BY Zenon, <2>4, <2>7 DEF Asks
      <3>2. Decided(a.hbs[i])
        BY Zenon, <1>4, <2>2, <2>3, <3>1, UsageDecides DEF Replied
      <3> QED
        BY Zenon, <1>1, <2>3, <3>2
    <2> QED
      BY Zenon, <2>4, <2>5, <2>6, <2>7 DEF Asks
  <1> QED
    BY Zenon, <1>2, <1>3, <1>4 DEF Goes

-----------------------------------------------------------------------------
(* Steps of the heartbeats.                                                *)

(* The heartbeats stay where they are, unless a new run starts.            *)
Stays ==
    /\ UNCHANGED <<copies, processedSeqs>>
    /\ regCh' \subseteq regCh
    /\ UNCHANGED <<hbCh, curBatch, runs>> \/ runs' = runs + 1

Signalled(hb) ==
    /\ Ordered => \A e \in Earlier(hb) : copies[e] > 0
    /\ copies' = [copies EXCEPT ![hb] = @ + 1]
    /\ hbCh' = Append(hbCh, hb)
    /\ UNCHANGED <<curBatch, processedSeqs, regCh, runs>>

Moves ==
    \/ Stays
    \/ \E hb \in Heartbeat : Signalled(hb)
    \/ \E c \in Registering : /\ copies' = [copies EXCEPT ![c] = @ + 1]
                              /\ regCh' = regCh \cup {c}
                              /\ UNCHANGED <<hbCh, curBatch, processedSeqs, runs>>
    \/ ReceiveHeartbeat
    \/ \E c \in Cluster : ReceiveRegister(c)
    \/ SubmitTBBatchDone

LEMMA FlushReturnsStays ==
  ASSUME FlushReturns, UNCHANGED <<copies, processedSeqs>>
  PROVE  Stays
  BY Zenon DEF FlushReturns, NewRun, Stays, channels

LEMMA RetryStays ==
  ASSUME NEW p, NEW others, RetryOrGiveUp(p, others), UNCHANGED <<copies, processedSeqs>>
  PROVE  Stays
  BY Zenon, FlushReturnsStays DEF RetryOrGiveUp, Stays, channels

LEMMA LineMoves ==
  ASSUME [Next]_vars
  PROVE  Moves
  <1>1. CASE Environment
    <2>1. ASSUME NEW hb \in Heartbeat, SignalHeartbeat(hb) PROVE Signalled(hb)
      BY Zenon, <2>1 DEF SignalHeartbeat, Signalled, Earlier, state
    <2>2. ASSUME NEW c \in Cluster, SignalRegisterCluster(c) PROVE Moves
      BY Zenon, <2>2 DEF SignalRegisterCluster, Moves, state
    <2>3. ASSUME NEW u \in Update, IssueCredit(u) PROVE Stays
      BY Zenon, <2>3 DEF IssueCredit, Stays, channels
    <2> QED
      BY Zenon, <1>1, <2>1, <2>2, <2>3 DEF Environment, Moves
  <1>2. CASE MainLoop
    <2>1. CASE TimerFires
      BY Zenon, <2>1 DEF TimerFires, Stays, Moves, channels
    <2>2. CASE ContinueAsNew
      BY Zenon, <2>2 DEF ContinueAsNew, NewRun, Stays, Moves, channels
    <2>3. CASE CheckSoftLimits
      BY Zenon, <2>3, FlushReturnsStays DEF CheckSoftLimits, Moves
    <2> QED
      BY Zenon, <1>2, <2>1, <2>2, <2>3 DEF MainLoop, Moves
  <1>3. ASSUME NEW u \in Update, Handler(u) PROVE Stays
    BY Zenon, <1>3 DEF Handler, SubmitAllocationDone, ResetSoftLimitAlert, Stays, state, channels
  <1>4. ASSUME NEW p \in Coroutine, Call(p) PROVE Stays
    <2>1. CASE AttemptFails(p)
      BY Zenon, <2>1, RetryStays DEF AttemptFails
    <2>2. CASE ~AttemptFails(p)
      BY Zenon, <1>4, <2>2
         DEF Call, LookupAccountBalances, UpsertQuotaSnapshot, Stays, state, channels
    <2> QED
      BY Zenon, <2>1, <2>2
  <1>5. ASSUME NEW p \in Coroutine, Fault(p) PROVE Stays
    <2>1. CASE AttemptTimesOut(p)
      BY Zenon, <2>1, RetryStays DEF AttemptTimesOut
    <2>2. CASE LookupFails(p)
      BY Zenon, <2>2, FlushReturnsStays DEF LookupFails, Stays, channels
    <2>3. CASE UpdateQuotaSnapshotsFails(p)
      BY Zenon, <2>3 DEF UpdateQuotaSnapshotsFails, Stays, state, channels
    <2> QED
      BY Zenon, <1>5, <2>1, <2>2, <2>3 DEF Fault
  <1>6. CASE Send \/ Execute \/ Reply
    BY Zenon, <1>6 DEF Send, Execute, Reply, Moves, Stays, state, channels
  <1>7. CASE UNCHANGED vars
    BY Zenon, <1>7 DEF vars, Moves, Stays, state, channels
  <1> QED
    BY <1>1, <1>2, <1>3, <1>4, <1>5, <1>6, <1>7 DEF Next, Moves

LEMMA EnvironmentStep ==
  ASSUME EnvironmentOK, Moves
  PROVE  EnvironmentOK' /\ (runs' = 0 => runs = 0)
  <1>1. CASE Stays
    BY <1>1 DEF Stays, EnvironmentOK
  <1>2. ASSUME NEW hb \in Heartbeat, Signalled(hb) PROVE EnvironmentOK' /\ runs' = runs
    BY <1>2 DEF Signalled, EnvironmentOK
  <1>3. ASSUME NEW c \in Registering, copies' = [copies EXCEPT ![c] = @ + 1],
               regCh' = regCh \cup {c}, runs' = runs
        PROVE  EnvironmentOK'
    BY <1>3 DEF EnvironmentOK
  <1>4. CASE ReceiveHeartbeat \/ \E c \in Cluster : ReceiveRegister(c)
    BY Zenon, <1>4 DEF ReceiveHeartbeat, ReceiveRegister, EnvironmentOK
  <1>5. CASE SubmitTBBatchDone
    BY Zenon, <1>5 DEF SubmitTBBatchDone, EnvironmentOK, channels
  <1> QED
    BY Zenon, <1>1, <1>2, <1>3, <1>4, <1>5 DEF Moves

-----------------------------------------------------------------------------
(* The heartbeats of the first run.                                        *)

LEMMA InAppend ==
  ASSUME NEW s \in Seq(Heartbeat), NEW e \in Heartbeat
  PROVE  \A x : In(Append(s, e), x) <=> In(s, x) \/ x = e
  <1>1. /\ DOMAIN Append(s, e) = 1..(Len(s) + 1) /\ DOMAIN s = 1..Len(s) /\ Len(s) \in Nat
        /\ \A i \in 1..Len(s) : Append(s, e)[i] = s[i]
        /\ Append(s, e)[Len(s) + 1] = e
    BY LenProperties
  <1>2. Len(s) + 1 \in 1..(Len(s) + 1)
    BY <1>1
  <1>3. \A i \in 1..(Len(s) + 1) : i \in 1..Len(s) \/ i = Len(s) + 1
    BY <1>1
  <1>4. \A i \in 1..Len(s) : i \in 1..(Len(s) + 1)
    BY <1>1
  <1> QED
    BY Zenon, <1>1, <1>2, <1>3, <1>4 DEF In

LEMMA TailFacts ==
  ASSUME NEW s \in Seq(Heartbeat), s # <<>>
  PROVE  /\ Len(s) \in Nat \ {0} /\ DOMAIN s = 1..Len(s) /\ Head(s) = s[1]
         /\ DOMAIN Tail(s) = 1..(Len(s) - 1)
         /\ \A i \in 1..(Len(s) - 1) : Tail(s)[i] = s[i + 1]
         /\ Head(s) \in Heartbeat
  OBVIOUS

LEMMA InTail ==
  ASSUME NEW s \in Seq(Heartbeat), s # <<>>
  PROVE  \A x : In(s, x) => x = Head(s) \/ In(Tail(s), x)
  <1> SUFFICES ASSUME NEW x, NEW i \in DOMAIN s, s[i] = x, i # 1
               PROVE  In(Tail(s), x)
    BY Zenon, TailFacts DEF In
  <1>1. i - 1 \in 1..(Len(s) - 1) /\ (i - 1) + 1 = i
    BY TailFacts
  <1>2. Tail(s)[i - 1] = s[i]
    BY Zenon, <1>1, TailFacts
  <1> QED
    BY Zenon, <1>1, <1>2, TailFacts DEF In

LEMMA QueuedTail ==
  ASSUME NEW s \in Seq(Heartbeat), s # <<>>, NEW batch, NEW more, NEW settled,
         Queued(s, batch, settled), \A hb : In(batch, hb) => In(more, hb),
         Head(s) \in settled \/ In(more, Head(s))
  PROVE  Queued(Tail(s), more, settled)
  <1> SUFFICES ASSUME NEW i \in DOMAIN Tail(s), NEW hb \in Earlier(Tail(s)[i]),
                      hb \notin settled, ~In(more, hb)
               PROVE  \E j \in 1..(i - 1) : Tail(s)[j] = hb
    BY Zenon DEF Queued
  <1>1. i \in 1..(Len(s) - 1) /\ i + 1 \in 1..Len(s) /\ Tail(s)[i] = s[i + 1]
    BY TailFacts
  <1>2. PICK j \in 1..i : s[j] = hb
    <2>1. (i + 1) - 1 = i
      BY <1>1
    <2> QED
      BY <1>1, <2>1, TailFacts DEF Queued
  <1>3. j # 1
    BY Zenon, <1>2, TailFacts
  <1>4. j - 1 \in 1..(i - 1) /\ j - 1 \in 1..(Len(s) - 1) /\ (j - 1) + 1 = j
    BY <1>1, <1>2, <1>3, TailFacts
  <1>5. Tail(s)[j - 1] = s[j]
    BY Zenon, <1>4, TailFacts
  <1> QED
    BY Zenon, <1>2, <1>4, <1>5

LEMMA QueuedAppend ==
  ASSUME NEW s \in Seq(Heartbeat), NEW e \in Heartbeat, NEW batch, NEW settled,
         Queued(s, batch, settled),
         \A hb \in Earlier(e) : hb \in settled \/ In(batch, hb) \/ In(s, hb)
  PROVE  Queued(Append(s, e), batch, settled)
  <1>1. /\ DOMAIN Append(s, e) = 1..(Len(s) + 1) /\ DOMAIN s = 1..Len(s) /\ Len(s) \in Nat
        /\ \A i \in 1..Len(s) : Append(s, e)[i] = s[i]
        /\ Append(s, e)[Len(s) + 1] = e
    BY SMTT(30), LenProperties
  <1> SUFFICES ASSUME NEW i \in 1..(Len(s) + 1), NEW hb \in Earlier(Append(s, e)[i]),
                      hb \notin settled, ~In(batch, hb)
               PROVE  \E j \in 1..(i - 1) : Append(s, e)[j] = hb
    BY Zenon, <1>1 DEF Queued
  <1>2. PICK j \in 1..(i - 1) : s[j] = hb
    <2>1. CASE i = Len(s) + 1
      <3>1. PICK j \in DOMAIN s : s[j] = hb
        BY Zenon, <1>1, <2>1 DEF In
      <3>2. j \in 1..(i - 1)
        BY <1>1, <2>1, <3>1
      <3> QED
        BY Zenon, <3>1, <3>2
    <2>2. CASE i # Len(s) + 1
      BY <1>1, <2>2 DEF Queued
    <2> QED
      BY Zenon, <2>1, <2>2
  <1>3. j \in 1..Len(s)
    BY <1>1, <1>2
  <1> QED
    BY Zenon, <1>1, <1>2, <1>3

LEMMA LineSettles ==
  ASSUME NEW counts, NEW s, NEW batch, NEW settled, NEW more, settled \subseteq more,
         Line(counts, s, batch, settled)
  PROVE  Line(counts, s, batch, more)
  BY Zenon DEF Line, Queued

LEMMA LineSignalled ==
  ASSUME NEW counts \in [Heartbeat \cup Registering -> Nat], NEW s \in Seq(Heartbeat),
         NEW batch, NEW settled, NEW e \in Heartbeat, Line(counts, s, batch, settled),
         \A hb \in Earlier(e) : counts[hb] > 0
  PROVE  Line([counts EXCEPT ![e] = @ + 1], Append(s, e), batch, settled)
  <1>1. \A hb \in Earlier(e) : hb \in settled \/ In(batch, hb) \/ In(s, hb)
    BY Zenon DEF Line, Earlier
  <1>2. Queued(Append(s, e), batch, settled)
    BY Zenon, <1>1, QueuedAppend DEF Line
  <1>3. \A hb \in Heartbeat : hb # e => [counts EXCEPT ![e] = @ + 1][hb] = counts[hb]
    OBVIOUS
  <1> QED
    BY Zenon, <1>2, <1>3, InAppend DEF Line

LEMMA LineDropped ==
  ASSUME NEW counts, NEW s \in Seq(Heartbeat), s # <<>>, NEW batch, NEW settled,
         Line(counts, s, batch, settled), Head(s) \in settled
  PROVE  Line(counts, Tail(s), batch, settled)
  <1>1. Queued(Tail(s), batch, settled)
    BY Zenon, QueuedTail DEF Line
  <1> QED
    BY Zenon, <1>1, InTail DEF Line

LEMMA LineTaken ==
  ASSUME NEW counts, NEW s \in Seq(Heartbeat), s # <<>>, NEW batch \in Seq(Heartbeat),
         NEW settled, Line(counts, s, batch, settled)
  PROVE  Line(counts, Tail(s), Append(batch, Head(s)), settled)
  <1>1. PICK more : more = Append(batch, Head(s))
    BY Zenon
  <1>2. \A hb : In(more, hb) <=> In(batch, hb) \/ hb = Head(s)
    BY Zenon, <1>1, InAppend, TailFacts
  <1>3. Queued(Tail(s), more, settled)
    BY Zenon, <1>2, QueuedTail DEF Line
  <1>4. \A hb \in Earlier(Head(s)) : hb \in settled \/ In(batch, hb)
    <2>1. 1 \in DOMAIN s /\ Head(s) = s[1] /\ 1..(1 - 1) = {}
      BY TailFacts
    <2> QED
      BY Zenon, <2>1 DEF Line, Queued
  <1>5. \A e \in Heartbeat : In(more, e) => \A hb \in Earlier(e) : hb \in settled \/ In(more, hb)
    BY Zenon, <1>2, <1>4 DEF Line
  <1>6. \A hb \in Heartbeat : counts[hb] > 0 => In(Tail(s), hb) \/ In(more, hb) \/ hb \in settled
    BY Zenon, <1>2, InTail DEF Line
  <1> QED
    BY Zenon, <1>1, <1>3, <1>5, <1>6 DEF Line

LEMMA LineFlushed ==
  ASSUME NEW counts, NEW s, NEW batch, NEW settled, Line(counts, s, batch, settled),
         \A hb : In(batch, hb) => hb \in settled
  PROVE  Line(counts, s, <<>>, settled)
  <1>1. \A hb : ~In(<<>>, hb)
    BY DEF In
  <1> QED
    BY Zenon, <1>1 DEF Line, Queued

(* A flush that is processed has settled its batch.                        *)
LEMMA FlushSettles ==
  ASSUME FlowInv, CallInv, StagesOK, SubmitTBBatchDone
  PROVE  \A hb : In(curBatch, hb) => hb \in Settled
  <1>1. PICK a \in attempts : Current(Main, a) /\ a.stage = "done"
    BY Zenon DEF SubmitTBBatchDone
  <1>2. a.hbs = curBatch
    BY Zenon, <1>1 DEF CallInv, BatchOK, Current
  <1>3. \A i \in DOMAIN curBatch : Decided(curBatch[i])
    BY Zenon, <1>1, <1>2 DEF StagesOK, Current
  <1>4. \A i \in DOMAIN curBatch : curBatch[i] \in Heartbeat
    BY Zenon, LenProperties, ElementOfSeq DEF FlowInv, QueuesOK
  <1> QED
    BY Zenon, <1>3, <1>4 DEF In, Settled

LEMMA HighestIs ==
  ASSUME NEW hbs, NEW I, NEW n
  PROVE  Highest(hbs, I, n) = n \/ \E i \in I : Highest(hbs, I, n) = hbs[i][2]
  <1> DEFINE J == {i \in Newest(hbs, I) : hbs[i][2] > n}
             k == CHOOSE i \in J : TRUE
  <1>1. J # {} => k \in J
    BY Zenon
  <1>2. J # {} => k \in I
    BY Zenon, <1>1 DEF Newest
  <1>3. Highest(hbs, I, n) = IF J = {} THEN n ELSE hbs[k][2]
    BY Zenon DEF Highest
  <1> HIDE DEF J, k
  <1> QED
    BY Zenon, <1>2, <1>3

(* What a flush marks as processed is settled: what is in the batch, and   *)
(* what comes before it.                                                   *)
LEMMA FlushMarks ==
  ASSUME FlowInv, CallInv, StagesOK, Line(copies, hbCh, curBatch, Settled), SeenOK,
         SubmitTBBatchDone, NEW hb \in Heartbeat, Seen(hb)'
  PROVE  hb \in Settled
  <1>1. hb[1] \in Cluster /\ hb[2] \in Nat
    BY Zenon, AccountingAssumption
  <1>2. PICK c : c = hb[1]
    OBVIOUS
  <1>3. processedSeqs'[c] = ProcessedAfter(curBatch, c)
    BY Zenon, <1>1, <1>2 DEF SubmitTBBatchDone
  <1>4. processedSeqs'[c] # NotSeen /\ hb[2] <= processedSeqs'[c]
    BY Zenon, <1>2 DEF Seen
  <1>5. CASE processedSeqs'[c] = processedSeqs[c]
    BY Zenon, <1>2, <1>4, <1>5 DEF Seen, SeenOK
  <1>6. CASE processedSeqs'[c] # processedSeqs[c]
    <2>1. PICK i \in PositionsOf(curBatch, c) : processedSeqs'[c] = curBatch[i][2]
      BY Zenon, <1>3, <1>6, HighestIs DEF ProcessedAfter
    <2>2. i \in DOMAIN curBatch /\ curBatch[i][1] = c
      BY Zenon, <2>1 DEF PositionsOf
    <2>3. PICK e : e = curBatch[i]
      BY Zenon
    <2>4. e \in Heartbeat /\ In(curBatch, e)
      BY Zenon, <2>2, <2>3, LenProperties, ElementOfSeq DEF FlowInv, QueuesOK, In
    <2>5. e = <<c, e[2]>> /\ hb = <<c, hb[2]>> /\ e[2] \in Nat
      <3>1. e \in Cluster \X Nat /\ hb \in Cluster \X Nat /\ e[1] = c /\ hb[1] = c
        BY Zenon, <1>2, <2>2, <2>3, <2>4, AccountingAssumption
      <3> QED
        BY <3>1
    <2>6. hb[2] <= e[2]
      BY Zenon, <1>4, <2>1, <2>3
    <2>7. CASE hb[2] = e[2]
      BY Zenon, <2>4, <2>5, <2>7, FlushSettles
    <2>8. CASE hb[2] < e[2]
      <3>1. hb \in Earlier(e)
        BY Zenon, <1>2, <2>2, <2>3, <2>8 DEF Earlier
      <3> QED
        BY Zenon, <2>4, <3>1, FlushSettles DEF Line
    <2> QED
      BY SMTT(30), <1>1, <2>5, <2>6, <2>7, <2>8
  <1> QED
    BY Zenon, <1>5, <1>6

(* A registered cluster that has not been heard of starts from 0.          *)
LEMMA RegisterMarks ==
  ASSUME FlowInv, EnvironmentOK, NEW c \in Cluster, ReceiveRegister(c),
         \A hb \in Heartbeat : hb[1] \in Registering => hb[2] > 0,
         NEW hb \in Heartbeat, Seen(hb)'
  PROVE  Seen(hb)
  <1>1. /\ c \in Registering /\ hb[1] \in Cluster /\ hb[2] \in Nat
        /\ processedSeqs \in [Cluster -> Int]
    BY Zenon, AccountingAssumption DEF ReceiveRegister, EnvironmentOK, FlowInv, MarksOK
  <1>2. hb[1] = c => hb[2] > 0
    BY Zenon, <1>1
  <1>3. processedSeqs' = IF processedSeqs[c] = NotSeen
                         THEN [processedSeqs EXCEPT ![c] = 0] ELSE processedSeqs
    BY Zenon DEF ReceiveRegister
  <1>4. processedSeqs'[hb[1]] # NotSeen /\ hb[2] <= processedSeqs'[hb[1]]
    BY Zenon DEF Seen
  <1> QED
    BY SMTT(30), <1>1, <1>2, <1>3, <1>4 DEF Seen, NotSeen

LEMMA LineStep ==
  ASSUME Ordered, \A hb \in Heartbeat : hb[1] \in Registering => hb[2] > 0,
         FlowInv, LedgerTypeOK, CallInv, StagesOK, EnvironmentOK, LineInv, [Next]_vars
  PROVE  LineInv'
  <1> SUFFICES ASSUME runs' = 0
               PROVE  Line(copies, hbCh, curBatch, Settled)' /\ SeenOK'
    BY Zenon DEF LineInv
  <1>1. Moves
    BY Zenon, LineMoves
  <1>2. Line(copies, hbCh, curBatch, Settled) /\ SeenOK
    BY Zenon, <1>1, EnvironmentStep DEF LineInv
  <1>3. PICK settled : settled = Settled'
    BY Zenon
  <1>4. Settled \subseteq settled
    BY Zenon, <1>3, BooksGrow, DecidedStays DEF Settled
  <1>5. Line(copies, hbCh, curBatch, settled)
    BY Zenon, <1>2, <1>4, LineSettles
  <1>6. ASSUME \A hb \in Heartbeat : Seen(hb)' => Seen(hb) \/ hb \in Settled PROVE SeenOK'
    BY Zenon, <1>2, <1>3, <1>4, <1>6 DEF SeenOK
  <1>7. ASSUME processedSeqs' = processedSeqs PROVE SeenOK'
    BY Zenon, <1>6, <1>7 DEF Seen
  <1>8. hbCh \in Seq(Heartbeat) /\ curBatch \in Seq(Heartbeat)
    BY Zenon DEF FlowInv, QueuesOK
  <1>9. CASE Stays
    <2>1. UNCHANGED <<copies, hbCh, curBatch, processedSeqs>>
      BY <1>9 DEF Stays, EnvironmentOK
    <2> QED
      BY Zenon, <1>3, <1>5, <1>7, <2>1
  <1>10. ASSUME NEW hb \in Heartbeat, Signalled(hb)
         PROVE  Line(copies, hbCh, curBatch, Settled)' /\ SeenOK'
    <2>1. Line([copies EXCEPT ![hb] = @ + 1], Append(hbCh, hb), curBatch, settled)
      BY Zenon, <1>5, <1>8, <1>10, LineSignalled DEF Signalled, EnvironmentOK
    <2> QED
      BY Zenon, <1>3, <1>7, <1>10, <2>1 DEF Signalled
  <1>11. ASSUME NEW c \in Registering, copies' = [copies EXCEPT ![c] = @ + 1],
                UNCHANGED <<hbCh, curBatch, processedSeqs>>
         PROVE  Line(copies, hbCh, curBatch, Settled)' /\ SeenOK'
    <2>1. \A hb \in Heartbeat : copies'[hb] = copies[hb]
      BY Zenon, <1>11, AccountingAssumption DEF EnvironmentOK
    <2>2. Line(copies', hbCh, curBatch, settled)
      BY Zenon, <1>5, <2>1 DEF Line
    <2> QED
      BY Zenon, <1>3, <1>7, <1>11, <2>2
  <1>12. CASE ReceiveHeartbeat
    <2>1. /\ hbCh # <<>> /\ hbCh' = Tail(hbCh) /\ copies' = copies
          /\ processedSeqs' = processedSeqs
          /\ \/ Seen(Head(hbCh)) /\ curBatch' = curBatch
             \/ curBatch' = Append(curBatch, Head(hbCh))
      BY Zenon, <1>12 DEF ReceiveHeartbeat
    <2>2. CASE Seen(Head(hbCh)) /\ curBatch' = curBatch
      <3>1. Head(hbCh) \in settled
        BY Zenon, <1>2, <1>4, <1>8, <2>1, <2>2, TailFacts DEF SeenOK
      <3>2. Line(copies, Tail(hbCh), curBatch, settled)
        BY Zenon, <1>5, <1>8, <2>1, <3>1, LineDropped
      <3> QED
        BY Zenon, <1>3, <1>7, <2>1, <2>2, <3>2
    <2>3. CASE curBatch' = Append(curBatch, Head(hbCh))
      <3>1. Line(copies, Tail(hbCh), Append(curBatch, Head(hbCh)), settled)
        BY Zenon, <1>5, <1>8, <2>1, LineTaken
      <3> QED
        BY Zenon, <1>3, <1>7, <2>1, <2>3, <3>1
    <2> QED
      BY Zenon, <2>1, <2>2, <2>3
  <1>13. ASSUME NEW c \in Cluster, ReceiveRegister(c)
         PROVE  Line(copies, hbCh, curBatch, Settled)' /\ SeenOK'
    <2>1. SeenOK'
      BY Zenon, <1>6, <1>13, RegisterMarks
    <2> QED
      BY Zenon, <1>3, <1>5, <1>13, <2>1 DEF ReceiveRegister
  <1>14. CASE SubmitTBBatchDone
    <2>1. SeenOK'
      BY Zenon, <1>2, <1>6, <1>14, FlushMarks
    <2>2. curBatch' = <<>> /\ copies' = copies /\ hbCh' = hbCh
      BY Zenon, <1>14 DEF SubmitTBBatchDone, channels
    <2>3. Line(copies, hbCh, <<>>, settled)
      BY Zenon, <1>4, <1>5, <1>14, FlushSettles, LineFlushed
    <2> QED
      BY Zenon, <1>3, <2>1, <2>2, <2>3
  <1> QED
    BY Zenon, <1>1, <1>9, <1>10, <1>11, <1>12, <1>13, <1>14 DEF Moves

(* No usage is lost in a run of the workflow that has not been continued   *)
(* as new: for any heartbeats, clusters, threshold, numbers of attempts,   *)
(* timeouts with late requests and duplicated signals, a heartbeat that    *)
(* was signalled waits in the channel or in the batch until TigerBeetle    *)
(* has accepted or refused every transfer of it.  The first copies of a    *)
(* cluster's heartbeats arrive in order, and a cluster that is registered  *)
(* counts from 1: both are what an agent and the gateway do.               *)
THEOREM FirstRunLosesNoUsage ==
  ASSUME Ordered, \A hb \in Heartbeat : hb[1] \in Registering => hb[2] > 0
  PROVE  Spec => [](runs = 0 => NoUsageLost)
  <1> DEFINE IInv == StagesOK /\ EnvironmentOK /\ LineInv
  <1>1. Init => IInv
    <2> SUFFICES ASSUME Init PROVE IInv
      OBVIOUS
    <2>1. StagesOK
      BY Zenon DEF Init, StagesOK
    <2>2. EnvironmentOK
      BY Zenon DEF Init, EnvironmentOK
    <2>3. Line(copies, hbCh, curBatch, Settled)
      BY DEF Init, Line, Queued, In
    <2>4. SeenOK
      BY Zenon, AccountingAssumption DEF Init, SeenOK, Seen
    <2> QED
      BY Zenon, <2>1, <2>2, <2>3, <2>4 DEF LineInv
  <1>2. FlowInv /\ LedgerInv /\ CallInv /\ IInv /\ [Next]_vars => IInv'
    <2> SUFFICES ASSUME FlowInv, LedgerInv, CallInv, IInv, [Next]_vars PROVE IInv'
      OBVIOUS
    <2>1. LedgerTypeOK /\ Goes
      BY Zenon, CallStep DEF LedgerInv
    <2>2. StagesOK'
      BY Zenon, <2>1, StagesStep
    <2>3. EnvironmentOK'
      BY Zenon, LineMoves, EnvironmentStep
    <2>4. LineInv'
      BY Zenon, <2>1, LineStep
    <2> QED
      BY Zenon, <2>2, <2>3, <2>4
  <1>3. IInv => (runs = 0 => NoUsageLost)
    BY Zenon DEF LineInv, Line, NoUsageLost, Waiting, In, Settled
  <1> HIDE DEF IInv
  <1> QED
    BY <1>1, <1>2, <1>3, FlowInit, FlowKept, CallsGo, AccountingKeepsBooks, PTL DEF Spec

-----------------------------------------------------------------------------
(* No agent is stopped for nothing.                                        *)

Justified == \E r \in Resource : r \in emptied \/ Refused(r)

(* What is known of the workflow; the send loops and the agents leave it   *)
(* alone, but for the number of faults.                                    *)
WorkflowInv == WholeInv /\ CallInv /\ PerOK /\ ExceededIsJustified

(* A balance of resource r that leaves nothing was looked up in a wallet   *)
(* that was used up.                                                       *)
WasEmpty(b, r) == b.credits > 0 /\ Left(b) <= 0 => r \in emptied

RowsInv ==
    /\ \A r \in Resource : Used(r) >= credits[r] => r \in emptied
    /\ \A r \in Resource : WasEmpty(snapshots[r], r)
    /\ \A p \in Coroutine : \A r \in Resource : WasEmpty(fetched[p][r], r)

(* The marks that an answer is put together from name refused resources,   *)
(* and a command to stop on its way, like one that has arrived, has its    *)
(* reason.                                                                 *)
LoopInv ==
    /\ marks \in [Cluster -> SUBSET Resource] /\ kill \in [Cluster -> BOOLEAN]
    /\ \A c \in Cluster : \A r \in marks[c] : Refused(r)
    /\ \A c \in Cluster : kill[c] => Justified
    /\ stopped # {} => Justified

(* Neither a refusal nor an empty wallet is forgotten.                     *)
LEMMA StaysJustified ==
  ASSUME failed \subseteq failed', emptied \subseteq emptied', Justified
  PROVE  Justified'
  BY Zenon DEF Justified, Refused

LEMMA ExceededHasReason ==
  ASSUME RowsInv, NEW M, \A r \in M : Refused(r), PendingCommands(M)
  PROVE  Justified
  BY Zenon DEF PendingCommands, Exceeded, HasRow, Available, RowsInv, WasEmpty, Justified

(* What is looked up is the wallet as it is, and a row is written from     *)
(* what was looked up.                                                     *)
LEMMA RowsStep ==
  ASSUME WholeInv, RowsInv, RowsKept, emptied \subseteq emptied', UsedUp' \subseteq emptied'
  PROVE  RowsInv'
  <1>1. ASSUME NEW r \in Resource PROVE WasEmpty(NoBalance[r], r) /\ WasEmpty(LookupBalances[r], r)
    <2>1. NoBalance[r].credits = 0
      BY DEF NoBalance
    <2>2. /\ LookupBalances[r].credits = credits[r] /\ LookupBalances[r].posted = posted[r]
          /\ LookupBalances[r].pending = pending[r]
      BY DEF LookupBalances
    <2>3. credits[r] \in Nat /\ posted[r] \in Nat /\ pending[r] \in Int
      BY Zenon DEF WholeInv, LedgerInv, LedgerTypeOK
    <2>4. Left(LookupBalances[r]) <= 0 => Used(r) >= credits[r]
      BY <2>2, <2>3 DEF Left, Used
    <2>5. ~(NoBalance[r].credits > 0)
      BY <2>1
    <2> QED
      BY Zenon, <2>4, <2>5 DEF WasEmpty, RowsInv
  <1>2. \A b, r : WasEmpty(b, r) => WasEmpty(b, r)'
    BY Zenon DEF WasEmpty
  <1>3. \A r \in Resource : (Used(r) >= credits[r] => r \in emptied)'
    BY Zenon DEF UsedUp
  <1>4. ASSUME NEW p \in Coroutine, NEW r \in Resource PROVE WasEmpty(fetched[p][r], r)'
    <2>1. fetched'[p] \in {fetched[p], NoBalance, LookupBalances}
      BY Zenon DEF RowsKept
    <2>2. fetched'[p][r] \in {fetched[p][r], NoBalance[r], LookupBalances[r]}
      BY Zenon, <2>1
    <2>3. WasEmpty(fetched[p][r], r)
      BY Zenon DEF RowsInv
    <2>4. WasEmpty(fetched'[p][r], r)
      BY Zenon, <1>1, <2>2, <2>3
    <2> QED
      BY Zenon, <2>4 DEF WasEmpty
  <1>5. ASSUME NEW r \in Resource PROVE WasEmpty(snapshots[r], r)'
    <2>1. snapshots'[r] = snapshots[r] \/ \E p \in Coroutine : snapshots'[r] = fetched[p][r]
      BY Zenon DEF RowsKept
    <2>2. WasEmpty(snapshots'[r], r)
      BY Zenon, <2>1 DEF RowsInv
    <2> QED
      BY Zenon, <2>2 DEF WasEmpty
  <1> QED
    BY Zenon, <1>3, <1>4, <1>5 DEF RowsInv

LEMMA WorkflowStep ==
  WorkflowInv /\ [Next]_vars => WorkflowInv' /\ failed \subseteq failed' /\ RowsKept
  <1> SUFFICES ASSUME WorkflowInv, [Next]_vars
               PROVE  WorkflowInv' /\ failed \subseteq failed' /\ RowsKept
    OBVIOUS
  <1>1. WholeInv' /\ StateKept
    BY Zenon, WholeStep DEF WorkflowInv
  <1>2. CallInv' /\ PerOK' /\ ExceededIsJustified'
    BY Zenon, CallStep, VerdictStep DEF WorkflowInv, WholeInv
  <1>3. RowsKept
    BY Zenon, <1>1 DEF StateKept
  <1>4. failed \subseteq failed'
    BY Zenon, CallStep, BooksGrow DEF WorkflowInv, WholeInv, LedgerInv
  <1> QED
    BY Zenon, <1>1, <1>2, <1>3, <1>4 DEF WorkflowInv

(* The send loops and the agents.                                          *)
Beside ==
    /\ UNCHANGED <<ledgerVars, channels, state, at, reason, calls, local, pg, copies, runs>>
    /\ faults' \in {faults, faults + 1}
    /\ Yielded

LEMMA BesideStep ==
  WorkflowInv /\ Beside => WorkflowInv' /\ failed \subseteq failed' /\ RowsKept
  <1> SUFFICES ASSUME WorkflowInv, Beside
               PROVE  WorkflowInv' /\ failed \subseteq failed' /\ RowsKept
    OBVIOUS
  <1>1. /\ UNCHANGED <<ledgerVars, credits, posted, pending, committed, failed, request>>
        /\ UNCHANGED <<hbCh, regCh, curBatch, processedSeqs, flushSeqNo, pendingGaugeIDs>>
        /\ UNCHANGED <<exceededResources, lastAck, at, reason, attempts, callSeq, tries>>
        /\ UNCHANGED <<fetched, unwritten, snapshots, alertSent, copies, runs>>
    BY Zenon DEF Beside, ledgerVars, balances, channels, state, calls, local, pg
  <1>2. LedgerInv'
    BY Zenon, <1>1, StepInv DEF WorkflowInv, WholeInv
  <1>3. FlowInv' /\ SeqsOK'
    <2>1. Kept
      BY Zenon, <1>1, Unmoved DEF WorkflowInv, WholeInv
    <2> QED
      BY Zenon, <1>1, <2>1 DEF WorkflowInv, WholeInv, SeqsOK, Kept, FlowInv, MarksKept, CallsKept
  <1>4. StateInv'
    <2>1. CountersOK'
      BY Zenon, <1>1, Faulted DEF Beside, WorkflowInv, WholeInv, StateInv, CountersOK
    <2> QED
      BY Zenon, <1>1, <2>1 DEF WorkflowInv, WholeInv, StateInv, WaitsOK, RowsOK
  <1>5. CallInv'
    <2>1. SameWaits
      BY Zenon, <1>1 DEF SameWaits, Issued, Acknowledged, WorkflowInv, CallInv, NumbersOK
    <2> QED
      BY Zenon, <1>1, <2>1, QuietlyKeeps DEF Quietly, Beside, Yielded, WorkflowInv
  <1>6. PerOK' /\ ExceededIsJustified'
    BY Zenon, <1>1 DEF WorkflowInv, PerOK, Refused, ExceededIsJustified
  <1>7. RowsKept
    BY Zenon, <1>1, SameRows DEF local, pg, WorkflowInv, WholeInv, StateInv
  <1> QED
    BY Zenon, <1>1, <1>2, <1>3, <1>4, <1>5, <1>6, <1>7 DEF WorkflowInv, WholeInv

LEMMA LoopSteps ==
  ASSUME NextLoop \/ UNCHANGED allVars
  PROVE  /\ [Next]_vars \/ Beside
         /\ emptied' = emptied \cup UsedUp' \/ (emptied' = emptied /\ UNCHANGED balances)
  <1>1. CASE Workflow \/ UNCHANGED allVars
    BY Zenon, <1>1 DEF Workflow, allVars, vars, ledgerVars, balances
  <1>2. CASE \E c \in Cluster : Tick(c) \/ ReceiveAnswer(c)
    BY Zenon, <1>2 DEF Tick, ReceiveAnswer, vars, ledgerVars, balances
  <1>3. CASE \E c \in Cluster : QueryExceededResources(c) \/ ReadSnapshots(c)
    BY Zenon, <1>3 DEF QueryExceededResources, ReadSnapshots, Beside, ledgerVars, balances
  <1> QED
    BY Zenon, <1>1, <1>2, <1>3 DEF NextLoop, Answering

(* A command to stop is put together for a reason that is still there when *)
(* it arrives.                                                             *)
LEMMA LoopStep ==
  ASSUME WorkflowInv, RowsInv, LoopInv, failed \subseteq failed', emptied \subseteq emptied',
         NextLoop \/ UNCHANGED allVars
  PROVE  LoopInv'
  <1>1. Justified => Justified'
    BY Zenon, StaysJustified
  <1>2. \A r : Refused(r) => Refused(r)'
    BY Zenon DEF Refused
  <1>3. CASE Workflow \/ UNCHANGED allVars
    <2>1. UNCHANGED <<marks, kill, stopped>>
      BY Zenon, <1>3 DEF Workflow, allVars, loop
    <2> QED
      BY Zenon, <1>1, <1>2, <2>1 DEF LoopInv
  <1>4. ASSUME NEW c \in Cluster, Tick(c) PROVE LoopInv'
    BY Zenon, <1>1, <1>2, <1>4 DEF Tick, LoopInv
  <1>5. ASSUME NEW c \in Cluster, QueryExceededResources(c) PROVE LoopInv'
    <2>1. PICK M \in {{}, exceededResources} : marks' = [marks EXCEPT ![c] = M]
      BY Zenon, <1>5 DEF QueryExceededResources
    <2>2. M \in SUBSET Resource /\ \A r \in M : Refused(r)
      BY Zenon, <2>1
         DEF WorkflowInv, WholeInv, StateInv, CountersOK, ExceededIsJustified, Refused
    <2>3. marks' \in [Cluster -> SUBSET Resource] /\ \A d \in Cluster : marks'[d] \in {marks[d], M}
      BY Zenon, <2>1, <2>2 DEF LoopInv
    <2>4. \A d \in Cluster : \A r \in marks'[d] : Refused(r)
      BY Zenon, <2>2, <2>3 DEF LoopInv
    <2>5. UNCHANGED <<kill, stopped>>
      BY Zenon, <1>5 DEF QueryExceededResources
    <2> QED
      BY Zenon, <1>1, <1>2, <2>3, <2>4, <2>5 DEF LoopInv
  <1>6. ASSUME NEW c \in Cluster, ReadSnapshots(c) PROVE LoopInv'
    <2>1. PICK k \in {FALSE, PendingCommands(marks[c])} : kill' = [kill EXCEPT ![c] = k]
      BY Zenon, <1>6 DEF ReadSnapshots
    <2>2. k \in BOOLEAN
      BY Zenon, <2>1 DEF PendingCommands
    <2>3. k => Justified
      BY Zenon, <2>1, ExceededHasReason DEF LoopInv
    <2>4. kill' \in [Cluster -> BOOLEAN] /\ \A d \in Cluster : kill'[d] => kill[d] \/ k
      BY Zenon, <2>1, <2>2 DEF LoopInv
    <2>5. marks' = [marks EXCEPT ![c] = {}] /\ stopped' = stopped
      BY Zenon, <1>6 DEF ReadSnapshots
    <2>6. marks' \in [Cluster -> SUBSET Resource] /\ \A d \in Cluster : marks'[d] \subseteq marks[d]
      BY Zenon, <2>5 DEF LoopInv
    <2> QED
      BY Zenon, <1>1, <1>2, <2>3, <2>4, <2>5, <2>6 DEF LoopInv
  <1>7. ASSUME NEW c \in Cluster, ReceiveAnswer(c) PROVE LoopInv'
    <2>1. stopped' # {} => stopped # {} \/ kill[c]
      BY Zenon, <1>7 DEF ReceiveAnswer
    <2>2. kill' = [kill EXCEPT ![c] = FALSE] /\ marks' = marks
      BY Zenon, <1>7 DEF ReceiveAnswer
    <2>3. kill' \in [Cluster -> BOOLEAN] /\ \A d \in Cluster : kill'[d] => kill[d]
      BY Zenon, <2>2 DEF LoopInv
    <2> QED
      BY Zenon, <1>1, <1>2, <2>1, <2>2, <2>3 DEF LoopInv
  <1> QED
    BY Zenon, <1>3, <1>4, <1>5, <1>6, <1>7 DEF NextLoop, Answering

(* No agent is stopped for nothing, for any clusters, resources, credits,  *)
(* heartbeats, faults and runs: an answer is put together from marks and,  *)
(* later, rows, both of which may be out of date when it reaches the       *)
(* agent, but every agent that holds its heartbeats does so after          *)
(* TigerBeetle refused a transfer or a wallet was used up.                 *)
THEOREM StopsAreJustified == LoopSpec => []StopIsJustified
  <1>1. InitLoop => WorkflowInv /\ RowsInv /\ LoopInv
    <2> SUFFICES ASSUME InitLoop PROVE WorkflowInv /\ RowsInv /\ LoopInv
      OBVIOUS
    <2>1. Init
      BY Zenon DEF InitLoop
    <2>2. WorkflowInv
      BY Zenon, <2>1, WholeInit, CallInit, VerdictInit DEF WorkflowInv
    <2>3. RowsInv
      <3>1. \A r \in Resource : ~(NoBalance[r].credits > 0)
        BY DEF NoBalance
      <3>2. snapshots = NoBalance /\ \A p \in Coroutine : fetched[p] = NoBalance
        BY Zenon, <2>1 DEF Init
      <3>3. emptied = UsedUp
        BY Zenon DEF InitLoop
      <3> QED
        BY Zenon, <3>1, <3>2, <3>3 DEF RowsInv, WasEmpty, UsedUp
    <2>4. LoopInv
      BY Zenon DEF InitLoop, LoopInv
    <2> QED
      BY Zenon, <2>2, <2>3, <2>4
  <1>2. WorkflowInv /\ RowsInv /\ LoopInv /\ [NextLoop]_allVars
        => WorkflowInv' /\ RowsInv' /\ LoopInv'
    <2> SUFFICES ASSUME WorkflowInv, RowsInv, LoopInv, NextLoop \/ UNCHANGED allVars
                 PROVE  WorkflowInv' /\ RowsInv' /\ LoopInv'
      OBVIOUS
    <2>1. WorkflowInv' /\ failed \subseteq failed' /\ RowsKept
      BY Zenon, LoopSteps, WorkflowStep, BesideStep
    <2>2. emptied \subseteq emptied' /\ UsedUp' \subseteq emptied'
      <3>1. UNCHANGED balances => UsedUp' = UsedUp
        BY Zenon DEF balances, UsedUp, Used
      <3>2. UsedUp \subseteq emptied
        BY Zenon DEF RowsInv, UsedUp
      <3> QED
        BY Zenon, <3>1, <3>2, LoopSteps
    <2>3. RowsInv'
      BY Zenon, <2>1, <2>2, RowsStep DEF WorkflowInv
    <2> QED
      BY Zenon, <2>1, <2>2, <2>3, LoopStep
  <1>3. LoopInv => StopIsJustified
    BY Zenon DEF LoopInv, StopIsJustified, Justified, Refused
  <1> QED
    BY <1>1, <1>2, <1>3, PTL DEF LoopSpec
=============================================================================
