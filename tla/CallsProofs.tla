----------------------------- MODULE CallsProofs -----------------------------
(* Whose request, whose result: for any updates, heartbeats, numbers of    *)
(* attempts, faults and runs,                                              *)
(*   - a flush number belongs to one call, so a request belongs to one     *)
(*     attempt, which is still there to take the response;                 *)
(*   - the attempt a flush waits for works on the batch as it is;          *)
(*   - the result of a transfer tells what became of it.                   *)
(* The promises about credits and verdicts need invariants on top of it:   *)
(* an allocation in the books is the credit of one update; an attempt that *)
(* is done, and an update that has gone on, has its credit there; an       *)
(* attempt that holds a resource for exceeded has seen it refused.         *)
(* GuaranteesProofs builds on this invariant and on Goes, what a step can  *)
(* do to the updates and the attempts.                                     *)
EXTENDS AccountingProofs

Issued(u) == at[u] # "idle"

NumbersOK ==
    /\ at \in [Coroutine -> Wait]
    /\ \A p \in Coroutine : callSeq[p] <= flushSeqNo
    /\ \A p, q \in Coroutine : callSeq[p] = callSeq[q] => p = q \/ callSeq[p] = 0
    /\ \A u \in Update : Issued(u) => callSeq[u] > 0 /\ Credit[u].amount > 0

(* The numbers of an attempt are those of the call it was made for.        *)
Numbered(a) ==
    /\ 0 < a.seqNo /\ a.seqNo <= flushSeqNo
    /\ \A p \in Coroutine : a.seqNo = callSeq[p] => a.for = p /\ a.n <= tries[p]
    /\ a.for \in Update => /\ Issued(a.for) /\ a.seqNo = callSeq[a.for]
                           /\ a.stage \in {"alloc", "done", "error"}

AttemptsOK ==
    /\ \A a \in attempts : Numbered(a)
    /\ \A a, b \in attempts : Key(a) = Key(b) => a = b

BatchOK ==
    /\ at[Main] = "submit" => curBatch # <<>>
    /\ \A a \in attempts : a.for = Main => a.hbs # <<>>
    /\ \A a \in attempts : at[Main] = "submit" /\ a.seqNo = callSeq[Main] => a.hbs = curBatch

(* The request that attempt a makes next.                                  *)
Asks(a, items) ==
    \/ a.stage = "usage" /\ items = UsageSlots(a.hbs)
    \/ a.stage = "gauge" /\ \E order \in Orders(a.hbs) : items = GaugeSlots(a, order)
    \/ a.stage = "alloc" /\ items = AllocationSlots(a)

RequestOK ==
    ~TBIdle => \E a \in attempts : Key(a) = request.from /\ Asks(a, request.items)

Entered == {t.id : t \in committed}

(* What the result of transfer t tells of the ids in the books and of the  *)
(* ids that were refused.                                                  *)
Tells(t, res, ids, refused) ==
    /\ res \in Transient => t # NoTransfer /\ t.id \in refused
    /\ t # NoTransfer =>
        /\ res \in {"ok", "exists"} => t.id \in ids
        /\ t.kind = "alloc" => res \in {"ok", "exists", "id_already_failed"}
        /\ t.kind = "usage" => res \in {"ok", "exists", "id_already_failed"} \cup Transient

ResultsOK ==
    \A k \in 1..Len(request.results) :
        Tells(request.items[k], request.results[k], Entered, failed)

CallInv == NumbersOK /\ AttemptsOK /\ BatchOK /\ RequestOK /\ ResultsOK

-----------------------------------------------------------------------------
(* Steps.                                                                  *)

Fresh(b) == b.stage \in {"usage", "alloc"} /\ b.per = [r \in Resource |-> "none"]

Replied(b) == Executed /\ \E a \in attempts : Key(a) = request.from /\ b = AfterReply(a)

Answered(u) == \E a \in attempts : a.for = u /\ a.stage = "done"

(* An update that was issued keeps its number and goes on when an attempt  *)
(* of it is done; an attempt is new, has had a response, or is as it was.  *)
Goes ==
    /\ \A u \in Update : Issued(u) => Issued(u)' /\ callSeq'[u] = callSeq[u]
    /\ \A u \in Update : Acknowledged(u)' => Acknowledged(u) \/ Answered(u)
    /\ \A b \in attempts' : b \in attempts \/ Fresh(b) \/ Replied(b)

(* No update is issued and no flush is started.                            *)
SameWaits ==
    /\ at' \in [Coroutine -> Wait]
    /\ \A u \in Update : /\ Issued(u)' <=> Issued(u)
                         /\ Acknowledged(u)' => Acknowledged(u) \/ Answered(u)
    /\ at'[Main] = "submit" => at[Main] = "submit" /\ curBatch' = curBatch

(* Neither is an attempt made.                                             *)
Quietly ==
    /\ TBIdle /\ UNCHANGED ledgerVars
    /\ UNCHANGED <<flushSeqNo, callSeq, tries>>
    /\ attempts' \subseteq attempts
    /\ SameWaits

-----------------------------------------------------------------------------
(* The parts that actions share.                                           *)

LEMMA IdleRequestOK ==
  ASSUME request' = NoRequest
  PROVE  RequestOK' /\ ResultsOK'
  <1>1. Len(request'.results) = 0
    BY Zenon DEF NoRequest
  <1>2. ResultsOK'
    BY <1>1 DEF ResultsOK
  <1> QED
    BY Zenon, <1>2 DEF RequestOK, TBIdle

LEMMA QuietlyKeeps ==
  ASSUME CallInv, Quietly
  PROVE  CallInv' /\ Goes
  <1>1. NumbersOK'
    BY Zenon DEF CallInv, NumbersOK, Quietly, SameWaits
  <1>2. AttemptsOK'
    BY Zenon DEF CallInv, AttemptsOK, Numbered, Quietly, SameWaits
  <1>3. BatchOK'
    BY Zenon DEF CallInv, BatchOK, Quietly, SameWaits
  <1>4. RequestOK' /\ ResultsOK'
    BY Zenon, IdleRequestOK DEF Quietly, TBIdle, ledgerVars
  <1>5. Goes
    BY Zenon DEF Goes, Quietly, SameWaits
  <1> QED
    BY Zenon, <1>1, <1>2, <1>3, <1>4, <1>5 DEF CallInv

(* A flush number is drawn: nothing so far has it.                         *)
LEMMA NewCallKeeps ==
  ASSUME FlowInv, CallInv, TBIdle, UNCHANGED ledgerVars,
         NEW p \in Coroutine, NEW hbs,
         p \in Update => at[p] = "idle" /\ Credit[p].amount > 0 /\ curBatch' = curBatch,
         p = Main => curBatch' = hbs /\ hbs # <<>>,
         flushSeqNo' = flushSeqNo + 1,
         callSeq' = [callSeq EXCEPT ![p] = flushSeqNo + 1],
         tries' = [tries EXCEPT ![p] = 1],
         attempts' = attempts \cup {NewAttempt(p, flushSeqNo + 1, 1, hbs)},
         at' = [at EXCEPT ![p] = "submit"]
  PROVE  CallInv' /\ Goes
  <1>0. PICK b : b = NewAttempt(p, flushSeqNo + 1, 1, hbs)
    OBVIOUS
  <1>1. /\ flushSeqNo \in Nat /\ callSeq \in [Coroutine -> Nat] /\ tries \in [Coroutine -> Nat]
        /\ at \in [Coroutine -> Wait]
    BY Zenon DEF FlowInv, CallsOK, CallInv, NumbersOK
  <1>2. /\ b.for = p /\ b.seqNo = flushSeqNo + 1 /\ b.n = 1 /\ b.hbs = hbs
        /\ b.stage = IF p = Main THEN "usage" ELSE "alloc"
        /\ b.per = [r \in Resource |-> "none"]
    BY Zenon, <1>0 DEF NewAttempt
  <1>3. /\ \A q \in Coroutine : at'[q] = IF q = p THEN "submit" ELSE at[q]
        /\ \A q \in Coroutine : callSeq'[q] = IF q = p THEN flushSeqNo + 1 ELSE callSeq[q]
        /\ \A q \in Coroutine : tries'[q] = IF q = p THEN 1 ELSE tries[q]
    BY Zenon, <1>1
  <1>4. attempts' = attempts \cup {b}
    BY Zenon, <1>0
  <1>5. \A a \in attempts : Numbered(a) /\ a.seqNo \in Nat /\ a.n \in Nat
    BY Zenon DEF FlowInv, CallsOK, Sound, Attempt, CallInv, AttemptsOK
  <1>6. \A u \in Update : Issued(u) => u # p
    BY Zenon, CoroutineFacts DEF Issued
  <1>7. NumbersOK'
    <2>1. at' \in [Coroutine -> Wait]
      BY Zenon, <1>1 DEF Wait, HandlerWait
    <2>2. \A q \in Coroutine : callSeq'[q] <= flushSeqNo'
      BY <1>1, <1>3 DEF CallInv, NumbersOK
    <2>3. \A q, r \in Coroutine : callSeq'[q] = callSeq'[r] => q = r \/ callSeq'[q] = 0
      BY <1>1, <1>3 DEF CallInv, NumbersOK
    <2>4. \A u \in Update : at'[u] # "idle" => callSeq'[u] > 0 /\ Credit[u].amount > 0
      BY <1>1, <1>3, CoroutineFacts DEF CallInv, NumbersOK, Issued
    <2> QED
      BY Zenon, <2>1, <2>2, <2>3, <2>4 DEF NumbersOK, Issued
  <1>8. ASSUME NEW a \in attempts PROVE Numbered(a)'
    <2>1. 0 < a.seqNo /\ a.seqNo <= flushSeqNo /\ a.seqNo \in Nat
      BY Zenon, <1>5 DEF Numbered
    <2>2. \A q \in Coroutine : a.seqNo = callSeq'[q] => a.for = q /\ a.n <= tries'[q]
      BY <1>1, <1>3, <1>5, <2>1 DEF Numbered
    <2>3. ASSUME a.for \in Update
          PROVE  Issued(a.for)' /\ a.seqNo = callSeq'[a.for] /\ a.stage \in {"alloc", "done", "error"}
      <3>1. Issued(a.for) /\ a.seqNo = callSeq[a.for] /\ a.stage \in {"alloc", "done", "error"}
        BY Zenon, <1>5, <2>3 DEF Numbered
      <3> QED
        BY <1>3, <1>6, <2>3, <3>1, CoroutineFacts DEF Issued
    <2> QED
      BY <1>1, <2>1, <2>2, <2>3 DEF Numbered
  <1>9. Numbered(b)'
    <2>1. \A q \in Coroutine : b.seqNo = callSeq'[q] => q = p
      BY <1>1, <1>2, <1>3 DEF CallInv, NumbersOK
    <2>2. b.for \in Update => b.stage = "alloc"
      BY Zenon, <1>2, CoroutineFacts
    <2>3. Issued(p)'
      BY <1>3 DEF Issued
    <2> QED
      BY <1>1, <1>2, <1>3, <2>1, <2>2, <2>3 DEF Numbered
  <1>10. \A a \in attempts : a.seqNo # b.seqNo
    BY <1>1, <1>2, <1>5 DEF Numbered
  <1>11. AttemptsOK'
    <2>1. \A a \in attempts' : Numbered(a)'
      BY Zenon, <1>4, <1>8, <1>9
    <2>2. \A a, c \in attempts' : Key(a) = Key(c) => a = c
      BY Zenon, <1>4, <1>10 DEF CallInv, AttemptsOK, Key
    <2> QED
      BY Zenon, <2>1, <2>2 DEF AttemptsOK
  <1>12. BatchOK'
    <2>1. CASE p = Main
      <3>1. at'[Main] = "submit" /\ curBatch' = hbs /\ hbs # <<>> /\ callSeq'[Main] = b.seqNo
        BY <1>2, <1>3, <2>1
      <3>2. \A a \in attempts' : a.for = Main => a.hbs # <<>>
        BY Zenon, <1>2, <1>4, <3>1 DEF CallInv, BatchOK
      <3>3. \A a \in attempts' : a.seqNo = callSeq'[Main] => a.hbs = curBatch'
        BY ZenonT(60), <1>2, <1>4, <1>10, <3>1
      <3> QED
        BY Zenon, <3>1, <3>2, <3>3 DEF BatchOK
    <2>2. CASE p # Main
      <3>1. at'[Main] = at[Main] /\ curBatch' = curBatch /\ callSeq'[Main] = callSeq[Main]
        BY Zenon, <1>3, <2>2, CoroutineFacts
      <3>2. callSeq[Main] # b.seqNo /\ b.for # Main
        BY <1>1, <1>2, <2>2, CoroutineFacts DEF CallInv, NumbersOK
      <3> QED
        BY Zenon, <1>4, <3>1, <3>2 DEF CallInv, BatchOK
    <2> QED
      BY Zenon, <2>1, <2>2
  <1>13. RequestOK' /\ ResultsOK'
    BY Zenon, IdleRequestOK DEF TBIdle, ledgerVars
  <1>14. Goes
    <2>1. \A u \in Update : Issued(u) => Issued(u)' /\ callSeq'[u] = callSeq[u]
      BY Zenon, <1>3, <1>6, CoroutineFacts DEF Issued
    <2>2. \A u \in Update : Acknowledged(u)' => Acknowledged(u)
      BY <1>3, CoroutineFacts DEF Acknowledged
    <2>3. Fresh(b)
      BY Zenon, <1>2 DEF Fresh
    <2> QED
      BY Zenon, <1>4, <2>1, <2>2, <2>3 DEF Goes
  <1> QED
    BY Zenon, <1>7, <1>11, <1>12, <1>13, <1>14 DEF CallInv

(* A further attempt of the same call: its count is new.                   *)
LEMMA RetryKeeps ==
  ASSUME FlowInv, CallInv, TBIdle, UNCHANGED ledgerVars,
         NEW p \in Coroutine, NEW a \in attempts, Current(p, a),
         NEW others \in SUBSET attempts,
         UNCHANGED <<flushSeqNo, callSeq, at, curBatch>>,
         tries' = [tries EXCEPT ![p] = @ + 1],
         attempts' = others \cup
            {NewAttempt(p, callSeq[p], tries[p] + 1, IF p = Main THEN curBatch ELSE <<>>)}
  PROVE  CallInv' /\ Goes
  <1>0. PICK b : b = NewAttempt(p, callSeq[p], tries[p] + 1, IF p = Main THEN curBatch ELSE <<>>)
    OBVIOUS
  <1>1. flushSeqNo \in Nat /\ callSeq \in [Coroutine -> Nat] /\ tries \in [Coroutine -> Nat]
    BY Zenon DEF FlowInv, CallsOK
  <1>2. /\ b.for = p /\ b.seqNo = callSeq[p] /\ b.n = tries[p] + 1
        /\ p = Main => b.hbs = curBatch
        /\ b.stage = IF p = Main THEN "usage" ELSE "alloc"
        /\ b.per = [r \in Resource |-> "none"]
    BY Zenon, <1>0 DEF NewAttempt
  <1>3. \A q \in Coroutine : tries'[q] = IF q = p THEN tries[q] + 1 ELSE tries[q]
    BY Zenon, <1>1
  <1>4. attempts' \subseteq attempts \cup {b}
    BY Zenon, <1>0
  <1>5. \A c \in attempts : Numbered(c) /\ c.seqNo \in Nat /\ c.n \in Nat
    BY Zenon DEF FlowInv, CallsOK, Sound, Attempt, CallInv, AttemptsOK
  <1>6. at[p] = "submit" /\ a.seqNo = callSeq[p]
    BY Zenon DEF Current
  <1>7. 0 < callSeq[p] /\ callSeq[p] <= flushSeqNo
    BY Zenon, <1>5, <1>6 DEF Numbered
  <1>8. \A q \in Coroutine : callSeq[q] = callSeq[p] => q = p
    BY <1>1, <1>7 DEF CallInv, NumbersOK
  <1>9. NumbersOK'
    BY Zenon DEF CallInv, NumbersOK, Issued
  <1>10. ASSUME NEW c \in attempts PROVE Numbered(c)'
    <2>1. \A q \in Coroutine : c.seqNo = callSeq[q] => c.for = q /\ c.n <= tries'[q]
      BY <1>1, <1>3, <1>5 DEF Numbered
    <2> QED
      BY Zenon, <1>5, <2>1 DEF Numbered, Issued
  <1>11. Numbered(b)'
    <2>1. b.for \in Update => b.stage = "alloc" /\ Issued(p)'
      BY Zenon, <1>2, <1>6, CoroutineFacts DEF Issued
    <2>2. b.n <= tries'[p]
      BY <1>1, <1>2, <1>3
    <2> QED
      BY Zenon, <1>2, <1>7, <1>8, <2>1, <2>2 DEF Numbered
  <1>12. AttemptsOK'
    <2>1. \A c \in attempts' : Numbered(c)'
      BY Zenon, <1>4, <1>10, <1>11
    <2>2. \A c \in attempts : Key(c) # Key(b)
      BY <1>1, <1>2, <1>5 DEF Numbered, Key
    <2>3. \A c, d \in attempts' : Key(c) = Key(d) => c = d
      BY Zenon, <1>4, <2>2 DEF CallInv, AttemptsOK
    <2> QED
      BY Zenon, <2>1, <2>3 DEF AttemptsOK
  <1>13. BatchOK'
    <2>1. b.for = Main => curBatch # <<>> /\ b.hbs = curBatch
      BY Zenon, <1>2, <1>6 DEF CallInv, BatchOK
    <2>2. b.seqNo = callSeq[Main] => b.for = Main
      BY Zenon, <1>2, <1>8, CoroutineFacts
    <2> QED
      BY Zenon, <1>4, <2>1, <2>2 DEF CallInv, BatchOK
  <1>14. RequestOK' /\ ResultsOK'
    BY Zenon, IdleRequestOK DEF TBIdle, ledgerVars
  <1>15. Goes
    <2>1. Fresh(b)
      BY Zenon, <1>2 DEF Fresh
    <2> QED
      BY Zenon, <1>4, <2>1 DEF Goes, Issued, Acknowledged
  <1> QED
    BY Zenon, <1>9, <1>12, <1>13, <1>14, <1>15 DEF CallInv

-----------------------------------------------------------------------------
(* Steps of the attempts and of TigerBeetle.                               *)

(* The workflow does not move.                                             *)
Asleep == UNCHANGED <<at, flushSeqNo, callSeq, tries, curBatch>>

LEMMA AsleepKeeps ==
  ASSUME CallInv, Asleep
  PROVE  /\ NumbersOK'
         /\ \A a : Numbered(a)' <=> Numbered(a)
         /\ \A u \in Update : Issued(u) => Issued(u)' /\ callSeq'[u] = callSeq[u]
         /\ \A u \in Update : Acknowledged(u)' => Acknowledged(u)
  <1>1. \A u : Issued(u)' <=> Issued(u)
    BY Zenon DEF Asleep, Issued
  <1>2. NumbersOK'
    BY Zenon, <1>1 DEF Asleep, CallInv, NumbersOK
  <1>3. \A a : Numbered(a)' <=> Numbered(a)
    BY Zenon, <1>1 DEF Asleep, Numbered
  <1> QED
    BY Zenon, <1>1, <1>2, <1>3 DEF Asleep, Acknowledged

LEMMA SameAttempts ==
  ASSUME CallInv, Asleep, attempts' = attempts
  PROVE  NumbersOK' /\ AttemptsOK' /\ BatchOK' /\ Goes
  <1>1. AttemptsOK'
    BY Zenon, AsleepKeeps DEF CallInv, AttemptsOK
  <1>2. BatchOK'
    BY Zenon DEF CallInv, BatchOK, Asleep
  <1> QED
    BY Zenon, <1>1, <1>2, AsleepKeeps DEF Goes

LEMMA SendKeeps ==
  ASSUME CallInv, Send
  PROVE  CallInv' /\ Goes
  <1>1. PICK a \in attempts : SendUsage(a) \/ SendGauge(a) \/ SendAllocation(a)
    BY Zenon DEF Send
  <1>2. Asleep /\ attempts' = attempts
    BY Zenon DEF Send, Asleep, state, calls
  <1>3. PICK items : Asks(a, items) /\ CreateTransfers(Key(a), items)
    BY Zenon, <1>1 DEF SendUsage, SendGauge, SendAllocation, Asks
  <1>4. request' = [from |-> Key(a), items |-> items, results |-> <<>>]
    BY Zenon, <1>3 DEF CreateTransfers
  <1>5. request'.from = Key(a) /\ request'.items = items /\ Len(request'.results) = 0
    BY Zenon, <1>4
  <1>6. RequestOK' /\ ResultsOK'
    BY <1>2, <1>3, <1>5 DEF RequestOK, ResultsOK
  <1> QED
    BY Zenon, <1>2, <1>6, SameAttempts DEF CallInv

LEMMA OutcomeTells ==
  ASSUME NEW t, NEW ids, NEW refused,
         Entered \subseteq ids, Outcome(t) = "ok" => t.id \in ids,
         failed \subseteq refused, Outcome(t) \in Transient => t.id \in refused
  PROVE  Tells(t, Outcome(t), ids, refused)
  <1>1. Outcome(t) = "exists" => t.id \in Entered
    BY Zenon DEF Outcome, Entered
  <1>2. t # NoTransfer /\ t.kind = "alloc" =>
           Outcome(t) \in {"ok", "exists", "id_already_failed"}
    BY Zenon DEF Outcome, Overdraws
  <1>3. t # NoTransfer /\ t.kind = "usage" =>
           Outcome(t) \in {"ok", "exists", "id_already_failed"} \cup Transient
    BY Zenon DEF Outcome, Transient
  <1>4. Outcome(t) \in Transient => t # NoTransfer
    BY Zenon DEF Outcome, Transient
  <1> QED
    BY Zenon, <1>1, <1>2, <1>3, <1>4 DEF Tells

LEMMA ExecuteKeeps ==
  ASSUME CallInv, LedgerTypeOK, Execute
  PROVE  CallInv' /\ Goes
  <1>1. Asleep /\ attempts' = attempts
    BY Zenon DEF Execute, Asleep, state, calls
  <1> PICK t : t = request.items[Len(request.results) + 1]
    OBVIOUS
  <1> PICK res : res = Outcome(t)
    OBVIOUS
  <1>2. /\ ~TBIdle /\ Len(request.results) < Len(request.items)
        /\ request' = [from |-> request.from, items |-> request.items,
                       results |-> Append(request.results, res)]
        /\ failed' = IF res \in Transient THEN failed \cup {t.id} ELSE failed
        /\ IF res = "ok" THEN committed' = committed \cup {t} ELSE committed' = committed
    BY ZenonT(60) DEF Execute, ApplyNext, Commit
  <1>3. request.items \in Seq(Slot) /\ request.results \in Seq(Result)
    BY Zenon, <1>2 DEF TBIdle, LedgerTypeOK, Request
  <1>4. /\ request'.from = request.from /\ request'.items = request.items
        /\ request'.results = Append(request.results, res)
    BY Zenon, <1>2
  <1>5. Entered \subseteq Entered' /\ failed \subseteq failed'
    BY Zenon, <1>2 DEF Entered
  <1>6. Tells(t, res, Entered', failed')
    <2>1. res = "ok" => t.id \in Entered'
      BY Zenon, <1>2 DEF Entered
    <2>2. res \in Transient => t.id \in failed'
      BY Zenon, <1>2
    <2>3. PICK ids, refused : ids = Entered' /\ refused = failed'
      OBVIOUS
    <2> QED
      BY Zenon, <1>5, <2>1, <2>2, <2>3, OutcomeTells
  <1>7. RequestOK'
    <2>1. \E a \in attempts : Key(a) = request.from /\ Asks(a, request.items)
      BY Zenon, <1>2 DEF CallInv, RequestOK
    <2> QED
      BY Zenon, <1>1, <1>4, <2>1 DEF RequestOK
  <1>8. ResultsOK'
    <2>1. ASSUME NEW k \in 1..Len(request'.results)
          PROVE  Tells(request'.items[k], request'.results[k], Entered', failed')
      <3>1. CASE k = Len(request.results) + 1
        <4>1. request'.results[k] = res
          BY SMTT(30), <1>3, <1>4, <3>1
        <4> QED
          BY Zenon, <1>4, <1>6, <3>1, <4>1
      <3>2. CASE k # Len(request.results) + 1
        <4>1. k \in 1..Len(request.results) /\ request'.results[k] = request.results[k]
          BY <1>3, <1>4, <3>2
        <4>2. Tells(request.items[k], request.results[k], Entered, failed)
          BY Zenon, <4>1 DEF CallInv, ResultsOK
        <4> QED
          BY Zenon, <1>4, <1>5, <4>1, <4>2 DEF Tells
      <3> QED
        BY Zenon, <3>1, <3>2
    <2> QED
      BY Zenon, <2>1 DEF ResultsOK
  <1> QED
    BY Zenon, <1>1, <1>7, <1>8, SameAttempts DEF CallInv

LEMMA ReplyKeepsCalls ==
  ASSUME FlowInv, CallInv, Reply
  PROVE  CallInv' /\ Goes
  <1>1. PICK a \in attempts :
          Key(a) = request.from /\ attempts' \subseteq (attempts \ {a}) \cup {AfterReply(a)}
    BY Zenon DEF Reply
  <1> PICK b : b = AfterReply(a)
    OBVIOUS
  <1>2. Asleep /\ request' = NoRequest /\ Executed
    BY Zenon DEF Reply, Respond, Asleep, state
  <1>3. Sound(a) /\ Numbered(a)
    BY Zenon DEF FlowInv, CallsOK, CallInv, AttemptsOK
  <1>4. a.stage \in {"usage", "gauge", "alloc"}
    <2>1. PICK c \in attempts : Key(c) = request.from /\ Asks(c, request.items)
      BY Zenon, <1>2 DEF CallInv, RequestOK, Executed
    <2>2. c = a
      BY Zenon, <1>1, <2>1 DEF CallInv, AttemptsOK
    <2> QED
      BY Zenon, <2>1, <2>2 DEF Asks
  <1>5. /\ b.for = a.for /\ b.seqNo = a.seqNo /\ b.n = a.n /\ b.hbs = a.hbs
        /\ a.stage = "alloc" => b.stage \in {"done", "error"}
    BY Zenon, <1>3 DEF AfterReply, AfterUsage, AfterGauge, Sound, Attempt
  <1>6. Numbered(b)
    BY Zenon, <1>3, <1>4, <1>5 DEF Numbered
  <1>7. attempts' \subseteq (attempts \ {a}) \cup {b}
    BY Zenon, <1>1
  <1>8. AttemptsOK'
    <2>1. \A c \in attempts' : Numbered(c)'
      BY Zenon, <1>2, <1>6, <1>7, AsleepKeeps DEF CallInv, AttemptsOK
    <2>2. Key(b) = Key(a)
      BY Zenon, <1>5 DEF Key
    <2>3. \A c \in attempts : Key(c) = Key(b) => c = a
      BY Zenon, <2>2 DEF CallInv, AttemptsOK
    <2>4. \A c, d \in attempts' : Key(c) = Key(d) => c = d
      BY Zenon, <1>7, <2>3 DEF CallInv, AttemptsOK
    <2> QED
      BY Zenon, <2>1, <2>4 DEF AttemptsOK
  <1>9. BatchOK'
    <2>1. at'[Main] = at[Main] /\ curBatch' = curBatch /\ callSeq' = callSeq
      BY Zenon, <1>2 DEF Asleep
    <2> QED
      BY <1>5, <1>7, <2>1 DEF CallInv, BatchOK
  <1>10. RequestOK' /\ ResultsOK'
    BY Zenon, <1>2, IdleRequestOK
  <1>11. Replied(b)
    BY Zenon, <1>1, <1>2 DEF Replied
  <1>12. Goes
    BY Zenon, <1>2, <1>7, <1>11, AsleepKeeps DEF Goes
  <1> QED
    BY Zenon, <1>2, <1>8, <1>9, <1>10, <1>12, AsleepKeeps DEF CallInv

-----------------------------------------------------------------------------
(* The actions.                                                            *)

LEMMA WaitMoves ==
  ASSUME NumbersOK, NEW p \in Coroutine, NEW w \in Wait, at' = [at EXCEPT ![p] = w],
         p = Main => w # "submit",
         \/ p = Main
         \/ curBatch' = curBatch /\ at[p] = "submit" /\ w = "error"
         \/ curBatch' = curBatch /\ at[p] = "submit" /\ w = "lookup" /\ Answered(p)
         \/ /\ curBatch' = curBatch /\ at[p] \in {"lookup", "snapshots", "resetAlert"}
            /\ w \in {"snapshots", "resetAlert", "ok"}
  PROVE  SameWaits
  <1>1. at \in [Coroutine -> Wait]
    BY Zenon DEF NumbersOK
  <1>2. at' \in [Coroutine -> Wait]
    BY Zenon, <1>1
  <1>3. \A q \in Coroutine : at'[q] = IF q = p THEN w ELSE at[q]
    BY Zenon, <1>1
  <1>4. \A u \in Update : Issued(u)' <=> Issued(u)
    BY Zenon, <1>3, CoroutineFacts DEF Issued
  <1>5. \A u \in Update : Acknowledged(u)' => Acknowledged(u) \/ Answered(u)
    BY Zenon, <1>3, CoroutineFacts DEF Acknowledged
  <1>6. at'[Main] = "submit" => at[Main] = "submit" /\ curBatch' = curBatch
    BY Zenon, <1>3, CoroutineFacts
  <1> QED
    BY Zenon, <1>2, <1>4, <1>5, <1>6 DEF SameWaits

LEMMA StillWaits ==
  ASSUME NumbersOK, UNCHANGED <<at, curBatch>>
  PROVE  SameWaits
  BY Zenon DEF NumbersOK, SameWaits, Issued, Acknowledged

LEMMA NewRunWaits ==
  ASSUME NumbersOK, NewRun
  PROVE  SameWaits
  <1>1. at \in [Coroutine -> Wait]
    BY Zenon DEF NumbersOK
  <1>2. at' = [p \in Coroutine |->
                 IF p = Main THEN "select"
                 ELSE IF at[p] \in {"idle", "ok", "error"} THEN at[p] ELSE "aborted"]
    BY Zenon DEF NewRun
  <1>3. "select" \in Wait /\ "aborted" \in Wait
    BY Zenon DEF Wait, MainWait
  <1>4. at' \in [Coroutine -> Wait] /\ at'[Main] # "submit"
    BY Zenon, <1>1, <1>2, <1>3, CoroutineFacts
  <1>5. \A u \in Update : at'[u] = IF at[u] \in {"idle", "ok", "error"} THEN at[u] ELSE "aborted"
    BY Zenon, <1>1, <1>2, CoroutineFacts
  <1> QED
    BY Zenon, <1>4, <1>5 DEF SameWaits, Issued, Acknowledged

LEMMA MainWaits ==
  ASSUME NumbersOK, NEW w \in AfterSelect \cup {"lookup"}, at' = [at EXCEPT ![Main] = w]
  PROVE  SameWaits
  <1>1. w \in Wait /\ w # "submit"
    BY Zenon DEF AfterSelect, Wait, MainWait
  <1> QED
    BY Zenon, <1>1, WaitMoves, CoroutineFacts

LEMMA FlushReturnsWaits ==
  ASSUME NumbersOK, FlushReturns
  PROVE  SameWaits
  <1>1. CASE reason = "continueAsNew"
    BY Zenon, <1>1, NewRunWaits DEF FlushReturns
  <1>2. CASE reason # "continueAsNew"
    BY Zenon, <1>2, MainWaits DEF FlushReturns
  <1> QED
    BY Zenon, <1>1, <1>2

LEMMA RetryOrGiveUpKeeps ==
  ASSUME FlowInv, CallInv, TBIdle, UNCHANGED ledgerVars, callSeq' = callSeq,
         NEW p \in Coroutine, NEW a \in attempts, Current(p, a),
         NEW others \in SUBSET attempts, RetryOrGiveUp(p, others)
  PROVE  CallInv' /\ Goes
  <1>1. CASE tries[p] < MaxAttempts
    <2>1. /\ UNCHANGED <<flushSeqNo, at, curBatch>>
          /\ tries' = [tries EXCEPT ![p] = @ + 1]
          /\ attempts' = others \cup
               {NewAttempt(p, callSeq[p], tries[p] + 1, IF p = Main THEN curBatch ELSE <<>>)}
      BY Zenon, <1>1 DEF RetryOrGiveUp
    <2> QED
      BY ZenonT(60), <2>1, RetryKeeps
  <1>2. CASE ~(tries[p] < MaxAttempts)
    <2>1. attempts' \subseteq attempts /\ tries' = tries
      BY Zenon, <1>2 DEF RetryOrGiveUp
    <2>2. flushSeqNo' = flushSeqNo /\ SameWaits
      <3>1. CASE p = Main
        BY Zenon, <1>2, <3>1, FlushReturnsOK, FlushReturnsWaits DEF RetryOrGiveUp, FlowInv, CallInv
      <3>2. CASE p # Main
        <4>1. /\ at' = [at EXCEPT ![p] = "error"] /\ UNCHANGED <<curBatch, flushSeqNo>>
              /\ at[p] = "submit"
          BY Zenon, <1>2, <3>2 DEF RetryOrGiveUp, Current
        <4>2. "error" \in Wait
          BY Zenon DEF Wait
        <4> QED
          BY Zenon, <3>2, <4>1, <4>2, WaitMoves DEF CallInv
      <3> QED
        BY Zenon, <3>1, <3>2
    <2> QED
      BY Zenon, <2>1, <2>2, QuietlyKeeps DEF Quietly
  <1> QED
    BY Zenon, <1>1, <1>2

LEMMA StartFlushKeeps ==
  ASSUME FlowInv, CallInv, TBIdle, UNCHANGED ledgerVars,
         NEW why, StartFlush(curBatch', why), curBatch' # <<>>
  PROVE  CallInv' /\ Goes
  <1>1. PICK batch : batch = curBatch'
    OBVIOUS
  <1>2. StartFlush(batch, why) /\ batch # <<>>
    BY Zenon, <1>1
  <1> QED
    BY Zenon, <1>1, <1>2, CoroutineFacts, NewCallKeeps DEF StartFlush

LEMMA NoFlushKeeps ==
  ASSUME CallInv, TBIdle, UNCHANGED ledgerVars, NoFlush
  PROVE  CallInv' /\ Goes
  <1>1. PICK w \in AfterSelect : at' = [at EXCEPT ![Main] = w]
    BY Zenon DEF NoFlush
  <1>2. SameWaits
    BY Zenon, <1>1, MainWaits DEF CallInv
  <1>3. UNCHANGED <<flushSeqNo, callSeq, tries, attempts>>
    BY Zenon DEF NoFlush, calls
  <1> QED
    BY Zenon, <1>2, <1>3, QuietlyKeeps DEF Quietly

LEMMA EnvironmentKeeps ==
  ASSUME FlowInv, CallInv, Environment
  PROVE  CallInv' /\ Goes
  <1>1. ASSUME NEW hb \in Heartbeat, SignalHeartbeat(hb) PROVE Quietly
    BY ZenonT(60), <1>1, StillWaits DEF CallInv, SignalHeartbeat, Yielded, Quietly, state, calls
  <1>2. ASSUME NEW c \in Cluster, SignalRegisterCluster(c) PROVE Quietly
    BY Zenon, <1>2, StillWaits DEF CallInv, SignalRegisterCluster, Yielded, Quietly, state, calls
  <1>3. ASSUME NEW u \in Update, IssueCredit(u) PROVE CallInv' /\ Goes
    <2>1. u \in Coroutine /\ u # Main
      BY Zenon, CoroutineFacts
    <2> QED
      BY Zenon, <1>3, <2>1, NewCallKeeps DEF IssueCredit, Yielded
  <1> QED
    BY Zenon, <1>1, <1>2, <1>3, QuietlyKeeps DEF Environment

LEMMA ReceiveHeartbeatCalls ==
  ASSUME FlowInv, CallInv, ReceiveHeartbeat
  PROVE  CallInv' /\ Goes
  <1>1. TBIdle /\ UNCHANGED ledgerVars
    BY Zenon DEF ReceiveHeartbeat, Yielded
  <1>2. NoFlush \/ (StartFlush(curBatch', "threshold") /\ curBatch' = Append(curBatch, Head(hbCh)))
    BY Zenon DEF ReceiveHeartbeat
  <1>3. Append(curBatch, Head(hbCh)) # <<>>
    <2>1. curBatch \in Seq(Heartbeat) /\ hbCh \in Seq(Heartbeat) /\ hbCh # <<>>
      BY Zenon DEF FlowInv, QueuesOK, ReceiveHeartbeat
    <2>2. Head(hbCh) \in Heartbeat
      BY <2>1
    <2> QED
      BY <2>1, <2>2
  <1> QED
    BY Zenon, <1>1, <1>2, <1>3, NoFlushKeeps, StartFlushKeeps

LEMMA ContinueAsNewCalls ==
  ASSUME FlowInv, CallInv, ContinueAsNew
  PROVE  CallInv' /\ Goes
  <1>1. TBIdle /\ UNCHANGED ledgerVars
    BY Zenon DEF ContinueAsNew
  <1>2. CASE curBatch = <<>>
    <2>1. NewRun /\ UNCHANGED calls
      BY Zenon, <1>2 DEF ContinueAsNew
    <2>2. SameWaits
      BY Zenon, <2>1, NewRunWaits DEF CallInv
    <2>3. UNCHANGED <<flushSeqNo, callSeq, tries, attempts>>
      BY Zenon, <2>1 DEF NewRun, CarryFlushSeqNo, calls
    <2> QED
      BY Zenon, <1>1, <2>2, <2>3, QuietlyKeeps DEF Quietly
  <1>3. CASE curBatch # <<>>
    <2>1. StartFlush(curBatch, "continueAsNew") /\ curBatch' = curBatch
      BY Zenon, <1>3 DEF ContinueAsNew
    <2> QED
      BY Zenon, <1>1, <1>3, <2>1, StartFlushKeeps
  <1> QED
    BY Zenon, <1>2, <1>3

LEMMA MainLoopKeeps ==
  ASSUME FlowInv, CallInv, MainLoop
  PROVE  CallInv' /\ Goes
  <1>1. ASSUME NEW c \in Cluster, ReceiveRegister(c) PROVE CallInv' /\ Goes
    BY Zenon, <1>1, NoFlushKeeps DEF ReceiveRegister, Yielded
  <1>2. CASE TimerFires
    <2>1. TBIdle /\ UNCHANGED ledgerVars /\ curBatch' = curBatch
      BY Zenon, <1>2 DEF TimerFires, Yielded
    <2>2. NoFlush \/ (StartFlush(curBatch, "timer") /\ curBatch # <<>>)
      BY Zenon, <1>2 DEF TimerFires
    <2> QED
      BY Zenon, <2>1, <2>2, NoFlushKeeps, StartFlushKeeps
  <1>3. CASE SubmitTBBatchDone
    <2>1. at' = [at EXCEPT ![Main] = "lookup"]
      BY Zenon, <1>3 DEF SubmitTBBatchDone
    <2>2. SameWaits
      BY Zenon, <2>1, MainWaits DEF CallInv
    <2>3. /\ TBIdle /\ UNCHANGED ledgerVars
          /\ UNCHANGED <<flushSeqNo, callSeq, tries>> /\ attempts' \subseteq attempts
      BY Zenon, <1>3 DEF SubmitTBBatchDone, Yielded
    <2> QED
      BY Zenon, <2>2, <2>3, QuietlyKeeps DEF Quietly
  <1>4. CASE CheckSoftLimits
    <2>1. SameWaits /\ flushSeqNo' = flushSeqNo
      BY Zenon, <1>4, FlushReturnsWaits, FlushReturnsOK DEF FlowInv, CallInv, CheckSoftLimits
    <2>2. TBIdle /\ UNCHANGED ledgerVars /\ UNCHANGED <<callSeq, tries, attempts>>
      BY Zenon, <1>4 DEF CheckSoftLimits, Yielded, calls
    <2> QED
      BY Zenon, <2>1, <2>2, QuietlyKeeps DEF Quietly
  <1> QED
    BY ZenonT(60), <1>1, <1>2, <1>3, <1>4, ReceiveHeartbeatCalls, ContinueAsNewCalls DEF MainLoop

LEMMA HandlerKeeps ==
  ASSUME CallInv, NEW u \in Update, Handler(u)
  PROVE  CallInv' /\ Goes
  <1>1. "ok" \in Wait /\ "lookup" \in Wait /\ u \in Coroutine /\ u # Main
    BY Zenon, CoroutineFacts DEF Wait, MainWait
  <1>2. CASE ResetSoftLimitAlert(u)
    <2>1. SameWaits
      BY Zenon, <1>1, <1>2, WaitMoves DEF CallInv, ResetSoftLimitAlert, state
    <2>2. TBIdle /\ UNCHANGED ledgerVars /\ UNCHANGED <<flushSeqNo, callSeq, tries, attempts>>
      BY Zenon, <1>2 DEF ResetSoftLimitAlert, Yielded, state, calls
    <2> QED
      BY Zenon, <2>1, <2>2, QuietlyKeeps DEF Quietly
  <1>3. CASE SubmitAllocationDone(u)
    <2>1. at[u] = "submit" /\ Answered(u)
      BY Zenon, <1>3 DEF SubmitAllocationDone, Current, Answered
    <2>2. at' = [at EXCEPT ![u] = "lookup"] /\ curBatch' = curBatch
      BY Zenon, <1>3 DEF SubmitAllocationDone
    <2>3. SameWaits
      BY Zenon, <1>1, <2>1, <2>2, WaitMoves DEF CallInv
    <2>4. /\ TBIdle /\ UNCHANGED ledgerVars
          /\ UNCHANGED <<flushSeqNo, callSeq, tries>> /\ attempts' \subseteq attempts
      BY Zenon, <1>3 DEF SubmitAllocationDone, Yielded
    <2> QED
      BY Zenon, <2>3, <2>4, QuietlyKeeps DEF Quietly
  <1> QED
    BY Zenon, <1>2, <1>3 DEF Handler

LEMMA CallKeeps ==
  ASSUME FlowInv, CallInv, NEW p \in Coroutine, Call(p)
  PROVE  CallInv' /\ Goes
  <1>1. CASE AttemptFails(p)
    <2>1. PICK a \in attempts : Current(p, a) /\ RetryOrGiveUp(p, attempts \ {a})
      BY Zenon, <1>1 DEF AttemptFails
    <2>2. TBIdle /\ UNCHANGED ledgerVars /\ callSeq' = callSeq
      BY Zenon, <1>1 DEF AttemptFails, Yielded
    <2> QED
      BY Zenon, <2>1, <2>2, RetryOrGiveUpKeeps
  <1>2. CASE LookupAccountBalances(p)
    <2>1. "snapshots" \in Wait
      BY Zenon DEF Wait, HandlerWait
    <2>2. at[p] = "lookup" /\ at' = [at EXCEPT ![p] = "snapshots"] /\ curBatch' = curBatch
      BY Zenon, <1>2 DEF LookupAccountBalances, state
    <2>3. SameWaits
      BY Zenon, <2>1, <2>2, WaitMoves DEF CallInv
    <2>4. TBIdle /\ UNCHANGED ledgerVars /\ UNCHANGED <<flushSeqNo, callSeq, tries, attempts>>
      BY Zenon, <1>2 DEF LookupAccountBalances, Yielded, state, calls
    <2> QED
      BY Zenon, <2>3, <2>4, QuietlyKeeps DEF Quietly
  <1>3. ASSUME NEW r \in Resource, UpsertQuotaSnapshot(p, r) PROVE CallInv' /\ Goes
    <2>1. /\ at[p] = "snapshots" /\ curBatch' = curBatch
          /\ at' = [at EXCEPT ![p] = IF unwritten[p] = {r} THEN AfterSnapshots(p) ELSE at[p]]
      BY Zenon, <1>3 DEF UpsertQuotaSnapshot, state
    <2>2. PICK w : w = IF unwritten[p] = {r} THEN AfterSnapshots(p) ELSE at[p]
      BY Zenon
    <2>3. w \in Wait /\ w # "submit" /\ (p = Main \/ w \in {"snapshots", "resetAlert", "ok"})
      BY Zenon, <2>1, <2>2 DEF AfterSnapshots, Wait, MainWait, HandlerWait
    <2>4. SameWaits
      BY ZenonT(60), <2>1, <2>2, <2>3, WaitMoves DEF CallInv
    <2>5. TBIdle /\ UNCHANGED ledgerVars /\ UNCHANGED <<flushSeqNo, callSeq, tries, attempts>>
      BY Zenon, <1>3 DEF UpsertQuotaSnapshot, Yielded, state, calls
    <2> QED
      BY Zenon, <2>4, <2>5, QuietlyKeeps DEF Quietly
  <1> QED
    BY Zenon, <1>1, <1>2, <1>3 DEF Call

LEMMA FaultKeeps ==
  ASSUME FlowInv, CallInv, NEW p \in Coroutine, Fault(p)
  PROVE  CallInv' /\ Goes
  <1>1. CASE AttemptTimesOut(p)
    <2>1. PICK a \in attempts :
            /\ Current(p, a)
            /\ RetryOrGiveUp(p, IF Ended(a) THEN attempts \ {a} ELSE attempts)
      BY Zenon, <1>1 DEF AttemptTimesOut
    <2>2. TBIdle /\ UNCHANGED ledgerVars /\ callSeq' = callSeq
      BY Zenon, <1>1 DEF AttemptTimesOut, Yielded
    <2>3. (IF Ended(a) THEN attempts \ {a} ELSE attempts) \in SUBSET attempts
      OBVIOUS
    <2> QED
      BY Zenon, <2>1, <2>2, <2>3, RetryOrGiveUpKeeps
  <1>2. CASE LookupFails(p)
    <2>1. SameWaits /\ flushSeqNo' = flushSeqNo
      <3>1. CASE p = Main
        BY Zenon, <1>2, <3>1, FlushReturnsWaits, FlushReturnsOK DEF FlowInv, CallInv, LookupFails
      <3>2. CASE p # Main
        <4>1. /\ at[p] = "lookup" /\ at' = [at EXCEPT ![p] = "ok"]
              /\ UNCHANGED <<curBatch, flushSeqNo>>
          BY Zenon, <1>2, <3>2 DEF LookupFails
        <4>2. "ok" \in Wait
          BY Zenon DEF Wait
        <4> QED
          BY ZenonT(60), <3>2, <4>1, <4>2, WaitMoves DEF CallInv
      <3> QED
        BY Zenon, <3>1, <3>2
    <2>2. TBIdle /\ UNCHANGED ledgerVars /\ UNCHANGED <<callSeq, tries, attempts>>
      BY Zenon, <1>2 DEF LookupFails, Yielded, calls
    <2> QED
      BY Zenon, <2>1, <2>2, QuietlyKeeps DEF Quietly
  <1>3. CASE UpdateQuotaSnapshotsFails(p)
    <2>1. /\ at[p] = "snapshots" /\ curBatch' = curBatch
          /\ at' = at \/ at' = [at EXCEPT ![p] = AfterSnapshots(p)]
      BY Zenon, <1>3 DEF UpdateQuotaSnapshotsFails, state
    <2>2. PICK w : w = AfterSnapshots(p)
      OBVIOUS
    <2>3. w \in Wait /\ w # "submit" /\ (p = Main \/ w = "resetAlert")
      BY Zenon, <2>2 DEF AfterSnapshots, Wait, MainWait, HandlerWait
    <2>4. SameWaits
      BY Zenon, <2>1, <2>2, <2>3, StillWaits, WaitMoves DEF CallInv
    <2>5. TBIdle /\ UNCHANGED ledgerVars /\ UNCHANGED <<flushSeqNo, callSeq, tries, attempts>>
      BY Zenon, <1>3 DEF UpdateQuotaSnapshotsFails, Yielded, state, calls
    <2> QED
      BY Zenon, <2>4, <2>5, QuietlyKeeps DEF Quietly
  <1> QED
    BY Zenon, <1>1, <1>2, <1>3 DEF Fault

LEMMA CallInit == Init => CallInv
  <1> SUFFICES ASSUME Init PROVE CallInv
    BY Zenon
  <1>1. at[Main] = "select" /\ \A u \in Update : at[u] = "idle"
    BY Zenon, CoroutineFacts DEF Init
  <1>2. at \in [Coroutine -> Wait]
    BY Zenon DEF Init, Wait, MainWait
  <1>3. NumbersOK
    <2>1. flushSeqNo = 0 /\ \A p \in Coroutine : callSeq[p] = 0
      BY Zenon DEF Init
    <2> QED
      <3>1. \A p \in Coroutine : callSeq[p] <= flushSeqNo
        BY <2>1
      <3> QED
        BY Zenon, <1>1, <1>2, <2>1, <3>1 DEF NumbersOK, Issued
  <1>4. attempts = {} /\ request = NoRequest
    BY Zenon DEF Init, LedgerInit
  <1>5. RequestOK /\ ResultsOK
    <2>1. Len(request.results) = 0
      BY Zenon, <1>4 DEF NoRequest
    <2>2. ResultsOK
      BY <2>1 DEF ResultsOK
    <2> QED
      BY Zenon, <1>4, <2>2 DEF RequestOK, TBIdle
  <1> QED
    BY Zenon, <1>1, <1>3, <1>4, <1>5 DEF CallInv, AttemptsOK, BatchOK

LEMMA CallStep == FlowInv /\ LedgerInv /\ CallInv /\ [Next]_vars => CallInv' /\ Goes
  <1> SUFFICES ASSUME FlowInv, LedgerInv, CallInv, [Next]_vars PROVE CallInv' /\ Goes
    OBVIOUS
  <1>1. LedgerTypeOK
    BY Zenon DEF LedgerInv
  <1>2. CASE UNCHANGED vars
    <2>1. Asleep /\ UNCHANGED <<attempts, request, committed, failed>>
      BY Zenon, <1>2 DEF vars, ledgerVars, state, calls, Asleep
    <2>2. RequestOK'
      BY Zenon, <2>1 DEF CallInv, RequestOK, TBIdle
    <2>3. Entered' = Entered
      BY Zenon, <2>1 DEF Entered
    <2>4. ResultsOK'
      BY Zenon, <2>1, <2>3 DEF CallInv, ResultsOK
    <2> QED
      BY Zenon, <2>1, <2>2, <2>4, SameAttempts DEF CallInv
  <1> QED
    BY ZenonT(60), <1>1, <1>2, EnvironmentKeeps, MainLoopKeeps, HandlerKeeps, CallKeeps, FaultKeeps,
       SendKeeps, ExecuteKeeps, ReplyKeepsCalls DEF Next

(* The books and the refusals only grow; what is entered was requested.    *)
LEMMA BooksGrow ==
  ASSUME FlowInv, LedgerTypeOK, [Next]_vars
  PROVE  /\ committed \subseteq committed' /\ failed \subseteq failed'
         /\ \A t \in committed' \ committed :
               ~TBIdle /\ \E k \in 1..Len(request.items) : t = request.items[k]
  <1>1. [LedgerStep]_ledgerVars
    BY Zenon, LedgerSteps
  <1>2. CASE ApplyNext
    <2>1. request.items \in Seq(Slot) /\ request.results \in Seq(Result)
      BY Zenon, <1>2 DEF ApplyNext, TBIdle, LedgerTypeOK, Request
    <2>2. Len(request.items) \in Nat /\ Len(request.results) \in Nat
      BY Zenon, <2>1, LenProperties
    <2>3. Len(request.results) < Len(request.items)
      BY Zenon, <1>2 DEF ApplyNext
    <2>4. Len(request.results) + 1 \in 1..Len(request.items)
      BY <2>2, <2>3
    <2>5. \/ committed' = committed
          \/ committed' = committed \cup {request.items[Len(request.results) + 1]}
      BY Zenon, <1>2 DEF ApplyNext, Commit
    <2>6. ~TBIdle /\ failed \subseteq failed'
      BY ZenonT(60), <1>2 DEF ApplyNext
    <2> QED
      BY Zenon, <2>4, <2>5, <2>6
  <1>3. CASE ~ApplyNext
    BY Zenon, <1>1, <1>3 DEF LedgerStep, AnyRequest, Respond, ledgerVars
  <1> QED
    BY Zenon, <1>2, <1>3

LEMMA CallsGo == Spec => []CallInv /\ [][Goes]_vars
  <1>1. FlowInv /\ LedgerInv /\ CallInv /\ [Next]_vars => CallInv' /\ [Goes]_vars
    BY Zenon, CallStep
  <1> QED
    BY <1>1, FlowInit, FlowKept, CallInit, AccountingKeepsBooks, PTL DEF Spec

(* A response finds its attempt.                                           *)
Addressed ==
    ~TBIdle => \E a \in attempts :
        /\ Key(a) = request.from /\ Asks(a, request.items)
        /\ \A b \in attempts : Key(b) = request.from => b = a

(* For any retries, timeouts with late requests and runs, the request that *)
(* TigerBeetle executes is the one a single running attempt makes at its   *)
(* stage: no attempt takes the results of another for its own.             *)
THEOREM ResponsesFindTheirAttempt == Spec => []Addressed
  <1>1. CallInv => Addressed
    BY Zenon DEF CallInv, RequestOK, AttemptsOK, Addressed
  <1> QED
    BY <1>1, CallsGo, PTL

-----------------------------------------------------------------------------
Credits == {CreditTransfer(u) : u \in {v \in Update : Issued(v)}}

Allocates(t) == t # NoTransfer /\ t.id[1] = "alloc"

BooksOK ==
    /\ \A t \in committed : Allocates(t) => t \in Credits
    /\ \A a \in attempts : a.for \in Update /\ a.stage = "done" => CreditTransfer(a.for) \in committed
    /\ \A u \in Update : Acknowledged(u) => CreditTransfer(u) \in committed

-----------------------------------------------------------------------------
(* Requests.                                                               *)

(* The allocation an attempt submits is the credit of its update.          *)
LEMMA SubmitsCredit ==
  ASSUME NumbersOK, NEW a, Numbered(a), a.for \in Update
  PROVE  AllocationSlots(a) = <<CreditTransfer(a.for)>> /\ CreditTransfer(a.for) \in Credits
  <1>1. Issued(a.for) /\ a.seqNo = callSeq[a.for]
    BY Zenon DEF Numbered
  <1>2. Credit[a.for].amount \in Int /\ Credit[a.for].amount < TwoTo64 /\ TwoTo64 \in Nat \ {0}
    BY Zenon, AccountingAssumption
  <1>3. Credit[a.for].amount > 0
    BY Zenon, <1>1 DEF NumbersOK
  <1>4. Uint64(Credit[a.for].amount) = Credit[a.for].amount
    BY <1>2, <1>3 DEF Uint64
  <1>5. AllocationSlots(a) = <<CreditTransfer(a.for)>>
    BY Zenon, <1>1, <1>4 DEF AllocationSlots, CreditTransfer
  <1> QED
    BY Zenon, <1>1, <1>5 DEF Credits

LEMMA UsageIsNoAllocation ==
  ASSUME NEW hbs \in Seq(Heartbeat), NEW k \in DOMAIN UsageSlots(hbs)
  PROVE  ~Allocates(UsageSlots(hbs)[k])
  <1>1. PICK hb, r : UsageSlots(hbs)[k] = UsageSlot(hb, r)
    BY Zenon DEF UsageSlots
  <1>2. UsageSlot(hb, r) # NoTransfer => UsageSlot(hb, r).id[1] = "usage"
    BY Zenon DEF UsageSlot, DeriveTransferID
  <1> QED
    BY Zenon, <1>1, <1>2 DEF Allocates

LEMMA GaugeIsNoAllocation ==
  ASSUME NEW a, NEW order, NEW k \in DOMAIN GaugeSlots(a, order)
  PROVE  ~Allocates(GaugeSlots(a, order)[k])
  <1>1. PICK c, old, amount : GaugeSlots(a, order)[k] \in {VoidSlot(a.seqNo, old, c),
                                                        PendingSlot(a.seqNo, amount, c)}
    BY Zenon DEF GaugeSlots
  <1>2. VoidSlot(a.seqNo, old, c) # NoTransfer =>
           VoidSlot(a.seqNo, old, c).id[1] = "gauge-void"
    BY Zenon DEF VoidSlot, DeriveGaugeVoidID
  <1>3. PendingSlot(a.seqNo, amount, c) # NoTransfer =>
           PendingSlot(a.seqNo, amount, c).id[1] = "gauge-pending"
    BY Zenon DEF PendingSlot, DeriveGaugePendingID
  <1> QED
    BY Zenon, <1>1, <1>2, <1>3 DEF Allocates

(* Every allocation that is requested is a credit.                         *)
LEMMA RequestsCredits ==
  ASSUME FlowInv, CallInv, LedgerTypeOK, ~TBIdle, NEW k \in 1..Len(request.items),
         Allocates(request.items[k])
  PROVE  request.items[k] \in Credits
  <1>1. PICK a \in attempts : Key(a) = request.from /\ Asks(a, request.items)
    BY Zenon DEF CallInv, RequestOK
  <1>2. Sound(a) /\ Numbered(a) /\ a.hbs \in Seq(Heartbeat)
    BY Zenon DEF FlowInv, CallsOK, Sound, Attempt, CallInv, AttemptsOK
  <1>3. k \in DOMAIN request.items
    BY DEF LedgerTypeOK, TBIdle, Request
  <1>4. a.stage = "alloc" /\ request.items = AllocationSlots(a)
    BY Zenon, <1>1, <1>2, <1>3, UsageIsNoAllocation, GaugeIsNoAllocation DEF Asks
  <1>5. AllocationSlots(a) = <<CreditTransfer(a.for)>> /\ CreditTransfer(a.for) \in Credits
    BY Zenon, <1>2, <1>4, SubmitsCredit DEF Sound, CallInv
  <1> QED
    BY <1>4, <1>5

(* An attempt that ends well has its credit in the books, entered by       *)
(* itself or by an earlier attempt of the same call.                       *)
LEMMA DoneIsPosted ==
  ASSUME FlowInv, CallInv, BooksOK, LedgerTypeOK, Executed,
         NEW a \in attempts, Key(a) = request.from, a.for \in Update,
         AfterReply(a).stage = "done"
  PROVE  CreditTransfer(a.for) \in committed
  <1>1. Sound(a) /\ Numbered(a)
    BY Zenon DEF FlowInv, CallsOK, CallInv, AttemptsOK
  <1>2. Asks(a, request.items)
    BY Zenon DEF CallInv, RequestOK, AttemptsOK, Executed
  <1>3. a.stage = "alloc"
    BY Zenon, <1>1, <1>2 DEF Asks, Numbered
  <1>4. request.items = <<CreditTransfer(a.for)>>
    BY Zenon, <1>1, <1>2, <1>3, SubmitsCredit DEF CallInv, Asks
  <1>5. ~Unexpected
    BY Zenon, <1>1 DEF AfterReply, Sound, Attempt
  <1>6. request.results \in Seq(Result) /\ Len(request.results) = 1
    BY Zenon, <1>4 DEF Executed, TBIdle, LedgerTypeOK, Request
  <1>7. request.results[1] # "id_already_failed"
    BY <1>5, <1>6 DEF Unexpected
  <1>8. Tells(CreditTransfer(a.for), request.results[1], Entered, failed)
    <2>1. 1 \in 1..Len(request.results) /\ request.items[1] = CreditTransfer(a.for)
      BY <1>4, <1>6
    <2> QED
      BY Zenon, <2>1 DEF CallInv, ResultsOK
  <1>9. /\ CreditTransfer(a.for) # NoTransfer /\ CreditTransfer(a.for).kind = "alloc"
        /\ CreditTransfer(a.for).id = <<"alloc", callSeq[a.for], Credit[a.for].r>>
    BY Zenon DEF CreditTransfer, NoTransfer, DeriveAllocationTransferID
  <1>10. CreditTransfer(a.for).id \in Entered
    BY Zenon, <1>7, <1>8, <1>9 DEF Tells
  <1>11. PICK t \in committed : t.id = CreditTransfer(a.for).id
    BY Zenon, <1>10 DEF Entered
  <1>12. t # NoTransfer
    BY DEF LedgerTypeOK, Transfer, NoTransfer
  <1>13. t \in Credits
    BY <1>9, <1>11, <1>12 DEF BooksOK, Allocates
  <1>14. PICK u \in Update : Issued(u) /\ t = CreditTransfer(u)
    BY Zenon, <1>13 DEF Credits
  <1>15. callSeq[u] = callSeq[a.for]
    BY Zenon, <1>9, <1>11, <1>14 DEF CreditTransfer, DeriveAllocationTransferID
  <1>16. u \in Coroutine /\ a.for \in Coroutine /\ callSeq[u] > 0 /\ callSeq[u] \in Nat
    BY Zenon, <1>14, CoroutineFacts DEF CallInv, NumbersOK, FlowInv, CallsOK
  <1>17. u = a.for
    BY SMTT(30), <1>15, <1>16 DEF CallInv, NumbersOK
  <1> QED
    BY Zenon, <1>14, <1>17

-----------------------------------------------------------------------------
LEMMA CreditStep ==
  ASSUME FlowInv, LedgerTypeOK, CallInv, BooksOK, Goes, [Next]_vars
  PROVE  BooksOK'
  <1>1. \A u \in Update : Issued(u) => Issued(u)' /\ CreditTransfer(u)' = CreditTransfer(u)
    BY Zenon DEF Goes, CreditTransfer
  <1>2. Credits \subseteq Credits'
    BY Zenon, <1>1 DEF Credits
  <1>3. \A a \in attempts : a.for \in Update => Issued(a.for)
    BY Zenon DEF CallInv, AttemptsOK, Numbered
  <1>4. committed \subseteq committed'
    BY Zenon, BooksGrow
  <1>5. \A t \in committed' : Allocates(t) => t \in Credits'
    BY Zenon, <1>2, BooksGrow, RequestsCredits DEF BooksOK
  <1>6. ASSUME NEW b \in attempts', b.for \in Update, b.stage = "done"
        PROVE  CreditTransfer(b.for)' \in committed'
    <2>1. CASE b \in attempts
      BY Zenon, <1>1, <1>3, <1>4, <1>6, <2>1 DEF BooksOK
    <2>2. CASE Fresh(b)
      BY Zenon, <1>6, <2>2 DEF Fresh
    <2>3. CASE Replied(b)
      <3>1. PICK a \in attempts : Key(a) = request.from /\ b = AfterReply(a)
        BY Zenon, <2>3 DEF Replied
      <3>2. b.for = a.for
        BY Zenon, <3>1 DEF AfterReply, AfterUsage, AfterGauge, FlowInv, CallsOK, Sound, Attempt
      <3>3. CreditTransfer(a.for) \in committed
        BY Zenon, <1>6, <2>3, <3>1, <3>2, DoneIsPosted DEF Replied
      <3> QED
        BY Zenon, <1>1, <1>3, <1>4, <1>6, <3>2, <3>3
    <2> QED
      BY Zenon, <2>1, <2>2, <2>3 DEF Goes
  <1>7. ASSUME NEW u \in Update, Acknowledged(u)'
        PROVE  CreditTransfer(u)' \in committed'
    <2>1. CASE Acknowledged(u)
      <3>1. Issued(u)
        BY Zenon, <2>1 DEF Acknowledged, Issued
      <3> QED
        BY Zenon, <1>1, <1>4, <2>1, <3>1 DEF BooksOK
    <2>2. CASE Answered(u)
      <3>1. Issued(u) /\ CreditTransfer(u) \in committed
        BY Zenon, <1>3, <2>2 DEF Answered, BooksOK
      <3> QED
        BY Zenon, <1>1, <1>4, <3>1
    <2> QED
      BY Zenon, <1>7, <2>1, <2>2 DEF Goes
  <1> QED
    BY Zenon, <1>5, <1>6, <1>7 DEF BooksOK

(* IssueTenantCredit gives a real acknowledgement: for any number of       *)
(* updates, clusters, heartbeats, attempts, timeouts with late requests    *)
(* and runs, when an update goes on or ends well its credit is in the      *)
(* books, at its amount and under a flush number no other update has.      *)
THEOREM CreditsArePosted == Spec => []AcknowledgedCreditIsPosted
  <1>1. Init => BooksOK
    <2> SUFFICES ASSUME Init PROVE BooksOK
      OBVIOUS
    <2>1. \A u \in Update : at[u] = "idle"
      BY Zenon, CoroutineFacts DEF Init
    <2>2. committed = {} /\ attempts = {}
      BY Zenon DEF Init, LedgerInit
    <2> QED
      BY Zenon, <2>1, <2>2 DEF BooksOK, Acknowledged
  <1>2. FlowInv /\ CallInv /\ BooksOK => AcknowledgedCreditIsPosted
    <2> SUFFICES ASSUME FlowInv, CallInv, BooksOK, NEW u \in Update, Acknowledged(u)
                 PROVE  /\ CreditTransfer(u) \in committed
                        /\ \A v \in Update \ {u} : at[v] # "idle" => callSeq[v] # callSeq[u]
      BY Zenon DEF AcknowledgedCreditIsPosted
    <2>1. callSeq[u] \in Nat /\ callSeq[u] > 0
      BY Zenon, CoroutineFacts DEF FlowInv, CallsOK, CallInv, NumbersOK, Acknowledged, Issued
    <2>2. \A v \in Update : callSeq[v] = callSeq[u] => v = u
      BY <2>1, CoroutineFacts DEF CallInv, NumbersOK
    <2> QED
      BY Zenon, <2>2 DEF BooksOK
  <1>3. FlowInv /\ LedgerInv /\ CallInv /\ BooksOK /\ [Next]_vars => BooksOK'
    <2> SUFFICES ASSUME FlowInv, LedgerInv, CallInv, BooksOK, [Next]_vars PROVE BooksOK'
      OBVIOUS
    <2>1. LedgerTypeOK /\ Goes
      BY Zenon, CallStep DEF LedgerInv
    <2> QED
      BY Zenon, <2>1, CreditStep
  <1> QED
    BY <1>1, <1>2, <1>3, FlowInit, FlowKept, CallsGo, AccountingKeepsBooks, PTL DEF Spec

-----------------------------------------------------------------------------
(* Verdicts: no resource is reported exceeded without a refusal.           *)

(* TigerBeetle has refused a transfer of resource r.                       *)
Refused(r) == \E id \in failed : id[4] = r

PerOK == \A a \in attempts : \A r \in Resource : a.per[r] = "exceeded" => Refused(r)

(* The result "exceeds_credits" names a refused transfer.                  *)
LEMMA ExceedsIsRefused ==
  ASSUME CallInv, NEW k \in 1..Len(request.results),
         request.results[k] = "exceeds_credits"
  PROVE  request.items[k] # NoTransfer /\ request.items[k].id \in failed
  <1>1. Tells(request.items[k], request.results[k], Entered, failed)
    BY Zenon DEF CallInv, ResultsOK
  <1> QED
    BY Zenon, <1>1 DEF Tells, Transient

LEMMA UsageVerdictIsRefused ==
  ASSUME CallInv, LedgerTypeOK, Executed, NEW hbs, request.items = UsageSlots(hbs),
         NEW r \in Resource, UsageVerdict(r) = "exceeded"
  PROVE  Refused(r)
  <1>1. request.items \in Seq(Slot) /\ Len(request.results) = Len(request.items)
    BY Zenon DEF Executed, TBIdle, LedgerTypeOK, Request
  <1>2. PICK k \in DOMAIN request.items :
          /\ request.items[k] # NoTransfer /\ request.items[k].r = r
          /\ Verdict(request.results[k]) = "exceeded"
    BY Zenon DEF UsageVerdict
  <1>3. k \in 1..Len(request.results)
    BY <1>1
  <1>4. request.items[k].id \in failed
    BY <1>2, <1>3, ExceedsIsRefused DEF Verdict
  <1>5. PICK hb, s : request.items[k] = UsageSlot(hb, s)
    BY DEF UsageSlots
  <1>6. UsageSlot(hb, s) # NoTransfer => UsageSlot(hb, s).id[4] = UsageSlot(hb, s).r
    BY Zenon DEF UsageSlot, DeriveTransferID
  <1> QED
    BY Zenon, <1>2, <1>4, <1>5, <1>6 DEF Refused

LEMMA GaugeVerdictIsRefused ==
  ASSUME CallInv, LedgerTypeOK, Executed, NEW a, Sound(a), a.stage = "gauge", a.hbs # <<>>,
         Asks(a, request.items),
         Verdict(request.results[Len(request.results)]) = "exceeded"
  PROVE  Refused(ActiveNodes)
  <1>1. PICK order \in Orders(a.hbs) : request.items = GaugeSlots(a, order)
    BY Zenon DEF Asks
  <1>2. ActiveNodes \in Resource /\ a.hbs \in Seq(Heartbeat)
    BY Zenon DEF Sound, Attempt
  <1>3. PICK n \in 0..Len(a.hbs) : order \in [1..n -> ClustersOf(a.hbs)]
    BY <1>2 DEF Orders
  <1>4. n \in Nat /\ 1 \in DOMAIN a.hbs
    BY <1>2, LenProperties
  <1>5. Len(order) = n /\ n > 0
    <2>1. a.hbs[1][1] \in ClustersOf(a.hbs)
      BY Zenon, <1>4 DEF ClustersOf
    <2>2. \E i \in DOMAIN order : order[i] = a.hbs[1][1]
      BY Zenon, <1>2, <2>1 DEF Orders
    <2> QED
      BY SMTT(30), <1>3, <1>4, <2>2
  <1>6. Len(request.items) = 2 * n /\ 2 * n \in 1..Len(request.items)
    BY <1>1, <1>4, <1>5 DEF GaugeSlots
  <1>7. Len(request.results) = Len(request.items)
    BY Zenon DEF Executed
  <1>8. request.results[2 * n] = "exceeds_credits"
    BY Zenon, <1>6, <1>7 DEF Verdict
  <1>9. request.items[2 * n] # NoTransfer /\ request.items[2 * n].id \in failed
    BY Zenon, <1>6, <1>7, <1>8, ExceedsIsRefused
  <1>10. PICK c, old, amount : request.items[2 * n] \in {VoidSlot(a.seqNo, old, c),
                                                     PendingSlot(a.seqNo, amount, c)}
    BY ZenonT(60), <1>1, <1>4, <1>5, <1>6 DEF GaugeSlots
  <1>11. /\ VoidSlot(a.seqNo, old, c) # NoTransfer => VoidSlot(a.seqNo, old, c).id[4] = ActiveNodes
         /\ PendingSlot(a.seqNo, amount, c) # NoTransfer =>
               PendingSlot(a.seqNo, amount, c).id[4] = ActiveNodes
    BY Zenon DEF VoidSlot, PendingSlot, DeriveGaugeVoidID, DeriveGaugePendingID
  <1> QED
    BY Zenon, <1>9, <1>10, <1>11 DEF Refused

(* An attempt takes a resource for exceeded only after a refusal.          *)
LEMMA PerStep ==
  ASSUME FlowInv, LedgerTypeOK, CallInv, PerOK, Goes, [Next]_vars
  PROVE  PerOK'
  <1> SUFFICES ASSUME NEW b \in attempts', NEW r \in Resource, b.per[r] = "exceeded"
               PROVE  Refused(r)'
    BY Zenon DEF PerOK
  <1>1. ASSUME Refused(r) PROVE Refused(r)'
    BY Zenon, <1>1, BooksGrow DEF Refused
  <1>2. CASE b \in attempts
    BY Zenon, <1>1, <1>2 DEF PerOK
  <1>3. CASE Fresh(b)
    BY Zenon, <1>3 DEF Fresh
  <1>4. CASE Replied(b)
    <2>1. PICK a \in attempts : Key(a) = request.from /\ b = AfterReply(a)
      BY Zenon, <1>4 DEF Replied
    <2>2. Sound(a) /\ Executed
      BY Zenon, <1>4 DEF FlowInv, CallsOK, Replied
    <2>3. a \in Attempt /\ a.per \in [Resource -> {"none", "accepted", "exceeded"}]
      BY Zenon, <2>2 DEF Sound, Attempt
    <2>4. Asks(a, request.items)
      BY Zenon, <2>1, <2>2 DEF CallInv, RequestOK, AttemptsOK, Executed
    <2>5. CASE b.per = a.per
      BY Zenon, <1>1, <2>5 DEF PerOK
    <2>6. CASE ~Unexpected /\ a.stage = "usage"
      <3>1. b.per[r] = UsageVerdict(r)
        BY Zenon, <2>1, <2>3, <2>6 DEF AfterReply, AfterUsage, Attempt
      <3>2. request.items = UsageSlots(a.hbs)
        BY Zenon, <2>4, <2>6 DEF Asks
      <3> QED
        BY Zenon, <1>1, <2>2, <3>1, <3>2, UsageVerdictIsRefused
    <2>7. CASE ~Unexpected /\ a.stage = "gauge"
      <3>1. b.per = [a.per EXCEPT ![ActiveNodes] =
                        Verdict(request.results[Len(request.results)])]
        BY Zenon, <2>1, <2>3, <2>7 DEF AfterReply, AfterGauge, Attempt
      <3>2. CASE r # ActiveNodes
        BY Zenon, <1>1, <2>3, <3>1, <3>2 DEF PerOK
      <3>3. CASE r = ActiveNodes
        <4>1. Verdict(request.results[Len(request.results)]) = "exceeded"
          BY Zenon, <2>3, <3>1, <3>3
        <4>2. a.for = Main
          BY Zenon, <2>7
             DEF CallInv, AttemptsOK, Numbered, FlowInv, CallsOK, Sound, Attempt, Coroutine
        <4>3. a.hbs # <<>>
          BY Zenon, <4>2 DEF CallInv, BatchOK
        <4> QED
          BY Zenon, <1>1, <2>2, <2>4, <2>7, <3>3, <4>1, <4>3, GaugeVerdictIsRefused
      <3> QED
        BY Zenon, <3>2, <3>3
    <2> QED
      BY Zenon, <2>1, <2>3, <2>5, <2>6, <2>7 DEF AfterReply, Attempt
  <1> QED
    BY Zenon, <1>2, <1>3, <1>4 DEF Goes

(* Only the result of a flush adds to the exceeded resources.              *)
LEMMA ExceededMoves ==
  ASSUME [Next]_vars
  PROVE  \/ exceededResources' \subseteq exceededResources
         \/ \E a \in attempts : exceededResources' = ExceededAfter(a.per)
  <1>1. CASE Environment
    BY Zenon, <1>1 DEF Environment, SignalHeartbeat, SignalRegisterCluster, IssueCredit, state
  <1>2. CASE MainLoop
    <2>1. CASE ReceiveHeartbeat \/ \E c \in Cluster : ReceiveRegister(c)
      BY Zenon, <2>1 DEF ReceiveHeartbeat, ReceiveRegister
    <2>2. CASE TimerFires \/ ContinueAsNew \/ CheckSoftLimits
      BY Zenon, <2>2 DEF TimerFires, ContinueAsNew, CheckSoftLimits
    <2>3. CASE SubmitTBBatchDone
      BY Zenon, <2>3 DEF SubmitTBBatchDone
    <2> QED
      BY Zenon, <1>2, <2>1, <2>2, <2>3 DEF MainLoop
  <1>3. ASSUME NEW u \in Update, Handler(u) PROVE exceededResources' \subseteq exceededResources
    BY Zenon, <1>3 DEF Handler, SubmitAllocationDone, ResetSoftLimitAlert, state
  <1>4. ASSUME NEW p \in Coroutine, Call(p) PROVE exceededResources' = exceededResources
    BY Zenon, <1>4 DEF Call, AttemptFails, LookupAccountBalances, UpsertQuotaSnapshot, state
  <1>5. ASSUME NEW p \in Coroutine, Fault(p) PROVE exceededResources' = exceededResources
    BY Zenon, <1>5 DEF Fault, AttemptTimesOut, LookupFails, UpdateQuotaSnapshotsFails, state
  <1>6. CASE Send \/ Execute \/ Reply
    BY Zenon, <1>6 DEF Send, Execute, Reply, state
  <1>7. CASE UNCHANGED vars
    BY Zenon, <1>7 DEF vars, state
  <1> QED
    BY Zenon, <1>1, <1>2, <1>3, <1>4, <1>5, <1>6, <1>7 DEF Next

LEMMA VerdictInit == Init => PerOK /\ ExceededIsJustified
  BY Zenon DEF Init, PerOK, ExceededIsJustified

LEMMA VerdictStep ==
  FlowInv /\ LedgerInv /\ CallInv /\ PerOK /\ ExceededIsJustified /\ [Next]_vars
     => PerOK' /\ ExceededIsJustified'
  <1> SUFFICES ASSUME FlowInv, LedgerInv, CallInv, PerOK, ExceededIsJustified, [Next]_vars
               PROVE  PerOK' /\ ExceededIsJustified'
    OBVIOUS
  <1>1. LedgerTypeOK /\ Goes
    BY Zenon, CallStep DEF LedgerInv
  <1>2. PerOK'
    BY Zenon, <1>1, PerStep
  <1>3. \A r \in exceededResources' : Refused(r)
    BY Zenon, ExceededMoves DEF ExceededAfter, PerOK, ExceededIsJustified, Refused
  <1>4. failed \subseteq failed'
    BY Zenon, <1>1, BooksGrow
  <1> QED
    BY Zenon, <1>2, <1>3, <1>4 DEF ExceededIsJustified, Refused

(* No resource is reported exceeded, to agents or to the enforcement       *)
(* loop, unless TigerBeetle has refused a transfer of it: for any batches, *)
(* retries with late requests, credits and runs, the verdict that reaches  *)
(* the workflow is that of a transfer of this resource.                    *)
THEOREM ExceededIsRefused == Spec => []ExceededIsJustified
  <1> QED
    BY VerdictInit, VerdictStep, FlowInit, FlowKept, CallsGo, AccountingKeepsBooks, PTL DEF Spec
=============================================================================
