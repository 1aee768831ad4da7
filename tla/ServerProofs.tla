---------------------------- MODULE ServerProofs ----------------------------
(* The server's figures, and its life.                                     *)
(*                                                                         *)
(* The ring of latencies and the shared mark of the rate, for every size   *)
(* of the ring and any number of messages: the type invariant and the two  *)
(* properties together are inductive, since the position and the flag      *)
(* determine how much of the ring is filled, which makes the entry that    *)
(* recordLatency overwrites the oldest one.                                *)
(*                                                                         *)
(* Start-up and shutdown, for any number of processes, migration files,    *)
(* attempts and starts.  What makes ServerInv inductive is LifeInv: the    *)
(* step main is at tells how much it has deferred and what it has prepared *)
(* in the database and in TigerBeetle.                                     *)
EXTENDS Server, TLAPS

(* What the proofs use about sequences.                                    *)
LEMMA EmptySeq ==
  ASSUME NEW S
  PROVE  /\ <<>> \in Seq(S) /\ Len(<<>>) = 0
         /\ \A q \in Seq(S) : q # <<>> => Len(q) \in Nat \ {0}
  OBVIOUS

LEMMA LenProperties ==
  ASSUME NEW S, NEW q \in Seq(S)
  PROVE  Len(q) \in Nat /\ DOMAIN q = 1..Len(q)
  OBVIOUS

LEMMA ElementOfSeq ==
  ASSUME NEW S, NEW q \in Seq(S), NEW n \in 1..Len(q)
  PROVE  q[n] \in S
  OBVIOUS

LEMMA AppendProperties ==
  ASSUME NEW S, NEW q \in Seq(S), NEW e \in S
  PROVE  /\ Append(q, e) \in Seq(S) /\ Len(Append(q, e)) = Len(q) + 1
         /\ Append(q, e)[Len(q) + 1] = e
         /\ \A i \in 1..Len(q) : Append(q, e)[i] = q[i]
  OBVIOUS

LEMMA ConcatProperties ==
  ASSUME NEW S, NEW q \in Seq(S), NEW r \in Seq(S)
  PROVE  /\ q \o r \in Seq(S) /\ Len(q \o r) = Len(q) + Len(r)
         /\ \A i \in 1..(Len(q) + Len(r)) :
               (q \o r)[i] = IF i <= Len(q) THEN q[i] ELSE r[i - Len(q)]
  OBVIOUS

LEMMA SubSeqProperties ==
  ASSUME NEW S, NEW q \in Seq(S), NEW n \in 0..Len(q)
  PROVE  /\ SubSeq(q, 1, n) \in Seq(S) /\ Len(SubSeq(q, 1, n)) = n
         /\ \A i \in 1..n : SubSeq(q, 1, n)[i] = q[i]
  OBVIOUS

LEMMA ConcatEmptySeq ==
  ASSUME NEW S, NEW q \in Seq(S)
  PROVE  q \o <<>> = q
  OBVIOUS

-----------------------------------------------------------------------------

LEMMA MetricsBegin == MetricsInit => MetricsInv
  <1> SUFFICES ASSUME MetricsInit PROVE MetricsInv
    OBVIOUS
  <1>1. MetricsTypeOK
    <2>1. latRing = [i \in 0..(RingSize - 1) |-> 0] /\ latPos = 0 /\ durations = <<>>
      BY Zenon DEF MetricsInit
    <2>2. latRing \in [0..(RingSize - 1) -> Nat]
      BY Zenon, <2>1
    <2>3. latPos \in 0..(RingSize - 1)
      BY <2>1, MetricsAssumption
    <2>4. durations \in Seq(Durations)
      BY Zenon, <2>1, EmptySeq
    <2>5. inboundMsgs \in Nat /\ rateLastVal \in Nat /\ reported \in Nat /\ latFull \in BOOLEAN
      BY Zenon DEF MetricsInit
    <2> QED
      BY Zenon, <2>2, <2>3, <2>4, <2>5 DEF MetricsTypeOK
  <1>2. Filled = 0 /\ Len(durations) = 0
    BY Zenon, EmptySeq DEF MetricsInit, Filled
  <1>3. RingHoldsLast
    BY <1>2, MetricsAssumption DEF RingHoldsLast
  <1>4. RateCountsOnce
    BY DEF MetricsInit, RateCountsOnce
  <1> QED
    BY Zenon, <1>1, <1>3, <1>4 DEF MetricsInv

LEMMA MetricsRestart == MetricsReset => MetricsInv'
  <1>1. MetricsReset => MetricsInit'
    BY Zenon DEF MetricsReset, MetricsInit
  <1> QED
    BY <1>1, MetricsBegin, PTL

(* One more latency: the ring, its position and its flag.                  *)
LEMMA RecordType ==
  ASSUME MetricsTypeOK, NEW d \in Durations, recordLatency(d)
  PROVE  /\ latRing' \in [0..(RingSize - 1) -> Nat]
         /\ latPos' \in 0..(RingSize - 1)
         /\ latFull' \in BOOLEAN
         /\ durations' \in Seq(Durations)
         /\ Len(durations') = Len(durations) + 1
         /\ durations'[Len(durations) + 1] = d
         /\ \A i \in 1..Len(durations) : durations'[i] = durations[i]
  <1>1. durations \in Seq(Durations) /\ d \in Nat /\ RingSize \in Nat \ {0}
    BY Zenon, MetricsAssumption DEF MetricsTypeOK
  <1>2. durations' = Append(durations, d)
    BY Zenon DEF recordLatency
  <1>3. latRing' \in [0..(RingSize - 1) -> Nat]
    BY Zenon, <1>1 DEF MetricsTypeOK, recordLatency
  <1>4. latPos' \in 0..(RingSize - 1)
    BY <1>1 DEF MetricsTypeOK, recordLatency, Wraps
  <1>5. latFull' \in BOOLEAN
    BY Zenon DEF MetricsTypeOK, recordLatency, Full, Wraps
  <1>6. /\ durations' \in Seq(Durations)
        /\ Len(durations') = Len(durations) + 1
        /\ durations'[Len(durations) + 1] = d
        /\ \A i \in 1..Len(durations) : durations'[i] = durations[i]
    BY <1>1, <1>2, AppendProperties
  <1> QED
    BY Zenon, <1>3, <1>4, <1>5, <1>6

LEMMA RecordHoldsLast ==
  ASSUME MetricsTypeOK, RingHoldsLast, NEW d \in Durations, recordLatency(d)
  PROVE  RingHoldsLast'
  <1> DEFINE n == Len(durations)
  <1>1. /\ RingSize \in Nat \ {0} /\ n \in Nat /\ latPos \in 0..(RingSize - 1)
        /\ latFull \in BOOLEAN /\ latRing \in [0..(RingSize - 1) -> Nat]
    BY Zenon, MetricsAssumption, LenProperties DEF MetricsTypeOK
  <1>2. /\ Len(durations') = n + 1 /\ durations'[n + 1] = d
        /\ \A i \in 1..n : durations'[i] = durations[i]
    BY Zenon, RecordType
  <1>3. /\ latRing' = [latRing EXCEPT ![latPos] = d]
        /\ latPos' = IF latPos + 1 >= RingSize THEN 0 ELSE latPos + 1
        /\ latFull' = (latFull \/ latPos + 1 >= RingSize)
    BY Zenon DEF recordLatency, Wraps, Full
  <1>4. /\ Filled = IF n < RingSize THEN n ELSE RingSize
        /\ \A k \in 1..Filled : latRing[Back(k)] = durations[n + 1 - k]
    BY Zenon DEF RingHoldsLast
  <1> HIDE DEF n
  <1>5. IF latFull THEN n >= RingSize ELSE n = latPos
    BY <1>1, <1>4 DEF Filled
  <1>6. Filled' = IF n + 1 < RingSize THEN n + 1 ELSE RingSize
    <2>1. CASE latFull \/ latPos + 1 >= RingSize
      <3>1. latFull'
        BY Zenon, <1>3, <2>1
      <3>2. n + 1 >= RingSize
        BY <1>1, <1>5, <2>1
      <3> QED
        BY <1>1, <3>1, <3>2 DEF Filled
    <2>2. CASE ~(latFull \/ latPos + 1 >= RingSize)
      <3>1. ~latFull'
        BY Zenon, <1>3, <2>2
      <3>2. n + 1 < RingSize /\ latPos' = n + 1
        BY <1>1, <1>3, <1>5, <2>2
      <3> QED
        BY Zenon, <3>1, <3>2 DEF Filled
    <2> QED
      BY Zenon, <2>1, <2>2
  <1>7. ASSUME NEW k \in 1..(Filled') PROVE latRing'[Back(k)'] = durations'[n + 2 - k]
    <2>1. k \in Nat /\ 1 <= k /\ k <= RingSize /\ k <= n + 1
      BY <1>1, <1>6, <1>7
    <2>2. CASE k = 1
      <3>1. Back(k)' = latPos
        BY <1>1, <1>3, <2>2 DEF Back
      <3>2. latRing'[latPos] = d
        BY Zenon, <1>1, <1>3
      <3> QED
        BY <1>1, <1>2, <2>2, <3>1, <3>2
    <2>3. CASE k > 1
      <3>1. k - 1 \in 1..Filled
        BY <1>1, <1>4, <2>1, <2>3
      <3>2. Back(k)' = Back(k - 1)
        BY <1>1, <1>3, <2>1, <2>3 DEF Back
      <3>3. Back(k - 1) \in 0..(RingSize - 1) /\ Back(k - 1) # latPos
        BY <1>1, <2>1, <2>3 DEF Back
      <3>4. latRing'[Back(k - 1)] = latRing[Back(k - 1)]
        BY Zenon, <1>1, <1>3, <3>3
      <3>5. latRing[Back(k - 1)] = durations[n + 1 - (k - 1)]
        BY Zenon, <1>4, <3>1
      <3>6. n + 1 - (k - 1) = n + 2 - k /\ n + 2 - k \in 1..n
        BY <1>1, <2>1, <2>3
      <3> QED
        BY Zenon, <1>2, <3>2, <3>4, <3>5, <3>6
    <2> QED
      BY <2>1, <2>2, <2>3
  <1>8. Filled' = IF Len(durations') < RingSize THEN Len(durations') ELSE RingSize
    BY Zenon, <1>2, <1>6
  <1>9. \A k \in 1..(Filled') : latRing'[Back(k)'] = durations'[Len(durations') + 1 - k]
    <2> SUFFICES ASSUME NEW k \in 1..(Filled')
                 PROVE  latRing'[Back(k)'] = durations'[Len(durations') + 1 - k]
      OBVIOUS
    <2>1. Filled' \in Nat
      BY <1>1, <1>6
    <2>2. Len(durations') + 1 - k = n + 2 - k
      BY <1>1, <1>2, <2>1
    <2> QED
      BY Zenon, <1>7, <2>2
  <1> QED
    BY Zenon, <1>8, <1>9 DEF RingHoldsLast

LEMMA MetricsStep == MetricsInv /\ [MetricsNext]_metrics => MetricsInv'
  <1> SUFFICES ASSUME MetricsInv, [MetricsNext]_metrics PROVE MetricsInv'
    OBVIOUS
  <1>1. MetricsTypeOK /\ RingHoldsLast /\ RateCountsOnce
    BY Zenon DEF MetricsInv
  <1>2. ASSUME UNCHANGED latencies PROVE RingHoldsLast'
    BY Zenon, <1>1, <1>2 DEF latencies, RingHoldsLast, Filled, Back
  <1>3. CASE countMessage
    <2>1. /\ inboundMsgs' = inboundMsgs + 1
          /\ UNCHANGED <<rateLastVal, reported, latencies>>
      BY Zenon, <1>3 DEF countMessage
    <2>2. MetricsTypeOK' /\ RateCountsOnce'
      BY <1>1, <2>1 DEF MetricsTypeOK, RateCountsOnce, latencies
    <2> QED
      BY Zenon, <1>2, <2>1, <2>2 DEF MetricsInv
  <1>4. ASSUME NEW d \in Durations, recordLatency(d) PROVE MetricsInv'
    <2>1. UNCHANGED <<inboundMsgs, rateLastVal, reported>>
      BY Zenon, <1>4 DEF recordLatency, rates
    <2>2. MetricsTypeOK'
      BY Zenon, <1>1, <1>4, <2>1, RecordType DEF MetricsTypeOK
    <2>3. RingHoldsLast'
      BY Zenon, <1>1, <1>4, RecordHoldsLast
    <2>4. RateCountsOnce'
      BY Zenon, <1>1, <2>1 DEF RateCountsOnce
    <2> QED
      BY Zenon, <2>2, <2>3, <2>4 DEF MetricsInv
  <1>5. ASSUME NEW elapsed \in BOOLEAN, MsgRate(elapsed) PROVE MetricsInv'
    <2>1. /\ rateLastVal' = inboundMsgs
          /\ UNCHANGED <<inboundMsgs, latencies>>
      BY Zenon, <1>5 DEF MsgRate
    <2>2. reported' = reported + (inboundMsgs - rateLastVal) \/ reported' = reported + 0
      BY Zenon, <1>5 DEF MsgRate
    <2>3. /\ inboundMsgs \in Nat /\ rateLastVal \in Nat /\ reported \in Nat
          /\ reported <= rateLastVal /\ rateLastVal <= inboundMsgs
      BY Zenon, <1>1 DEF MetricsTypeOK, RateCountsOnce
    <2>4. reported' \in Nat /\ reported' <= inboundMsgs
      BY <2>2, <2>3
    <2>5. MetricsTypeOK' /\ RateCountsOnce'
      BY <1>1, <2>1, <2>3, <2>4 DEF MetricsTypeOK, RateCountsOnce, latencies
    <2> QED
      BY Zenon, <1>2, <2>1, <2>5 DEF MetricsInv
  <1>6. CASE MetricsReset
    BY Zenon, <1>6, MetricsRestart
  <1>7. CASE UNCHANGED metrics
    <2>1. UNCHANGED <<inboundMsgs, rateLastVal, reported>> /\ UNCHANGED latencies
      BY Zenon, <1>7 DEF metrics, rates
    <2>2. MetricsTypeOK' /\ RateCountsOnce'
      BY Zenon, <1>1, <2>1 DEF MetricsTypeOK, RateCountsOnce, latencies
    <2> QED
      BY Zenon, <1>2, <2>1, <2>2 DEF MetricsInv
  <1> QED
    BY Zenon, <1>3, <1>4, <1>5, <1>6, <1>7 DEF MetricsNext

(* The figures of the gateway are right for every size of the ring, any    *)
(* number of messages and of pages that ask, and any number of restarts.   *)
THEOREM MetricsCorrect == MetricsSpec => []MetricsInv
  BY MetricsBegin, MetricsStep, PTL DEF MetricsSpec

(* For every size of the ring and every sequence of latencies, the ring    *)
(* holds exactly the latencies recorded last: recordLatency overwrites the *)
(* oldest entry and nothing else, across every wrap and every restart.     *)
THEOREM RingCorrect == MetricsSpec => []RingHoldsLast
  <1>1. MetricsInv => RingHoldsLast
    BY Zenon DEF MetricsInv
  <1> QED
    BY <1>1, MetricsCorrect, PTL

(* For any number of messages and of pages that ask, in any order, no      *)
(* message is counted in two rates and none that never arrived in one.     *)
THEOREM RateCorrect == MetricsSpec => []RateCountsOnce
  <1>1. MetricsInv => RateCountsOnce
    BY Zenon DEF MetricsInv
  <1> QED
    BY <1>1, MetricsCorrect, PTL

-----------------------------------------------------------------------------
(* The life of a process.  What main defers is at all times an initial     *)
(* part of one order, and where main is tells how long a part; returns     *)
(* only shorten it.                                                        *)
Closer == {"postgres", "tigerbeetle", "temporal", "worker", "valkey"}

Order == <<"postgres", "tigerbeetle", "temporal", "worker", "valkey">>

InOrder(d) ==
    d \in Seq(Closer) /\ Len(d) \in 0..5 /\ \A i \in 1..Len(d) : d[i] = Order[i]

(* How much main has deferred when it comes to step n.                     *)
DepthAt(p, n, k) ==
    IF p \in Servers
    THEN /\ n = 1 => k = 0
         /\ n \in {2, 3} => k = 1
         /\ n \in {4, 5} => k = 2
         /\ n = 6 => k = 3
         /\ n \in {7, 8} => k = 4
         /\ n = 9 => k \in {4, 5}
    ELSE k = n - 1

ProcessTypes ==
    /\ phase \in [Process -> Phase]
    /\ at \in [Process -> Nat] /\ tries \in [Process -> Nat] /\ starts \in [Process -> Nat]
    /\ signalled \in [Process -> BOOLEAN]
    /\ deferred \in [Process -> Seq(Closer)]
    /\ listening \subseteq Servers /\ requests \subseteq Servers
    /\ files \subseteq 1..Files /\ accounts \in BOOLEAN

Depth(p) == Len(deferred[p])

StartsUp(p) == phase[p] \in {"down", "starting", "dialing", "pausing"}

(* What holds of the process p by itself ...                               *)
Lives(p) ==
    /\ at[p] \in 1..(IF p \in Servers THEN 9 ELSE 4)
    /\ tries[p] <= Files + MaxAttempts /\ starts[p] <= MaxStarts[p]
    /\ InOrder(deferred[p]) /\ (p \notin Servers => Depth(p) <= 4)
    /\ phase[p] = "down" => at[p] = 1 /\ tries[p] = 0
    /\ StartsUp(p) => DepthAt(p, at[p], Depth(p))
    /\ phase[p] \in {"serving", "draining"} => Depth(p) >= 4
    /\ p \in listening => phase[p] = "serving"

(* ... and of what it has prepared for all servers.                        *)
Prepared(p) ==
    p \in Servers =>
        /\ StartsUp(p) /\ at[p] = 2 => tries[p] < Files /\ 1..tries[p] \subseteq files
        /\ StartsUp(p) /\ at[p] >= 3 => files = 1..Files
        /\ StartsUp(p) /\ at[p] >= 5 => accounts
        /\ Depth(p) >= 4 => files = 1..Files /\ accounts

LifeInv ==
    /\ ProcessTypes
    /\ \A p \in Process : Lives(p) /\ Prepared(p)
    /\ \A f \in files : 1..f \subseteq files

LEMMA StepNumber ==
  /\ Len(ServerSteps) = 9 /\ Len(WorkerSteps) = 4
  /\ ServerSteps[1] = "postgres" /\ ServerSteps[2] = "migrations"
  /\ ServerSteps[3] = "tigerbeetle" /\ ServerSteps[4] = "accounts"
  /\ ServerSteps[5] = "temporal" /\ ServerSteps[6] = "worker" /\ ServerSteps[7] = "debug"
  /\ ServerSteps[8] = "valkey" /\ ServerSteps[9] = "http"
  /\ WorkerSteps[1] = "postgres" /\ WorkerSteps[2] = "tigerbeetle"
  /\ WorkerSteps[3] = "temporal" /\ WorkerSteps[4] = "worker"
  BY Zenon DEF ServerSteps, WorkerSteps

LEMMA OrderIs ==
  /\ Order[1] = "postgres" /\ Order[2] = "tigerbeetle" /\ Order[3] = "temporal"
  /\ Order[4] = "worker" /\ Order[5] = "valkey"
  BY Zenon DEF Order

(* One more call is deferred.                                              *)
LEMMA Defers ==
  ASSUME NEW d, InOrder(d), NEW k \in 1..5, Len(d) + 1 = k
  PROVE  InOrder(d \o <<Order[k]>>) /\ Len(d \o <<Order[k]>>) = k
  <1>1. d \in Seq(Closer) /\ Len(d) \in Nat
    BY DEF InOrder
  <1>2. Order[k] \in Closer
    BY OrderIs DEF Closer
  <1>3. PICK e \in Closer : e = Order[k]
    BY Zenon, <1>2
  <1>4. <<e>> \in Seq(Closer) /\ Len(<<e>>) = 1 /\ <<e>>[1] = e
    OBVIOUS
  <1>5. /\ d \o <<e>> \in Seq(Closer) /\ Len(d \o <<e>>) = k
        /\ \A i \in 1..k : (d \o <<e>>)[i] = IF i <= Len(d) THEN d[i] ELSE <<e>>[i - Len(d)]
    BY Zenon, <1>1, <1>4, ConcatProperties
  <1>6. \A i \in 1..k : (d \o <<e>>)[i] = Order[i]
    BY <1>1, <1>3, <1>4, <1>5 DEF InOrder
  <1> QED
    BY <1>3, <1>5, <1>6 DEF InOrder

LEMMA DefersNothing ==
  ASSUME NEW d \in Seq(Closer)
  PROVE  d \o <<>> = d
  BY Zenon, ConcatEmptySeq

(* The last deferred call has run.                                         *)
LEMMA Runs ==
  ASSUME NEW d, InOrder(d), d # <<>>
  PROVE  InOrder(SubSeq(d, 1, Len(d) - 1)) /\ Len(SubSeq(d, 1, Len(d) - 1)) = Len(d) - 1
  <1>1. d \in Seq(Closer) /\ Len(d) \in 1..5 /\ \A i \in 1..Len(d) : d[i] = Order[i]
    BY EmptySeq DEF InOrder
  <1>2. PICK n \in 1..5 : n = Len(d)
    BY Zenon, <1>1
  <1>3. \A i \in 1..(n - 1) : d[i] \in Closer /\ d[i] = Order[i]
    BY <1>1, <1>2, ElementOfSeq
  <1>4. /\ SubSeq(d, 1, n - 1) \in Seq(Closer) /\ Len(SubSeq(d, 1, n - 1)) = n - 1
        /\ \A i \in 1..(n - 1) : SubSeq(d, 1, n - 1)[i] = d[i]
    <2>1. n - 1 \in 0..Len(d)
      BY <1>2
    <2> QED
      BY Zenon, <1>1, <2>1, SubSeqProperties
  <1>5. InOrder(SubSeq(d, 1, n - 1))
    BY <1>3, <1>4 DEF InOrder
  <1> QED
    BY Zenon, <1>2, <1>4, <1>5

LEMMA OpenIs ==
  ASSUME NEW d, InOrder(d)
  PROVE  \A x : x \in Range(d) <=> \E i \in 1..Len(d) : x = Order[i]
  <1>1. d \in Seq(Closer) /\ DOMAIN d = 1..Len(d)
    BY Zenon, LenProperties DEF InOrder
  <1>2. Range(d) = {d[i] : i \in 1..Len(d)}
    BY Zenon, <1>1 DEF Range
  <1> QED
    BY Zenon, <1>2 DEF InOrder

(* What the servers share is only added to.                                *)
SharedGrows ==
    /\ files \subseteq files' /\ files' \subseteq 1..Files /\ accounts' \in BOOLEAN
    /\ accounts => accounts'
    /\ \A f \in files' : 1..f \subseteq files'

(* A step of process p leaves the others alone.                            *)
LEMMA OthersLive ==
  ASSUME LifeInv, ProcessTypes', NEW p \in Process, Lives(p)', Prepared(p)',
         \A q \in Process \ {p} :
            /\ phase'[q] = phase[q] /\ at'[q] = at[q] /\ tries'[q] = tries[q]
            /\ starts'[q] = starts[q] /\ deferred'[q] = deferred[q]
            /\ q \in listening' => q \in listening,
         SharedGrows
  PROVE  LifeInv'
  <1>1. ASSUME NEW q \in Process \ {p} PROVE Lives(q)'
    <2>1. Lives(q)
      BY Zenon DEF LifeInv
    <2> QED
      BY Zenon, <2>1 DEF Lives, Depth, StartsUp
  <1>2. ASSUME NEW q \in Process \ {p} PROVE Prepared(q)'
    <2>1. Prepared(q)
      BY Zenon DEF LifeInv
    <2> QED
      BY Zenon, <2>1 DEF Prepared, Depth, StartsUp, SharedGrows
  <1> QED
    BY Zenon, <1>1, <1>2 DEF LifeInv, SharedGrows

LEMMA ExitKeeps ==
  ASSUME LifeInv, NEW p \in Process, Exit(p)
  PROVE  LifeInv'
  <1>1. ProcessTypes /\ Lives(p)
    BY Zenon DEF LifeInv
  <1>2. /\ phase' = [phase EXCEPT ![p] = "down"] /\ at' = [at EXCEPT ![p] = 1]
        /\ tries' = [tries EXCEPT ![p] = 0] /\ signalled' = [signalled EXCEPT ![p] = FALSE]
        /\ deferred' = [deferred EXCEPT ![p] = <<>>]
        /\ listening' = listening \ {p} /\ requests' = requests \ {p}
        /\ UNCHANGED <<starts, files, accounts>>
    BY Zenon DEF Exit, Ends, shared
  <1>3. <<>> \in Seq(Closer) /\ Len(<<>>) = 0 /\ InOrder(<<>>)
    BY EmptySeq DEF InOrder
  <1>4. ProcessTypes'
    BY Zenon, <1>1, <1>2, <1>3 DEF ProcessTypes, Phase
  <1>5. /\ phase'[p] = "down" /\ at'[p] = 1 /\ tries'[p] = 0 /\ deferred'[p] = <<>>
        /\ starts'[p] = starts[p] /\ p \notin listening'
    BY Zenon, <1>1, <1>2 DEF ProcessTypes
  <1>6. Files \in Nat \ {0} /\ MaxAttempts \in Nat \ {0}
    BY Zenon, ServerAssumption
  <1>7. Lives(p)'
    BY <1>1, <1>3, <1>5, <1>6 DEF Lives, Depth, StartsUp, DepthAt
  <1>8. Prepared(p)'
    BY <1>3, <1>5 DEF Prepared, Depth, StartsUp
  <1>9. \A q \in Process \ {p} :
          /\ phase'[q] = phase[q] /\ at'[q] = at[q] /\ tries'[q] = tries[q]
          /\ starts'[q] = starts[q] /\ deferred'[q] = deferred[q]
          /\ q \in listening' => q \in listening
    BY Zenon, <1>1, <1>2 DEF ProcessTypes
  <1>10. SharedGrows
    BY Zenon, <1>2 DEF LifeInv, ProcessTypes, SharedGrows
  <1> QED
    BY Zenon, <1>4, <1>7, <1>8, <1>9, <1>10, OthersLive

(* Process p goes from one phase to another, tries once more or drops a    *)
(* deferred call, and is where it was.                                     *)
LEMMA StaysThere ==
  ASSUME LifeInv, NEW p \in Process,
         phase' \in [Process -> Phase],
         tries' \in [Process -> Nat], starts' \in [Process -> Nat],
         deferred' \in [Process -> Seq(Closer)],
         \A q \in Process \ {p} : /\ phase'[q] = phase[q] /\ tries'[q] = tries[q]
                                  /\ starts'[q] = starts[q] /\ deferred'[q] = deferred[q],
         listening' \subseteq listening, requests' \subseteq Servers,
         UNCHANGED <<at, files, accounts>>, signalled' \in [Process -> BOOLEAN],
         Lives(p)', Prepared(p)'
  PROVE  LifeInv'
  <1>1. ProcessTypes'
    BY Zenon DEF LifeInv, ProcessTypes
  <1>2. SharedGrows
    BY Zenon DEF LifeInv, ProcessTypes, SharedGrows
  <1> QED
    BY Zenon, <1>1, <1>2, OthersLive

LEMMA ReturnKeeps ==
  ASSUME LifeInv, NEW p \in Process, p \notin listening, Return(p)
  PROVE  LifeInv'
  <1>1. ProcessTypes /\ Lives(p) /\ Prepared(p)
    BY Zenon DEF LifeInv
  <1>2. /\ phase' = [phase EXCEPT ![p] = "closing"]
        /\ UNCHANGED <<at, tries, signalled, deferred, listening, requests, starts, files, accounts>>
    BY Zenon DEF Return, shared
  <1>3. phase'[p] = "closing"
    BY Zenon, <1>1, <1>2 DEF ProcessTypes
  <1>4. Lives(p)' /\ Prepared(p)'
    BY Zenon, <1>1, <1>2, <1>3 DEF Lives, Prepared, Depth, StartsUp
  <1> QED
    BY Zenon, <1>1, <1>2, <1>4, StaysThere DEF ProcessTypes, Phase

LastStep(p) == IF p \in Servers THEN 9 ELSE 4

(* The deferred calls of p, with those added, fit the step after this one. *)
Follows(p, closes) ==
    LET d == deferred[p] \o closes
    IN  /\ InOrder(d) /\ (p \notin Servers => Len(d) <= 4)
        /\ at[p] < LastStep(p) => DepthAt(p, at[p] + 1, Len(d))
        /\ at[p] = LastStep(p) => Len(d) >= 4

(* The schema is there after the migrations, the accounts after theirs.    *)
Readies(p) ==
    p \in Servers => (at[p] >= 2 => files' = 1..Files) /\ (at[p] >= 4 => accounts')

(* Main goes on to the next step, or has done the last.                    *)
LEMMA ProceedKeeps ==
  ASSUME LifeInv, NEW p \in Process, phase[p] \in {"starting", "dialing"}, NEW closes,
         Proceed(p, closes),
         Follows(p, closes), SharedGrows, Readies(p),
         \/ listening' = listening
         \/ listening' = listening \cup {p} /\ p \in Servers /\ at[p] = 9
  PROVE  LifeInv'
  <1>1. ProcessTypes /\ Lives(p) /\ Prepared(p)
    BY Zenon DEF LifeInv
  <1>2. PICK last : last = IF p \in Servers THEN 9 ELSE 4
    OBVIOUS
  <1>3. PICK k : k = Len(deferred[p] \o closes)
    OBVIOUS
  <1>4. /\ deferred[p] \o closes \in Seq(Closer) /\ InOrder(deferred[p] \o closes) /\ k \in 0..5
        /\ p \notin Servers => k <= 4
        /\ at[p] < last => DepthAt(p, at[p] + 1, k)
        /\ at[p] = last => k >= 4
    BY Zenon, <1>2, <1>3 DEF Follows, LastStep, InOrder
  <1>5. /\ files \subseteq files' /\ files' \subseteq 1..Files /\ accounts' \in BOOLEAN
        /\ accounts => accounts' /\ \A f \in files' : 1..f \subseteq files'
    BY Zenon DEF SharedGrows
  <1>6. Len(Steps(p)) = last
    BY Zenon, <1>2, StepNumber DEF Steps
  <1>7. /\ at' = [at EXCEPT ![p] = IF @ < last THEN @ + 1 ELSE @]
        /\ phase' = [phase EXCEPT ![p] = IF at[p] < last THEN "starting" ELSE "serving"]
        /\ tries' = [tries EXCEPT ![p] = 0]
        /\ deferred' = [deferred EXCEPT ![p] = @ \o closes]
        /\ UNCHANGED <<signalled, requests, starts>>
    BY Zenon, <1>6 DEF Proceed
  <1>8. /\ at'[p] = (IF at[p] < last THEN at[p] + 1 ELSE at[p])
        /\ phase'[p] = (IF at[p] < last THEN "starting" ELSE "serving")
        /\ tries'[p] = 0 /\ deferred'[p] = deferred[p] \o closes /\ starts'[p] = starts[p]
    BY Zenon, <1>1, <1>7 DEF ProcessTypes
  <1>9. at[p] \in 1..last /\ Files \in Nat \ {0} /\ MaxAttempts \in Nat \ {0}
    BY Zenon, <1>1, <1>2, ServerAssumption DEF Lives
  <1>10. ProcessTypes'
    <2>1. at' \in [Process -> Nat] /\ tries' \in [Process -> Nat]
      BY <1>1, <1>7 DEF ProcessTypes
    <2>2. phase' \in [Process -> Phase]
      BY Zenon, <1>1, <1>7 DEF ProcessTypes, Phase
    <2>3. deferred' \in [Process -> Seq(Closer)]
      BY Zenon, <1>1, <1>7, <1>4 DEF ProcessTypes
    <2>4. listening' \subseteq Servers
      BY Zenon, <1>1 DEF ProcessTypes
    <2> QED
      BY Zenon, <1>1, <1>7, <1>5, <2>1, <2>2, <2>3, <2>4 DEF ProcessTypes
  <1>11. p \notin listening
    BY Zenon, <1>1 DEF Lives
  <1>12. Lives(p)'
    <2>1. CASE at[p] < last
      <3>1. /\ at'[p] = at[p] + 1 /\ phase'[p] = "starting" /\ at'[p] \in 1..last
            /\ p \notin listening'
        BY SMTT(30), <1>8, <1>9, <1>11, <1>2, <2>1
      <3> QED
        BY <1>1, <1>8, <1>9, <1>2, <1>3, <1>4, <2>1, <3>1 DEF Lives, Depth, StartsUp
    <2>2. CASE at[p] = last
      <3>1. at'[p] = at[p] /\ phase'[p] = "serving" /\ at'[p] \in 1..last
        BY <1>8, <1>9, <2>2
      <3> QED
        BY <1>1, <1>8, <1>9, <1>2, <1>3, <1>4, <2>2, <3>1 DEF Lives, Depth, StartsUp
    <2> QED
      BY SMTT(30), <1>2, <1>9, <2>1, <2>2
  <1>13. Prepared(p)'
    <2> SUFFICES ASSUME p \in Servers PROVE Prepared(p)'
      BY Zenon DEF Prepared
    <2>1. last = 9 /\ (at[p] < 9 => DepthAt(p, at[p] + 1, k))
      BY Zenon, <1>2, <1>4
    <2>2. k >= 4 => at[p] >= 6
      <3> SUFFICES ASSUME at[p] < 6 PROVE k < 4
        BY <1>9, <1>4, <2>1
      <3>1. at[p] + 1 \in {2, 3, 4, 5, 6} /\ DepthAt(p, at[p] + 1, k)
        BY <1>9, <2>1
      <3> QED
        BY <3>1 DEF DepthAt
    <2>3. at'[p] >= 3 => at[p] >= 2
      BY <1>8, <1>9, <2>1
    <2>4. at'[p] >= 5 => at[p] >= 4
      BY <1>8, <1>9, <2>1
    <2>5. Depth(p)' = k
      BY Zenon, <1>8, <1>3 DEF Depth
    <2>6. 1..tries'[p] = {} /\ tries'[p] < Files
      BY <1>8, <1>9
    <2> QED
      BY <1>9, <2>2, <2>3, <2>4, <2>5, <2>6 DEF Prepared, Readies
  <1>14. \A q \in Process \ {p} :
          /\ phase'[q] = phase[q] /\ at'[q] = at[q] /\ tries'[q] = tries[q]
          /\ starts'[q] = starts[q] /\ deferred'[q] = deferred[q]
          /\ q \in listening' => q \in listening
    BY Zenon, <1>1, <1>7 DEF ProcessTypes
  <1> QED
    BY Zenon, <1>10, <1>12, <1>13, <1>14, OthersLive

(* Where main is, and what it has deferred there.                          *)
LEMMA WhereItIs ==
  ASSUME LifeInv, NEW p \in Process, phase[p] \in {"starting", "dialing"}
  PROVE  /\ Step(p) = "postgres" => at[p] = 1 /\ Depth(p) = 0
         /\ Step(p) = "migrations" => p \in Servers /\ at[p] = 2 /\ Depth(p) = 1
         /\ Step(p) = "tigerbeetle" => at[p] = (IF p \in Servers THEN 3 ELSE 2) /\ Depth(p) = 1
         /\ Step(p) = "accounts" => p \in Servers /\ at[p] = 4 /\ Depth(p) = 2
         /\ Step(p) = "temporal" => at[p] = (IF p \in Servers THEN 5 ELSE 3) /\ Depth(p) = 2
         /\ Step(p) = "worker" => at[p] = (IF p \in Servers THEN 6 ELSE 4) /\ Depth(p) = 3
         /\ Step(p) = "debug" => p \in Servers /\ at[p] = 7 /\ Depth(p) = 4
         /\ Step(p) = "valkey" => p \in Servers /\ at[p] = 8 /\ Depth(p) = 4
         /\ Step(p) = "http" => p \in Servers /\ at[p] = 9 /\ Depth(p) \in {4, 5}
  <1>1. Lives(p)
    BY Zenon DEF LifeInv
  <1>2. StartsUp(p)
    BY Zenon DEF StartsUp
  <1>3. CASE p \in Servers
    <2>1. at[p] \in 1..9 /\ Step(p) = ServerSteps[at[p]] /\ DepthAt(p, at[p], Depth(p))
      BY Zenon, <1>1, <1>2, <1>3 DEF Lives, Step, Steps
    <2> QED
      BY <1>3, <2>1, StepNumber DEF DepthAt
  <1>4. CASE p \notin Servers
    <2>1. at[p] \in 1..4 /\ Step(p) = WorkerSteps[at[p]] /\ DepthAt(p, at[p], Depth(p))
      BY Zenon, <1>1, <1>2, <1>4 DEF Lives, Step, Steps
    <2> QED
      BY <1>4, <2>1, StepNumber DEF DepthAt
  <1> QED
    BY Zenon, <1>3, <1>4

(* Steps that acquire something.                                           *)
LEMMA AcquireKeeps ==
  ASSUME LifeInv, NEW p \in Process, phase[p] \in {"starting", "dialing"}, Step(p) \in Closer,
         Acquire(p)
  PROVE  LifeInv'
  <1>1. ProcessTypes /\ Lives(p) /\ Prepared(p) /\ \A f \in files : 1..f \subseteq files
    BY Zenon DEF LifeInv
  <1>2. Proceed(p, <<Step(p)>>) /\ UNCHANGED <<listening, files, accounts>>
    BY Zenon DEF Acquire, shared
  <1>3. PICK k \in 1..5 : Step(p) = Order[k] /\ Depth(p) + 1 = k
    BY WhereItIs, OrderIs DEF Closer
  <1>4. InOrder(deferred[p]) /\ Len(deferred[p]) + 1 = k
    BY Zenon, <1>1, <1>3 DEF Lives, Depth
  <1>5. InOrder(deferred[p] \o <<Step(p)>>) /\ Len(deferred[p] \o <<Step(p)>>) = k
    BY Zenon, <1>3, <1>4, Defers
  <1>6. deferred[p] \o <<Step(p)>> \in Seq(Closer)
    BY Zenon, <1>5 DEF InOrder
  <1>7. /\ at[p] < LastStep(p) => DepthAt(p, at[p] + 1, k)
        /\ at[p] = LastStep(p) => k >= 4
        /\ p \notin Servers => k <= 4
        /\ at[p] \in Nat
    BY <1>3, WhereItIs, OrderIs DEF Closer, DepthAt, LastStep
  <1>8. Follows(p, <<Step(p)>>)
    BY Zenon, <1>5, <1>7 DEF Follows
  <1>9. SharedGrows
    BY Zenon, <1>1, <1>2 DEF ProcessTypes, SharedGrows
  <1>10. Readies(p)
    <2>1. p \in Servers => at[p] # 2 /\ at[p] # 4
      BY WhereItIs DEF Closer
    <2>2. StartsUp(p)
      BY Zenon DEF StartsUp
    <2>3. p \in Servers => (at[p] >= 2 => files = 1..Files) /\ (at[p] >= 4 => accounts)
      BY SMTT(30), <1>1, <1>7, <2>1, <2>2 DEF Prepared
    <2> QED
      BY Zenon, <1>2, <2>3 DEF Readies
  <1> QED
    BY Zenon, <1>2, <1>8, <1>9, <1>10, ProceedKeeps

(* Steps that acquire nothing, with what they do for all servers.          *)
LEMMA PassKeeps ==
  ASSUME LifeInv, NEW p \in Servers, phase[p] = "starting", Proceed(p, <<>>), SharedGrows,
         Step(p) \in {"migrations", "accounts", "debug", "valkey", "http"},
         Step(p) = "migrations" => files' = 1..Files,
         Step(p) = "accounts" => accounts',
         listening' = listening \/ (listening' = listening \cup {p} /\ Step(p) = "http")
  PROVE  LifeInv'
  <1>1. p \in Process /\ ProcessTypes /\ Lives(p) /\ Prepared(p)
    BY Zenon DEF LifeInv, Process
  <1>2. InOrder(deferred[p]) /\ deferred[p] \o <<>> = deferred[p]
    BY Zenon, <1>1, DefersNothing DEF Lives, InOrder
  <1>3. PICK k \in 0..5 : k = Depth(p)
    BY Zenon, <1>1 DEF Lives, InOrder, Depth
  <1>4. /\ at[p] < 9 => DepthAt(p, at[p] + 1, k)
        /\ at[p] = 9 => k >= 4
        /\ at[p] \in {2, 4, 7, 8, 9}
        /\ Step(p) = "http" => at[p] = 9
        /\ at[p] = 2 => Step(p) = "migrations"
        /\ at[p] = 4 => Step(p) = "accounts"
    <2>1. CASE Step(p) = "migrations"
      <3>1. at[p] = 2 /\ k = 1
        BY Zenon, <1>1, <1>3, <2>1, WhereItIs
      <3> QED
        BY <2>1, <3>1 DEF DepthAt
    <2>2. CASE Step(p) = "accounts"
      <3>1. at[p] = 4 /\ k = 2
        BY Zenon, <1>1, <1>3, <2>2, WhereItIs
      <3> QED
        BY <2>2, <3>1 DEF DepthAt
    <2>3. CASE Step(p) = "debug"
      <3>1. at[p] = 7 /\ k = 4
        BY Zenon, <1>1, <1>3, <2>3, WhereItIs
      <3> QED
        BY <2>3, <3>1 DEF DepthAt
    <2>4. CASE Step(p) = "valkey"
      <3>1. at[p] = 8 /\ k = 4
        BY Zenon, <1>1, <1>3, <2>4, WhereItIs
      <3> QED
        BY <2>4, <3>1 DEF DepthAt
    <2>5. CASE Step(p) = "http"
      <3>1. at[p] = 9 /\ k \in {4, 5}
        BY Zenon, <1>1, <1>3, <2>5, WhereItIs
      <3> QED
        BY <2>5, <3>1
    <2> QED
      BY Zenon, <2>1, <2>2, <2>3, <2>4, <2>5
  <1>5. Follows(p, <<>>)
    BY Zenon, <1>2, <1>3, <1>4 DEF Follows, LastStep, Depth
  <1>6. StartsUp(p)
    BY Zenon DEF StartsUp
  <1>7. at[p] >= 2 => files' = 1..Files
    <2>1. at[p] # 2 => files = 1..Files
      <3>1. at[p] # 2 => at[p] >= 3
        BY <1>4
      <3> QED
        BY Zenon, <1>1, <1>6, <3>1 DEF Prepared
    <2> QED
      BY ZenonT(60), <1>4, <2>1 DEF SharedGrows
  <1>8. at[p] >= 4 => accounts'
    <2>1. at[p] >= 4 /\ at[p] # 4 => accounts
      <3>1. at[p] >= 4 /\ at[p] # 4 => at[p] >= 5
        BY <1>4
      <3> QED
        BY Zenon, <1>1, <1>6, <3>1 DEF Prepared
    <2> QED
      BY Zenon, <1>4, <2>1 DEF SharedGrows
  <1>9. Readies(p)
    BY Zenon, <1>7, <1>8 DEF Readies
  <1> QED
    BY Zenon, <1>1, <1>4, <1>5, <1>9, ProceedKeeps

LEMMA RunMigrationsKeeps ==
  ASSUME LifeInv, NEW p \in Process, RunMigrations(p)
  PROVE  LifeInv'
  <1>1. phase[p] = "starting" /\ Step(p) = "migrations" /\ p \in Servers /\ at[p] = 2
    BY Zenon, WhereItIs DEF RunMigrations, Starting
  <1>2. ProcessTypes /\ Lives(p) /\ Prepared(p) /\ \A f \in files : 1..f \subseteq files
    BY Zenon DEF LifeInv
  <1>3. PICK n \in Nat : n = tries[p]
    BY Zenon, <1>2 DEF ProcessTypes
  <1>4. n < Files /\ 1..n \subseteq files /\ Files \in Nat /\ MaxAttempts \in Nat
    BY Zenon, <1>1, <1>2, <1>3, ServerAssumption DEF Prepared, StartsUp
  <1>5. CASE Exit(p)
    BY Zenon, <1>5, ExitKeeps
  <1>6. CASE files' = files \cup {n + 1}
    <2>1. /\ files \subseteq files' /\ files' \subseteq 1..Files
          /\ \A f \in files' : 1..f \subseteq files'
      <3>1. 1..(n + 1) = (1..n) \cup {n + 1}
        OBVIOUS
      <3>2. files \subseteq 1..Files
        BY Zenon, <1>2 DEF ProcessTypes
      <3> QED
        BY <1>2, <1>4, <1>6, <3>1, <3>2
    <2>2. CASE /\ n + 1 < Files
               /\ tries' = [tries EXCEPT ![p] = @ + 1]
               /\ UNCHANGED <<phase, at, signalled, deferred, requests, starts, listening, accounts>>
      <3>1. tries' \in [Process -> Nat] /\ tries'[p] = n + 1
        BY <1>2, <1>3, <2>2 DEF ProcessTypes
      <3>2. ProcessTypes'
        BY Zenon, <1>2, <2>1, <2>2, <3>1 DEF ProcessTypes
      <3>3. Lives(p)'
        BY <1>1, <1>2, <1>4, <2>2, <3>1 DEF Lives, Depth, StartsUp
      <3>4. 1..(n + 1) \subseteq files'
        BY SMTT(30), <1>4, <1>6
      <3>5. Prepared(p)'
        <4>1. Depth(p) = 1
          BY Zenon, <1>1, WhereItIs
        <4>2. Depth(p)' = 1
          BY Zenon, <2>2, <4>1 DEF Depth
        <4> QED
          BY SMTT(30), <1>1, <2>2, <3>1, <3>4, <4>2 DEF Prepared
      <3>6. SharedGrows
        BY Zenon, <1>2, <2>1, <2>2 DEF ProcessTypes, SharedGrows
      <3>7. \A q \in Process \ {p} : tries'[q] = tries[q]
        BY Zenon, <1>2, <2>2 DEF ProcessTypes
      <3> QED
        BY Zenon, <2>2, <3>2, <3>3, <3>5, <3>6, <3>7, OthersLive
    <2>3. CASE n + 1 >= Files /\ Proceed(p, <<>>) /\ UNCHANGED <<listening, accounts>>
      <3>1. n + 1 = Files
        BY <1>4, <2>3
      <3>2. Files \in files'
        BY Zenon, <1>6, <3>1
      <3>3. files' = 1..Files
        BY Zenon, <2>1, <3>2
      <3>4. SharedGrows /\ listening' = listening
        BY Zenon, <1>2, <2>1, <2>3 DEF ProcessTypes, SharedGrows
      <3>5. Step(p) \in {"migrations", "accounts", "debug", "valkey", "http"} /\ Step(p) # "accounts"
        BY Zenon, <1>1
      <3> QED
        BY Zenon, <1>1, <2>3, <3>3, <3>4, <3>5, PassKeeps
    <2> QED
      BY <1>3, <1>4, <1>5, <2>2, <2>3 DEF RunMigrations, MigrationFails
  <1> QED
    BY Zenon, <1>3, <1>5, <1>6 DEF RunMigrations, MigrationFails

LEMMA ConnectKeeps ==
  ASSUME LifeInv, NEW p \in Process, Connect(p) \/ Dial(p) \/ Pause(p)
  PROVE  LifeInv'
  <1>1. ProcessTypes /\ Lives(p) /\ Prepared(p) /\ phase[p] \in {"starting", "dialing", "pausing"}
    BY Zenon DEF LifeInv, Connect, Dial, Pause
  <1>2. p \notin listening /\ StartsUp(p)
    BY Zenon, <1>1 DEF Lives, StartsUp
  <1>3. CASE Return(p)
    BY Zenon, <1>2, <1>3, ReturnKeeps
  <1>4. CASE Exit(p)
    BY Zenon, <1>4, ExitKeeps
  <1>5. CASE Dial(p) /\ Acquire(p)
    BY Zenon, <1>5, AcquireKeeps DEF Dial, Dialled, Closer
  <1>6. CASE /\ Dial(p) /\ ~(Attempts(p) >= MaxAttempts)
             /\ tries' = [tries EXCEPT ![p] = Attempts(p)]
             /\ phase' = [phase EXCEPT ![p] = "pausing"]
             /\ UNCHANGED <<at, signalled, deferred, listening, requests, starts, files, accounts>>
    <2>1. /\ Files \in Nat \ {0} /\ MaxAttempts \in Nat \ {0} /\ tries[p] \in Nat
      BY Zenon, <1>1, ServerAssumption DEF ProcessTypes
    <2>2. Attempts(p) \in Nat /\ Attempts(p) <= Files + MaxAttempts
      BY <1>6, <2>1 DEF Attempts
    <2>3. /\ tries' \in [Process -> Nat] /\ tries'[p] = Attempts(p) /\ phase'[p] = "pausing"
      BY Zenon, <1>1, <1>6, <2>2 DEF ProcessTypes
    <2>4. at[p] # 2 \/ p \notin Servers
      <3>1. phase[p] = "dialing" /\ Step(p) \in {"tigerbeetle", "temporal"}
        BY Zenon, <1>6 DEF Dial, Dialled
      <3>2. CASE Step(p) = "tigerbeetle"
        BY <3>1, <3>2, WhereItIs
      <3>3. CASE Step(p) = "temporal"
        BY <3>1, <3>3, WhereItIs
      <3> QED
        BY Zenon, <3>1, <3>2, <3>3
    <2>5. Lives(p)'
      BY Zenon, <1>1, <1>2, <1>6, <2>2, <2>3 DEF Lives, Depth, StartsUp
    <2>6. Prepared(p)'
      BY Zenon, <1>1, <1>2, <1>6, <2>3, <2>4 DEF Prepared, Depth, StartsUp
    <2> QED
      BY Zenon, <1>1, <1>6, <2>3, <2>5, <2>6, StaysThere DEF ProcessTypes, Phase
  <1>7. ASSUME NEW v \in {"starting", "dialing"},
               phase' = [phase EXCEPT ![p] = v],
               UNCHANGED <<at, tries, signalled, deferred, listening, requests, starts, files,
                           accounts>>
        PROVE  LifeInv'
    <2>1. phase'[p] \in {"starting", "dialing"} /\ phase' \in [Process -> Phase]
      BY Zenon, <1>1, <1>7 DEF ProcessTypes, Phase
    <2>2. Lives(p)' /\ Prepared(p)'
      BY Zenon, <1>1, <1>2, <1>7, <2>1 DEF Lives, Prepared, Depth, StartsUp
    <2> QED
      BY Zenon, <1>1, <1>7, <2>1, <2>2, StaysThere DEF ProcessTypes
  <1> QED
    BY Zenon, <1>3, <1>4, <1>5, <1>6, <1>7 DEF Connect, Dial, Pause, shared

LEMMA StartUpKeeps ==
  ASSUME LifeInv, NEW p \in Process, StartUp(p)
  PROVE  LifeInv'
  <1>1. ProcessTypes /\ \A f \in files : 1..f \subseteq files
    BY Zenon DEF LifeInv
  <1>2. CASE Exit(p)
    BY Zenon, <1>2, ExitKeeps
  <1>3. CASE NewPool(p)
    BY Zenon, <1>2, <1>3, AcquireKeeps DEF NewPool, Starting, Closer
  <1>4. CASE RunMigrations(p)
    BY Zenon, <1>4, RunMigrationsKeeps
  <1>5. CASE Connect(p) \/ Dial(p) \/ Pause(p)
    BY Zenon, <1>5, ConnectKeeps
  <1>6. CASE CreateGlobalAccounts(p)
    <2>1. phase[p] = "starting" /\ Step(p) = "accounts" /\ p \in Servers
      BY Zenon, <1>6, WhereItIs DEF CreateGlobalAccounts, Starting
    <2>2. CASE accounts' = TRUE /\ Proceed(p, <<>>) /\ UNCHANGED <<listening, files>>
      <3>1. accounts' /\ accounts' \in BOOLEAN
        BY Zenon, <2>2
      <3>2. SharedGrows
        BY Zenon, <1>1, <2>2, <3>1 DEF ProcessTypes, SharedGrows
      <3>3. Step(p) \in {"migrations", "accounts", "debug", "valkey", "http"} /\ Step(p) # "migrations"
        BY Zenon, <2>1
      <3> QED
        BY Zenon, <2>1, <2>2, <3>1, <3>2, <3>3, PassKeeps
    <2> QED
      BY ZenonT(60), <1>2, <1>6, <2>2 DEF CreateGlobalAccounts
  <1>7. CASE StartWorker(p)
    BY Zenon, <1>2, <1>7, AcquireKeeps DEF StartWorker, Starting, Closer
  <1>8. ASSUME Starting(p, "debug") \/ Starting(p, "valkey"), Proceed(p, <<>>),
               UNCHANGED <<listening, shared>>
        PROVE  LifeInv'
    <2>1. phase[p] = "starting" /\ Step(p) \in {"debug", "valkey"} /\ p \in Servers
      BY Zenon, <1>8, WhereItIs DEF Starting
    <2>2. SharedGrows /\ listening' = listening
      BY Zenon, <1>1, <1>8 DEF ProcessTypes, SharedGrows, shared
    <2>3. /\ Step(p) \in {"migrations", "accounts", "debug", "valkey", "http"}
          /\ Step(p) # "migrations" /\ Step(p) # "accounts"
      BY Zenon, <2>1
    <2> QED
      BY Zenon, <1>8, <2>1, <2>2, <2>3, PassKeeps
  <1>9. CASE ServeDebug(p) \/ ConnectValkey(p)
    BY Zenon, <1>2, <1>8, <1>9, AcquireKeeps DEF ServeDebug, ConnectValkey, Starting, Closer
  <1>10. CASE Listen(p)
    <2>1. phase[p] = "starting" /\ Step(p) = "http" /\ p \in Servers
      BY Zenon, <1>10, WhereItIs DEF Listen, Starting
    <2>2. SharedGrows /\ listening' = listening \cup {p} /\ Proceed(p, <<>>)
      BY Zenon, <1>1, <1>10 DEF Listen, ProcessTypes, SharedGrows, shared
    <2> QED
      BY Zenon, <2>1, <2>2, PassKeeps
  <1> QED
    BY Zenon, <1>3, <1>4, <1>5, <1>6, <1>7, <1>9, <1>10 DEF StartUp

LEMMA StopKeeps ==
  ASSUME LifeInv, NEW p \in Process, Stop(p)
  PROVE  LifeInv'
  <1>1. ProcessTypes /\ Lives(p) /\ Prepared(p)
    BY Zenon DEF LifeInv
  <1>2. CASE Shutdown(p)
    <2>1. /\ phase' = [phase EXCEPT ![p] = IF p \in Servers THEN "draining" ELSE "closing"]
          /\ listening' = listening \ {p} /\ phase[p] = "serving"
          /\ UNCHANGED <<at, tries, signalled, deferred, requests, starts, files, accounts>>
      BY Zenon, <1>2 DEF Shutdown, shared
    <2>2. phase'[p] \in {"draining", "closing"}
      BY Zenon, <1>1, <2>1 DEF ProcessTypes
    <2>3. Lives(p)' /\ Prepared(p)'
      BY Zenon, <1>1, <2>1, <2>2 DEF Lives, Prepared, Depth, StartsUp
    <2> QED
      BY Zenon, <1>1, <2>1, <2>3, StaysThere DEF ProcessTypes, Phase
  <1>3. CASE Drained(p)
    <2>1. p \notin listening
      BY Zenon, <1>1, <1>3 DEF Drained, Lives
    <2> QED
      BY Zenon, <1>3, <2>1, ReturnKeeps DEF Drained
  <1>4. CASE Close(p) /\ deferred[p] = <<>>
    BY Zenon, <1>4, ExitKeeps DEF Close
  <1>5. CASE Close(p) /\ deferred[p] # <<>>
    <2>1. /\ phase[p] = "closing"
          /\ deferred' = [deferred EXCEPT ![p] = SubSeq(@, 1, Len(@) - 1)]
          /\ UNCHANGED <<phase, at, tries, signalled, listening, requests, starts, files, accounts>>
      BY Zenon, <1>5 DEF Close, shared
    <2>2. deferred'[p] = SubSeq(deferred[p], 1, Len(deferred[p]) - 1)
      BY Zenon, <1>1, <2>1 DEF ProcessTypes
    <2>3. InOrder(deferred[p]) /\ Depth(p) \in Nat
      BY <1>1 DEF Lives, InOrder, Depth
    <2>4. InOrder(deferred'[p]) /\ Depth(p)' = Depth(p) - 1
      BY Zenon, <1>5, <2>2, <2>3, Runs DEF Depth
    <2>5. deferred' \in [Process -> Seq(Closer)]
      BY Zenon, <1>1, <2>1, <2>2, <2>4 DEF ProcessTypes, InOrder
    <2>6. /\ ~StartsUp(p)' /\ phase'[p] = "closing"
          /\ Depth(p)' >= 4 => Depth(p) >= 4
          /\ Depth(p) <= 4 => Depth(p)' <= 4
      <3>1. ~StartsUp(p)' /\ phase'[p] = "closing"
        BY Zenon, <2>1 DEF StartsUp
      <3>2. (Depth(p)' >= 4 => Depth(p) >= 4) /\ (Depth(p) <= 4 => Depth(p)' <= 4)
        BY <2>3, <2>4
      <3> QED
        BY Zenon, <3>1, <3>2
    <2>7. Lives(p)'
      BY Zenon, <1>1, <2>1, <2>4, <2>6 DEF Lives
    <2>8. Prepared(p)'
      BY Zenon, <1>1, <2>1, <2>6 DEF Prepared
    <2> QED
      BY Zenon, <1>1, <2>1, <2>5, <2>7, <2>8, StaysThere DEF ProcessTypes
  <1> QED
    BY Zenon, <1>2, <1>3, <1>4, <1>5 DEF Stop

LEMMA LifeStep == LifeInv /\ [Next]_vars => LifeInv'
  <1> SUFFICES ASSUME LifeInv, [Next]_vars PROVE LifeInv'
    OBVIOUS
  <1>1. ProcessTypes /\ \A p \in Process : Lives(p) /\ Prepared(p)
    BY Zenon DEF LifeInv
  <1>2. ASSUME NEW p \in Process, StartUp(p) \/ Stop(p) PROVE LifeInv'
    BY Zenon, <1>2, StartUpKeeps, StopKeeps
  <1>3. ASSUME NEW p \in Process, Crash(p) \/ ListenFails(p) PROVE LifeInv'
    BY Zenon, <1>3, ExitKeeps DEF Crash, ListenFails
  <1>4. ASSUME NEW p \in Process, Start(p) PROVE LifeInv'
    <2>1. /\ phase[p] = "down" /\ starts[p] < MaxStarts[p]
          /\ phase' = [phase EXCEPT ![p] = "starting"] /\ starts' = [starts EXCEPT ![p] = @ + 1]
          /\ UNCHANGED <<at, tries, signalled, deferred, listening, requests, files, accounts>>
      BY Zenon, <1>4 DEF Start, shared
    <2>2. /\ phase'[p] = "starting" /\ starts' \in [Process -> Nat] /\ starts'[p] = starts[p] + 1
          /\ starts[p] \in Nat
      BY SMTT(30), <1>1, <2>1 DEF ProcessTypes
    <2>3. Lives(p)'
      <3>1. MaxStarts[p] \in Nat
        BY Zenon, ServerAssumption
      <3>2. starts'[p] <= MaxStarts[p]
        BY SMTT(30), <2>1, <2>2, <3>1
      <3> QED
        BY Zenon, <1>1, <2>1, <2>2, <3>2 DEF Lives, Depth, StartsUp
    <2>4. Prepared(p)'
      BY Zenon, <1>1, <2>1, <2>2 DEF Lives, Prepared, Depth, StartsUp
    <2> QED
      BY Zenon, <1>1, <2>1, <2>2, <2>3, <2>4, StaysThere DEF ProcessTypes, Phase
  <1>5. ASSUME UNCHANGED <<phase, at, tries, deferred, listening, starts, files, accounts>>,
               signalled' \in [Process -> BOOLEAN], requests' \subseteq Servers
        PROVE  LifeInv'
    BY Zenon, <1>1, <1>5 DEF LifeInv, ProcessTypes, Lives, Prepared, Depth, StartsUp
  <1>6. ASSUME NEW p \in Process, Signal(p) PROVE LifeInv'
    BY Zenon, <1>1, <1>5, <1>6 DEF Signal, ProcessTypes, shared
  <1>7. ASSUME NEW p \in Servers, RequestBegins(p) \/ RequestEnds(p) PROVE LifeInv'
    BY Zenon, <1>1, <1>5, <1>7 DEF RequestBegins, RequestEnds, ProcessTypes, shared
  <1>8. CASE Measure \/ UNCHANGED vars
    BY Zenon, <1>1, <1>5, <1>8 DEF Measure, ProcessTypes, shared, vars
  <1>9. Servers \subseteq Process
    BY Zenon DEF Process
  <1> QED
    BY Zenon, <1>2, <1>3, <1>4, <1>6, <1>7, <1>8, <1>9 DEF Next

LEMMA LifeBegins == Init => LifeInv
  <1> SUFFICES ASSUME Init PROVE LifeInv
    OBVIOUS
  <1>1. <<>> \in Seq(Closer) /\ Len(<<>>) = 0 /\ InOrder(<<>>)
    BY EmptySeq DEF InOrder
  <1>2. ProcessTypes
    BY Zenon, <1>1 DEF Init, ProcessTypes, Phase
  <1>3. Files \in Nat \ {0} /\ MaxAttempts \in Nat \ {0} /\ MaxStarts \in [Process -> Nat]
    BY Zenon, ServerAssumption
  <1>4. ASSUME NEW p \in Process PROVE Lives(p) /\ Prepared(p)
    <2>1. /\ phase[p] = "down" /\ at[p] = 1 /\ tries[p] = 0 /\ starts[p] = 0
          /\ deferred[p] = <<>> /\ p \notin listening /\ Depth(p) = 0
      BY Zenon, <1>1, <1>4 DEF Init, Depth
    <2> QED
      BY <1>1, <1>3, <1>4, <2>1 DEF Lives, Prepared, StartsUp, DepthAt
  <1> QED
    BY Zenon, <1>2, <1>4 DEF Init, LifeInv

(* What starts, connects, serves, fails and shuts down never leaves an     *)
(* open worker without its clients, or a server without its schema.        *)
LEMMA LifeIsSafe ==
  ASSUME LifeInv
  PROVE  ClientsOutliveUsers /\ ServingHasSchema
  <1>1. ASSUME NEW p \in Process
        PROVE  /\ "worker" \in Open(p) => Depth(p) >= 4
               /\ Depth(p) >= 4 => "worker" \in Open(p) /\ Clients \subseteq Open(p)
    <2>1. InOrder(deferred[p])
      BY Zenon DEF LifeInv, Lives
    <2>2. \A x : x \in Open(p) <=> \E i \in 1..Depth(p) : x = Order[i]
      BY Zenon, <2>1, OpenIs DEF Open, Depth
    <2>3. Depth(p) \in 0..5
      BY Zenon, <2>1 DEF InOrder, Depth
    <2> QED
      BY SMTT(30), <2>2, <2>3, OrderIs DEF Clients
  <1>2. ASSUME NEW p \in Process, p \in listening PROVE Depth(p) >= 4
    BY Zenon, <1>2 DEF LifeInv, Lives
  <1>3. ClientsOutliveUsers
    BY Zenon, <1>1, <1>2 DEF ClientsOutliveUsers
  <1>4. ASSUME NEW p \in Servers, "worker" \in Open(p) PROVE files = 1..Files /\ accounts
    BY Zenon, <1>1, <1>4 DEF LifeInv, Prepared, Process
  <1> QED
    BY Zenon, <1>3, <1>4 DEF LifeInv, ServingHasSchema

LEMMA LifeTypes ==
  ASSUME LifeInv, MetricsTypeOK
  PROVE  TypeOK
  <1>1. ProcessTypes
    BY Zenon DEF LifeInv
  <1>2. Files \in Nat /\ MaxAttempts \in Nat
    BY Zenon, ServerAssumption
  <1>3. tries \in [Process -> 0..(Files + MaxAttempts)]
    <2>1. \A p \in Process : tries[p] \in Nat /\ tries[p] <= Files + MaxAttempts
      BY Zenon, <1>1 DEF LifeInv, Lives, ProcessTypes
    <2> QED
      BY <1>1, <1>2, <2>1 DEF ProcessTypes
  <1>4. ASSUME NEW p \in Process
        PROVE  at[p] \in DOMAIN Steps(p) /\ Open(p) \subseteq Range(Steps(p))
    <2>1. Lives(p)
      BY Zenon DEF LifeInv
    <2>2. InOrder(deferred[p]) /\ Depth(p) \in 0..5
      BY Zenon, <2>1 DEF Lives, InOrder, Depth
    <2>3. \A x : x \in Open(p) <=> \E i \in 1..Depth(p) : x = Order[i]
      BY Zenon, <2>2, OpenIs DEF Open, Depth
    <2>4. /\ DOMAIN ServerSteps = 1..9 /\ DOMAIN WorkerSteps = 1..4
          /\ Closer \subseteq Range(ServerSteps) /\ Closer \ {"valkey"} \subseteq Range(WorkerSteps)
      BY DEF ServerSteps, WorkerSteps, Range, Closer
    <2>5. Open(p) \subseteq Closer /\ (Depth(p) <= 4 => "valkey" \notin Open(p))
      BY <2>2, <2>3, OrderIs DEF Closer
    <2> QED
      BY Zenon, <2>1, <2>4, <2>5 DEF Lives, Steps
  <1> QED
    BY Zenon, <1>1, <1>3, <1>4 DEF LifeInv, Lives, ProcessTypes, TypeOK

(* The counters of the watched server go as module Metrics says.           *)
LEMMA MetricsMove == [Next]_vars => [MetricsNext]_metrics
  <1> SUFFICES ASSUME [Next]_vars PROVE [MetricsNext]_metrics
    OBVIOUS
  <1>1. ASSUME NEW p, Exit(p) PROVE [MetricsNext]_metrics
    BY Zenon, <1>1 DEF Exit, Ends, MetricsNext
  <1>2. ASSUME NEW p, NEW closes, Proceed(p, closes) PROVE UNCHANGED metrics
    BY Zenon, <1>2 DEF Proceed
  <1>3. ASSUME NEW p, Return(p) PROVE UNCHANGED metrics
    BY Zenon, <1>3 DEF Return
  <1>4. ASSUME NEW p \in Process, StartUp(p) PROVE [MetricsNext]_metrics
    <2>1. CASE NewPool(p) \/ StartWorker(p) \/ ServeDebug(p) \/ ConnectValkey(p) \/ Listen(p)
      BY Zenon, <1>1, <1>2, <2>1
         DEF NewPool, StartWorker, ServeDebug, ConnectValkey, Listen, Acquire
    <2>2. CASE RunMigrations(p)
      BY Zenon, <1>1, <1>2, <2>2 DEF RunMigrations, MigrationFails
    <2>3. CASE CreateGlobalAccounts(p)
      BY Zenon, <1>1, <1>2, <2>3 DEF CreateGlobalAccounts
    <2>4. CASE Connect(p) \/ Dial(p) \/ Pause(p)
      BY Zenon, <1>1, <1>2, <1>3, <2>4 DEF Connect, Dial, Pause, Acquire
    <2> QED
      BY Zenon, <1>4, <2>1, <2>2, <2>3, <2>4 DEF StartUp
  <1>5. ASSUME NEW p \in Process, Stop(p) PROVE [MetricsNext]_metrics
    BY ZenonT(60), <1>1, <1>3, <1>5 DEF Stop, Shutdown, Drained, Close
  <1>6. ASSUME NEW p \in Process, Start(p) \/ Signal(p) \/ Crash(p) PROVE [MetricsNext]_metrics
    BY Zenon, <1>1, <1>6 DEF Start, Signal, Crash
  <1>7. ASSUME NEW p \in Servers, ListenFails(p) \/ RequestBegins(p) \/ RequestEnds(p)
        PROVE  [MetricsNext]_metrics
    BY Zenon, <1>1, <1>7 DEF ListenFails, RequestBegins, RequestEnds
  <1>8. CASE Measure
    BY Zenon, <1>8 DEF Measure, MetricsNext
  <1>9. CASE UNCHANGED vars
    BY Zenon, <1>9 DEF vars
  <1> QED
    BY Zenon, <1>4, <1>5, <1>6, <1>7, <1>8, <1>9 DEF Next

(* The handlers of a server that starts, serves, is signalled and crashes  *)
(* use their counters as module Metrics says, so its figures are right in  *)
(* every life of the process.                                              *)
THEOREM ServerImplementsMetrics == Spec => MetricsSpec
  <1>1. Init => MetricsInit
    BY Zenon DEF Init
  <1> QED
    BY <1>1, MetricsMove, PTL DEF Spec, MetricsSpec

(* Start-up and shutdown (cmd/server/main.go, cmd/worker/main.go), for any *)
(* number of processes, migration files, attempts and starts, with signals *)
(* and crashes between any two steps: a worker never outlives the clients  *)
(* it uses, a server accepts requests only with a worker of its own, and   *)
(* takes work only with the whole schema and the global accounts in place. *)
THEOREM ServerCorrect == Spec => []ServerInv
  <1>1. LifeInv /\ MetricsInv => ServerInv
    BY Zenon, LifeIsSafe, LifeTypes DEF ServerInv, MetricsInv
  <1>2. Spec => []MetricsInv
    BY ServerImplementsMetrics, MetricsCorrect, PTL
  <1> QED
    BY <1>1, <1>2, LifeBegins, LifeStep, PTL DEF Spec

LEMMA RangeAppends ==
  ASSUME NEW d \in Seq(Closer), NEW e \in Closer
  PROVE  Range(d \o <<e>>) = Range(d) \cup {e}
  <1>1. <<e>> \in Seq(Closer) /\ Len(<<e>>) = 1 /\ <<e>>[1] = e
    OBVIOUS
  <1>2. Len(d) \in Nat /\ DOMAIN d = 1..Len(d)
    BY Zenon, LenProperties
  <1>3. /\ d \o <<e>> \in Seq(Closer) /\ Len(d \o <<e>>) = Len(d) + 1
        /\ \A i \in 1..(Len(d) + 1) :
              (d \o <<e>>)[i] = IF i <= Len(d) THEN d[i] ELSE <<e>>[i - Len(d)]
    BY Zenon, <1>1, <1>2, ConcatProperties
  <1>4. DOMAIN (d \o <<e>>) = 1..(Len(d) + 1)
    BY Zenon, <1>3, LenProperties
  <1>5. \A i \in 1..(Len(d) + 1) : (d \o <<e>>)[i] = IF i <= Len(d) THEN d[i] ELSE e
    BY <1>1, <1>2, <1>3
  <1> HIDE DEF Range
  <1>6. Range(d) = {d[i] : i \in 1..Len(d)}
    BY Zenon, <1>2 DEF Range
  <1>7. Range(d \o <<e>>) = {(d \o <<e>>)[i] : i \in 1..(Len(d) + 1)}
    BY Zenon, <1>4 DEF Range
  <1> QED
    BY <1>2, <1>5, <1>6, <1>7

(* A step of another process.                                              *)
LEMMA OthersMove ==
  ASSUME LifeInv, NEW p \in Process, NEW q \in Process, p # q, StartUp(q) \/ Stop(q) \/ Exit(q)
  PROVE  /\ phase'[p] = phase[p] /\ at'[p] = at[p] /\ signalled'[p] = signalled[p]
         /\ deferred'[p] = deferred[p]
  <1> DEFINE Same == /\ phase'[p] = phase[p] /\ at'[p] = at[p] /\ signalled'[p] = signalled[p]
                     /\ deferred'[p] = deferred[p]
  <1>1. /\ phase \in [Process -> Phase] /\ at \in [Process -> Nat]
        /\ signalled \in [Process -> BOOLEAN] /\ deferred \in [Process -> Seq(Closer)]
    BY Zenon DEF LifeInv, ProcessTypes
  <1>2. ASSUME NEW v, NEW n, NEW x, NEW d,
               phase' = phase \/ phase' = [phase EXCEPT ![q] = v],
               at' = at \/ at' = [at EXCEPT ![q] = n],
               signalled' = signalled \/ signalled' = [signalled EXCEPT ![q] = x],
               deferred' = deferred \/ deferred' = [deferred EXCEPT ![q] = d]
        PROVE  Same
    BY Zenon, <1>1, <1>2
  <1> SUFFICES Same
    BY Zenon
  <1> HIDE DEF Same
  <1>3. CASE Exit(q)
    BY Zenon, <1>2, <1>3 DEF Exit, Ends
  <1>4. CASE Return(q)
    BY Zenon, <1>2, <1>4 DEF Return
  <1>5. ASSUME NEW closes, Proceed(q, closes) PROVE Same
    BY Zenon, <1>2, <1>5 DEF Proceed
  <1>6. CASE NewPool(q) \/ StartWorker(q) \/ ServeDebug(q) \/ ConnectValkey(q) \/ Listen(q)
    BY Zenon, <1>3, <1>5, <1>6 DEF NewPool, StartWorker, ServeDebug, ConnectValkey, Listen, Acquire
  <1>7. CASE RunMigrations(q) \/ CreateGlobalAccounts(q)
    BY Zenon, <1>2, <1>3, <1>5, <1>7 DEF RunMigrations, MigrationFails, CreateGlobalAccounts
  <1>8. CASE Connect(q) \/ Dial(q) \/ Pause(q)
    BY Zenon, <1>2, <1>3, <1>4, <1>5, <1>8 DEF Connect, Dial, Pause, Acquire
  <1>9. CASE Stop(q)
    BY Zenon, <1>2, <1>3, <1>4, <1>9 DEF Stop, Shutdown, Drained, Close
  <1> QED
    BY Zenon, <1>3, <1>6, <1>7, <1>8, <1>9 DEF StartUp, Same

(* A step of the signalled server itself, up to its call to Temporal.      *)
LEMMA MovesOut ==
  ASSUME LifeInv, NEW p \in Servers, p \in Process, LeftOut(p), StartUp(p) \/ Stop(p)
  PROVE  \/ Exit(p)
         \/ /\ signalled'[p] = signalled[p]
            /\ phase'[p] # "dialing" \/ (phase'[p] = phase[p] /\ at'[p] = at[p])
            /\ \/ deferred'[p] = deferred[p]
               \/ deferred[p] # <<>> /\ deferred'[p] = SubSeq(deferred[p], 1, Len(deferred[p]) - 1)
               \/ \E e \in Closer \ {"temporal"} : deferred'[p] = deferred[p] \o <<e>>
  <1> DEFINE
        Kept == /\ signalled'[p] = signalled[p]
                /\ phase'[p] # "dialing" \/ (phase'[p] = phase[p] /\ at'[p] = at[p])
        Closes == \/ deferred'[p] = deferred[p]
                  \/ /\ deferred[p] # <<>>
                     /\ deferred'[p] = SubSeq(deferred[p], 1, Len(deferred[p]) - 1)
                  \/ \E e \in Closer \ {"temporal"} : deferred'[p] = deferred[p] \o <<e>>
  <1>1. /\ phase \in [Process -> Phase] /\ at \in [Process -> Nat]
        /\ deferred \in [Process -> Seq(Closer)] /\ deferred[p] \in Seq(Closer)
    BY Zenon DEF LifeInv, ProcessTypes
  <1>2. ASSUME NEW v, v # "dialing", phase' = [phase EXCEPT ![p] = v], UNCHANGED signalled
        PROVE  Kept
    BY Zenon, <1>1, <1>2
  <1>3. CASE Return(p)
    BY Zenon, <1>2, <1>3 DEF Return
  <1>4. ASSUME NEW closes, Proceed(p, closes)
        PROVE  Kept /\ deferred'[p] = deferred[p] \o closes
    BY Zenon, <1>1, <1>2, <1>4 DEF Proceed
  <1>5. ASSUME Proceed(p, <<>>) PROVE Kept /\ Closes
    <2>1. deferred[p] \o <<>> = deferred[p]
      BY Zenon, <1>1, DefersNothing
    <2> QED
      BY Zenon, <1>4, <1>5, <2>1
  <1>6. ASSUME Acquire(p), Step(p) \in Closer \ {"temporal"} PROVE Kept /\ Closes
    <2>1. PICK e \in Closer \ {"temporal"} : e = Step(p)
      BY Zenon, <1>6
    <2>2. Kept /\ deferred'[p] = deferred[p] \o <<e>>
      BY Zenon, <1>4, <1>6, <2>1 DEF Acquire
    <2> QED
      BY Zenon, <2>2
  <1> HIDE DEF Kept, Closes
  <1>7. CASE NewPool(p) \/ StartWorker(p) \/ ConnectValkey(p)
    <2>1. Step(p) \in Closer \ {"temporal"}
      BY Zenon, <1>7 DEF NewPool, StartWorker, ConnectValkey, Starting, Closer
    <2> QED
      BY Zenon, <1>5, <1>6, <1>7, <2>1 DEF NewPool, StartWorker, ConnectValkey, Kept, Closes
  <1>8. CASE RunMigrations(p)
    <2>1. CASE UNCHANGED <<phase, at, signalled, deferred>>
      BY Zenon, <2>1
    <2> QED
      BY Zenon, <1>5, <1>8, <2>1 DEF RunMigrations, MigrationFails, Kept, Closes
  <1>9. CASE CreateGlobalAccounts(p) \/ ServeDebug(p) \/ Listen(p)
    BY Zenon, <1>5, <1>9 DEF CreateGlobalAccounts, ServeDebug, Listen, Kept, Closes
  <1>10. Cancelled(p)
    BY Zenon DEF LeftOut, Cancelled
  <1>11. CASE Connect(p) \/ Pause(p)
    BY Zenon, <1>3, <1>10, <1>11 DEF Connect, Pause, Return
  <1>12. CASE Dial(p)
    <2>1. Step(p) \in Closer \ {"temporal"}
      BY Zenon, <1>12 DEF Dial, Dialled, LeftOut, Closer
    <2>2. CASE Acquire(p)
      BY Zenon, <1>6, <2>1, <2>2 DEF Kept, Closes
    <2>3. CASE phase' = [phase EXCEPT ![p] = "pausing"] /\ UNCHANGED <<signalled, deferred>>
      BY Zenon, <1>2, <2>3 DEF Kept, Closes
    <2> QED
      BY Zenon, <1>12, <2>2, <2>3 DEF Dial
  <1>13. CASE Stop(p)
    <2>1. CASE Shutdown(p)
      BY Zenon, <1>2, <2>1 DEF Shutdown, Kept, Closes
    <2>2. CASE Drained(p)
      BY Zenon, <1>3, <2>2 DEF Drained
    <2>3. CASE Close(p) /\ ~Exit(p)
      <3>1. /\ deferred[p] # <<>> /\ UNCHANGED <<phase, at, signalled>>
            /\ deferred'[p] = SubSeq(deferred[p], 1, Len(deferred[p]) - 1)
        BY Zenon, <1>1, <2>3 DEF Close
      <3> QED
        BY Zenon, <3>1
    <2> QED
      BY Zenon, <1>13, <2>1, <2>2, <2>3 DEF Stop
  <1> QED
    BY Zenon, <1>7, <1>8, <1>9, <1>11, <1>12, <1>13 DEF StartUp

LEMMA RangeShortens ==
  ASSUME NEW d \in Seq(Closer), d # <<>>
  PROVE  Range(SubSeq(d, 1, Len(d) - 1)) \subseteq Range(d)
  <1>1. PICK n \in Nat : n = Len(d) - 1 /\ n \in 0..Len(d) /\ DOMAIN d = 1..(n + 1)
    BY EmptySeq, LenProperties
  <1>2. /\ SubSeq(d, 1, n) \in Seq(Closer) /\ Len(SubSeq(d, 1, n)) = n
        /\ \A i \in 1..n : SubSeq(d, 1, n)[i] = d[i]
    BY Zenon, <1>1, SubSeqProperties
  <1>3. DOMAIN SubSeq(d, 1, n) = 1..n /\ 1..n \subseteq DOMAIN d
    BY <1>1, <1>2, LenProperties
  <1> QED
    BY Zenon, <1>1, <1>2, <1>3 DEF Range

(* For any number of servers, attempts, files and restarts: a server that  *)
(* is signalled before its call to Temporal goes out makes no such call,   *)
(* so it starts no worker and serves nothing, at whatever step, in         *)
(* whatever pause and during whatever other call the signal comes.  What   *)
(* carries the argument is that a server reaches the look at ctx of the    *)
(* Temporal loop before every call it makes there.                         *)
THEOREM SignalledNeverServes == Spec => SignalledStaysOut
  <1> DEFINE Kept(p) == LeftOut(p) => LeftOut(p)' \/ phase'[p] = "down"
  <1>1. ASSUME LifeInv, [Next]_vars, NEW p \in Servers PROVE Kept(p)
    <2> SUFFICES ASSUME LeftOut(p) PROVE LeftOut(p)' \/ phase'[p] = "down"
      BY Zenon
    <2>1. p \in Process /\ Servers \subseteq Process /\ deferred[p] \in Seq(Closer)
      BY Zenon, <1>1 DEF LifeInv, ProcessTypes, Process
    <2>2. signalled[p] /\ "temporal" \notin Range(deferred[p])
      BY Zenon DEF LeftOut, Open
    <2>3. ASSUME signalled'[p] = signalled[p], "temporal" \notin Range(deferred'[p]),
                 phase'[p] # "dialing" \/ (phase'[p] = phase[p] /\ at'[p] = at[p])
          PROVE  LeftOut(p)'
      BY Zenon, <2>3 DEF LeftOut, Open, Step, Steps
    <2>4. CASE UNCHANGED <<phase, at, signalled, deferred>>
      BY Zenon, <2>2, <2>3, <2>4
    <2>5. ASSUME NEW q \in Process, p # q, StartUp(q) \/ Stop(q) \/ Exit(q)
          PROVE  LeftOut(p)'
      <3>1. /\ phase'[p] = phase[p] /\ at'[p] = at[p] /\ signalled'[p] = signalled[p]
            /\ deferred'[p] = deferred[p]
        BY Zenon, <1>1, <2>1, <2>5, OthersMove
      <3> QED
        BY Zenon, <2>2, <2>3, <3>1
    <2>6. CASE Exit(p)
      BY Zenon, <1>1, <2>1, <2>6 DEF Exit, Ends, LifeInv, ProcessTypes
    <2>7. CASE (StartUp(p) \/ Stop(p)) /\ ~Exit(p)
      <3>1. /\ signalled'[p] = signalled[p]
            /\ phase'[p] # "dialing" \/ (phase'[p] = phase[p] /\ at'[p] = at[p])
            /\ \/ deferred'[p] = deferred[p]
               \/ deferred[p] # <<>> /\ deferred'[p] = SubSeq(deferred[p], 1, Len(deferred[p]) - 1)
               \/ \E e \in Closer \ {"temporal"} : deferred'[p] = deferred[p] \o <<e>>
        BY Zenon, <1>1, <2>1, <2>7, MovesOut
      <3>2. \A e \in Closer \ {"temporal"} : "temporal" \notin Range(deferred[p] \o <<e>>)
        BY <2>1, <2>2, RangeAppends
      <3>3. deferred[p] # <<>> => "temporal" \notin Range(SubSeq(deferred[p], 1, Len(deferred[p]) - 1))
        BY Zenon, <2>1, <2>2, RangeShortens
      <3> QED
        BY Zenon, <2>2, <2>3, <3>1, <3>2, <3>3
    <2>8. CASE \E q \in Process : Start(q) \/ Signal(q)
      <3>1. PICK q \in Process : Start(q) \/ Signal(q)
        BY Zenon, <2>8
      <3>2. UNCHANGED <<at, deferred>> /\ (signalled'[p] = signalled[p])
        BY Zenon, <1>1, <2>1, <2>2, <3>1 DEF Start, Signal, LifeInv, ProcessTypes
      <3>3. phase'[p] = phase[p] \/ phase'[p] = "starting"
        BY Zenon, <1>1, <2>1, <3>1 DEF Start, Signal, LifeInv, ProcessTypes
      <3> QED
        BY Zenon, <2>2, <2>3, <3>2, <3>3
    <2>9. \/ \E q \in Process : StartUp(q) \/ Stop(q) \/ Exit(q) \/ Start(q) \/ Signal(q)
          \/ UNCHANGED <<phase, at, signalled, deferred>>
      BY Zenon, <1>1, <2>1
         DEF Next, vars, Crash, ListenFails, RequestBegins, RequestEnds, Measure
    <2> QED
      BY Zenon, <2>4, <2>5, <2>6, <2>7, <2>8, <2>9
  <1>2. LifeInv /\ [Next]_vars => [\A p \in Servers : Kept(p)]_vars
    BY Zenon, <1>1
  <1> QED
    BY <1>2, LifeBegins, LifeStep, PTL DEF Spec, SignalledStaysOut
=============================================================================
