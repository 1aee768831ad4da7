--------------------------- MODULE GatewayProofs ---------------------------
(* The gateway's types, its deduplicator and the order of its signals, for *)
(* any number of clusters, streams and unary calls, every capacity of      *)
(* sigCh and any number of retries, resends and faults.                    *)
(*                                                                         *)
(* Carries says that a stream carries what its own agent sent, which the   *)
(* types need.  Recorded says that the number the deduplicator remembers   *)
(* belongs to a heartbeat that some goroutine has or had, which is what    *)
(* justifies a rejection; HereStays, that no step of any goroutine drops   *)
(* such a heartbeat without a trace, is the heart of it.                   *)
EXTENDS Gateway, TLAPS

(* What the proofs use about sequences.                                    *)
LEMMA EmptySeq == ASSUME NEW S PROVE <<>> \in Seq(S) /\ Len(<<>>) = 0 /\ DOMAIN <<>> = {}
  OBVIOUS

LEMMA LenProperties ==
  ASSUME NEW S, NEW q \in Seq(S)
  PROVE  Len(q) \in Nat /\ DOMAIN q = 1..Len(q)
  OBVIOUS

LEMMA ElementOfSeq ==
  ASSUME NEW S, NEW q \in Seq(S), NEW n \in 1..Len(q)
  PROVE  q[n] \in S
  OBVIOUS

LEMMA Joins ==
  ASSUME NEW S, NEW q \in Seq(S), NEW e \in S
  PROVE  /\ Append(q, e) \in Seq(S) /\ Len(q) \in Nat /\ Len(Append(q, e)) = Len(q) + 1
         /\ DOMAIN q = 1..Len(q) /\ DOMAIN Append(q, e) = 1..(Len(q) + 1)
         /\ \A i \in 1..Len(q) : Append(q, e)[i] = q[i] /\ q[i] \in S
         /\ Append(q, e)[Len(q) + 1] = e
  OBVIOUS

(* Sequence r is q with e joined to it.                                    *)
Joined(S, q, e, r) ==
    /\ r \in Seq(S) /\ Len(q) \in Nat /\ Len(r) = Len(q) + 1
    /\ DOMAIN q = 1..Len(q) /\ DOMAIN r = 1..(Len(q) + 1)
    /\ \A i \in 1..Len(q) : r[i] = q[i]
    /\ r[Len(q) + 1] = e

LEMMA JoinsAs ==
  ASSUME NEW S, NEW q \in Seq(S), NEW e \in S, NEW r, r = Append(q, e)
  PROVE  Joined(S, q, e, r)
  BY Joins DEF Joined

LEMMA Leaves ==
  ASSUME NEW S, NEW q \in Seq(S), q # <<>>
  PROVE  /\ Tail(q) \in Seq(S) /\ Head(q) = q[1] /\ Head(q) \in S
         /\ Len(q) \in Nat \ {0} /\ Len(Tail(q)) = Len(q) - 1
         /\ DOMAIN q = 1..Len(q) /\ DOMAIN Tail(q) = 1..(Len(q) - 1)
         /\ \A i \in 1..(Len(q) - 1) : Tail(q)[i] = q[i + 1]
  OBVIOUS

-----------------------------------------------------------------------------
(* The heartbeats of the stream's cluster that the agent has sent.         *)
Mine(s) == {e \in Heartbeat : e[1] = ClusterOf[s] /\ copies[e] > 0}

Working(s) == dispatch[s] \in {"signal", "backoff"}

(* What a stream carries are messages of its own cluster.                  *)
Carries(s) ==
    /\ \A i \in DOMAIN wire[s] : wire[s][i] \in Mine(s)
    /\ recv[s] \in {"register", "dedup", "enqueue"} => holds[s] \in Mine(s)
    /\ \A k \in DOMAIN sigCh[s] : sigCh[s][k] \in Mine(s)
    /\ Working(s) => req[s] \in Mine(s)
    /\ dispatch[s] = "take" => req[s] = Nothing

CarriesInv ==
    /\ TypeOK
    /\ \A s \in Stream : Carries(s)
    /\ \A u \in Unary : call[u] = "signal" => callReq[u] \in Heartbeat

LEMMA HappensTypes ==
  ASSUME faults \in [FaultKind -> Nat], NEW k \in FaultKind, Happens(k)
  PROVE  faults' \in [FaultKind -> Nat] /\ faults'[k] = faults[k] + 1
  BY DEF Happens

(* One call of the deduplicator.                                           *)
LEMMA DedupTypes ==
  ASSUME TypeOK, NEW hb \in Heartbeat, NEW isDuplicate, Dedup(hb, isDuplicate)
  PROVE  dedup' \in [Cluster -> 0..MaxSeq] /\ faults' \in [FaultKind -> Nat]
  <1>1. dedup \in [Cluster -> 0..MaxSeq] /\ faults \in [FaultKind -> Nat]
    BY Zenon DEF TypeOK
  <1>2. hb[1] \in Cluster /\ hb[2] \in 0..MaxSeq
    BY GatewayAssumption DEF Heartbeat
  <1>3. Record(hb) => dedup' \in [Cluster -> 0..MaxSeq]
    BY Zenon, <1>1, <1>2 DEF Record
  <1> QED
    BY Zenon, <1>1, <1>3, HappensTypes DEF Dedup, FaultKind

(* A stream that a step does not touch carries what it carried.            *)
LEMMA OthersCarry ==
  ASSUME CarriesInv, NEW t \in Stream,
         /\ wire'[t] = wire[t] /\ recv'[t] = recv[t] /\ holds'[t] = holds[t]
         /\ sigCh'[t] = sigCh[t] /\ dispatch'[t] = dispatch[t] /\ req'[t] = req[t],
         \A e \in Heartbeat : copies[e] > 0 => copies'[e] > 0
  PROVE  Carries(t)'
  BY DEF CarriesInv, Carries, Working, Mine

(* A step of the agents.                                                   *)
LEMMA AgentCarries ==
  ASSUME CarriesInv, Agent
  PROVE  CarriesInv'
  <1>1. TypeOK
    BY Zenon DEF CarriesInv
  <1>2. ASSUME NEW s \in Stream, Opens(s) \/ Breaks(s) PROVE CarriesInv'
    <2>1. /\ ctx' \in [Stream -> {"new", "open", "done"}]
          /\ UNCHANGED <<copies, wire, receiver, sigCh, dispatcher, handler, unary, dedup, streams,
                         signalled, lost, faults>>
      BY Zenon, <1>1, <1>2 DEF Opens, Breaks, TypeOK
    <2>2. TypeOK'
      BY Zenon, <1>1, <2>1 DEF TypeOK, receiver, dispatcher, unary
    <2>3. \A t \in Stream : Carries(t)'
      BY Zenon, <2>1, OthersCarry DEF receiver, dispatcher
    <2> QED
      BY Zenon, <2>1, <2>2, <2>3 DEF CarriesInv, unary
  <1>3. ASSUME NEW hb \in Heartbeat, MaySend(hb), copies' = [copies EXCEPT ![hb] = @ + 1]
        PROVE  /\ copies' \in [Heartbeat -> 0..MaxCopies] /\ copies'[hb] > 0
               /\ \A e \in Heartbeat : copies[e] > 0 => copies'[e] > 0
    <2>1. copies \in [Heartbeat -> 0..MaxCopies] /\ copies[hb] < MaxCopies /\ MaxCopies \in Nat
      BY Zenon, <1>1, <1>3, GatewayAssumption DEF TypeOK, MaySend
    <2>2. copies[hb] \in 0..MaxCopies /\ copies[hb] + 1 \in 0..MaxCopies
      BY <2>1
    <2>3. copies' \in [Heartbeat -> 0..MaxCopies] /\ copies'[hb] = copies[hb] + 1
      BY Zenon, <1>3, <2>1, <2>2
    <2>4. \A e \in Heartbeat \ {hb} : copies'[e] = copies[e]
      BY Zenon, <1>3, <2>1
    <2> QED
      BY <2>2, <2>3, <2>4
  <1>4. ASSUME NEW s \in Stream, NEW hb \in Heartbeat, Sends(s, hb) PROVE CarriesInv'
    <2>1. /\ hb[1] = ClusterOf[s] /\ MaySend(hb) /\ copies' = [copies EXCEPT ![hb] = @ + 1]
          /\ wire' = [wire EXCEPT ![s] = Append(@, hb)]
          /\ UNCHANGED <<ctx, clusterID, recv, holds, sigCh, dispatch, req, attempt, handler, call,
                         callReq, dedup, streams, signalled, lost, faults>>
      BY Zenon, <1>4 DEF Sends, receiver, dispatcher, unary
    <2>2. /\ copies' \in [Heartbeat -> 0..MaxCopies] /\ copies'[hb] > 0
          /\ \A e \in Heartbeat : copies[e] > 0 => copies'[e] > 0
      BY Zenon, <1>3, <2>1
    <2>3. wire[s] \in Seq(Heartbeat)
      BY Zenon, <1>1 DEF TypeOK
    <2>4. /\ Append(wire[s], hb) \in Seq(Heartbeat) /\ Len(wire[s]) \in Nat
          /\ DOMAIN wire[s] = 1..Len(wire[s]) /\ DOMAIN Append(wire[s], hb) = 1..(Len(wire[s]) + 1)
          /\ \A i \in 1..Len(wire[s]) : Append(wire[s], hb)[i] = wire[s][i]
          /\ Append(wire[s], hb)[Len(wire[s]) + 1] = hb
      BY <2>3, Joins
    <2>5. wire' \in [Stream -> Seq(Heartbeat)] /\ wire'[s] = Append(wire[s], hb)
      BY Zenon, <1>1, <2>1, <2>4 DEF TypeOK
    <2>6. TypeOK'
      BY Zenon, <1>1, <2>1, <2>2, <2>5 DEF TypeOK
    <2>7. Mine(s) \subseteq Mine(s)' /\ hb \in Mine(s)'
      BY Zenon, <2>1, <2>2 DEF Mine
    <2>8. Carries(s)'
      <3>1. Carries(s)
        BY Zenon DEF CarriesInv
      <3>2. \A i \in DOMAIN wire'[s] : wire'[s][i] \in Mine(s)'
        BY <2>4, <2>5, <2>7, <3>1 DEF Carries
      <3> QED
        BY Zenon, <2>1, <2>7, <3>1, <3>2 DEF Carries, Working
    <2>9. ASSUME NEW t \in Stream \ {s} PROVE Carries(t)'
      <3>1. wire'[t] = wire[t]
        BY Zenon, <1>1, <2>1 DEF TypeOK
      <3> QED
        BY Zenon, <2>1, <2>2, <3>1, OthersCarry
    <2> QED
      BY Zenon, <2>1, <2>6, <2>8, <2>9 DEF CarriesInv
  <1>5. ASSUME NEW u \in Unary, NEW hb \in Heartbeat, UnaryReceive(u, hb) PROVE CarriesInv'
    <2>1. /\ MaySend(hb) /\ copies' = [copies EXCEPT ![hb] = @ + 1]
          /\ callReq' = [callReq EXCEPT ![u] = hb]
          /\ UNCHANGED <<ctx, wire, clusterID, recv, holds, sigCh, dispatch, req, attempt, handler,
                         streams, signalled, lost>>
      BY Zenon, <1>5 DEF UnaryReceive, receiver, dispatcher
    <2>2. PICK isDuplicate \in BOOLEAN :
            Dedup(hb, isDuplicate) /\ call' = [call EXCEPT ![u] = IF isDuplicate THEN "ok" ELSE "signal"]
      BY Zenon, <1>5 DEF UnaryReceive
    <2>3. /\ copies' \in [Heartbeat -> 0..MaxCopies]
          /\ \A e \in Heartbeat : copies[e] > 0 => copies'[e] > 0
      BY Zenon, <1>3, <2>1
    <2>4. dedup' \in [Cluster -> 0..MaxSeq] /\ faults' \in [FaultKind -> Nat]
      BY Zenon, <1>1, <2>2, DedupTypes
    <2>5. call' \in [Unary -> {"idle", "signal", "ok", "error"}]
      BY Zenon, <1>1, <2>2 DEF TypeOK
    <2>6. callReq' \in [Unary -> Heartbeat \cup {Nothing}] /\ callReq'[u] = hb
      BY Zenon, <1>1, <2>1 DEF TypeOK
    <2>7. TypeOK'
      BY Zenon, <1>1, <2>1, <2>3, <2>4, <2>5, <2>6 DEF TypeOK
    <2>8. \A t \in Stream : Carries(t)'
      BY Zenon, <2>1, <2>3, OthersCarry
    <2>9. \A v \in Unary : call'[v] = "signal" => callReq'[v] \in Heartbeat
      BY Zenon, <1>1, <2>1, <2>2, <2>6 DEF CarriesInv, TypeOK
    <2> QED
      BY Zenon, <2>7, <2>8, <2>9 DEF CarriesInv
  <1> QED
    BY Zenon, <1>2, <1>4, <1>5 DEF Agent

(* A step of the receiving goroutine of stream s.                          *)
LEMMA ReceiverCarries ==
  ASSUME CarriesInv, NEW s \in Stream, Receiver(s)
  PROVE  CarriesInv'
  <1>1. TypeOK /\ Carries(s)
    BY Zenon DEF CarriesInv
  <1>2. ASSUME TypeOK', Carries(s)', UNCHANGED <<copies, call, callReq>>,
               \A t \in Stream \ {s} :
                 /\ wire'[t] = wire[t] /\ recv'[t] = recv[t] /\ holds'[t] = holds[t]
                 /\ sigCh'[t] = sigCh[t] /\ dispatch'[t] = dispatch[t] /\ req'[t] = req[t]
        PROVE  CarriesInv'
    <2>1. \A t \in Stream \ {s} : Carries(t)'
      BY Zenon, <1>2, OthersCarry
    <2> QED
      BY Zenon, <1>2, <2>1 DEF CarriesInv
  <1>3. CASE Receive(s)
    <2>1. /\ recv[s] = "receive" /\ wire[s] # <<>>
          /\ clusterID' = [clusterID EXCEPT ![s] = {Head(wire[s])[1]}]
          /\ holds' = [holds EXCEPT ![s] = Head(wire[s])]
          /\ wire' = [wire EXCEPT ![s] = Tail(@)]
          /\ recv' = [recv EXCEPT ![s] = IF clusterID[s] = {} THEN "register" ELSE "dedup"]
          /\ UNCHANGED <<copies, ctx, sigCh, dispatch, req, attempt, handler, call, callReq, dedup,
                         streams, signalled, lost, faults>>
      BY Zenon, <1>3 DEF Receive, dispatcher, unary
    <2>2. wire[s] \in Seq(Heartbeat)
      BY Zenon, <1>1 DEF TypeOK
    <2>3. PICK q, h : q = Tail(wire[s]) /\ h = Head(wire[s])
      BY Zenon
    <2>4. /\ q \in Seq(Heartbeat) /\ h \in Heartbeat /\ Len(wire[s]) \in Nat \ {0} /\ h = wire[s][1]
          /\ DOMAIN wire[s] = 1..Len(wire[s]) /\ DOMAIN q = 1..(Len(wire[s]) - 1)
          /\ \A i \in 1..(Len(wire[s]) - 1) : q[i] = wire[s][i + 1]
      BY Zenon, <2>1, <2>2, <2>3, Leaves
    <2>5. h \in Mine(s) /\ h[1] = ClusterOf[s] /\ \A i \in DOMAIN q : q[i] \in Mine(s)
      <3>1. \A i \in 1..Len(wire[s]) : wire[s][i] \in Mine(s)
        BY Zenon, <1>1, <2>4 DEF Carries
      <3>2. \A i \in 1..(Len(wire[s]) - 1) : i + 1 \in 1..Len(wire[s])
        BY <2>4
      <3> QED
        BY SMTT(30), <2>4, <3>1, <3>2 DEF Mine
    <2>6. /\ wire' \in [Stream -> Seq(Heartbeat)] /\ wire'[s] = q
          /\ holds' \in [Stream -> Heartbeat \cup {Nothing}] /\ holds'[s] = h
          /\ recv' \in [Stream -> {"receive", "register", "dedup", "enqueue", "done"}]
      BY <1>1, <2>1, <2>3, <2>4 DEF TypeOK
    <2>7. /\ clusterID' \in [Stream -> SUBSET Cluster]
          /\ \A t \in Stream : clusterID'[t] \in {{}, {ClusterOf[t]}}
      <3>1. clusterID' = [clusterID EXCEPT ![s] = {ClusterOf[s]}] /\ ClusterOf[s] \in Cluster
        BY Zenon, <2>1, <2>3, <2>5, GatewayAssumption
      <3> QED
        BY ZenonT(60), <1>1, <3>1 DEF TypeOK
    <2>8. TypeOK'
      BY Zenon, <1>1, <2>1, <2>6, <2>7 DEF TypeOK
    <2>9. Carries(s)'
      BY ZenonT(60), <1>1, <2>1, <2>5, <2>6 DEF Carries, Working, Mine
    <2>10. \A t \in Stream \ {s} :
             /\ wire'[t] = wire[t] /\ recv'[t] = recv[t] /\ holds'[t] = holds[t]
             /\ sigCh'[t] = sigCh[t] /\ dispatch'[t] = dispatch[t] /\ req'[t] = req[t]
      BY <1>1, <2>1 DEF TypeOK
    <2> QED
      BY Zenon, <1>2, <2>1, <2>8, <2>9, <2>10
  <1>4. CASE Register(s)
    <2>1. /\ recv[s] = "register" /\ streams' = streams \cup clusterID[s]
          /\ recv' = [recv EXCEPT ![s] = "dedup"]
          /\ UNCHANGED <<copies, ctx, wire, clusterID, holds, sigCh, dispatch, req, attempt, handler,
                         call, callReq, dedup, signalled, lost, faults>>
      BY Zenon, <1>4 DEF Register, agents, dispatcher, unary
    <2>2. clusterID[s] \subseteq Cluster
      BY Zenon, <1>1 DEF TypeOK
    <2>3. TypeOK'
      BY Zenon, <1>1, <2>1, <2>2 DEF TypeOK
    <2>4. Carries(s)'
      BY Zenon, <1>1, <2>1 DEF Carries, Working, Mine, TypeOK
    <2>5. \A t \in Stream \ {s} :
             /\ wire'[t] = wire[t] /\ recv'[t] = recv[t] /\ holds'[t] = holds[t]
             /\ sigCh'[t] = sigCh[t] /\ dispatch'[t] = dispatch[t] /\ req'[t] = req[t]
      BY Zenon, <1>1, <2>1 DEF TypeOK
    <2> QED
      BY Zenon, <1>2, <2>1, <2>3, <2>4, <2>5
  <1>5. CASE DedupReceived(s)
    <2>1. /\ recv[s] = "dedup"
          /\ UNCHANGED <<copies, ctx, wire, clusterID, sigCh, dispatch, req, attempt, handler, call,
                         callReq, streams, signalled, lost>>
      BY Zenon, <1>5 DEF DedupReceived, agents, dispatcher, unary
    <2>2. PICK isDuplicate \in BOOLEAN :
            /\ Dedup(holds[s], isDuplicate)
            /\ recv' = [recv EXCEPT ![s] = IF isDuplicate THEN "receive" ELSE "enqueue"]
            /\ holds' = [holds EXCEPT ![s] = IF isDuplicate THEN Nothing ELSE @]
      BY Zenon, <1>5 DEF DedupReceived
    <2>3. holds[s] \in Mine(s) /\ holds[s] \in Heartbeat
      BY Zenon, <1>1, <2>1 DEF Carries, Mine
    <2>4. dedup' \in [Cluster -> 0..MaxSeq] /\ faults' \in [FaultKind -> Nat]
      BY Zenon, <1>1, <2>2, <2>3, DedupTypes
    <2>5. /\ recv' \in [Stream -> {"receive", "register", "dedup", "enqueue", "done"}]
          /\ holds' \in [Stream -> Heartbeat \cup {Nothing}]
          /\ recv'[s] = "enqueue" => holds'[s] = holds[s]
          /\ recv'[s] \in {"receive", "enqueue"}
      BY Zenon, <1>1, <2>2, <2>3 DEF TypeOK
    <2>6. TypeOK'
      BY Zenon, <1>1, <2>1, <2>4, <2>5 DEF TypeOK
    <2>7. Carries(s)'
      BY Zenon, <1>1, <2>1, <2>3, <2>5 DEF Carries, Working, Mine
    <2>8. \A t \in Stream \ {s} :
             /\ wire'[t] = wire[t] /\ recv'[t] = recv[t] /\ holds'[t] = holds[t]
             /\ sigCh'[t] = sigCh[t] /\ dispatch'[t] = dispatch[t] /\ req'[t] = req[t]
      BY Zenon, <1>1, <2>1, <2>2 DEF TypeOK
    <2> QED
      BY Zenon, <1>2, <2>1, <2>6, <2>7, <2>8
  <1>6. CASE Enqueue(s)
    <2>1. /\ recv[s] = "enqueue" /\ ~Full(s)
          /\ sigCh' = [sigCh EXCEPT ![s] = Append(@, holds[s])]
          /\ holds' = [holds EXCEPT ![s] = Nothing] /\ recv' = [recv EXCEPT ![s] = "receive"]
          /\ UNCHANGED <<copies, ctx, wire, clusterID, dispatch, req, attempt, handler, call, callReq,
                         dedup, streams, signalled, lost, faults>>
      BY Zenon, <1>6 DEF Enqueue, agents, dispatcher, unary
    <2>2. holds[s] \in Mine(s) /\ holds[s] \in Heartbeat /\ sigCh[s] \in Seq(Heartbeat)
      BY Zenon, <1>1, <2>1 DEF Carries, Mine, TypeOK
    <2>3. PICK q : q = Append(sigCh[s], holds[s])
      BY Zenon
    <2>4. /\ q \in Seq(Heartbeat) /\ Len(sigCh[s]) \in Nat /\ Len(q) = Len(sigCh[s]) + 1
          /\ DOMAIN sigCh[s] = 1..Len(sigCh[s]) /\ DOMAIN q = 1..(Len(sigCh[s]) + 1)
          /\ \A i \in 1..Len(sigCh[s]) : q[i] = sigCh[s][i]
          /\ q[Len(sigCh[s]) + 1] = holds[s]
      <3>1. Joined(Heartbeat, sigCh[s], holds[s], q)
        BY Zenon, <2>2, <2>3, JoinsAs
      <3> QED
        BY Zenon, <3>1 DEF Joined
    <2>5. Len(q) <= Capacity
      <3>1. ~(Len(sigCh[s]) >= Capacity) /\ Capacity \in Nat
        BY Zenon, <2>1, GatewayAssumption DEF Full
      <3> QED
        BY <2>4, <3>1
    <2>6. /\ sigCh' \in [Stream -> Seq(Heartbeat)] /\ sigCh'[s] = q
          /\ holds' \in [Stream -> Heartbeat \cup {Nothing}]
          /\ recv' \in [Stream -> {"receive", "register", "dedup", "enqueue", "done"}]
          /\ recv'[s] = "receive"
          /\ \A t \in Stream \ {s} : sigCh'[t] = sigCh[t]
      BY Zenon, <1>1, <2>1, <2>3, <2>4 DEF TypeOK
    <2>7. \A t \in Stream : Len(sigCh'[t]) <= Capacity
      BY Zenon, <1>1, <2>5, <2>6 DEF TypeOK
    <2>8. TypeOK'
      BY ZenonT(60), <1>1, <2>1, <2>6, <2>7 DEF TypeOK
    <2>9. Carries(s)'
      BY <1>1, <2>1, <2>2, <2>4, <2>6 DEF Carries, Working, Mine
    <2>10. \A t \in Stream \ {s} :
             /\ wire'[t] = wire[t] /\ recv'[t] = recv[t] /\ holds'[t] = holds[t]
             /\ sigCh'[t] = sigCh[t] /\ dispatch'[t] = dispatch[t] /\ req'[t] = req[t]
      BY <1>1, <2>1, <2>6 DEF TypeOK
    <2> QED
      BY Zenon, <1>2, <2>1, <2>8, <2>9, <2>10
  <1>7. CASE EnqueueTimesOut(s)
    <2>1. /\ recv[s] = "enqueue" /\ lost' = lost \cup {holds[s]}
          /\ holds' = [holds EXCEPT ![s] = Nothing] /\ recv' = [recv EXCEPT ![s] = "receive"]
          /\ UNCHANGED <<copies, ctx, wire, clusterID, sigCh, dispatch, req, attempt, handler, call,
                         callReq, dedup, streams, signalled, faults>>
      BY Zenon, <1>7 DEF EnqueueTimesOut, agents, dispatcher, unary
    <2>2. holds[s] \in Heartbeat
      BY Zenon, <1>1, <2>1 DEF Carries, Mine
    <2>3. TypeOK'
      BY ZenonT(60), <1>1, <2>1, <2>2 DEF TypeOK
    <2>4. Carries(s)'
      BY Zenon, <1>1, <2>1 DEF Carries, Working, Mine, TypeOK
    <2>5. \A t \in Stream \ {s} :
             /\ wire'[t] = wire[t] /\ recv'[t] = recv[t] /\ holds'[t] = holds[t]
             /\ sigCh'[t] = sigCh[t] /\ dispatch'[t] = dispatch[t] /\ req'[t] = req[t]
      BY Zenon, <1>1, <2>1 DEF TypeOK
    <2> QED
      BY Zenon, <1>2, <2>1, <2>3, <2>4, <2>5
  <1>8. CASE ReceiveEnds(s)
    <2>1. /\ recv' = [recv EXCEPT ![s] = "done"] /\ wire' = [wire EXCEPT ![s] = <<>>]
          /\ UNCHANGED <<copies, ctx, clusterID, holds, sigCh, dispatch, req, attempt, handler, call,
                         callReq, dedup, streams, signalled, lost, faults>>
      BY Zenon, <1>8 DEF ReceiveEnds, dispatcher, unary
    <2>2. <<>> \in Seq(Heartbeat) /\ DOMAIN <<>> = {}
      BY Zenon, EmptySeq
    <2>3. TypeOK'
      BY ZenonT(60), <1>1, <2>1, <2>2 DEF TypeOK
    <2>4. Carries(s)'
      BY SMTT(30), <1>1, <2>1, <2>2 DEF Carries, Working, Mine, TypeOK
    <2>5. \A t \in Stream \ {s} :
             /\ wire'[t] = wire[t] /\ recv'[t] = recv[t] /\ holds'[t] = holds[t]
             /\ sigCh'[t] = sigCh[t] /\ dispatch'[t] = dispatch[t] /\ req'[t] = req[t]
      BY <1>1, <2>1 DEF TypeOK
    <2> QED
      BY Zenon, <1>2, <2>1, <2>3, <2>4, <2>5
  <1> QED
    BY Zenon, <1>3, <1>4, <1>5, <1>6, <1>7, <1>8 DEF Receiver

LEMMA SignalTypes ==
  ASSUME TypeOK, NEW sender \in Stream \cup Unary, NEW hb \in Heartbeat
  PROVE  /\ Accepted(sender, hb) => signalled' \in Seq([hb : Heartbeat, by : Stream \cup Unary])
         /\ \A cancelled \in BOOLEAN : Failed(sender, hb, cancelled) =>
              /\ signalled' \in Seq([hb : Heartbeat, by : Stream \cup Unary])
              /\ faults' \in [FaultKind -> Nat]
  <1>1. /\ signalled \in Seq([hb : Heartbeat, by : Stream \cup Unary])
        /\ faults \in [FaultKind -> Nat]
    BY Zenon DEF TypeOK
  <1>2. [hb |-> hb, by |-> sender] \in [hb : Heartbeat, by : Stream \cup Unary]
    OBVIOUS
  <1>3. Append(signalled, [hb |-> hb, by |-> sender])
            \in Seq([hb : Heartbeat, by : Stream \cup Unary])
    BY Zenon, <1>1, <1>2, Joins
  <1>4. \A k \in FaultKind : Happens(k) => faults' \in [FaultKind -> Nat]
    BY Zenon, <1>1, HappensTypes
  <1>5. "failed" \in FaultKind /\ "unanswered" \in FaultKind
    BY Zenon DEF FaultKind
  <1> QED
    BY Zenon, <1>1, <1>3, <1>4, <1>5 DEF Accepted, Failed

(* A step of the dispatching goroutine of stream s.                        *)
LEMMA DispatcherCarries ==
  ASSUME CarriesInv, NEW s \in Stream, Dispatcher(s)
  PROVE  CarriesInv'
  <1>1. TypeOK /\ Carries(s)
    BY Zenon DEF CarriesInv
  <1>2. ASSUME TypeOK', Carries(s)', UNCHANGED <<copies, wire, recv, holds, call, callReq>>,
               \A t \in Stream \ {s} :
                 sigCh'[t] = sigCh[t] /\ dispatch'[t] = dispatch[t] /\ req'[t] = req[t]
        PROVE  CarriesInv'
    <2>1. \A t \in Stream \ {s} : Carries(t)'
      BY Zenon, <1>2, OthersCarry
    <2> QED
      BY Zenon, <1>2, <2>1 DEF CarriesInv
  <1>3. CASE Take(s)
    <2>1. /\ dispatch[s] = "take" /\ sigCh[s] # <<>>
          /\ req' = [req EXCEPT ![s] = Head(sigCh[s])]
          /\ sigCh' = [sigCh EXCEPT ![s] = Tail(@)]
          /\ dispatch' = [dispatch EXCEPT ![s] = "signal"]
          /\ UNCHANGED <<copies, ctx, wire, clusterID, recv, holds, attempt, handler, call, callReq,
                         dedup, streams, signalled, lost, faults>>
      BY Zenon, <1>3 DEF Take, agents, receiver, unary
    <2>2. sigCh[s] \in Seq(Heartbeat) /\ Len(sigCh[s]) <= Capacity /\ Capacity \in Nat
      BY Zenon, <1>1, GatewayAssumption DEF TypeOK
    <2>3. PICK q, h : q = Tail(sigCh[s]) /\ h = Head(sigCh[s])
      BY Zenon
    <2>4. /\ q \in Seq(Heartbeat) /\ h \in Heartbeat /\ Len(sigCh[s]) \in Nat \ {0}
          /\ h = sigCh[s][1] /\ Len(q) = Len(sigCh[s]) - 1
          /\ DOMAIN sigCh[s] = 1..Len(sigCh[s]) /\ DOMAIN q = 1..(Len(sigCh[s]) - 1)
          /\ \A i \in 1..(Len(sigCh[s]) - 1) : q[i] = sigCh[s][i + 1]
      BY Zenon, <2>1, <2>2, <2>3, Leaves
    <2>5. h \in Mine(s) /\ Len(q) <= Capacity /\ \A i \in DOMAIN q : q[i] \in Mine(s)
      <3>1. \A i \in 1..Len(sigCh[s]) : sigCh[s][i] \in Mine(s)
        BY Zenon, <1>1, <2>4 DEF Carries
      <3>2. /\ Len(sigCh[s]) \in Nat \ {0} /\ Len(sigCh[s]) <= Capacity /\ Capacity \in Nat
            /\ Len(q) = Len(sigCh[s]) - 1
        BY Zenon, <2>2, <2>4
      <3>3. /\ 1 \in 1..Len(sigCh[s]) /\ Len(q) <= Capacity
            /\ \A i \in 1..(Len(sigCh[s]) - 1) : i + 1 \in 1..Len(sigCh[s])
        BY <3>2
      <3>4. ASSUME NEW i \in DOMAIN q PROVE q[i] \in Mine(s)
        BY Zenon, <2>4, <3>1, <3>3
      <3> QED
        BY Zenon, <2>4, <3>1, <3>3, <3>4
    <2>6. /\ sigCh' \in [Stream -> Seq(Heartbeat)] /\ sigCh'[s] = q
          /\ req' \in [Stream -> Heartbeat \cup {Nothing}] /\ req'[s] = h
          /\ dispatch' \in [Stream -> {"take", "signal", "backoff", "done"}]
          /\ dispatch'[s] = "signal"
          /\ \A t \in Stream \ {s} : sigCh'[t] = sigCh[t]
      BY <1>1, <2>1, <2>3, <2>4 DEF TypeOK
    <2>7. \A t \in Stream : Len(sigCh'[t]) <= Capacity
      BY Zenon, <1>1, <2>5, <2>6 DEF TypeOK
    <2>8. TypeOK'
      BY Zenon, <1>1, <2>1, <2>6, <2>7 DEF TypeOK
    <2>9. Carries(s)'
      BY <1>1, <2>1, <2>5, <2>6 DEF Carries, Working, Mine
    <2>10. \A t \in Stream \ {s} :
             sigCh'[t] = sigCh[t] /\ dispatch'[t] = dispatch[t] /\ req'[t] = req[t]
      BY <1>1, <2>1, <2>6 DEF TypeOK
    <2> QED
      BY Zenon, <1>2, <2>1, <2>8, <2>9, <2>10
  <1>4. ASSUME dispatch[s] \in {"signal", "backoff"}
        PROVE  req[s] \in Heartbeat /\ req[s] \in Mine(s)
    BY Zenon, <1>1, <1>4 DEF Carries, Working, Mine
  <1>5. Nothing \in Heartbeat \cup {Nothing} /\ Retries \in Nat /\ 0 \in 0..Retries
    BY GatewayAssumption
  <1>6. ASSUME NextRequest(s)
        PROVE  /\ dispatch' \in [Stream -> {"take", "signal", "backoff", "done"}]
               /\ req' \in [Stream -> Heartbeat \cup {Nothing}] /\ attempt' \in [Stream -> 0..Retries]
               /\ dispatch'[s] = "take" /\ req'[s] = Nothing
               /\ \A t \in Stream \ {s} : dispatch'[t] = dispatch[t] /\ req'[t] = req[t]
    BY SMTT(30), <1>1, <1>5, <1>6 DEF NextRequest, TypeOK
  <1>7. CASE Signal(s)
    <2>1. /\ dispatch[s] = "signal" /\ Accepted(s, req[s]) /\ NextRequest(s)
          /\ UNCHANGED <<copies, ctx, wire, clusterID, recv, holds, sigCh, handler, call, callReq,
                         dedup, streams, lost, faults>>
      BY ZenonT(60), <1>7 DEF Signal, agents, receiver, unary
    <2>2. signalled' \in Seq([hb : Heartbeat, by : Stream \cup Unary])
      BY Zenon, <1>1, <1>4, <2>1, SignalTypes
    <2>3. TypeOK'
      BY Zenon, <1>1, <1>6, <2>1, <2>2 DEF TypeOK
    <2>4. Carries(s)'
      BY Zenon, <1>1, <1>6, <2>1 DEF Carries, Working, Mine
    <2> QED
      BY Zenon, <1>2, <1>6, <2>1, <2>3, <2>4
  <1>8. CASE SignalFails(s)
    <2>1. /\ dispatch[s] = "signal" /\ Failed(s, req[s], ctx[s] = "done")
          /\ UNCHANGED <<copies, ctx, wire, clusterID, recv, holds, sigCh, handler, call, callReq,
                         dedup, streams>>
      BY Zenon, <1>8 DEF SignalFails, agents, receiver, unary
    <2>2. /\ signalled' \in Seq([hb : Heartbeat, by : Stream \cup Unary])
          /\ faults' \in [FaultKind -> Nat]
      BY Zenon, <1>1, <1>4, <2>1, SignalTypes
    <2>3. CASE LastAttempt(attempt[s])
      <3>1. NextRequest(s) /\ lost' = lost \cup {req[s]}
        BY Zenon, <1>8, <2>3 DEF SignalFails
      <3>2. TypeOK'
        BY Zenon, <1>1, <1>4, <1>6, <2>1, <2>2, <3>1 DEF TypeOK
      <3>3. Carries(s)'
        BY ZenonT(60), <1>1, <1>6, <2>1, <3>1 DEF Carries, Working, Mine
      <3> QED
        BY Zenon, <1>2, <1>6, <2>1, <3>1, <3>2, <3>3
    <2>4. CASE ~LastAttempt(attempt[s])
      <3>1. /\ dispatch' = [dispatch EXCEPT ![s] = "backoff"]
            /\ attempt' = [attempt EXCEPT ![s] = @ + 1] /\ UNCHANGED <<req, lost>>
        BY Zenon, <1>8, <2>4 DEF SignalFails
      <3>2. attempt[s] \in 0..Retries /\ attempt[s] + 1 \in 0..Retries
        BY <1>1, <1>5, <2>4 DEF TypeOK, LastAttempt
      <3>3. /\ attempt' \in [Stream -> 0..Retries] /\ dispatch'[s] = "backoff"
            /\ dispatch' \in [Stream -> {"take", "signal", "backoff", "done"}]
        BY Zenon, <1>1, <3>1, <3>2 DEF TypeOK
      <3>4. TypeOK'
        BY Zenon, <1>1, <2>1, <2>2, <3>1, <3>3 DEF TypeOK
      <3>5. Carries(s)'
        BY Zenon, <1>1, <2>1, <3>1, <3>3 DEF Carries, Working, Mine
      <3>6. \A t \in Stream \ {s} :
              sigCh'[t] = sigCh[t] /\ dispatch'[t] = dispatch[t] /\ req'[t] = req[t]
        BY Zenon, <1>1, <2>1, <3>1 DEF TypeOK
      <3> QED
        BY Zenon, <1>2, <2>1, <3>4, <3>5, <3>6
    <2> QED
      BY Zenon, <2>3, <2>4
  <1>9. CASE Backoff(s) \/ DispatchEnds(s)
    <2>1. PICK d \in {"signal", "done"} : dispatch' = [dispatch EXCEPT ![s] = d]
      BY Zenon, <1>9 DEF Backoff, DispatchEnds
    <2>2. /\ dispatch[s] = "backoff" \/ (d = "done" /\ dispatch[s] = "take")
          /\ lost' \in {lost, lost \cup {req[s]}} /\ (lost' = lost \/ dispatch[s] = "backoff")
          /\ UNCHANGED <<copies, ctx, wire, clusterID, recv, holds, sigCh, req, attempt, handler, call,
                         callReq, dedup, streams, signalled, faults>>
      <3>1. dispatch \in [Stream -> {"take", "signal", "backoff", "done"}] /\ dispatch'[s] = d
        BY Zenon, <1>1, <2>1 DEF TypeOK
      <3>2. CASE Backoff(s)
        BY Zenon, <3>1, <3>2 DEF Backoff, agents, receiver, unary
      <3>3. CASE DispatchEnds(s)
        BY Zenon, <3>1, <3>3 DEF DispatchEnds, agents, receiver, unary
      <3> QED
        BY Zenon, <1>9, <3>2, <3>3
    <2>3. /\ dispatch' \in [Stream -> {"take", "signal", "backoff", "done"}] /\ dispatch'[s] = d
          /\ \A t \in Stream \ {s} : dispatch'[t] = dispatch[t]
      BY <1>1, <2>1 DEF TypeOK
    <2>4. TypeOK'
      BY ZenonT(60), <1>1, <1>4, <2>2, <2>3 DEF TypeOK
    <2>5. Carries(s)'
      BY Zenon, <1>1, <2>2, <2>3 DEF Carries, Working, Mine
    <2> QED
      BY ZenonT(60), <1>2, <2>2, <2>3, <2>4, <2>5
  <1> QED
    BY Zenon, <1>3, <1>7, <1>8, <1>9 DEF Dispatcher

(* The types of the gateway, and that a stream carries what its own agent  *)
(* sent.                                                                   *)
LEMMA CarriesStep == CarriesInv /\ [Next]_vars => CarriesInv'
  <1> SUFFICES ASSUME CarriesInv, [Next]_vars PROVE CarriesInv'
    BY Zenon
  <1>1. TypeOK
    BY Zenon DEF CarriesInv
  <1>2. ASSUME TypeOK', UNCHANGED <<copies, wire, recv, holds, sigCh, dispatch, req>>,
               \A u \in Unary : call'[u] = "signal" => call[u] = "signal",
               UNCHANGED callReq
        PROVE  CarriesInv'
    <2>1. \A t \in Stream : Carries(t)'
      BY Zenon, <1>2, OthersCarry
    <2> QED
      BY Zenon, <1>2, <2>1 DEF CarriesInv
  <1>3. ASSUME NEW s \in Stream, HandlerReturns(s) PROVE CarriesInv'
    <2>1. /\ handler' = [handler EXCEPT ![s] = "returned"]
          /\ streams' \in {streams, streams \ clusterID[s]}
          /\ UNCHANGED <<copies, ctx, wire, clusterID, recv, holds, sigCh, dispatch, req, attempt, call,
                         callReq, dedup, signalled, lost, faults>>
      BY Zenon, <1>3 DEF HandlerReturns, agents, receiver, dispatcher, unary
    <2>2. TypeOK'
      BY Zenon, <1>1, <2>1 DEF TypeOK
    <2> QED
      BY Zenon, <1>2, <2>1, <2>2
  <1>4. ASSUME NEW u \in Unary, UnarySignal(u) PROVE CarriesInv'
    <2>1. /\ call[u] = "signal"
          /\ UNCHANGED <<copies, ctx, wire, clusterID, recv, holds, sigCh, dispatch, req, attempt,
                         handler, callReq, dedup, streams>>
      BY Zenon, <1>4 DEF UnarySignal, agents, receiver, dispatcher
    <2>2. callReq[u] \in Heartbeat
      BY Zenon, <2>1 DEF CarriesInv
    <2>3. \/ Accepted(u, callReq[u]) /\ UNCHANGED <<lost, faults>>
          \/ Failed(u, callReq[u], FALSE) /\ lost' = lost \cup {callReq[u]}
      BY Zenon, <1>4 DEF UnarySignal
    <2>4. /\ signalled' \in Seq([hb : Heartbeat, by : Stream \cup Unary])
          /\ faults' \in [FaultKind -> Nat] /\ lost' \subseteq Heartbeat
      BY Zenon, <1>1, <2>2, <2>3, SignalTypes DEF TypeOK
    <2>5. PICK d \in {"ok", "error"} : call' = [call EXCEPT ![u] = d]
      BY Zenon, <1>4 DEF UnarySignal
    <2>6. call' \in [Unary -> {"idle", "signal", "ok", "error"}]
      BY Zenon, <1>1, <2>5 DEF TypeOK
    <2>7. TypeOK'
      BY Zenon, <1>1, <2>1, <2>4, <2>6 DEF TypeOK
    <2>8. \A v \in Unary : call'[v] = "signal" => call[v] = "signal"
      BY Zenon, <1>1, <2>5 DEF TypeOK
    <2> QED
      BY Zenon, <1>2, <2>1, <2>7, <2>8
  <1>5. ASSUME NEW c \in Cluster, Prune(c) PROVE CarriesInv'
    <2>1. /\ Happens("forgotten") /\ dedup' = [dedup EXCEPT ![c] = NotSeen]
          /\ UNCHANGED <<copies, ctx, wire, clusterID, recv, holds, sigCh, dispatch, req, attempt,
                         handler, call, callReq, streams, signalled, lost>>
      BY Zenon, <1>5 DEF Prune, agents, receiver, dispatcher, unary
    <2>2. NotSeen \in 0..MaxSeq
      BY GatewayAssumption DEF NotSeen
    <2>3. faults' \in [FaultKind -> Nat]
      BY Zenon, <1>1, <2>1, HappensTypes DEF TypeOK, FaultKind
    <2>4. TypeOK'
      BY Zenon, <1>1, <2>1, <2>2, <2>3 DEF TypeOK
    <2> QED
      BY Zenon, <1>2, <2>1, <2>4
  <1>6. CASE UNCHANGED vars
    <2>1. UNCHANGED <<copies, ctx, wire, clusterID, recv, holds, sigCh, dispatch, req, attempt,
                      handler, call, callReq, dedup, streams, signalled, lost, faults>>
      BY Zenon, <1>6 DEF vars, agents, receiver, dispatcher, unary
    <2>2. TypeOK'
      BY Zenon, <1>1, <2>1 DEF TypeOK
    <2> QED
      BY Zenon, <1>2, <2>1, <2>2
  <1> QED
    BY Zenon, <1>3, <1>4, <1>5, <1>6, AgentCarries, ReceiverCarries, DispatcherCarries DEF Next

LEMMA CarriesBegins == Init => CarriesInv
  <1> SUFFICES ASSUME Init PROVE CarriesInv
    OBVIOUS
  <1>1. /\ \A S : <<>> \in Seq(S)
        /\ Len(<<>>) = 0 /\ DOMAIN <<>> = {}
    BY Zenon, EmptySeq
  <1>2. /\ Capacity \in Nat /\ Retries \in Nat /\ MaxSeq \in Nat /\ MaxCopies \in Nat
    BY Zenon, GatewayAssumption
  <1>3. \A s \in Stream : wire[s] = <<>> /\ sigCh[s] = <<>> /\ clusterID[s] = {}
    BY Zenon DEF Init
  <1>4. TypeOK
    BY <1>1, <1>2, <1>3 DEF Init, TypeOK, NotSeen
  <1>5. \A s \in Stream : Carries(s)
    BY Zenon, <1>1, <1>3 DEF Init, Carries, Working
  <1> QED
    BY Zenon, <1>4, <1>5 DEF Init, CarriesInv

(* Types, and the capacity of sigCh, in every state.                       *)
THEOREM TypesCorrect == Spec => []TypeOK
  <1>1. CarriesInv => TypeOK
    BY Zenon DEF CarriesInv
  <1> QED
    BY <1>1, CarriesBegins, CarriesStep, PTL DEF Spec

-----------------------------------------------------------------------------
(* What becomes of a heartbeat once the deduplicator has let it pass.      *)
In(s, e) ==
    \/ recv[s] = "enqueue" /\ holds[s] = e
    \/ req[s] = e \/ \E i \in DOMAIN sigCh[s] : sigCh[s][i] = e

Here(e) == Signals(e) # {} \/ WithOther(e) \/ e \in lost

LEMMA HereIs ==
  ASSUME NEW e
  PROVE  Here(e) <=> \/ Signals(e) # {} \/ e \in lost
                     \/ \E s \in Stream : In(s, e)
                     \/ \E u \in Unary : call[u] = "signal" /\ callReq[u] = e
  BY Zenon DEF Here, WithOther, In

(* One more signal, or none.                                               *)
SignalsGrow ==
    \/ signalled' = signalled
    \/ \E hb \in Heartbeat, sender \in Stream \cup Unary : Accepted(sender, hb)

LEMMA SignalAppended ==
  ASSUME TypeOK, NEW hb \in Heartbeat, NEW sender \in Stream \cup Unary, Accepted(sender, hb)
  PROVE  /\ Len(signalled) \in Nat /\ DOMAIN signalled = 1..Len(signalled)
         /\ DOMAIN signalled' = 1..(Len(signalled) + 1)
         /\ \A i \in 1..Len(signalled) :
               /\ signalled'[i] = signalled[i]
               /\ signalled[i].hb \in Heartbeat /\ signalled[i].by \in Stream \cup Unary
         /\ signalled'[Len(signalled) + 1].hb = hb /\ signalled'[Len(signalled) + 1].by = sender
  <1> DEFINE S == [hb : Heartbeat, by : Stream \cup Unary]
  <1>1. signalled \in Seq(S)
    BY Zenon DEF TypeOK
  <1>2. PICK e : e = [hb |-> hb, by |-> sender]
    BY Zenon
  <1>3. e \in S /\ e.hb = hb /\ e.by = sender
    BY Zenon, <1>2
  <1>4. signalled' = Append(signalled, e)
    BY Zenon, <1>2 DEF Accepted
  <1>5. \A x \in S : x.hb \in Heartbeat /\ x.by \in Stream \cup Unary
    OBVIOUS
  <1> HIDE DEF S
  <1>6. /\ Len(signalled) \in Nat /\ DOMAIN signalled = 1..Len(signalled)
        /\ DOMAIN Append(signalled, e) = 1..(Len(signalled) + 1)
        /\ \A i \in 1..Len(signalled) :
              /\ Append(signalled, e)[i] = signalled[i]
              /\ signalled[i] \in S
        /\ Append(signalled, e)[Len(signalled) + 1] = e
    BY <1>1, <1>3, Joins
  <1> QED
    BY Zenon, <1>3, <1>4, <1>5, <1>6

LEMMA SignalsStay ==
  ASSUME TypeOK, SignalsGrow, NEW e, Signals(e) # {}
  PROVE  Signals(e)' # {}
  <1>1. PICK i \in DOMAIN signalled : signalled[i].hb = e
    BY Zenon DEF Signals
  <1>2. CASE signalled' = signalled
    BY Zenon, <1>1, <1>2 DEF Signals
  <1>3. ASSUME NEW hb \in Heartbeat, NEW sender \in Stream \cup Unary, Accepted(sender, hb)
        PROVE  Signals(e)' # {}
    <2>1. i \in DOMAIN signalled' /\ signalled'[i] = signalled[i]
      BY <1>1, <1>3, SignalAppended
    <2> QED
      BY Zenon, <1>1, <2>1 DEF Signals
  <1> QED
    BY Zenon, <1>2, <1>3 DEF SignalsGrow

(* A heartbeat just accepted by Temporal.                                  *)
LEMMA SignalCounts ==
  ASSUME TypeOK, NEW hb \in Heartbeat, NEW sender \in Stream \cup Unary, Accepted(sender, hb)
  PROVE  Signals(hb)' # {}
  BY SignalAppended DEF Signals

(* The goroutines of stream s pass a heartbeat on, signal it or give it up.*)
LEMMA StreamPassesOn ==
  ASSUME CarriesInv, NEW s \in Stream, Receiver(s) \/ Dispatcher(s), NEW e \in Heartbeat, In(s, e)
  PROVE  In(s, e)' \/ Signals(e)' # {} \/ e \in lost'
  <1>1. TypeOK /\ Carries(s)
    BY Zenon DEF CarriesInv
  <1>2. CASE Receive(s)
    BY Zenon, <1>1, <1>2 DEF Receive, In, dispatcher, TypeOK
  <1>3. CASE Register(s)
    BY Zenon, <1>1, <1>3 DEF Register, In, dispatcher, TypeOK
  <1>4. CASE DedupReceived(s)
    BY Zenon, <1>1, <1>4 DEF DedupReceived, In, dispatcher, TypeOK
  <1>5. CASE Enqueue(s)
    <2>1. /\ recv[s] = "enqueue" /\ sigCh' = [sigCh EXCEPT ![s] = Append(@, holds[s])]
          /\ UNCHANGED req
      BY Zenon, <1>5 DEF Enqueue, dispatcher
    <2>2. holds[s] \in Heartbeat /\ sigCh[s] \in Seq(Heartbeat) /\ sigCh'[s] = Append(sigCh[s], holds[s])
      BY Zenon, <1>1, <2>1 DEF TypeOK, Carries, Mine
    <2>3. /\ Len(sigCh[s]) \in Nat /\ DOMAIN sigCh[s] = 1..Len(sigCh[s])
          /\ DOMAIN sigCh'[s] = 1..(Len(sigCh[s]) + 1)
          /\ \A i \in 1..Len(sigCh[s]) : sigCh'[s][i] = sigCh[s][i]
          /\ sigCh'[s][Len(sigCh[s]) + 1] = holds[s]
      <3>1. Joined(Heartbeat, sigCh[s], holds[s], sigCh'[s])
        BY Zenon, <2>2, JoinsAs
      <3> QED
        BY Zenon, <3>1 DEF Joined
    <2>4. Len(sigCh[s]) + 1 \in DOMAIN sigCh'[s] /\ DOMAIN sigCh[s] \subseteq DOMAIN sigCh'[s]
      BY SMTT(30), <2>3
    <2> QED
      BY Zenon, <2>1, <2>3, <2>4 DEF In
  <1>6. CASE EnqueueTimesOut(s)
    BY Zenon, <1>1, <1>6 DEF EnqueueTimesOut, In, dispatcher
  <1>7. CASE ReceiveEnds(s)
    BY Zenon, <1>1, <1>7 DEF ReceiveEnds, In, dispatcher, TypeOK
  <1>8. e # Nothing
    <2>1. Len(e) = 2 /\ Len(Nothing) = 0
      BY Zenon DEF Heartbeat, Nothing
    <2> QED
      BY <2>1
  <1>9. CASE Take(s)
    <2>1. /\ dispatch[s] = "take" /\ sigCh[s] # <<>> /\ req' = [req EXCEPT ![s] = Head(sigCh[s])]
          /\ sigCh' = [sigCh EXCEPT ![s] = Tail(@)] /\ UNCHANGED <<recv, holds>>
      BY Zenon, <1>9 DEF Take, receiver
    <2>2. /\ req[s] # e /\ sigCh[s] \in Seq(Heartbeat)
          /\ req'[s] = Head(sigCh[s]) /\ sigCh'[s] = Tail(sigCh[s])
      BY Zenon, <1>1, <1>8, <2>1 DEF TypeOK, Carries
    <2>3. /\ Len(sigCh[s]) \in Nat /\ DOMAIN sigCh[s] = 1..Len(sigCh[s])
          /\ DOMAIN sigCh'[s] = 1..(Len(sigCh[s]) - 1) /\ req'[s] = sigCh[s][1]
          /\ \A i \in 1..(Len(sigCh[s]) - 1) : sigCh'[s][i] = sigCh[s][i + 1]
      <3>1. PICK q : q = sigCh[s]
        OBVIOUS
      <3>2. /\ Len(q) \in Nat \ {0} /\ DOMAIN q = 1..Len(q) /\ Head(q) = q[1]
            /\ DOMAIN Tail(q) = 1..(Len(q) - 1)
            /\ \A i \in 1..(Len(q) - 1) : Tail(q)[i] = q[i + 1]
        BY <2>1, <2>2, <3>1, Leaves
      <3> QED
        BY Zenon, <2>2, <3>1, <3>2
    <2>4. ASSUME NEW i \in DOMAIN sigCh[s], sigCh[s][i] = e PROVE In(s, e)'
      <3>1. CASE i = 1
        BY Zenon, <2>3, <2>4, <3>1 DEF In
      <3>2. CASE i # 1
        <4>1. i - 1 \in DOMAIN sigCh'[s] /\ sigCh'[s][i - 1] = e
          BY SMTT(30), <2>3, <2>4, <3>2
        <4> QED
          BY Zenon, <4>1 DEF In
      <3> QED
        BY Zenon, <3>1, <3>2
    <2> QED
      BY Zenon, <2>1, <2>2, <2>4 DEF In
  <1>10. ASSUME req'[s] = req[s], UNCHANGED <<recv, holds, sigCh>> PROVE In(s, e)'
    BY Zenon, <1>10 DEF In
  <1>11. ASSUME UNCHANGED <<recv, holds, sigCh>>, req[s] # e PROVE In(s, e)'
    BY Zenon, <1>11 DEF In
  <1>12. CASE Signal(s)
    <2>1. UNCHANGED <<recv, holds, sigCh>> /\ Accepted(s, req[s])
      BY Zenon, <1>12 DEF Signal, receiver
    <2>2. req[s] = e => Signals(e)' # {}
      BY Zenon, <1>1, <2>1, SignalCounts
    <2> QED
      BY Zenon, <1>11, <2>1, <2>2
  <1>13. CASE SignalFails(s)
    <2>1. UNCHANGED <<recv, holds, sigCh>>
      BY Zenon, <1>13 DEF SignalFails, receiver
    <2>2. CASE LastAttempt(attempt[s])
      BY Zenon, <1>11, <1>13, <2>1, <2>2 DEF SignalFails
    <2>3. CASE ~LastAttempt(attempt[s])
      BY Zenon, <1>10, <1>13, <2>1, <2>3 DEF SignalFails
    <2> QED
      BY Zenon, <2>2, <2>3
  <1>14. CASE Backoff(s) \/ DispatchEnds(s)
    BY Zenon, <1>10, <1>14 DEF Backoff, DispatchEnds, receiver
  <1> QED
    BY Zenon, <1>2, <1>3, <1>4, <1>5, <1>6, <1>7, <1>9, <1>12, <1>13, <1>14
       DEF Receiver, Dispatcher

(* A step of one goroutine leaves the other streams alone.                 *)
LEMMA OtherStreams ==
  ASSUME CarriesInv, NEW s \in Stream, Receiver(s) \/ Dispatcher(s), NEW t \in Stream \ {s}
  PROVE  /\ wire'[t] = wire[t] /\ recv'[t] = recv[t] /\ holds'[t] = holds[t]
         /\ sigCh'[t] = sigCh[t] /\ dispatch'[t] = dispatch[t] /\ req'[t] = req[t]
  <1>1. TypeOK
    BY Zenon DEF CarriesInv
  <1>2. CASE Receive(s) \/ Register(s) \/ DedupReceived(s)
    BY ZenonT(60), <1>1, <1>2 DEF Receive, Register, DedupReceived, TypeOK, agents, dispatcher
  <1>3. CASE Enqueue(s)
    BY ZenonT(60), <1>1, <1>3 DEF Enqueue, TypeOK, agents, dispatcher
  <1>4. CASE EnqueueTimesOut(s) \/ ReceiveEnds(s)
    BY ZenonT(60), <1>1, <1>4 DEF EnqueueTimesOut, ReceiveEnds, TypeOK, agents, dispatcher
  <1>5. CASE Take(s)
    BY ZenonT(60), <1>1, <1>5 DEF Take, TypeOK, agents, receiver
  <1>6. CASE Signal(s) \/ SignalFails(s)
    <2>1. /\ UNCHANGED <<wire, recv, holds, sigCh>>
          /\ NextRequest(s) \/ (dispatch' = [dispatch EXCEPT ![s] = "backoff"] /\ req' = req)
      BY Zenon, <1>6 DEF Signal, SignalFails, agents, receiver
    <2> QED
      BY ZenonT(60), <1>1, <2>1 DEF NextRequest, TypeOK
  <1>7. CASE Backoff(s) \/ DispatchEnds(s)
    BY Zenon, <1>1, <1>7 DEF Backoff, DispatchEnds, TypeOK, agents, receiver
  <1> QED
    BY ZenonT(60), <1>2, <1>3, <1>4, <1>5, <1>6, <1>7 DEF Receiver, Dispatcher

(* The goroutines of a stream only add to what is signalled and lost, and  *)
(* leave the unary calls and the agents' books alone.                      *)
LEMMA StreamAdds ==
  ASSUME CarriesInv, NEW s \in Stream, Receiver(s) \/ Dispatcher(s)
  PROVE  SignalsGrow /\ lost \subseteq lost' /\ UNCHANGED <<copies, call, callReq>>
  <1>1. TypeOK /\ Carries(s)
    BY Zenon DEF CarriesInv
  <1>2. CASE Receive(s) \/ Register(s) \/ DedupReceived(s)
    BY Zenon, <1>2 DEF Receive, Register, DedupReceived, SignalsGrow, agents, unary
  <1>3. CASE Enqueue(s) \/ EnqueueTimesOut(s) \/ ReceiveEnds(s)
    BY Zenon, <1>3 DEF Enqueue, EnqueueTimesOut, ReceiveEnds, SignalsGrow, agents, unary
  <1>4. CASE Take(s) \/ Backoff(s) \/ DispatchEnds(s)
    BY Zenon, <1>4 DEF Take, Backoff, DispatchEnds, SignalsGrow, agents, unary
  <1>5. CASE Signal(s) \/ SignalFails(s)
    <2>1. req[s] \in Heartbeat
      BY Zenon, <1>1, <1>5 DEF Carries, Working, Mine, Signal, SignalFails
    <2>2. signalled' = signalled \/ Accepted(s, req[s])
      BY Zenon, <1>5 DEF Signal, SignalFails, Failed
    <2>3. SignalsGrow
      BY Zenon, <2>1, <2>2 DEF SignalsGrow
    <2> QED
      BY Zenon, <1>5, <2>3 DEF Signal, SignalFails, agents, unary
  <1> QED
    BY Zenon, <1>2, <1>3, <1>4, <1>5 DEF Receiver, Dispatcher

(* What the deduplicator has let pass is never forgotten without a trace.  *)
LEMMA HereStays ==
  ASSUME CarriesInv, [Next]_vars, NEW e \in Heartbeat, Here(e)
  PROVE  Here(e)'
  <1>1. TypeOK
    BY Zenon DEF CarriesInv
  <1>2. ASSUME SignalsGrow, lost \subseteq lost',
               \A s \in Stream : In(s, e) => In(s, e)' \/ Signals(e)' # {} \/ e \in lost',
               \A u \in Unary : call[u] = "signal" /\ callReq[u] = e =>
                  (call'[u] = "signal" /\ callReq'[u] = e) \/ Signals(e)' # {} \/ e \in lost'
        PROVE  Here(e)'
    <2>1. Here(e)' <=> \/ Signals(e)' # {} \/ e \in lost'
                       \/ \E s \in Stream : In(s, e)'
                       \/ \E u \in Unary : call'[u] = "signal" /\ callReq'[u] = e
      BY Zenon DEF Here, WithOther, In
    <2>2. Signals(e) # {} => Signals(e)' # {}
      BY Zenon, <1>1, <1>2, SignalsStay
    <2> QED
      BY Zenon, <1>2, <2>1, <2>2, HereIs
  <1>3. ASSUME UNCHANGED <<recv, holds, req, sigCh>>, NEW s \in Stream PROVE In(s, e) => In(s, e)'
    BY Zenon, <1>3 DEF In
  <1>4. ASSUME NEW s \in Stream, Receiver(s) \/ Dispatcher(s) PROVE Here(e)'
    <2>1. SignalsGrow /\ lost \subseteq lost' /\ UNCHANGED <<call, callReq>>
      BY Zenon, <1>4, StreamAdds
    <2>2. ASSUME NEW t \in Stream \ {s}, In(t, e) PROVE In(t, e)'
      BY Zenon, <1>4, <2>2, OtherStreams DEF In
    <2>3. In(s, e) => In(s, e)' \/ Signals(e)' # {} \/ e \in lost'
      BY Zenon, <1>4, StreamPassesOn
    <2> QED
      BY Zenon, <1>2, <2>1, <2>2, <2>3
  <1>5. ASSUME UNCHANGED <<recv, holds, req, sigCh, call, callReq, signalled, lost>> PROVE Here(e)'
    BY Zenon, <1>2, <1>3, <1>5 DEF SignalsGrow
  <1>6. ASSUME NEW s \in Stream, Opens(s) \/ Breaks(s) \/ HandlerReturns(s) PROVE Here(e)'
    BY Zenon, <1>5, <1>6 DEF Opens, Breaks, HandlerReturns, receiver, dispatcher, unary
  <1>7. ASSUME NEW s \in Stream, NEW hb \in Heartbeat, Sends(s, hb) PROVE Here(e)'
    BY Zenon, <1>5, <1>7 DEF Sends, receiver, dispatcher, unary
  <1>8. ASSUME NEW u \in Unary, NEW hb \in Heartbeat, UnaryReceive(u, hb) PROVE Here(e)'
    <2>1. /\ call[u] = "idle" /\ callReq' = [callReq EXCEPT ![u] = hb]
          /\ UNCHANGED <<recv, holds, req, sigCh, signalled, lost>>
      BY Zenon, <1>8 DEF UnaryReceive, receiver, dispatcher
    <2>2. PICK d : call' = [call EXCEPT ![u] = d]
      BY ZenonT(60), <1>8 DEF UnaryReceive
    <2>3. \A v \in Unary : call[v] = "signal" => call'[v] = "signal" /\ callReq'[v] = callReq[v]
      BY Zenon, <1>1, <2>1, <2>2 DEF TypeOK
    <2> QED
      BY Zenon, <1>2, <1>3, <2>1, <2>3 DEF SignalsGrow
  <1>9. ASSUME NEW u \in Unary, UnarySignal(u) PROVE Here(e)'
    <2>1. call[u] = "signal" /\ UNCHANGED <<recv, holds, req, sigCh, callReq>>
      BY Zenon, <1>9 DEF UnarySignal, receiver, dispatcher
    <2>2. callReq[u] \in Heartbeat
      BY Zenon, <2>1 DEF CarriesInv
    <2>3. \/ Accepted(u, callReq[u]) /\ UNCHANGED lost
          \/ (signalled' = signalled \/ Accepted(u, callReq[u])) /\ lost' = lost \cup {callReq[u]}
      BY Zenon, <1>9 DEF UnarySignal, Failed
    <2>4. SignalsGrow /\ lost \subseteq lost'
      BY Zenon, <2>2, <2>3 DEF SignalsGrow
    <2>5. Signals(callReq[u])' # {} \/ callReq[u] \in lost'
      <3>1. PICK hb \in Heartbeat : hb = callReq[u]
        BY Zenon, <2>2
      <3>2. Accepted(u, hb) => Signals(hb)' # {}
        BY Zenon, <1>1, SignalCounts
      <3> QED
        BY Zenon, <2>1, <2>3, <3>1, <3>2 DEF Signals
    <2>6. PICK d : call' = [call EXCEPT ![u] = d]
      BY Zenon, <1>9 DEF UnarySignal
    <2>7. \A v \in Unary \ {u} : call'[v] = call[v]
      BY Zenon, <1>1, <2>6 DEF TypeOK
    <2>8. callReq[u] = e => Signals(e)' # {} \/ e \in lost'
      BY Zenon, <2>1, <2>5 DEF Signals
    <2> QED
      BY Zenon, <1>2, <1>3, <2>1, <2>4, <2>7, <2>8
  <1>10. ASSUME NEW c \in Cluster, Prune(c) PROVE Here(e)'
    BY Zenon, <1>5, <1>10 DEF Prune, receiver, dispatcher, unary
  <1>11. CASE UNCHANGED vars
    BY Zenon, <1>5, <1>11 DEF vars, receiver, dispatcher, unary
  <1> QED
    BY Zenon, <1>4, <1>6, <1>7, <1>8, <1>9, <1>10, <1>11 DEF Next, Agent

(* A heartbeat that was sent has been sent for ever.                       *)
LEMMA SentStays ==
  ASSUME CarriesInv, [Next]_vars, NEW e \in Heartbeat, copies[e] > 0
  PROVE  copies'[e] > 0
  <1>1. copies \in [Heartbeat -> 0..MaxCopies] /\ MaxCopies \in Nat
    BY Zenon, GatewayAssumption DEF CarriesInv, TypeOK
  <1>2. ASSUME NEW hb \in Heartbeat, copies' = [copies EXCEPT ![hb] = @ + 1] PROVE copies'[e] > 0
    BY <1>1, <1>2
  <1>3. CASE UNCHANGED copies
    BY Zenon, <1>3
  <1>4. CASE Agent
    BY Zenon, <1>2, <1>3, <1>4 DEF Agent, Opens, Breaks, Sends, UnaryReceive
  <1>5. ASSUME NEW s \in Stream, Receiver(s) \/ Dispatcher(s) PROVE copies'[e] > 0
    BY Zenon, <1>3, <1>5, StreamAdds
  <1>6. CASE \/ \E s \in Stream : HandlerReturns(s)
             \/ \E u \in Unary : UnarySignal(u)
             \/ \E c \in Cluster : Prune(c)
             \/ UNCHANGED vars
    BY Zenon, <1>3, <1>6 DEF HandlerReturns, UnarySignal, Prune, vars, agents
  <1> QED
    BY Zenon, <1>4, <1>5, <1>6 DEF Next

(* The number the deduplicator remembers is that of a heartbeat which was  *)
(* sent, and which is on its way, signalled or given up.                   *)
Recorded ==
    \A c \in Cluster : \A n \in 1..MaxSeq :
        dedup[c] = n => copies[<<c, n>>] > 0 /\ Here(<<c, n>>)

(* The steps that write the deduplicator's memory.                         *)
LEMMA DedupMoves ==
  ASSUME CarriesInv, [Next]_vars
  PROVE  \/ UNCHANGED dedup
         \/ \E c \in Cluster : dedup' = [dedup EXCEPT ![c] = NotSeen]
         \/ \E hb \in Heartbeat :
               /\ dedup' = [dedup EXCEPT ![hb[1]] = hb[2]]
               /\ copies'[hb] > 0 /\ Here(hb)'
  <1>1. TypeOK
    BY Zenon DEF CarriesInv
  <1>2. ASSUME NEW hb, NEW isDuplicate \in BOOLEAN, Dedup(hb, isDuplicate)
        PROVE  UNCHANGED dedup \/ (~isDuplicate /\ dedup' = [dedup EXCEPT ![hb[1]] = hb[2]])
    BY Zenon, <1>2 DEF Dedup, Record
  <1>3. ASSUME NEW s \in Stream, DedupReceived(s)
        PROVE  \/ UNCHANGED dedup
               \/ \E hb \in Heartbeat :
                    dedup' = [dedup EXCEPT ![hb[1]] = hb[2]] /\ copies'[hb] > 0 /\ Here(hb)'
    <2>1. recv[s] = "dedup" /\ UNCHANGED copies
      BY Zenon, <1>3 DEF DedupReceived, agents
    <2>2. holds[s] \in Heartbeat /\ copies[holds[s]] > 0
      BY Zenon, <2>1 DEF CarriesInv, Carries, Mine
    <2>3. PICK isDuplicate \in BOOLEAN :
            /\ Dedup(holds[s], isDuplicate)
            /\ recv' = [recv EXCEPT ![s] = IF isDuplicate THEN "receive" ELSE "enqueue"]
            /\ holds' = [holds EXCEPT ![s] = IF isDuplicate THEN Nothing ELSE @]
      BY Zenon, <1>3 DEF DedupReceived
    <2>4. CASE ~isDuplicate
      <3>1. PICK hb \in Heartbeat : hb = holds[s]
        BY Zenon, <2>2
      <3>2. recv'[s] = "enqueue" /\ holds'[s] = hb
        BY Zenon, <1>1, <2>3, <2>4, <3>1 DEF TypeOK
      <3>3. Here(hb)'
        BY Zenon, <3>2 DEF Here, WithOther
      <3>4. Dedup(hb, isDuplicate)
        BY Zenon, <2>3, <3>1
      <3>5. copies'[hb] > 0
        BY Zenon, <2>1, <2>2, <3>1
      <3> QED
        BY Zenon, <1>2, <3>3, <3>4, <3>5
    <2>5. CASE isDuplicate
      BY Zenon, <1>2, <2>3, <2>5
    <2> QED
      BY Zenon, <2>4, <2>5
  <1>4. ASSUME NEW u \in Unary, NEW hb \in Heartbeat, UnaryReceive(u, hb)
        PROVE  \/ UNCHANGED dedup
               \/ dedup' = [dedup EXCEPT ![hb[1]] = hb[2]] /\ copies'[hb] > 0 /\ Here(hb)'
    <2>1. PICK isDuplicate \in BOOLEAN :
            Dedup(hb, isDuplicate) /\ call' = [call EXCEPT ![u] = IF isDuplicate THEN "ok" ELSE "signal"]
      BY Zenon, <1>4 DEF UnaryReceive
    <2>2. copies' = [copies EXCEPT ![hb] = @ + 1] /\ callReq' = [callReq EXCEPT ![u] = hb]
      BY Zenon, <1>4 DEF UnaryReceive
    <2>3. copies'[hb] > 0 /\ callReq'[u] = hb
      BY <1>1, <2>2, GatewayAssumption DEF TypeOK
    <2>4. ~isDuplicate => call'[u] = "signal"
      BY Zenon, <1>1, <2>1 DEF TypeOK
    <2>5. ~isDuplicate => Here(hb)'
      BY Zenon, <2>3, <2>4 DEF Here, WithOther
    <2> QED
      BY Zenon, <1>2, <2>1, <2>3, <2>5
  <1>5. CASE \/ \E s \in Stream : Opens(s) \/ Breaks(s) \/ HandlerReturns(s)
             \/ \E s \in Stream, hb \in Heartbeat : Sends(s, hb)
             \/ \E u \in Unary : UnarySignal(u)
             \/ UNCHANGED vars
    BY Zenon, <1>5 DEF Opens, Breaks, HandlerReturns, Sends, UnarySignal, vars
  <1>6. ASSUME NEW s \in Stream, Receiver(s), ~DedupReceived(s) PROVE UNCHANGED dedup
    BY Zenon, <1>6 DEF Receiver, Receive, Register, Enqueue, EnqueueTimesOut, ReceiveEnds
  <1>7. ASSUME NEW s \in Stream, Dispatcher(s) PROVE UNCHANGED dedup
    BY Zenon, <1>7 DEF Dispatcher, Take, Signal, SignalFails, Backoff, DispatchEnds
  <1>8. ASSUME NEW c \in Cluster, Prune(c) PROVE dedup' = [dedup EXCEPT ![c] = NotSeen]
    BY Zenon, <1>8 DEF Prune
  <1> QED
    BY Zenon, <1>3, <1>4, <1>5, <1>6, <1>7, <1>8 DEF Next, Agent

LEMMA RecordedStep == CarriesInv /\ Recorded /\ [Next]_vars => Recorded'
  <1> SUFFICES ASSUME CarriesInv, Recorded, [Next]_vars,
                      NEW c \in Cluster, NEW n \in 1..MaxSeq, dedup'[c] = n
               PROVE  copies'[<<c, n>>] > 0 /\ Here(<<c, n>>)'
    BY Zenon DEF Recorded
  <1>1. <<c, n>> \in Heartbeat /\ dedup \in [Cluster -> 0..MaxSeq]
    BY Zenon DEF Heartbeat, CarriesInv, TypeOK
  <1>2. CASE dedup[c] = n
    <2>1. copies[<<c, n>>] > 0 /\ Here(<<c, n>>)
      BY ZenonT(60), <1>2 DEF Recorded
    <2> QED
      BY Zenon, <1>1, <2>1, SentStays, HereStays
  <1>3. CASE dedup[c] # n
    <2>1. ASSUME NEW d \in Cluster, dedup' = [dedup EXCEPT ![d] = NotSeen] PROVE FALSE
      BY SMTT(30), <1>1, <1>3, <2>1 DEF NotSeen
    <2>2. PICK hb \in Heartbeat :
            dedup' = [dedup EXCEPT ![hb[1]] = hb[2]] /\ copies'[hb] > 0 /\ Here(hb)'
      BY Zenon, <1>3, <2>1, DedupMoves
    <2>3. hb[1] = c /\ hb[2] = n
      BY Zenon, <1>1, <1>3, <2>2
    <2>4. hb = <<c, n>>
      BY <2>3 DEF Heartbeat
    <2> QED
      BY Zenon, <2>2, <2>4
  <1> QED
    BY Zenon, <1>2, <1>3

LEMMA RecordedBegins == Init => Recorded
  BY SMTT(30) DEF Init, Recorded, NotSeen

(* A heartbeat that is turned away has the deduplicator's number, or a     *)
(* lower one.                                                              *)
LEMMA TurnedAwayIs ==
  ASSUME CarriesInv, [Next]_vars, NEW hb \in TurnedAway
  PROVE  hb \in Heartbeat /\ IsDuplicate(hb)
  <1>1. TypeOK
    BY Zenon DEF CarriesInv
  <1>2. ASSUME NEW e, Dedup(e, TRUE) PROVE IsDuplicate(e)
    BY Zenon, <1>2 DEF Dedup
  <1>3. ASSUME NEW q \in Stream, recv[q] = "dedup", recv'[q] = "receive"
        PROVE  holds[q] \in Heartbeat /\ IsDuplicate(holds[q])
    <2>1. holds[q] \in Heartbeat
      BY Zenon, <1>3 DEF CarriesInv, Carries, Mine
    <2>2. DedupReceived(q)
      <3>1. ASSUME UNCHANGED recv PROVE FALSE
        BY Zenon, <1>3, <3>1
      <3>2. ASSUME NEW s \in Stream, Receiver(s) \/ Dispatcher(s) PROVE DedupReceived(q)
        <4>1. s = q
          BY Zenon, <1>3, <3>2, OtherStreams
        <4>2. ~Dispatcher(q)
          BY Zenon, <3>1 DEF Dispatcher, Take, Signal, SignalFails, Backoff, DispatchEnds, receiver
        <4> QED
          BY Zenon, <1>3, <3>2, <4>1, <4>2
             DEF Receiver, Receive, Register, Enqueue, EnqueueTimesOut, ReceiveEnds
      <3> QED
        BY Zenon, <3>1, <3>2 DEF Next, Agent, Opens, Breaks, Sends, UnaryReceive, HandlerReturns,
                          UnarySignal, Prune, vars, receiver
    <2>3. PICK isDuplicate \in BOOLEAN :
            /\ Dedup(holds[q], isDuplicate)
            /\ recv' = [recv EXCEPT ![q] = IF isDuplicate THEN "receive" ELSE "enqueue"]
      BY Zenon, <2>2 DEF DedupReceived
    <2>4. isDuplicate = TRUE
      BY Zenon, <1>1, <1>3, <2>3 DEF TypeOK
    <2> QED
      BY Zenon, <1>2, <2>1, <2>3, <2>4
  <1>4. ASSUME NEW v \in Unary, call[v] = "idle", call'[v] = "ok"
        PROVE  callReq'[v] \in Heartbeat /\ IsDuplicate(callReq'[v])
    <2>1. ASSUME UNCHANGED call PROVE FALSE
      BY Zenon, <1>4, <2>1
    <2>2. ASSUME NEW s \in Stream, Receiver(s) \/ Dispatcher(s) PROVE FALSE
      BY Zenon, <2>1, <2>2, StreamAdds
    <2>3. ASSUME NEW u \in Unary, UnarySignal(u) PROVE FALSE
      <3>1. call[u] = "signal" /\ \E d : call' = [call EXCEPT ![u] = d]
        BY Zenon, <2>3 DEF UnarySignal
      <3> QED
        BY Zenon, <1>1, <1>4, <3>1 DEF TypeOK
    <2>4. PICK u \in Unary, e \in Heartbeat : UnaryReceive(u, e)
      BY Zenon, <2>1, <2>2, <2>3
         DEF Next, Agent, Opens, Breaks, Sends, HandlerReturns, Prune, vars, unary
    <2>5. PICK isDuplicate \in BOOLEAN :
            Dedup(e, isDuplicate) /\ call' = [call EXCEPT ![u] = IF isDuplicate THEN "ok" ELSE "signal"]
      BY Zenon, <2>4 DEF UnaryReceive
    <2>6. u = v /\ isDuplicate = TRUE
      BY Zenon, <1>1, <1>4, <2>5 DEF TypeOK
    <2>7. callReq'[v] = e
      BY Zenon, <1>1, <2>4, <2>6 DEF UnaryReceive, TypeOK
    <2>8. IsDuplicate(e)
      BY Zenon, <1>2, <2>5, <2>6
    <2> QED
      BY Zenon, <2>7, <2>8
  <1> QED
    BY Zenon, <1>3, <1>4 DEF TurnedAway

(* Whatever number of streams and calls race, whatever is resent and       *)
(* whatever the deduplicator forgets or misses: a heartbeat that it        *)
(* rejects (dedup.go, heartbeat_handler.go) was signalled, is with another *)
(* goroutine, was given up, or a later one of its cluster went ahead.      *)
THEOREM RejectionsJustified == Spec => RejectedWasHere
  <1> DEFINE Justified ==
        \A hb \in TurnedAway : Signals(hb) # {} \/ WithOther(hb) \/ hb \in lost \/ Overtaken(hb)
  <1>1. ASSUME CarriesInv, Recorded, [Next]_vars PROVE Justified
    <2> SUFFICES ASSUME NEW hb \in TurnedAway PROVE Here(hb) \/ Overtaken(hb)
      BY Zenon DEF Here
    <2>1. hb \in Heartbeat /\ IsDuplicate(hb)
      BY Zenon, <1>1, TurnedAwayIs
    <2>2. PICK c \in Cluster, m \in 1..MaxSeq : hb = <<c, m>>
      BY <2>1 DEF Heartbeat
    <2>3. PICK n : n = dedup[c]
      OBVIOUS
    <2>4. n \in 1..MaxSeq /\ m <= n
      <3>1. n \in 0..MaxSeq /\ MaxSeq \in Nat
        BY Zenon, <1>1, <2>3, GatewayAssumption DEF CarriesInv, TypeOK
      <3>2. m <= n
        BY Zenon, <2>1, <2>2, <2>3 DEF IsDuplicate
      <3> QED
        BY <3>1, <3>2
    <2>5. copies[<<c, n>>] > 0 /\ Here(<<c, n>>) /\ <<c, n>> \in Heartbeat
      BY Zenon, <1>1, <2>3, <2>4 DEF Recorded, Heartbeat
    <2>6. CASE m = n
      BY Zenon, <2>2, <2>5, <2>6
    <2>7. CASE m < n
      BY Zenon, <2>2, <2>5, <2>7 DEF Overtaken
    <2> QED
      BY <2>4, <2>6, <2>7
  <1>2. CarriesInv /\ Recorded /\ [Next]_vars => [Justified]_vars
    BY Zenon, <1>1
  <1> QED
    BY <1>2, CarriesBegins, CarriesStep, RecordedBegins, RecordedStep, PTL DEF Spec, RejectedWasHere

-----------------------------------------------------------------------------
(* The order in which a stream's heartbeats are signalled.                 *)
(*                                                                         *)
(* StreamKeepsOrder speaks of the signals alone and is not inductive.      *)
(* Ordered puts the places a heartbeat of a stream goes through on one     *)
(* chain of numbers: the signals already sent, the request being           *)
(* dispatched, the channel from its head to its tail, the message about to *)
(* be queued, and the number the deduplicator remembers.                   *)


Calm == faults["forgotten"] + faults["unavailable"] = 0

(* The numbers of stream s that n does not exceed: what the deduplicator   *)
(* remembers, what the receiving goroutine has let pass, what is queued.   *)
Ahead(s, n) == n <= dedup[ClusterOf[s]] /\ (recv[s] = "enqueue" => n <= holds[s][2])

Waits(s, n) == Ahead(s, n) /\ \A k \in DOMAIN sigCh[s] : n <= sigCh[s][k][2]

Ordered(s) ==
    /\ recv[s] = "enqueue" => holds[s][2] <= dedup[ClusterOf[s]]
    /\ \A k \in DOMAIN sigCh[s] : Ahead(s, sigCh[s][k][2])
    /\ \A j, k \in DOMAIN sigCh[s] : j < k => sigCh[s][j][2] <= sigCh[s][k][2]
    /\ Working(s) => Waits(s, req[s][2])
    /\ \A i \in DOMAIN signalled : signalled[i].by = s =>
          Waits(s, signalled[i].hb[2]) /\ (Working(s) => signalled[i].hb[2] <= req[s][2])

(* A unary call signals at most once.                                      *)
SignalsOnce(u) ==
    /\ call[u] \in {"idle", "signal"} => \A i \in DOMAIN signalled : signalled[i].by # u
    /\ \A i, j \in DOMAIN signalled : signalled[i].by = u /\ signalled[j].by = u => i = j

InSequence ==
    \A i, j \in DOMAIN signalled :
        i < j /\ signalled[i].by = signalled[j].by => signalled[i].hb[2] <= signalled[j].hb[2]

OrderInv ==
    /\ CarriesInv
    /\ \A u \in Unary : SignalsOnce(u)
    /\ Calm => InSequence /\ \A s \in Stream : Ordered(s)

(* Numbers are numbers.                                                    *)
LEMMA Numbers ==
  ASSUME CarriesInv, NEW s \in Stream
  PROVE  /\ dedup[ClusterOf[s]] \in Int
         /\ recv[s] \in {"register", "dedup", "enqueue"} =>
              holds[s][2] \in Int /\ holds[s][1] = ClusterOf[s] /\ holds[s] \in Heartbeat
         /\ \A k \in DOMAIN sigCh[s] : sigCh[s][k][2] \in Int
         /\ Working(s) => req[s][2] \in Int /\ req[s] \in Heartbeat
         /\ \A i \in DOMAIN signalled : signalled[i].hb[2] \in Int
  <1>1. TypeOK /\ Carries(s)
    BY Zenon DEF CarriesInv
  <1>2. \A e \in Heartbeat : e[2] \in Int
    BY GatewayAssumption DEF Heartbeat
  <1>3. \A e \in Mine(s) : e \in Heartbeat /\ e[1] = ClusterOf[s]
    BY Zenon DEF Mine
  <1>4. ClusterOf[s] \in Cluster /\ dedup[ClusterOf[s]] \in Int
    BY <1>1, GatewayAssumption DEF TypeOK
  <1>5. \A i \in DOMAIN signalled : signalled[i].hb \in Heartbeat
    <2> DEFINE S == [hb : Heartbeat, by : Stream \cup Unary]
    <2>1. signalled \in Seq(S) /\ \A x \in S : x.hb \in Heartbeat
      BY Zenon, <1>1 DEF TypeOK
    <2> HIDE DEF S
    <2>2. DOMAIN signalled = 1..Len(signalled)
      BY Zenon, <2>1, LenProperties
    <2>3. \A i \in 1..Len(signalled) : signalled[i] \in S
      BY Zenon, <2>1, ElementOfSeq
    <2> QED
      BY Zenon, <2>1, <2>2, <2>3
  <1> QED
    BY Zenon, <1>1, <1>2, <1>3, <1>4, <1>5 DEF Carries

(* Stream s has no more signals than before.                               *)
NoMoreBy(s) ==
    \A i \in DOMAIN signalled' : signalled'[i].by = s =>
        i \in DOMAIN signalled /\ signalled'[i] = signalled[i]

(* A stream that a step does not touch stays in order when the memory of   *)
(* the deduplicator only grows.                                            *)
LEMMA OthersOrdered ==
  ASSUME CarriesInv, CarriesInv', NEW t \in Stream, Ordered(t), NoMoreBy(t),
         /\ recv'[t] = recv[t] /\ holds'[t] = holds[t] /\ sigCh'[t] = sigCh[t]
         /\ dispatch'[t] = dispatch[t] /\ req'[t] = req[t],
         dedup[ClusterOf[t]] <= dedup'[ClusterOf[t]]
  PROVE  Ordered(t)'
  <1>1. dedup[ClusterOf[t]] \in Int /\ dedup'[ClusterOf[t]] \in Int
    BY Numbers, GatewayAssumption DEF CarriesInv, TypeOK
  <1>2. /\ recv[t] = "enqueue" => holds[t][2] \in Int
        /\ \A k \in DOMAIN sigCh[t] : sigCh[t][k][2] \in Int
        /\ Working(t) => req[t][2] \in Int
        /\ \A i \in DOMAIN signalled : signalled[i].hb[2] \in Int
    BY Zenon, Numbers
  <1>3. ASSUME NEW n \in Int PROVE Waits(t, n) => Waits(t, n)'
    BY <1>1 DEF Waits, Ahead
  <1>4. ASSUME NEW n \in Int PROVE Ahead(t, n) => Ahead(t, n)'
    BY <1>1 DEF Ahead
  <1>5. recv'[t] = "enqueue" => holds'[t][2] <= dedup'[ClusterOf[t]]
    BY <1>1, <1>2 DEF Ordered
  <1>6. \A k \in DOMAIN sigCh'[t] : Ahead(t, sigCh[t][k][2])'
    BY <1>1, <1>2 DEF Ordered, Ahead
  <1>7. Working(t)' => Waits(t, req[t][2])'
    BY <1>1, <1>2 DEF Ordered, Working, Waits, Ahead
  <1>8. ASSUME NEW i \in DOMAIN signalled', signalled'[i].by = t
        PROVE  Waits(t, signalled[i].hb[2])' /\ (Working(t)' => signalled'[i].hb[2] <= req'[t][2])
    <2>1. i \in DOMAIN signalled /\ signalled'[i] = signalled[i] /\ signalled[i].by = t
      BY Zenon, <1>8 DEF NoMoreBy
    <2> QED
      BY <1>1, <1>2, <2>1 DEF Ordered, Working, Waits, Ahead
  <1> QED
    BY Zenon, <1>5, <1>6, <1>7, <1>8 DEF Ordered

(* Forgotten and missed numbers are counted for ever.                      *)
LEMMA CalmBefore ==
  ASSUME CarriesInv, [Next]_vars, Calm'
  PROVE  Calm /\ ~Happens("forgotten") /\ ~Happens("unavailable")
  <1>1. faults \in [FaultKind -> Nat] /\ TypeOK
    BY Zenon DEF CarriesInv, TypeOK
  <1>2. faults["forgotten"] \in Nat /\ faults["unavailable"] \in Nat
    BY Zenon, <1>1 DEF FaultKind
  <1>3. ASSUME NEW k \in FaultKind, Happens(k)
        PROVE  Calm /\ k \notin {"forgotten", "unavailable"}
    <2>1. /\ faults' = [faults EXCEPT ![k] = faults[k] + 1] /\ faults[k] \in Nat
          /\ faults' \in [FaultKind -> Nat]
      BY <1>1, <1>3 DEF Happens
    <2>2. faults'["forgotten"] \in Nat /\ faults'["unavailable"] \in Nat
      BY Zenon, <2>1 DEF FaultKind
    <2>3. faults'["forgotten"] = 0 /\ faults'["unavailable"] = 0
      BY <2>2 DEF Calm
    <2> QED
      BY <1>1, <1>2, <2>1, <2>3 DEF Calm, FaultKind
  <1>4. ASSUME \/ UNCHANGED faults \/ \E k \in FaultKind : Happens(k) PROVE Calm
    BY Zenon, <1>3, <1>4 DEF Calm
  <1>5. {"failed", "unanswered", "forgotten", "unavailable"} = FaultKind
    BY Zenon DEF FaultKind
  <1>6. ASSUME NEW hb, NEW isDuplicate, Dedup(hb, isDuplicate)
        PROVE  UNCHANGED faults \/ \E k \in FaultKind : Happens(k)
    BY Zenon, <1>5, <1>6 DEF Dedup
  <1>7. ASSUME NEW sender, NEW hb, NEW cancelled, Failed(sender, hb, cancelled)
        PROVE  UNCHANGED faults \/ \E k \in FaultKind : Happens(k)
    BY Zenon, <1>5, <1>7 DEF Failed
  <1>8. UNCHANGED faults \/ \E k \in FaultKind : Happens(k)
    <2>1. CASE Agent
      BY Zenon, <1>6, <2>1 DEF Agent, Opens, Breaks, Sends, UnaryReceive
    <2>2. ASSUME NEW s \in Stream, Receiver(s)
          PROVE  UNCHANGED faults \/ \E k \in FaultKind : Happens(k)
      BY Zenon, <1>6, <2>2 DEF Receiver, Receive, Register, DedupReceived, Enqueue, EnqueueTimesOut,
                        ReceiveEnds
    <2>3. ASSUME NEW s \in Stream, Dispatcher(s)
          PROVE  UNCHANGED faults \/ \E k \in FaultKind : Happens(k)
      BY Zenon, <1>7, <2>3 DEF Dispatcher, Take, Signal, SignalFails, Backoff, DispatchEnds
    <2>4. ASSUME NEW u \in Unary, UnarySignal(u)
          PROVE  UNCHANGED faults \/ \E k \in FaultKind : Happens(k)
      BY Zenon, <1>7, <2>4 DEF UnarySignal
    <2>5. CASE \/ \E s \in Stream : HandlerReturns(s)
               \/ \E c \in Cluster : Prune(c)
               \/ UNCHANGED vars
      BY Zenon, <1>5, <2>5 DEF HandlerReturns, Prune, vars
    <2> QED
      BY Zenon, <2>1, <2>2, <2>3, <2>4, <2>5 DEF Next
  <1> QED
    BY Zenon, <1>3, <1>4, <1>5, <1>8

(* A step that signals nothing.                                            *)
LEMMA QuietStep ==
  ASSUME OrderInv, CarriesInv', [Next]_vars, UNCHANGED signalled,
         \A u \in Unary : call'[u] \in {"idle", "signal"} => call[u] \in {"idle", "signal"},
         Calm' => \A s \in Stream : Ordered(s) => Ordered(s)'
  PROVE  OrderInv'
  <1>1. Calm' => Calm
    BY Zenon, CalmBefore DEF OrderInv
  <1>2. \A u \in Unary : SignalsOnce(u)'
    BY Zenon DEF OrderInv, SignalsOnce
  <1>3. Calm' => InSequence'
    BY Zenon, <1>1 DEF OrderInv, InSequence
  <1> QED
    BY Zenon, <1>1, <1>2, <1>3 DEF OrderInv

(* A step that does not touch the streams nor the deduplicator.            *)
LEMMA IdleStep ==
  ASSUME OrderInv, CarriesInv', [Next]_vars,
         UNCHANGED <<recv, holds, sigCh, dispatch, req, call, dedup, signalled>>
  PROVE  OrderInv'
  <1>1. CarriesInv
    BY Zenon DEF OrderInv
  <1>2. \A s \in Stream : dedup[ClusterOf[s]] \in Int /\ NoMoreBy(s)
    BY Zenon, <1>1, Numbers DEF NoMoreBy
  <1>3. \A s \in Stream : Ordered(s) => Ordered(s)'
    BY <1>1, <1>2, OthersOrdered
  <1> QED
    BY Zenon, <1>3, QuietStep

(* In calm, one call of the deduplicator records a new number or none.     *)
LEMMA CalmDedup ==
  ASSUME TypeOK, ~Happens("unavailable"), NEW hb \in Heartbeat, NEW isDuplicate,
         Dedup(hb, isDuplicate)
  PROVE  /\ isDuplicate => UNCHANGED dedup
         /\ ~isDuplicate => dedup[hb[1]] < hb[2] /\ dedup' = [dedup EXCEPT ![hb[1]] = hb[2]]
         /\ \A c \in Cluster : dedup[c] <= dedup'[c]
  <1>1. dedup \in [Cluster -> 0..MaxSeq] /\ hb[1] \in Cluster /\ hb[2] \in 1..MaxSeq
    BY Zenon DEF TypeOK, Heartbeat
  <1>2. isDuplicate = IsDuplicate(hb) /\ Record(hb)
    BY Zenon DEF Dedup
  <1>3. MaxSeq \in Nat /\ \A c \in Cluster : dedup[c] \in Int
    BY <1>1, GatewayAssumption
  <1>4. CASE IsDuplicate(hb)
    BY <1>2, <1>3, <1>4 DEF Record
  <1>5. CASE ~IsDuplicate(hb)
    <2>1. dedup[hb[1]] < hb[2] /\ dedup' = [dedup EXCEPT ![hb[1]] = hb[2]]
      BY <1>1, <1>2, <1>3, <1>5 DEF Record, IsDuplicate
    <2> QED
      BY <1>1, <1>2, <1>3, <1>5, <2>1
  <1> QED
    BY Zenon, <1>4, <1>5

(* What a goroutine of stream s must show: its own stream stays in order.  *)
LEMMA StreamQuietStep ==
  ASSUME OrderInv, CarriesInv', [Next]_vars, UNCHANGED signalled, NEW s \in Stream,
         Receiver(s) \/ Dispatcher(s),
         Calm' => /\ \A c \in Cluster : dedup[c] <= dedup'[c]
                  /\ Ordered(s) => Ordered(s)'
  PROVE  OrderInv'
  <1>1. CarriesInv
    BY Zenon DEF OrderInv
  <1>2. UNCHANGED call
    BY Zenon, <1>1, StreamAdds
  <1>3. ASSUME Calm', NEW t \in Stream \ {s}, Ordered(t) PROVE Ordered(t)'
    <2>1. /\ recv'[t] = recv[t] /\ holds'[t] = holds[t] /\ sigCh'[t] = sigCh[t]
          /\ dispatch'[t] = dispatch[t] /\ req'[t] = req[t]
      BY Zenon, <1>1, OtherStreams
    <2>2. NoMoreBy(t) /\ dedup[ClusterOf[t]] <= dedup'[ClusterOf[t]]
      BY Zenon, <1>3, GatewayAssumption DEF NoMoreBy
    <2> QED
      BY Zenon, <1>1, <1>3, <2>1, <2>2, OthersOrdered
  <1> QED
    BY Zenon, <1>2, <1>3, QuietStep

LEMMA ReceiverKeepsOrder ==
  ASSUME OrderInv, CarriesInv', [Next]_vars, NEW s \in Stream, Receiver(s)
  PROVE  OrderInv'
  <1>1. CarriesInv /\ TypeOK /\ Carries(s)
    BY Zenon DEF OrderInv, CarriesInv
  <1>2. /\ dedup[ClusterOf[s]] \in Int
        /\ recv[s] \in {"register", "dedup", "enqueue"} =>
             holds[s][2] \in Int /\ holds[s][1] = ClusterOf[s] /\ holds[s] \in Heartbeat
        /\ \A k \in DOMAIN sigCh[s] : sigCh[s][k][2] \in Int
        /\ Working(s) => req[s][2] \in Int
        /\ \A i \in DOMAIN signalled : signalled[i].hb[2] \in Int
    BY Zenon, <1>1, Numbers
  <1>3. UNCHANGED <<signalled, dispatch, req>>
    BY Zenon DEF Receiver, Receive, Register, DedupReceived, Enqueue, EnqueueTimesOut, ReceiveEnds,
           dispatcher
  <1>4. \A c \in Cluster : dedup[c] \in Int
    BY <1>1, GatewayAssumption DEF TypeOK
  <1>5. ASSUME UNCHANGED <<sigCh, dedup>>, recv'[s] # "enqueue" PROVE OrderInv'
    <2>1. Ordered(s) => Ordered(s)'
      BY ZenonT(60), <1>3, <1>5 DEF Ordered, Ahead, Waits, Working
    <2> QED
      BY <1>3, <1>4, <1>5, <2>1, StreamQuietStep
  <1>6. CASE Receive(s) \/ Register(s) \/ EnqueueTimesOut(s) \/ ReceiveEnds(s)
    BY <1>1, <1>5, <1>6 DEF Receive, Register, EnqueueTimesOut, ReceiveEnds, TypeOK
  <1>7. CASE DedupReceived(s)
    <2>1. PICK isDuplicate \in BOOLEAN :
            /\ Dedup(holds[s], isDuplicate)
            /\ recv' = [recv EXCEPT ![s] = IF isDuplicate THEN "receive" ELSE "enqueue"]
            /\ holds' = [holds EXCEPT ![s] = IF isDuplicate THEN Nothing ELSE @]
      BY Zenon, <1>7 DEF DedupReceived
    <2>2. recv[s] = "dedup" /\ UNCHANGED sigCh
      BY Zenon, <1>7 DEF DedupReceived
    <2>3. PICK hb \in Heartbeat : hb = holds[s] /\ hb[1] = ClusterOf[s] /\ hb[2] \in Int
      BY Zenon, <1>2, <2>2
    <2>4. ASSUME Calm'
          PROVE  /\ isDuplicate => UNCHANGED dedup
                 /\ ~isDuplicate => dedup[hb[1]] < hb[2] /\ dedup' = [dedup EXCEPT ![hb[1]] = hb[2]]
                 /\ \A c \in Cluster : dedup[c] <= dedup'[c]
      <3>1. ~Happens("unavailable")
        BY Zenon, <1>1, <2>4, CalmBefore
      <3>2. Dedup(hb, isDuplicate)
        BY Zenon, <2>1, <2>3
      <3> QED
        BY Zenon, <1>1, <3>1, <3>2, CalmDedup
    <2>5. ASSUME Calm', Ordered(s) PROVE Ordered(s)'
      <3>1. CASE isDuplicate
        <4>1. recv'[s] = "receive" /\ UNCHANGED dedup
          BY ZenonT(60), <1>1, <2>1, <2>4, <2>5, <3>1 DEF TypeOK
        <4> QED
          BY Zenon, <1>3, <2>2, <2>5, <4>1 DEF Ordered, Ahead, Waits, Working
      <3>2. CASE ~isDuplicate
        <4>1. /\ recv'[s] = "enqueue" /\ holds'[s] = hb
              /\ dedup[ClusterOf[s]] < hb[2] /\ dedup'[ClusterOf[s]] = hb[2]
          <5>1. recv'[s] = "enqueue" /\ holds'[s] = hb
            BY Zenon, <1>1, <2>1, <2>3, <3>2 DEF TypeOK
          <5>2. dedup[hb[1]] < hb[2] /\ dedup' = [dedup EXCEPT ![hb[1]] = hb[2]]
            BY Zenon, <2>4, <2>5, <3>2
          <5>3. dedup \in [Cluster -> 0..MaxSeq] /\ ClusterOf[s] \in Cluster
            BY Zenon, <1>1, GatewayAssumption DEF TypeOK
          <5> QED
            BY Zenon, <2>3, <5>1, <5>2, <5>3
        <4>2. \A n \in Int : n <= dedup[ClusterOf[s]] => n <= hb[2]
          BY <1>2, <2>3, <4>1
        <4> QED
          <5>1. \A n \in Int : Ahead(s, n) => Ahead(s, n)'
            BY Zenon, <4>1, <4>2 DEF Ahead
          <5>2. hb[2] <= dedup'[ClusterOf[s]]
            BY <2>3, <4>1
          <5> QED
            BY ZenonT(60), <1>2, <1>3, <2>2, <2>3, <2>5, <4>1, <5>1, <5>2
               DEF Ordered, Waits, Working
      <3> QED
        BY Zenon, <3>1, <3>2
    <2> QED
      BY Zenon, <1>3, <2>4, <2>5, StreamQuietStep
  <1>8. CASE Enqueue(s)
    <2>1. /\ recv[s] = "enqueue" /\ sigCh' = [sigCh EXCEPT ![s] = Append(@, holds[s])]
          /\ recv' = [recv EXCEPT ![s] = "receive"] /\ UNCHANGED dedup
      BY Zenon, <1>8 DEF Enqueue
    <2>2. /\ holds[s] \in Heartbeat /\ sigCh[s] \in Seq(Heartbeat)
          /\ recv'[s] = "receive" /\ sigCh'[s] = Append(sigCh[s], holds[s])
      BY Zenon, <1>1, <1>2, <2>1 DEF TypeOK
    <2>3. PICK m : m = Len(sigCh[s])
      BY Zenon
    <2>4. /\ m \in Nat /\ DOMAIN sigCh[s] = 1..m /\ DOMAIN sigCh'[s] = 1..(m + 1)
          /\ \A i \in 1..m : sigCh'[s][i] = sigCh[s][i]
          /\ sigCh'[s][m + 1] = holds[s]
      BY <2>2, <2>3, Joins
    <2>5. ASSUME Ordered(s) PROVE Ordered(s)'
      <3>1. holds[s][2] <= dedup[ClusterOf[s]] /\ \A k \in 1..m : sigCh[s][k][2] <= holds[s][2]
        BY ZenonT(60), <2>1, <2>4, <2>5 DEF Ordered, Ahead
      <3>2. \A k \in DOMAIN sigCh'[s] : Ahead(s, sigCh[s][k][2])'
        <4> SUFFICES ASSUME NEW k \in DOMAIN sigCh'[s] PROVE sigCh'[s][k][2] <= dedup[ClusterOf[s]]
          BY Zenon, <2>1, <2>2 DEF Ahead
        <4>1. k \in 1..m \/ k = m + 1
          BY <2>4
        <4> QED
          BY Zenon, <2>4, <2>5, <3>1, <4>1 DEF Ordered, Ahead
      <3>3. ASSUME NEW j \in DOMAIN sigCh'[s], NEW k \in DOMAIN sigCh'[s], j < k
            PROVE  sigCh'[s][j][2] <= sigCh'[s][k][2]
        <4>1. j \in 1..m /\ (k \in 1..m \/ k = m + 1)
          BY <2>4, <3>3
        <4> QED
          BY Zenon, <2>4, <2>5, <3>1, <3>3, <4>1 DEF Ordered
      <3>4. ASSUME NEW n \in Int, Waits(s, n)
            PROVE  n <= dedup'[ClusterOf[s]] /\ \A k \in DOMAIN sigCh'[s] : n <= sigCh'[s][k][2]
        BY <2>1, <2>4, <3>4 DEF Waits, Ahead
      <3>5. Working(s)' => Waits(s, req[s][2])'
        BY Zenon, <1>2, <1>3, <2>2, <2>5, <3>4 DEF Ordered, Working, Waits, Ahead
      <3>6. ASSUME NEW i \in DOMAIN signalled', signalled'[i].by = s
            PROVE  Waits(s, signalled[i].hb[2])' /\ (Working(s)' => signalled'[i].hb[2] <= req'[s][2])
        BY ZenonT(60), <1>2, <1>3, <2>2, <2>5, <3>4, <3>6 DEF Ordered, Working, Waits, Ahead
      <3> QED
        BY Zenon, <2>2, <3>2, <3>3, <3>5, <3>6 DEF Ordered
    <2> QED
      BY <1>3, <1>4, <2>1, <2>5, StreamQuietStep
  <1> QED
    BY Zenon, <1>6, <1>7, <1>8 DEF Receiver

(* A step that signals heartbeat hb for x.                                 *)
LEMMA SignalStep ==
  ASSUME OrderInv, CarriesInv', [Next]_vars,
         NEW x \in Stream \cup Unary, NEW hb \in Heartbeat, Accepted(x, hb),
         \A u \in Unary : SignalsOnce(u)',
         Calm' => /\ \A i \in DOMAIN signalled : signalled[i].by = x => signalled[i].hb[2] <= hb[2]
                  /\ \A s \in Stream : Ordered(s)'
  PROVE  OrderInv'
  <1>1. CarriesInv /\ TypeOK
    BY Zenon DEF OrderInv, CarriesInv
  <1>2. PICK m : m = Len(signalled)
    BY Zenon
  <1>3. /\ m \in Nat /\ DOMAIN signalled = 1..m /\ DOMAIN signalled' = 1..(m + 1)
        /\ \A i \in 1..m : signalled'[i] = signalled[i]
        /\ signalled'[m + 1].hb = hb /\ signalled'[m + 1].by = x
    BY Zenon, <1>1, <1>2, SignalAppended
  <1>4. ASSUME Calm' PROVE InSequence'
    <2>1. InSequence
      BY Zenon, <1>1, <1>4, CalmBefore DEF OrderInv
    <2> SUFFICES ASSUME NEW i \in DOMAIN signalled', NEW j \in DOMAIN signalled', i < j,
                        signalled'[i].by = signalled'[j].by
                 PROVE  signalled'[i].hb[2] <= signalled'[j].hb[2]
      BY Zenon DEF InSequence
    <2>2. i \in 1..m /\ (j \in 1..m \/ j = m + 1)
      BY <1>3
    <2>3. CASE j \in 1..m
      BY Zenon, <1>3, <2>1, <2>2, <2>3 DEF InSequence
    <2>4. CASE j = m + 1
      BY Zenon, <1>3, <1>4, <2>2, <2>4
    <2> QED
      BY Zenon, <2>2, <2>3, <2>4
  <1> QED
    BY Zenon, <1>4 DEF OrderInv

(* The signals of the others stay what they are.                           *)
LEMMA OthersSignals ==
  ASSUME TypeOK, NEW x \in Stream \cup Unary, NEW hb \in Heartbeat, Accepted(x, hb),
         NEW y \in Stream \cup Unary, y # x
  PROVE  NoMoreBy(y)
  BY SignalAppended DEF NoMoreBy

LEMMA DispatcherKeepsOrder ==
  ASSUME OrderInv, CarriesInv', [Next]_vars, NEW s \in Stream, Dispatcher(s)
  PROVE  OrderInv'
  <1>1. CarriesInv /\ TypeOK /\ Carries(s)
    BY Zenon DEF OrderInv, CarriesInv
  <1>2. /\ dedup[ClusterOf[s]] \in Int
        /\ \A k \in DOMAIN sigCh[s] : sigCh[s][k][2] \in Int
        /\ Working(s) => req[s][2] \in Int /\ req[s] \in Heartbeat
        /\ \A i \in DOMAIN signalled : signalled[i].hb[2] \in Int
    BY ZenonT(60), <1>1, Numbers
  <1>3. UNCHANGED <<recv, holds, dedup, call>>
    BY Zenon DEF Dispatcher, Take, Signal, SignalFails, Backoff, DispatchEnds, receiver, unary
  <1>4. \A c \in Cluster : dedup[c] <= dedup'[c]
    BY <1>1, <1>3, GatewayAssumption DEF TypeOK
  <1>5. CASE Take(s)
    <2>1. /\ dispatch[s] = "take" /\ sigCh[s] # <<>> /\ req' = [req EXCEPT ![s] = Head(sigCh[s])]
          /\ sigCh' = [sigCh EXCEPT ![s] = Tail(@)] /\ UNCHANGED signalled
      BY Zenon, <1>5 DEF Take
    <2>2. /\ sigCh[s] \in Seq(Heartbeat) /\ req'[s] = Head(sigCh[s]) /\ sigCh'[s] = Tail(sigCh[s])
      BY Zenon, <1>1, <2>1 DEF TypeOK
    <2>3. PICK q : q = sigCh[s]
      OBVIOUS
    <2>4. /\ Len(q) \in Nat \ {0} /\ DOMAIN q = 1..Len(q) /\ Head(q) = q[1]
          /\ DOMAIN Tail(q) = 1..(Len(q) - 1)
          /\ \A i \in 1..(Len(q) - 1) : Tail(q)[i] = q[i + 1]
      BY Zenon, <2>1, <2>2, <2>3, Leaves
    <2>5. 1 \in DOMAIN q /\ \A k \in DOMAIN Tail(q) : k + 1 \in DOMAIN q /\ Tail(q)[k] = q[k + 1]
      BY <2>4
    <2>6. ASSUME Ordered(s) PROVE Ordered(s)'
      <3>1. /\ \A k \in DOMAIN q : Ahead(s, q[k][2])
            /\ \A j, k \in DOMAIN q : j < k => q[j][2] <= q[k][2]
            /\ recv[s] = "enqueue" => holds[s][2] <= dedup[ClusterOf[s]]
        BY Zenon, <2>3, <2>6 DEF Ordered
      <3>2. ASSUME NEW n PROVE Ahead(s, n) => Ahead(s, n)'
        BY Zenon, <1>3 DEF Ahead
      <3>3. \A k \in DOMAIN Tail(q) : q[1][2] <= Tail(q)[k][2] /\ Ahead(s, Tail(q)[k][2])
        <4> TAKE k \in DOMAIN Tail(q)
        <4>1. 1 < k + 1
          BY <2>4
        <4> QED
          BY Zenon, <2>5, <3>1, <4>1
      <3>4. \A j, k \in DOMAIN Tail(q) : j < k => Tail(q)[j][2] <= Tail(q)[k][2]
        <4> TAKE j, k \in DOMAIN Tail(q)
        <4>1. j < k => j + 1 < k + 1
          BY <2>4
        <4> QED
          BY Zenon, <2>5, <3>1, <4>1
      <3>5. /\ req'[s] = q[1] /\ sigCh'[s] = Tail(q)
        BY Zenon, <2>2, <2>3, <2>4
      <3>6. Waits(s, req[s][2])'
        BY Zenon, <1>3, <2>5, <3>1, <3>3, <3>5 DEF Waits, Ahead
      <3>7. ASSUME NEW i \in DOMAIN signalled', signalled'[i].by = s
            PROVE  Waits(s, signalled[i].hb[2])' /\ signalled'[i].hb[2] <= req'[s][2]
        <4>1. Waits(s, signalled[i].hb[2])
          BY Zenon, <2>1, <2>6, <3>7 DEF Ordered
        <4>2. Ahead(s, signalled[i].hb[2]) /\ \A k \in DOMAIN q : signalled[i].hb[2] <= q[k][2]
          BY Zenon, <2>3, <4>1 DEF Waits
        <4> QED
          BY ZenonT(60), <1>3, <2>1, <2>5, <3>5, <4>2 DEF Waits, Ahead
      <3>8. \A k \in DOMAIN sigCh'[s] : Ahead(s, sigCh[s][k][2])'
        BY Zenon, <1>3, <3>3, <3>5 DEF Ahead
      <3>9. recv'[s] = "enqueue" => holds'[s][2] <= dedup'[ClusterOf[s]]
        BY Zenon, <1>3, <3>1
      <3>10. \A j, k \in DOMAIN sigCh'[s] : j < k => sigCh'[s][j][2] <= sigCh'[s][k][2]
        BY Zenon, <3>4, <3>5
      <3> QED
        BY Zenon, <3>6, <3>7, <3>8, <3>9, <3>10 DEF Ordered
    <2> QED
      BY Zenon, <1>4, <2>1, <2>6, StreamQuietStep
  <1>6. ASSUME ~Take(s)
        PROVE  UNCHANGED sigCh /\ (Working(s)' => Working(s) /\ req'[s] = req[s])
    <2>1. CASE Signal(s)
      BY Zenon, <1>1, <2>1 DEF Signal, NextRequest, Working, TypeOK
    <2>2. CASE SignalFails(s)
      BY <1>1, <2>2 DEF SignalFails, NextRequest, Working, TypeOK
    <2>3. CASE Backoff(s) \/ DispatchEnds(s)
      BY ZenonT(60), <1>1, <2>3 DEF Backoff, DispatchEnds, Working, TypeOK
    <2> QED
      BY Zenon, <1>6, <2>1, <2>2, <2>3 DEF Dispatcher
  <1>7. ASSUME ~Take(s), UNCHANGED signalled PROVE OrderInv'
    <2>1. Ordered(s) => Ordered(s)'
      BY Zenon, <1>3, <1>6, <1>7 DEF Ordered, Waits, Ahead
    <2> QED
      BY Zenon, <1>4, <1>7, <2>1, StreamQuietStep
  <1>8. ASSUME ~Take(s), Working(s), Accepted(s, req[s]) PROVE OrderInv'
    <2>1. PICK hb \in Heartbeat : hb = req[s] /\ hb[2] \in Int
      BY Zenon, <1>2, <1>8
    <2>2. Accepted(s, hb) /\ s \in Stream \cup Unary
      BY Zenon, <1>8, <2>1
    <2>3. \A u \in Unary : SignalsOnce(u)'
      <3>1. \A u \in Unary : u # s /\ NoMoreBy(u)
        BY Zenon, <1>1, <2>2, OthersSignals, GatewayAssumption
      <3> QED
        BY <1>3, <3>1 DEF OrderInv, SignalsOnce, NoMoreBy
    <2>4. ASSUME Calm'
          PROVE  /\ \A i \in DOMAIN signalled : signalled[i].by = s => signalled[i].hb[2] <= hb[2]
                 /\ \A t \in Stream : Ordered(t)'
      <3>1. \A t \in Stream : Ordered(t)
        BY Zenon, <1>1, <2>4, CalmBefore DEF OrderInv
      <3>2. \A i \in DOMAIN signalled : signalled[i].by = s => signalled[i].hb[2] <= hb[2]
        BY Zenon, <1>8, <2>1, <3>1 DEF Ordered
      <3>3. ASSUME NEW t \in Stream \ {s} PROVE Ordered(t)'
        <4>1. NoMoreBy(t)
          BY Zenon, <1>1, <2>2, OthersSignals
        <4>2. dedup[ClusterOf[t]] <= dedup'[ClusterOf[t]]
          BY Zenon, <1>4, GatewayAssumption
        <4>3. /\ recv'[t] = recv[t] /\ holds'[t] = holds[t] /\ sigCh'[t] = sigCh[t]
              /\ dispatch'[t] = dispatch[t] /\ req'[t] = req[t]
          BY Zenon, <1>1, OtherStreams
        <4> QED
          BY Zenon, <1>1, <3>1, <4>1, <4>2, <4>3, OthersOrdered
      <3>4. Ordered(s)'
        <4>1. Ordered(s) /\ Waits(s, hb[2])
          BY ZenonT(60), <1>8, <2>1, <3>1 DEF Ordered
        <4>2. ASSUME NEW i \in DOMAIN signalled', signalled'[i].by = s
              PROVE  /\ Waits(s, signalled'[i].hb[2])
                     /\ signalled'[i].hb[2] <= req[s][2]
          <5>1. \/ i \in DOMAIN signalled /\ signalled'[i] = signalled[i]
                \/ signalled'[i].hb = hb
            BY SMTT(30), <1>1, <2>2, SignalAppended
          <5>2. CASE signalled'[i].hb = hb
            BY SMTT(30), <2>1, <4>1, <5>2
          <5>3. CASE i \in DOMAIN signalled /\ signalled'[i] = signalled[i]
            <6>1. signalled[i].by = s
              BY Zenon, <4>2, <5>3
            <6>2. Waits(s, signalled[i].hb[2]) /\ signalled[i].hb[2] <= req[s][2]
              BY ZenonT(60), <1>8, <4>1, <5>3, <6>1 DEF Ordered
            <6> QED
              BY Zenon, <5>3, <6>2
          <5> QED
            BY Zenon, <5>1, <5>2, <5>3
        <4>3. ASSUME NEW i \in DOMAIN signalled', signalled'[i].by = s
              PROVE  /\ Waits(s, signalled[i].hb[2])'
                     /\ Working(s)' => signalled'[i].hb[2] <= req'[s][2]
          BY Zenon, <1>3, <1>6, <1>8, <4>2, <4>3 DEF Waits, Ahead
        <4> QED
          BY Zenon, <1>3, <1>6, <1>8, <4>1, <4>3 DEF Ordered, Waits, Ahead
      <3> QED
        BY Zenon, <3>2, <3>3, <3>4
    <2> QED
      BY ZenonT(60), <2>2, <2>3, <2>4, SignalStep
  <1>9. CASE Signal(s) \/ SignalFails(s)
    <2>1. Working(s) /\ ~Take(s)
      BY Zenon, <1>9 DEF Signal, SignalFails, Take, Working
    <2>2. UNCHANGED signalled \/ Accepted(s, req[s])
      BY Zenon, <1>9 DEF Signal, SignalFails, Failed
    <2> QED
      BY Zenon, <1>7, <1>8, <2>1, <2>2
  <1>10. CASE Backoff(s) \/ DispatchEnds(s)
    <2>1. UNCHANGED signalled
      BY Zenon, <1>10 DEF Backoff, DispatchEnds
    <2> QED
      BY Zenon, <1>5, <1>7, <2>1
  <1> QED
    BY Zenon, <1>5, <1>9, <1>10 DEF Dispatcher

LEMMA UnaryKeepsOrder ==
  ASSUME OrderInv, CarriesInv', [Next]_vars, NEW u \in Unary,
         UnarySignal(u) \/ \E hb \in Heartbeat : UnaryReceive(u, hb)
  PROVE  OrderInv'
  <1>1. CarriesInv /\ TypeOK
    BY Zenon DEF OrderInv, CarriesInv
  <1>2. UNCHANGED <<recv, holds, sigCh, dispatch, req>>
    BY Zenon DEF UnarySignal, UnaryReceive, receiver, dispatcher
  <1>3. ASSUME NEW hb \in Heartbeat, UnaryReceive(u, hb) PROVE OrderInv'
    <2>1. PICK isDuplicate \in BOOLEAN :
            Dedup(hb, isDuplicate) /\ call' = [call EXCEPT ![u] = IF isDuplicate THEN "ok" ELSE "signal"]
      BY Zenon, <1>3 DEF UnaryReceive
    <2>2. call[u] = "idle" /\ UNCHANGED signalled
      BY Zenon, <1>3 DEF UnaryReceive
    <2>3. \A v \in Unary : call'[v] \in {"idle", "signal"} => call[v] \in {"idle", "signal"}
      BY <1>1, <2>1, <2>2 DEF TypeOK
    <2>4. ASSUME Calm', NEW s \in Stream, Ordered(s) PROVE Ordered(s)'
      <3>1. \A c \in Cluster : dedup[c] <= dedup'[c]
        BY Zenon, <1>1, <2>1, <2>4, CalmBefore, CalmDedup
      <3>2. dedup[ClusterOf[s]] <= dedup'[ClusterOf[s]] /\ NoMoreBy(s)
        BY Zenon, <2>2, <3>1, GatewayAssumption DEF NoMoreBy
      <3> QED
        BY Zenon, <1>1, <1>2, <2>4, <3>2, OthersOrdered
    <2> QED
      BY Zenon, <2>2, <2>3, <2>4, QuietStep
  <1>4. CASE UnarySignal(u)
    <2>1. call[u] = "signal" /\ UNCHANGED <<callReq, dedup>>
      BY Zenon, <1>4 DEF UnarySignal
    <2>2. PICK d \in {"ok", "error"} : call' = [call EXCEPT ![u] = d]
      BY Zenon, <1>4 DEF UnarySignal
    <2>3. \A v \in Unary : call'[v] \in {"idle", "signal"} => v # u /\ call[v] \in {"idle", "signal"}
      BY Zenon, <1>1, <2>2 DEF TypeOK
    <2>4. \A s \in Stream : dedup[ClusterOf[s]] <= dedup'[ClusterOf[s]]
      BY SMTT(30), <1>1, <2>1, Numbers
    <2>5. UNCHANGED signalled \/ Accepted(u, callReq[u])
      BY Zenon, <1>4 DEF UnarySignal, Failed
    <2>6. CASE UNCHANGED signalled
      <3>1. \A s \in Stream : NoMoreBy(s)
        BY Zenon, <2>6 DEF NoMoreBy
      <3>2. \A s \in Stream : Ordered(s) => Ordered(s)'
        BY Zenon, <1>1, <1>2, <2>4, <3>1, OthersOrdered
      <3> QED
        BY Zenon, <2>3, <2>6, <3>2, QuietStep
    <2>7. CASE Accepted(u, callReq[u])
      <3>1. PICK hb \in Heartbeat : hb = callReq[u]
        BY Zenon, <1>1, <2>1 DEF CarriesInv
      <3>2. Accepted(u, hb) /\ u \in Stream \cup Unary
        BY Zenon, <2>7, <3>1
      <3>3. \A i \in DOMAIN signalled : signalled[i].by # u
        BY Zenon, <2>1 DEF OrderInv, SignalsOnce
      <3>4. ASSUME NEW v \in Unary PROVE SignalsOnce(v)'
        <4>1. CASE v = u
          <5>1. \A i \in DOMAIN signalled' : signalled'[i].by = u => i = Len(signalled) + 1
            BY SMTT(30), <1>1, <3>2, <3>3, SignalAppended
          <5>2. call'[u] \notin {"idle", "signal"}
            BY Zenon, <2>3
          <5> QED
            BY ZenonT(60), <4>1, <5>1, <5>2 DEF SignalsOnce
        <4>2. CASE v # u
          <5>1. NoMoreBy(v)
            BY Zenon, <1>1, <3>2, <4>2, OthersSignals
          <5>2. SignalsOnce(v)
            BY Zenon DEF OrderInv
          <5> QED
            BY Zenon, <2>3, <5>1, <5>2 DEF SignalsOnce, NoMoreBy
        <4> QED
          BY Zenon, <4>1, <4>2
      <3>5. ASSUME Calm', NEW s \in Stream PROVE Ordered(s)'
        <4>1. NoMoreBy(s) /\ Ordered(s)
          BY Zenon, <1>1, <3>2, <3>5, CalmBefore, OthersSignals, GatewayAssumption DEF OrderInv
        <4> QED
          BY Zenon, <1>1, <1>2, <2>4, <4>1, OthersOrdered
      <3> QED
        BY Zenon, <3>2, <3>3, <3>4, <3>5, SignalStep
    <2> QED
      BY ZenonT(60), <2>5, <2>6, <2>7
  <1> QED
    BY Zenon, <1>3, <1>4

LEMMA OrderStep == OrderInv /\ [Next]_vars => OrderInv'
  <1> SUFFICES ASSUME OrderInv, [Next]_vars PROVE OrderInv'
    OBVIOUS
  <1>1. CarriesInv /\ CarriesInv'
    BY Zenon, CarriesStep DEF OrderInv
  <1>2. ASSUME NEW s \in Stream, Receiver(s) \/ Dispatcher(s) PROVE OrderInv'
    BY Zenon, <1>1, <1>2, ReceiverKeepsOrder, DispatcherKeepsOrder
  <1>3. ASSUME NEW u \in Unary, UnarySignal(u) \/ \E hb \in Heartbeat : UnaryReceive(u, hb)
        PROVE  OrderInv'
    BY ZenonT(60), <1>1, <1>3, UnaryKeepsOrder
  <1>4. ASSUME NEW s \in Stream, Opens(s) \/ Breaks(s) \/ HandlerReturns(s) PROVE OrderInv'
    BY Zenon, <1>1, <1>4, IdleStep DEF Opens, Breaks, HandlerReturns, receiver, dispatcher, unary
  <1>5. ASSUME NEW s \in Stream, NEW hb \in Heartbeat, Sends(s, hb) PROVE OrderInv'
    BY Zenon, <1>1, <1>5, IdleStep DEF Sends, receiver, dispatcher, unary
  <1>6. ASSUME NEW c \in Cluster, Prune(c) PROVE OrderInv'
    <2>1. Happens("forgotten") /\ UNCHANGED <<signalled, call>>
      BY Zenon, <1>6 DEF Prune, unary
    <2>2. ~Calm'
      BY Zenon, <1>1, <2>1, CalmBefore
    <2> QED
      BY Zenon, <1>1, <2>1, <2>2, QuietStep
  <1>7. CASE UNCHANGED vars
    BY Zenon, <1>1, <1>7, IdleStep DEF vars, receiver, dispatcher, unary
  <1> QED
    BY Zenon, <1>2, <1>3, <1>4, <1>5, <1>6, <1>7 DEF Next, Agent

(* As long as nothing is forgotten and no call of the deduplicator fails,  *)
(* the heartbeats of a stream reach Temporal in the order of their         *)
(* numbers, however many streams and unary calls the cluster has at once,  *)
(* whatever is sent again and however often a signal is retried            *)
(* (heartbeat_handler.go).                                                 *)
THEOREM StreamsInOrder == Spec => []StreamKeepsOrder
  <1>1. Init => OrderInv
    <2>1. ASSUME Init PROVE OrderInv
      <3>1. CarriesInv /\ signalled = <<>> /\ DOMAIN signalled = {}
        BY <2>1, CarriesBegins DEF Init
      <3>2. \A s \in Stream : recv[s] = "receive" /\ dispatch[s] = "take" /\ DOMAIN sigCh[s] = {}
        BY <2>1 DEF Init
      <3> QED
        BY Zenon, <3>1, <3>2 DEF OrderInv, SignalsOnce, InSequence, Ordered, Working
    <2> QED
      BY Zenon, <2>1
  <1>2. OrderInv => StreamKeepsOrder
    BY Zenon DEF OrderInv, Calm, InSequence, StreamKeepsOrder
  <1> QED
    BY <1>1, <1>2, OrderStep, PTL DEF Spec
=============================================================================
