------------------------------ MODULE Gateway ------------------------------
(***************************************************************************)
(* The heartbeat gateway: HeartbeatStream, the unary Heartbeat call, the   *)
(* deduplicator and the stream manager, up to the signal that reaches the  *)
(* tenant's accounting workflow.                                           *)
(*                                                                         *)
(* A stream is served by three goroutines: one receives, one dispatches    *)
(* and the handler itself answers.  They share the buffered channel sigCh  *)
(* and the variable clusterID, and end each in its own time once the       *)
(* stream's context is done.                                               *)
(*                                                                         *)
(* Agents number their heartbeats from 1 and may send one again, on the    *)
(* stream they use or in a unary call.  An agent whose stream breaks opens *)
(* another one, which the server may notice before the end of the first.   *)
(***************************************************************************)
EXTENDS Integers, Sequences, FiniteSets

CONSTANTS
    Cluster,
    Stream, ClusterOf,   \* the streams, and the cluster that opens each
    Unary,               \* calls of the unary RPC
    Capacity,            \* buffer of sigCh
    Retries,             \* len(backoffs)
    MaxSeq, MaxCopies,   \* bounds: heartbeats per cluster, copies of each
    MaxFaults, MaxKinds  \* bounds: faults of each kind, kinds in one behaviour

Heartbeat == Cluster \X (1..MaxSeq)

FaultKind == {"failed", "unanswered", "forgotten", "unavailable"}

NotSeen == 0
Nothing == <<>>

ASSUME GatewayAssumption ==
    /\ ClusterOf \in [Stream -> Cluster]
    /\ Stream \cap Unary = {}
    /\ Capacity \in Nat \ {0} /\ Retries \in Nat
    /\ MaxSeq \in Nat /\ MaxCopies \in Nat
    /\ MaxFaults \in [FaultKind -> Nat] /\ MaxKinds \in Nat

VARIABLES
    copies,      \* how often the agents have sent each heartbeat
    ctx,         \* "new", "open" or "done" for each stream
    wire,        \* messages of each stream not yet received
    clusterID,   \* of each stream: {} until the first message
    recv,        \* what the receiving goroutine of each stream does
    holds,       \* the message it works on
    sigCh,
    dispatch,    \* what the dispatching goroutine of each stream does
    req,         \* the message it works on
    attempt,     \* how often it has failed to signal it
    handler,     \* "running" or "returned" for each stream
    call,        \* state of each unary call
    callReq,     \* its heartbeat
    dedup,       \* the highest sequence number seen of each cluster
    streams,     \* the clusters with an entry in the stream manager
    signalled,   \* signals accepted by Temporal, with the sender of each
    lost,        \* heartbeats that some goroutine has given up
    faults       \* how often each kind of fault has happened

agents == <<copies, ctx, wire>>
receiver == <<clusterID, recv, holds>>
dispatcher == <<dispatch, req, attempt>>
unary == <<call, callReq>>
vars == <<agents, receiver, sigCh, dispatcher, handler, unary, dedup, streams, signalled,
          lost, faults>>

Init ==
    /\ copies = [hb \in Heartbeat |-> 0]
    /\ ctx = [s \in Stream |-> "new"]
    /\ wire = [s \in Stream |-> <<>>]
    /\ clusterID = [s \in Stream |-> {}]
    /\ recv = [s \in Stream |-> "receive"]
    /\ holds = [s \in Stream |-> Nothing]
    /\ sigCh = [s \in Stream |-> <<>>]
    /\ dispatch = [s \in Stream |-> "take"]
    /\ req = [s \in Stream |-> Nothing]
    /\ attempt = [s \in Stream |-> 0]
    /\ handler = [s \in Stream |-> "running"]
    /\ call = [u \in Unary |-> "idle"]
    /\ callReq = [u \in Unary |-> Nothing]
    /\ dedup = [c \in Cluster |-> NotSeen]
    /\ streams = {}
    /\ signalled = <<>>
    /\ lost = {}
    /\ faults = [k \in FaultKind |-> 0]

May(kind) ==
    /\ faults[kind] < MaxFaults[kind]
    /\ Cardinality({k \in FaultKind : faults[k] > 0 \/ k = kind}) <= MaxKinds

Happens(kind) == May(kind) /\ faults' = [faults EXCEPT ![kind] = @ + 1]

-----------------------------------------------------------------------------
(* The agents.                                                             *)

(* The next heartbeat of a cluster, or one it has sent before.             *)
MaySend(hb) ==
    /\ copies[hb] < MaxCopies
    /\ \A e \in Heartbeat : e[1] = hb[1] /\ e[2] < hb[2] => copies[e] > 0

Opens(s) ==
    /\ ctx[s] = "new"
    /\ ctx' = [ctx EXCEPT ![s] = "open"]
    /\ UNCHANGED <<copies, wire, receiver, sigCh, dispatcher, handler, unary, dedup, streams,
                   signalled, lost, faults>>

Sends(s, hb) ==
    /\ ctx[s] = "open" /\ hb[1] = ClusterOf[s] /\ MaySend(hb)
    /\ copies' = [copies EXCEPT ![hb] = @ + 1]
    /\ wire' = [wire EXCEPT ![s] = Append(@, hb)]
    /\ UNCHANGED <<ctx, receiver, sigCh, dispatcher, handler, unary, dedup, streams,
                   signalled, lost, faults>>

(* The connection breaks, a failed Send included: the stream's context is  *)
(* cancelled.                                                              *)
Breaks(s) ==
    /\ ctx[s] = "open"
    /\ ctx' = [ctx EXCEPT ![s] = "done"]
    /\ UNCHANGED <<copies, wire, receiver, sigCh, dispatcher, handler, unary, dedup, streams,
                   signalled, lost, faults>>

-----------------------------------------------------------------------------
(* The deduplicator.                                                       *)

(* Only the number seen last is recognised.                                *)
FaultyIsDuplicate(hb) == hb[2] = dedup[hb[1]]

(* The number expected next is recognised as well.                         *)
FaultyIsDuplicateNext(hb) == dedup[hb[1]] # NotSeen /\ hb[2] <= dedup[hb[1]] + 1

IsDuplicate(hb) == hb[2] <= dedup[hb[1]]

Record(hb) == dedup' = IF IsDuplicate(hb) THEN dedup ELSE [dedup EXCEPT ![hb[1]] = hb[2]]

(* One call of IsDuplicate, which also records the number.  Valkey may be  *)
(* unavailable: the answer is no, whether or not the number was recorded.  *)
Dedup(hb, isDuplicate) ==
    \/ isDuplicate = IsDuplicate(hb) /\ Record(hb) /\ UNCHANGED faults
    \/ Happens("unavailable") /\ isDuplicate = FALSE /\ (UNCHANGED dedup \/ Record(hb))

(* The entry outlives its time to live, or the pod that held it.           *)
Prune(c) ==
    /\ Happens("forgotten")
    /\ dedup[c] # NotSeen
    /\ dedup' = [dedup EXCEPT ![c] = NotSeen]
    /\ UNCHANGED <<agents, receiver, sigCh, dispatcher, handler, unary, streams, signalled,
                   lost>>

-----------------------------------------------------------------------------
(* The receiving goroutine.                                                *)

(* The first message of the stream tells its cluster.                      *)
Receive(s) ==
    /\ recv[s] = "receive" /\ wire[s] # <<>>
    /\ clusterID' = [clusterID EXCEPT ![s] = {Head(wire[s])[1]}]
    /\ holds' = [holds EXCEPT ![s] = Head(wire[s])]
    /\ wire' = [wire EXCEPT ![s] = Tail(@)]
    /\ recv' = [recv EXCEPT ![s] = IF clusterID[s] = {} THEN "register" ELSE "dedup"]
    /\ UNCHANGED <<copies, ctx, sigCh, dispatcher, handler, unary, dedup, streams, signalled,
                   lost, faults>>

(* StreamManager.Register, on the first message of the stream.             *)
Register(s) ==
    /\ recv[s] = "register"
    /\ streams' = streams \cup clusterID[s]
    /\ recv' = [recv EXCEPT ![s] = "dedup"]
    /\ UNCHANGED <<agents, clusterID, holds, sigCh, dispatcher, handler, unary, dedup, signalled,
                   lost, faults>>

DedupReceived(s) ==
    /\ recv[s] = "dedup"
    /\ \E isDuplicate \in BOOLEAN :
          /\ Dedup(holds[s], isDuplicate)
          /\ recv' = [recv EXCEPT ![s] = IF isDuplicate THEN "receive" ELSE "enqueue"]
          /\ holds' = [holds EXCEPT ![s] = IF isDuplicate THEN Nothing ELSE @]
    /\ UNCHANGED <<agents, clusterID, sigCh, dispatcher, handler, unary, streams, signalled,
                   lost>>

(* Room for one more than the channel was made for.                        *)
FaultyFull(s) == Len(sigCh[s]) > Capacity

Full(s) == Len(sigCh[s]) >= Capacity

Enqueue(s) ==
    /\ recv[s] = "enqueue" /\ ~Full(s)
    /\ sigCh' = [sigCh EXCEPT ![s] = Append(@, holds[s])]
    /\ holds' = [holds EXCEPT ![s] = Nothing]
    /\ recv' = [recv EXCEPT ![s] = "receive"]
    /\ UNCHANGED <<agents, clusterID, dispatcher, handler, unary, dedup, streams, signalled,
                   lost, faults>>

(* No timer: the goroutine waits for as long as it takes.                  *)
FaultyEnqueueTimesOut(s) == FALSE

(* sigCh stays full for sigChTimeout: the heartbeat is dropped.            *)
EnqueueTimesOut(s) ==
    /\ recv[s] = "enqueue" /\ Full(s)
    /\ lost' = lost \cup {holds[s]}
    /\ holds' = [holds EXCEPT ![s] = Nothing]
    /\ recv' = [recv EXCEPT ![s] = "receive"]
    /\ UNCHANGED <<agents, clusterID, sigCh, dispatcher, handler, unary, dedup, streams,
                   signalled, faults>>

(* Receive returns an error; what was still on the way is gone.            *)
ReceiveEnds(s) ==
    /\ recv[s] = "receive" /\ ctx[s] = "done"
    /\ recv' = [recv EXCEPT ![s] = "done"]
    /\ wire' = [wire EXCEPT ![s] = <<>>]
    /\ UNCHANGED <<copies, ctx, clusterID, holds, sigCh, dispatcher, handler, unary, dedup,
                   streams, signalled, lost, faults>>

-----------------------------------------------------------------------------
(* signalHeartbeat: resolve the tenant and signal its workflow.            *)

(* SignalWorkflow returns nil.                                             *)
Accepted(sender, hb) == signalled' = Append(signalled, [hb |-> hb, by |-> sender])

(* The tenant is not found, Temporal is not reached or the context is done *)
(* - or Temporal has accepted the signal and the answer is lost.           *)
Failed(sender, hb, cancelled) ==
    \/ UNCHANGED signalled /\ IF cancelled THEN UNCHANGED faults ELSE Happens("failed")
    \/ Happens("unanswered") /\ Accepted(sender, hb)

-----------------------------------------------------------------------------
(* The dispatching goroutine.                                              *)

Take(s) ==
    /\ dispatch[s] = "take" /\ sigCh[s] # <<>>
    /\ req' = [req EXCEPT ![s] = Head(sigCh[s])]
    /\ sigCh' = [sigCh EXCEPT ![s] = Tail(@)]
    /\ dispatch' = [dispatch EXCEPT ![s] = "signal"]
    /\ UNCHANGED <<agents, receiver, attempt, handler, unary, dedup, streams, signalled,
                   lost, faults>>

NextRequest(s) ==
    /\ dispatch' = [dispatch EXCEPT ![s] = "take"]
    /\ req' = [req EXCEPT ![s] = Nothing]
    /\ attempt' = [attempt EXCEPT ![s] = 0]

Signal(s) ==
    /\ dispatch[s] = "signal" /\ ctx[s] # "done"
    /\ Accepted(s, req[s])
    /\ NextRequest(s)
    /\ UNCHANGED <<agents, receiver, sigCh, handler, unary, dedup, streams, lost,
                   faults>>

(* One attempt too few.                                                    *)
FaultyLastAttempt(n) == n + 1 >= Retries

LastAttempt(n) == n >= Retries

(* After the last attempt the heartbeat is given up.  Between attempts the *)
(* goroutine waits for the backoff or for the end of the stream.           *)
SignalFails(s) ==
    /\ dispatch[s] = "signal"
    /\ Failed(s, req[s], ctx[s] = "done")
    /\ IF LastAttempt(attempt[s])
       THEN NextRequest(s) /\ lost' = lost \cup {req[s]}
       ELSE /\ dispatch' = [dispatch EXCEPT ![s] = "backoff"]
            /\ attempt' = [attempt EXCEPT ![s] = @ + 1]
            /\ UNCHANGED <<req, lost>>
    /\ UNCHANGED <<agents, receiver, sigCh, handler, unary, dedup, streams>>

Backoff(s) ==
    /\ dispatch[s] = "backoff"
    /\ dispatch' = [dispatch EXCEPT ![s] = IF ctx[s] = "done" THEN "done" ELSE "signal"]
    /\ lost' = IF ctx[s] = "done" THEN lost \cup {req[s]} ELSE lost
    /\ UNCHANGED <<agents, receiver, sigCh, req, attempt, handler, unary, dedup, streams,
                   signalled, faults>>

(* sigCh is closed and empty.                                              *)
DispatchEnds(s) ==
    /\ dispatch[s] = "take" /\ sigCh[s] = <<>> /\ recv[s] = "done"
    /\ dispatch' = [dispatch EXCEPT ![s] = "done"]
    /\ UNCHANGED <<agents, receiver, sigCh, req, attempt, handler, unary, dedup, streams,
                   signalled, lost, faults>>

-----------------------------------------------------------------------------
(* The handler returns and its deferred function deregisters the cluster.  *)
(* It reads clusterID without synchronisation, so it may miss what the     *)
(* receiving goroutine has assigned.                                       *)
HandlerReturns(s) ==
    /\ handler[s] = "running" /\ ctx[s] = "done"
    /\ handler' = [handler EXCEPT ![s] = "returned"]
    /\ streams' \in {streams, streams \ clusterID[s]}
    /\ UNCHANGED <<agents, receiver, sigCh, dispatcher, unary, dedup, signalled,
                   lost, faults>>

-----------------------------------------------------------------------------
(* The unary call.                                                         *)

UnaryReceive(u, hb) ==
    /\ call[u] = "idle" /\ MaySend(hb)
    /\ copies' = [copies EXCEPT ![hb] = @ + 1]
    /\ callReq' = [callReq EXCEPT ![u] = hb]
    /\ \E isDuplicate \in BOOLEAN :
          /\ Dedup(hb, isDuplicate)
          /\ call' = [call EXCEPT ![u] = IF isDuplicate THEN "ok" ELSE "signal"]
    /\ UNCHANGED <<ctx, wire, receiver, sigCh, dispatcher, handler, streams, signalled,
                   lost>>

UnarySignal(u) ==
    /\ call[u] = "signal"
    /\ \/ /\ Accepted(u, callReq[u])
          /\ call' = [call EXCEPT ![u] = "ok"]
          /\ UNCHANGED <<lost, faults>>
       \/ /\ Failed(u, callReq[u], FALSE)
          /\ call' = [call EXCEPT ![u] = "error"]
          /\ lost' = lost \cup {callReq[u]}
    /\ UNCHANGED <<agents, receiver, sigCh, dispatcher, handler, callReq, dedup, streams>>

-----------------------------------------------------------------------------
Agent ==
    \/ \E s \in Stream : Opens(s) \/ Breaks(s) \/ \E hb \in Heartbeat : Sends(s, hb)
    \/ \E u \in Unary, hb \in Heartbeat : UnaryReceive(u, hb)

Receiver(s) ==
    \/ Receive(s) \/ Register(s) \/ DedupReceived(s)
    \/ Enqueue(s) \/ EnqueueTimesOut(s) \/ ReceiveEnds(s)

Dispatcher(s) == Take(s) \/ Signal(s) \/ SignalFails(s) \/ Backoff(s) \/ DispatchEnds(s)

Next ==
    \/ Agent
    \/ \E s \in Stream : Receiver(s) \/ Dispatcher(s) \/ HandlerReturns(s)
    \/ \E u \in Unary : UnarySignal(u)
    \/ \E c \in Cluster : Prune(c)

(* Every goroutine that can go on does; nothing is asked of the agents.    *)
Fairness ==
    \A s \in Stream :
        WF_vars(Receiver(s)) /\ WF_vars(Dispatcher(s)) /\ WF_vars(HandlerReturns(s))

Spec == Init /\ [][Next]_vars /\ Fairness

-----------------------------------------------------------------------------
TypeOK ==
    /\ copies \in [Heartbeat -> 0..MaxCopies]
    /\ ctx \in [Stream -> {"new", "open", "done"}]
    /\ wire \in [Stream -> Seq(Heartbeat)]
    /\ clusterID \in [Stream -> SUBSET Cluster]
    /\ \A s \in Stream : clusterID[s] \in {{}, {ClusterOf[s]}}
    /\ recv \in [Stream -> {"receive", "register", "dedup", "enqueue", "done"}]
    /\ holds \in [Stream -> Heartbeat \cup {Nothing}]
    /\ sigCh \in [Stream -> Seq(Heartbeat)]
    /\ \A s \in Stream : Len(sigCh[s]) <= Capacity
    /\ dispatch \in [Stream -> {"take", "signal", "backoff", "done"}]
    /\ req \in [Stream -> Heartbeat \cup {Nothing}]
    /\ attempt \in [Stream -> 0..Retries]
    /\ handler \in [Stream -> {"running", "returned"}]
    /\ call \in [Unary -> {"idle", "signal", "ok", "error"}]
    /\ callReq \in [Unary -> Heartbeat \cup {Nothing}]
    /\ dedup \in [Cluster -> 0..MaxSeq]
    /\ streams \subseteq Cluster
    /\ signalled \in Seq([hb : Heartbeat, by : Stream \cup Unary])
    /\ lost \subseteq Heartbeat
    /\ faults \in [FaultKind -> Nat]

Signals(hb) == {i \in DOMAIN signalled : signalled[i].hb = hb}

(* The first line of defence (I-2): streams, unary calls and resends       *)
(* together signal no heartbeat twice, except once more for each answer of *)
(* Temporal that is lost and each call that Valkey does not serve.         *)
DuplicatesArePaidFor ==
    faults["forgotten"] = 0 =>
        Len(signalled) - Cardinality({signalled[i].hb : i \in DOMAIN signalled})
            <= faults["unanswered"] + faults["unavailable"]

(* Retries do not overtake: as long as the deduplicator forgets nothing, a *)
(* stream's heartbeats are signalled in the order of their numbers, which  *)
(* is what the accounting workflow needs to lose none of them.             *)
StreamKeepsOrder ==
    faults["forgotten"] + faults["unavailable"] = 0 =>
        \A i, j \in DOMAIN signalled :
            i < j /\ signalled[i].by = signalled[j].by => signalled[i].hb[2] <= signalled[j].hb[2]

(* A heartbeat that was given a place in sigCh is signalled, unless its    *)
(* stream breaks, when Temporal fails no more often than a heartbeat is    *)
(* retried.                                                                *)
QueuedIsSignalled ==
    \A s \in Stream, hb \in Heartbeat :
        (\E i \in DOMAIN sigCh[s] : sigCh[s][i] = hb) ~> (Signals(hb) # {} \/ ctx[s] = "done")

(* No goroutine outlives its stream for ever.                              *)
GoroutinesEnd ==
    \A s \in Stream :
        []<>(ctx[s] = "done" =>
                recv[s] = "done" /\ dispatch[s] = "done" /\ handler[s] = "returned")

(* What is turned away has been there before: a heartbeat that the         *)
(* deduplicator rejects was signalled, is with another goroutine of some   *)
(* stream or call, was given up after its last attempt, or a later one of  *)
(* its cluster went ahead of it, whatever the deduplicator has forgotten.  *)
(* dedup.go:13-15 calls the gateway's part an "optimisation before a       *)
(* signal reaches Temporal"; the third case is where it is not, since the  *)
(* number is recorded before the signal and stays when the signal fails.   *)
WithOther(hb) ==
    \/ \E s \in Stream :
          \/ recv[s] = "enqueue" /\ holds[s] = hb
          \/ req[s] = hb \/ \E i \in DOMAIN sigCh[s] : sigCh[s][i] = hb
    \/ \E u \in Unary : call[u] = "signal" /\ callReq[u] = hb

Overtaken(hb) == \E e \in Heartbeat : e[1] = hb[1] /\ e[2] > hb[2] /\ copies[e] > 0

TurnedAway ==
    {holds[s] : s \in {q \in Stream : recv[q] = "dedup" /\ recv'[q] = "receive"}}
        \cup {callReq'[u] : u \in {v \in Unary : call[v] = "idle" /\ call'[v] = "ok"}}

RejectedWasHere ==
    [][\A hb \in TurnedAway :
          Signals(hb) # {} \/ WithOther(hb) \/ hb \in lost \/ Overtaken(hb)]_vars
=============================================================================
