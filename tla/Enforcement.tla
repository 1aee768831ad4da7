---------------------------- MODULE Enforcement -----------------------------
(***************************************************************************)
(* The enforcement loop around the accounting workflow: the gateway tells  *)
(* the agents every half second which wallets are exhausted, agents that   *)
(* are told to shut down hold their heartbeats, and resume when they are   *)
(* told nothing.  The agent is the one in cmd/simulator.                   *)
(*                                                                         *)
(* An answer is put together from a query of the workflow and, later, a    *)
(* read of PostgreSQL, and reaches the agent later still.  What the        *)
(* gateway does with a heartbeat between the agent and the signal is in    *)
(* module Gateway: here a heartbeat that was sent is signalled at some     *)
(* time, or never.                                                         *)
(***************************************************************************)
EXTENDS Reports

VARIABLES
    sent,      \* heartbeats sent by the agent of each cluster
    stopped,   \* agents that hold their heartbeats
    stage,     \* how far the gateway is with the answer to each agent
    marks,     \* the reply to its query of the exceeded resources
    kill,      \* does the answer carry a TYPE_SHUTDOWN command?
    emptied    \* history: resources whose wallet has at some time been used up

loop == <<sent, stopped, stage, marks, kill>>
allVars == <<vars, loop, emptied>>

UsedUp == {r \in Resource : Used(r) >= credits[r]}

InitLoop ==
    /\ Init
    /\ sent = [c \in Cluster |-> 0]
    /\ stopped = {}
    /\ stage = [c \in Cluster |-> "tick"]
    /\ marks = [c \in Cluster |-> {}]
    /\ kill = [c \in Cluster |-> FALSE]
    /\ emptied = UsedUp

-----------------------------------------------------------------------------
(* The status of a resource.                                               *)

Available(r) == Left(snapshots[r])

(* A wallet without a row is taken for an empty one.                       *)
FaultyExceeded(r, M) == Available(r) <= 0 \/ r \in M

(* A wallet with crumbs left is not taken for an exhausted one.            *)
FaultyCrumbs(r, M) == HasRow(r) /\ Available(r) <= 0

(* STATUS_QUOTA_EXCEEDED, given the marks of the workflow.                 *)
Exceeded(r, M) == HasRow(r) /\ (Available(r) <= 0 \/ r \in M)

-----------------------------------------------------------------------------
(* The send loop of a stream.                                              *)

(* Nothing is asked before the first message has named the cluster.  When  *)
(* the query of the marks fails the answer is put together without them;   *)
(* when the tenant or the acknowledgement cannot be found out, there is no *)
(* answer at this tick.                                                    *)
QueryExceededResources(c) ==
    /\ Yielded
    /\ stage[c] = "tick" /\ sent[c] > 0
    /\ stage' = [stage EXCEPT ![c] = "read"]
    /\ \/ marks' = [marks EXCEPT ![c] = exceededResources] /\ UNCHANGED faults
       \/ faults < MaxFaults /\ faults' = faults + 1 /\ marks' = [marks EXCEPT ![c] = {}]
    /\ UNCHANGED <<ledgerVars, channels, state, at, reason, calls, local, pg, copies, runs,
                   sent, stopped, kill, emptied>>

(* buildPendingCommands: is there a TYPE_SHUTDOWN command?                 *)
PendingCommands(M) == \E r \in Resource : Exceeded(r, M)

(* When the read fails there are no quotas and hence no commands.          *)
ReadSnapshots(c) ==
    /\ Yielded
    /\ stage[c] = "read"
    /\ stage' = [stage EXCEPT ![c] = "send"]
    /\ marks' = [marks EXCEPT ![c] = {}]
    /\ \/ /\ kill' = [kill EXCEPT ![c] = PendingCommands(marks[c])]
          /\ UNCHANGED faults
       \/ faults < MaxFaults /\ faults' = faults + 1 /\ kill' = [kill EXCEPT ![c] = FALSE]
    /\ UNCHANGED <<ledgerVars, channels, state, at, reason, calls, local, pg, copies, runs,
                   sent, stopped, emptied>>

-----------------------------------------------------------------------------
(* The agent.                                                              *)

ReceiveAnswer(c) ==
    /\ Yielded
    /\ stage[c] = "send"
    /\ stage' = [stage EXCEPT ![c] = "tick"]
    /\ stopped' = IF kill[c] THEN stopped \cup {c} ELSE stopped \ {c}
    /\ kill' = [kill EXCEPT ![c] = FALSE]
    /\ UNCHANGED <<vars, sent, marks, emptied>>

(* The ticker of the agent: the next heartbeat, unless it is stopped.      *)
Tick(c) ==
    /\ Yielded
    /\ c \notin stopped
    /\ <<c, sent[c] + 1>> \in Heartbeat
    /\ sent' = [sent EXCEPT ![c] = @ + 1]
    /\ UNCHANGED <<vars, stopped, stage, marks, kill, emptied>>

-----------------------------------------------------------------------------
(* A step of the workflow and its surroundings.  Only what was sent is     *)
(* signalled.                                                              *)
Workflow ==
    /\ Next
    /\ \A hb \in Heartbeat : copies'[hb] > copies[hb] => hb[2] <= sent[hb[1]]
    /\ emptied' = emptied \cup UsedUp'
    /\ UNCHANGED loop

Answering(c) == QueryExceededResources(c) \/ ReadSnapshots(c) \/ ReceiveAnswer(c)

NextLoop == Workflow \/ \E c \in Cluster : Tick(c) \/ Answering(c)

(* The ticker of the send loop keeps ticking and the stream stays open.    *)
LoopSpec ==
    /\ InitLoop /\ [][NextLoop]_allVars
    /\ Fairness
    /\ \A c \in Cluster : WF_allVars(Answering(c))

-----------------------------------------------------------------------------
(* No agent is stopped for nothing: whatever the answers were put together *)
(* from, and however old it was, TigerBeetle has refused a transfer of a   *)
(* resource or its wallet has been used up (heartbeat_handler.go:311-331). *)
(* A reservation of nodes may have been released again since.              *)
StopIsJustified ==
    stopped # {} => \E r \in Resource : r \in emptied \/ \E id \in failed : id[4] = r

(* Crumbs (heartbeat_handler.go:324-326): when the last balance is too     *)
(* small for any heartbeat and the workflow's mark stays, every agent is   *)
(* stopped in the end and stays so, although the row says there is credit. *)
CrumbsStopAgents ==
    <>[](\E r \in exceededResources : HasRow(r)) =>
        \A c \in Cluster : <>[](sent[c] > 0 => c \in stopped)

(* heartbeat_handler.go:439: "When credits are restored the commands       *)
(* disappear, signalling the client to resume."  When every wallet has     *)
(* room for any heartbeat and keeps it, no agent stays stopped.            *)
Restored == \A r \in Resource : \A hb \in Heartbeat : Used(r) + Usage[hb][r] <= credits[r]

ResumesAfterCredit == <>[]Restored => \A c \in Cluster : []<>(c \notin stopped)
=============================================================================
