----------------------------- MODULE Simulator ------------------------------
(***************************************************************************)
(* The simulator: the event loop of its terminal interface, the steps of   *)
(* the demo, and the cluster agents they start.                            *)
(*                                                                         *)
(* A step is a command that runs in a goroutine of its own: the interface  *)
(* goes on to the next step when time is up or a key is pressed, whether   *)
(* or not the command has ended.  An agent is two goroutines over one      *)
(* stream, the send loop and the receiver.  Agents and the ids the server  *)
(* gives out are named by the round of the demo they belong to: a round    *)
(* begins when the demo is restarted.  Fields shared without a lock are    *)
(* read and written as a whole, and a read returns what was written last.  *)
(*                                                                         *)
(* Left out: the amounts in a heartbeat, counters and everything drawn.    *)
(* The key that quits ends the behaviour; the one that pauses holds back   *)
(* the ticker's heartbeats and the automatic advance, which no behaviour   *)
(* is obliged to take, so a paused program is one that does not take them. *)
(***************************************************************************)
EXTENDS Integers, Sequences

CONSTANTS
    Tenants,         \* the tenants of the demo, in the order of registration
    Clusters,        \* their clusters, in the order of registration
    TenantOf,
    ReplayCount,     \* numbers replayed by one idempotency step
    RecentSize,      \* numbers kept for it
    ReplayCap,       \* capacity of replayCh
    MaxSeq,          \* bound: heartbeats of the agents, by cluster and round
    MaxLive,         \* bound: commands that run at the same time, by round
    MaxRounds,       \* bound: rounds of the demo
    Unreliable       \* bound: agents whose stream may break

Cluster == {Clusters[i] : i \in DOMAIN Clusters}
Tenant == {Tenants[i] : i \in DOMAIN Tenants}

Round == 1..MaxRounds
Agent == Cluster \X Round
Slot == UNION {1..MaxLive[n] : n \in Round}

ASSUME SimulatorAssumption ==
    /\ Tenants \in Seq(Tenant) /\ Len(Tenants) > 0
    /\ Clusters \in Seq(Cluster) /\ Len(Clusters) > 0
    /\ TenantOf \in [Cluster -> Tenant]
    /\ MaxSeq \in [Agent -> Nat] /\ Unreliable \subseteq Agent
    /\ {ReplayCount, RecentSize, ReplayCap, MaxRounds} \subseteq Nat \ {0}
    /\ MaxLive \in [Round -> Nat \ {0}]

(* Acme Corp and its cluster A, which the later steps are about.           *)
Acme == Tenants[1]
A == Clusters[1]

StepProvision == 0
StepStartClusters == 1
StepRecordUsage == 2
StepExhaust == 3
StepSurgePack == 4
StepIdempotency == 5
StepSummary == 6

AutoAdvance == {StepProvision, StepStartClusters}

VARIABLES
    panicked,
    step,         \* currentStep of the interface
    round,        \* rounds begun
    cmds,         \* the commands that run
    provisioned,  \* tenants whose tenantID is set
    clusterID,    \* id of each cluster: the round it was given out in, or 0
    registered,   \* clusters known to the server
    run,          \* state of the send loop and the stream of each agent
    seq,          \* last number an agent has drawn
    sending,      \* agents that have drawn it and not yet sent it
    wasStopped,   \* has the last answer to an agent been a shutdown command?
    stopped,      \* clusters that hold their heartbeats
    closed,       \* is the channel in A's exhaustCh closed?
    recentSeqs,   \* of A
    replayCh,     \* of A
    wire          \* heartbeats sent: cluster, id and number

ui == <<step, round>>
ids == <<provisioned, clusterID, registered>>
agents == <<run, seq, sending, wasStopped>>
channels == <<closed, replayCh>>
vars == <<panicked, ui, cmds, ids, agents, stopped, channels, recentSeqs, wire>>

Command(s, n) == [step |-> s, round |-> n, at |-> 0, known |-> {}, rest |-> <<>>]

Idle == Command(-1, 0)

(* Init starts the first step.                                             *)
Init ==
    /\ panicked = FALSE
    /\ step = StepProvision /\ round = 1
    /\ cmds = [k \in Slot |-> IF k = 1 THEN Command(StepProvision, 1) ELSE Idle]
    /\ provisioned = {} /\ registered = {}
    /\ clusterID = [c \in Cluster |-> 0]
    /\ run = [a \in Agent |-> "none"]
    /\ seq = [a \in Agent |-> 0] /\ sending = {}
    /\ wasStopped = [a \in Agent |-> FALSE]
    /\ stopped = [c \in Cluster |-> FALSE]
    /\ closed = FALSE
    /\ recentSeqs = <<>> /\ replayCh = <<>>
    /\ wire = {}

-----------------------------------------------------------------------------
(* Model.Update.                                                           *)

(* Commands that touch nothing: StepSurgePack calls the server, the others *)
(* show a message.  They are over at once.                                 *)
Announcements == {StepRecordUsage, StepSurgePack, StepSummary}

GoTo(s, n) ==
    /\ IF s \in Announcements THEN UNCHANGED cmds
       ELSE \E k \in 1..MaxLive[n] :
              /\ cmds[k] = Idle /\ \A j \in 1..(k - 1) : cmds[j] # Idle
              /\ cmds' = [cmds EXCEPT ![k] = Command(s, n)]
    /\ step' = s /\ round' = n
    /\ UNCHANGED <<panicked, ids, agents, stopped, channels, recentSeqs, wire>>

(* After the last step the demo goes round from StepExhaust.               *)
KeyNext == GoTo(IF step >= StepSummary THEN StepExhaust ELSE step + 1, round)

KeyRestart == round < MaxRounds /\ GoTo(StepProvision, round + 1)

(* A tick of the interface finds that the time of the step is up.          *)
Tick == step \in AutoAdvance /\ GoTo(step + 1, round)

-----------------------------------------------------------------------------
(* The steps of the demo.                                                  *)

Ended(k) == cmds' = [cmds EXCEPT ![k] = Idle]

(* One call of RegisterTenant.                                             *)
stepProvision(k) ==
    /\ cmds[k].step = StepProvision
    /\ LET i == cmds[k].at + 1
       IN  /\ provisioned' = provisioned \cup {Tenants[i]}
           /\ IF i = Len(Tenants) THEN Ended(k) ELSE cmds' = [cmds EXCEPT ![k].at = i]
    /\ UNCHANGED <<panicked, ui, clusterID, registered, agents, stopped, channels, recentSeqs,
                   wire>>

(* The tenant ids are read when the step begins.                           *)
CopyTenantIDs(k) ==
    /\ cmds[k].step = StepStartClusters /\ cmds[k].at = 0
    /\ cmds' = [cmds EXCEPT ![k].at = 1, ![k].known = provisioned]
    /\ UNCHANGED <<panicked, ui, ids, agents, stopped, channels, recentSeqs, wire>>

(* One call of RegisterCluster; the server refuses the empty tenant id,    *)
(* and the step gives up.                                                  *)
RegisterNext(k) ==
    /\ cmds[k].step = StepStartClusters /\ cmds[k].at \in DOMAIN Clusters
    /\ LET c == Clusters[cmds[k].at]
       IN  IF TenantOf[c] \in cmds[k].known
           THEN /\ clusterID' = [clusterID EXCEPT ![c] = cmds[k].round]
                /\ registered' = registered \cup {<<c, cmds[k].round>>}
                /\ cmds' = [cmds EXCEPT ![k].at = @ + 1]
           ELSE Ended(k) /\ UNCHANGED <<clusterID, registered>>
    /\ UNCHANGED <<panicked, ui, provisioned, agents, stopped, channels, recentSeqs, wire>>

(* An agent of a cluster without an id returns at once.                    *)
HasID(c) == clusterID[c] # 0

(* Every cluster gets an agent, next to those of earlier rounds.  A stream *)
(* is opened by the first message on it.                                   *)
StartAgents(k) ==
    /\ cmds[k].step = StepStartClusters /\ cmds[k].at > Len(Clusters)
    /\ run' = [a \in Agent |-> IF a[2] = cmds[k].round /\ HasID(a[1]) THEN "idle" ELSE run[a]]
    /\ Ended(k)
    /\ UNCHANGED <<panicked, ui, ids, seq, sending, wasStopped, stopped, channels, recentSeqs,
                   wire>>

(* Acme's clusters are set going and A's channel is closed; closing a      *)
(* channel twice is a panic.                                               *)
stepExhaust(k) ==
    /\ cmds[k].step = StepExhaust
    /\ stopped' = [c \in Cluster |-> stopped[c] /\ TenantOf[c] # Acme]
    /\ panicked' = closed
    /\ closed' = TRUE
    /\ Ended(k)
    /\ UNCHANGED <<ui, ids, agents, replayCh, recentSeqs, wire>>

Oldest(n, s) == SubSeq(s, 1, IF Len(s) > n THEN n ELSE Len(s))

CopyRecentSeqs(k) ==
    /\ cmds[k].step = StepIdempotency /\ cmds[k].at = 0
    /\ cmds' = [cmds EXCEPT ![k].at = 1, ![k].rest = Oldest(ReplayCount, recentSeqs)]
    /\ UNCHANGED <<panicked, ui, ids, agents, stopped, channels, recentSeqs, wire>>

(* The send to the channel waits while it is full.                         *)
stepIdempotency(k) ==
    /\ cmds[k].step = StepIdempotency /\ cmds[k].at = 1
    /\ IF cmds[k].rest = <<>>
       THEN Ended(k) /\ UNCHANGED replayCh
       ELSE /\ Len(replayCh) < ReplayCap
            /\ replayCh' = Append(replayCh, Head(cmds[k].rest))
            /\ cmds' = [cmds EXCEPT ![k].rest = Tail(@)]
    /\ UNCHANGED <<panicked, ui, ids, agents, stopped, closed, recentSeqs, wire>>

runStep(k) ==
    \/ stepProvision(k)
    \/ CopyTenantIDs(k) \/ RegisterNext(k) \/ StartAgents(k)
    \/ stepExhaust(k)
    \/ CopyRecentSeqs(k) \/ stepIdempotency(k)

(* RegisterTenant or RegisterCluster fails: the step gives up.             *)
CallFails(k) ==
    /\ \/ cmds[k].step = StepProvision
       \/ cmds[k].step = StepStartClusters /\ cmds[k].at \in DOMAIN Clusters
    /\ Ended(k)
    /\ UNCHANGED <<panicked, ui, ids, agents, stopped, channels, recentSeqs, wire>>

-----------------------------------------------------------------------------
(* ClusterSim.run: the cases of the send loop.                             *)

(* The loop ends with the stream.                                          *)
FaultyLooping(a) == run[a] \in {"idle", "streaming"}

(* The loop goes on when the receiver has met an error, until a heartbeat  *)
(* cannot be sent.                                                         *)
Looping(a) == run[a] \in {"idle", "streaming", "broken"}

(* Replays have a goroutine of their own.                                  *)
FaultyAtSelect(a) == Looping(a)

AtSelect(a) == Looping(a) /\ a \notin sending

(* stream.Send, which fails once the stream is broken.  The message names  *)
(* the cluster by the id it has by now.                                    *)
Sends(a, n) ==
    /\ run[a] # "broken"
    /\ run' = [run EXCEPT ![a] = "streaming"]
    /\ wire' = wire \cup {<<a[1], clusterID[a[1]], n>>}

(* A new channel replaces the closed one.  Another agent of the cluster,   *)
(* left over from an earlier round, may wake up with this one and replace  *)
(* the open channel by an open one, which changes nothing.                 *)
TakeRamp(a) ==
    /\ AtSelect(a) /\ a[1] = A /\ closed
    /\ closed' = FALSE
    /\ UNCHANGED <<panicked, ui, cmds, ids, agents, stopped, replayCh, recentSeqs, wire>>

(* A replay is sent also while the cluster is stopped, and its error is    *)
(* ignored.                                                                *)
TakeReplay(a) ==
    /\ AtSelect(a) /\ a[1] = A /\ replayCh # <<>>
    /\ replayCh' = Tail(replayCh)
    /\ Sends(a, Head(replayCh)) \/ (run[a] = "broken" /\ UNCHANGED <<run, wire>>)
    /\ UNCHANGED <<panicked, ui, cmds, ids, seq, sending, wasStopped, stopped, closed, recentSeqs>>

Remember(s, n) == IF Len(s) < RecentSize THEN Append(s, n) ELSE Append(Tail(s), n)

(* The ticker: the next number is drawn and shown to the other goroutines. *)
DrawNumber(a) ==
    LET c == a[1]
        n == seq[a] + 1
    IN  /\ AtSelect(a) /\ ~stopped[c] /\ n <= MaxSeq[a]
        /\ seq' = [seq EXCEPT ![a] = n]
        /\ sending' = sending \cup {a}
        /\ recentSeqs' = IF c = A THEN Remember(recentSeqs, n) ELSE recentSeqs
        /\ UNCHANGED <<panicked, ui, cmds, ids, run, wasStopped, stopped, channels, wire>>

(* ... and sent.  The loop ends when it cannot be.                         *)
SendHeartbeat(a) ==
    /\ a \in sending
    /\ sending' = sending \ {a}
    /\ \/ Sends(a, seq[a])
       \/ run[a] = "broken" /\ run' = [run EXCEPT ![a] = "ended"] /\ UNCHANGED wire
    /\ UNCHANGED <<panicked, ui, cmds, ids, seq, wasStopped, stopped, channels, recentSeqs>>

-----------------------------------------------------------------------------
(* ClusterSim.run: the receiver.                                           *)

(* The clusters stay stopped when the command goes away.                   *)
FaultyObey(c, hasKill) == [stopped EXCEPT ![c] = @ \/ hasKill]

Obey(c, hasKill) == [stopped EXCEPT ![c] = hasKill]

(* An answer with a shutdown command, or one without: only a change has an *)
(* effect.  The server answers once it has had a message.                  *)
Receive(a) ==
    /\ run[a] = "streaming"
    /\ \E hasKill \in BOOLEAN :
          /\ hasKill # wasStopped[a]
          /\ wasStopped' = [wasStopped EXCEPT ![a] = hasKill]
          /\ stopped' = Obey(a[1], hasKill)
    /\ UNCHANGED <<panicked, ui, cmds, ids, run, seq, sending, channels, recentSeqs, wire>>

(* The server ends the stream, or cannot be reached when it is opened.     *)
StreamBreaks(a) ==
    /\ run[a] \in {"idle", "streaming"} /\ a \in Unreliable
    /\ run' = [run EXCEPT ![a] = "broken"]
    /\ UNCHANGED <<panicked, ui, cmds, ids, seq, sending, wasStopped, stopped, channels, recentSeqs,
                   wire>>

-----------------------------------------------------------------------------
Runs(k) == ~panicked /\ runStep(k)

Replays == ~panicked /\ \E a \in Agent : TakeReplay(a)

Beats == ~panicked /\ \E a \in Agent : SendHeartbeat(a)

Next ==
    \/ \E k \in Slot : Runs(k)
    \/ Replays \/ Beats
    \/ /\ ~panicked
       /\ \/ KeyNext \/ KeyRestart \/ Tick
          \/ \E k \in Slot : CallFails(k)
          \/ \E a \in Agent : TakeRamp(a) \/ DrawNumber(a) \/ Receive(a) \/ StreamBreaks(a)

(* Goroutines run: a command goes on when it can, senders that wait for    *)
(* room in a channel get it in turn, of the cases of a select that stay    *)
(* ready none is passed over for ever, and a send on a stream returns.     *)
Fairness ==
    /\ \A k \in Slot : SF_vars(Runs(k))
    /\ WF_vars(Replays) /\ WF_vars(Beats)

Spec == Init /\ [][Next]_vars /\ Fairness

-----------------------------------------------------------------------------
TypeOK ==
    /\ panicked \in BOOLEAN
    /\ step \in StepProvision..StepSummary /\ round \in Round
    /\ \A k \in Slot : cmds[k] = Idle \/ <<cmds[k].step, cmds[k].round>> \in (0..StepSummary) \X Round
    /\ provisioned \subseteq Tenant
    /\ clusterID \in [Cluster -> 0..MaxRounds] /\ registered \subseteq Agent
    /\ run \in [Agent -> {"none", "idle", "streaming", "broken", "ended"}]
    /\ sending \subseteq Agent
    /\ seq \in [Agent -> Nat] /\ wasStopped \in [Agent -> BOOLEAN]
    /\ stopped \in [Cluster -> BOOLEAN]
    /\ closed \in BOOLEAN
    /\ recentSeqs \in Seq(Nat) /\ Len(recentSeqs) <= RecentSize
    /\ replayCh \in Seq(Nat) /\ Len(replayCh) <= ReplayCap
    /\ wire \subseteq Cluster \X (0..MaxRounds) \X Nat

(* Steps overlap, fail half way and start again, and still every agent     *)
(* that runs, and every heartbeat, names a cluster that the server has     *)
(* registered: agents start after the last registration of their round     *)
(* (main.go:529-547).                                                      *)
NamesKnownCluster ==
    /\ \A a \in Agent : Looping(a) => <<a[1], clusterID[a[1]]>> \in registered
    /\ \A m \in wire : <<m[1], m[2]>> \in registered

Agents(c) == {a \in Agent : a[1] = c /\ run[a] # "none"}

RegisteredOnce == \A r, q \in registered : r[1] = A /\ q[1] = A => r = q

(* main.go:601, "Replay 3 recent sequences from Cluster A on its real      *)
(* stream": a replay that goes out repeats a heartbeat that went out       *)
(* before, under the same id.  The step may well copy a number that is     *)
(* drawn and not yet sent; but the loop that has drawn it takes no replay  *)
(* until it has sent it, and none at all when it could not.  (A restart    *)
(* registers the cluster again while the old agent still runs, and a       *)
(* replay may then be news to the server.)                                 *)
ReplayIsDuplicate ==
    [][RegisteredOnce /\ Len(replayCh') < Len(replayCh) => wire' = wire]_vars

(* main.go:200-218: a cluster holds its heartbeats only while some agent   *)
(* of it has been told to, and, in the first round and until an exhaustion *)
(* step sets the clusters going by hand, it holds them whenever its agent  *)
(* has been told to.                                                       *)
StopFollowsSignal ==
    \A c \in Cluster :
        /\ stopped[c] => \E a \in Agents(c) : wasStopped[a]
        /\ round = 1 /\ step < StepExhaust => \A a \in Agents(c) : wasStopped[a] => stopped[c]

(* What the steps and the agents keep true in every state.                 *)
SimulatorInv == TypeOK /\ NamesKnownCluster /\ StopFollowsSignal

(* Every step ends, unless it replays to a cluster that has no agent left  *)
(* to read the channel.                                                    *)
NoReader == \A a \in Agents(A) : run[a] = "ended"

StepsEnd ==
    \A k \in Slot :
        []<>(cmds[k] = Idle \/ panicked \/ (cmds[k].step = StepIdempotency /\ NoReader))
=============================================================================
