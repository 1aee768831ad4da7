--------------------------- MODULE SimulatorProofs ---------------------------
(* The simulator, for any tenants, clusters, rounds of the demo, commands  *)
(* that overlap and streams that break.                                    *)
(*                                                                         *)
(* The invariant says of a command how far it has come with the clusters   *)
(* it registers: agents start behind the last of them, so every agent has  *)
(* an id.  Of the agents it says that none is ahead of the demo's round,   *)
(* so in the first round a cluster has one, whose flag and the cluster's   *)
(* change together.  For replays it follows the numbers from the           *)
(* heartbeats to the last ones kept, the command and the channel.          *)
EXTENDS Simulator, TLAPS

Cmd == [step : -1..StepSummary, round : 0..MaxRounds, at : Nat, known : SUBSET Tenant,
        rest : Seq(Nat)]

(* What is known of a command, given the ids so far and where the demo is. *)
CommandOK(m, id, n, s) ==
    /\ m \in Cmd
    /\ m = Idle \/ (m.step \in 0..StepSummary /\ m.round \in 1..n)
    /\ m.step = StepProvision => m.at < Len(Tenants)
    /\ m.step = StepStartClusters => \A i \in DOMAIN Clusters : i < m.at => id[Clusters[i]] # 0
    /\ n = 1 /\ s < StepExhaust => m.step # StepExhaust

CommandsOK ==
    /\ cmds \in [Slot -> Cmd]
    /\ \A k \in Slot : CommandOK(cmds[k], clusterID, round, step)

IdsOK ==
    /\ \A c \in Cluster : clusterID[c] # 0 => <<c, clusterID[c]>> \in registered
    /\ \A a \in Agent : Looping(a) => clusterID[a[1]] # 0
    /\ \A m \in wire : <<m[1], m[2]>> \in registered

AgentsOK ==
    \A a \in Agent : /\ run[a] # "none" => a[2] <= round
                     /\ run[a] = "none" => ~wasStopped[a]

(* The types of what is not a command.                                     *)
StepTypes == step \in StepProvision..StepSummary /\ round \in Round

IdTypes ==
    /\ provisioned \subseteq Tenant
    /\ clusterID \in [Cluster -> 0..MaxRounds] /\ registered \subseteq Agent

AgentTypes ==
    /\ run \in [Agent -> {"none", "idle", "streaming", "broken", "ended"}]
    /\ sending \subseteq {a \in Agent : Looping(a)}
    /\ seq \in [Agent -> Nat] /\ wasStopped \in [Agent -> BOOLEAN]
    /\ stopped \in [Cluster -> BOOLEAN]

ChannelTypes ==
    /\ panicked \in BOOLEAN /\ closed \in BOOLEAN
    /\ recentSeqs \in Seq(Nat) /\ Len(recentSeqs) <= RecentSize
    /\ replayCh \in Seq(Nat) /\ Len(replayCh) <= ReplayCap
    /\ wire \subseteq Cluster \X (0..MaxRounds) \X Nat

Types == StepTypes /\ IdTypes /\ AgentTypes /\ ChannelTypes

DemoInv == Types /\ CommandsOK /\ IdsOK /\ AgentsOK /\ StopFollowsSignal

-----------------------------------------------------------------------------
(* Sequences of numbers.                                                   *)

Of(s) == {s[i] : i \in DOMAIN s}

LEMMA NothingOf == <<>> \in Seq(Nat) /\ Len(<<>>) = 0 /\ Of(<<>>) = {}
  BY DEF Of

LEMMA AppendOf ==
  ASSUME NEW s \in Seq(Nat), NEW n \in Nat
  PROVE  Append(s, n) \in Seq(Nat) /\ Len(Append(s, n)) = Len(s) + 1 /\ Len(s) \in Nat
         /\ Of(Append(s, n)) \subseteq Of(s) \cup {n}
  <1>1. /\ Append(s, n) \in Seq(Nat) /\ Len(Append(s, n)) = Len(s) + 1 /\ Len(s) \in Nat
        /\ DOMAIN Append(s, n) = 1..(Len(s) + 1) /\ DOMAIN s = 1..Len(s)
        /\ \A i \in 1..Len(s) : Append(s, n)[i] = s[i]
        /\ Append(s, n)[Len(s) + 1] = n
    OBVIOUS
  <1>2. ASSUME NEW i \in DOMAIN Append(s, n) PROVE Append(s, n)[i] \in Of(s) \cup {n}
    <2>1. i \in 1..Len(s) \/ i = Len(s) + 1
      BY <1>1
    <2> QED
      BY Zenon, <1>1, <2>1 DEF Of
  <1> QED
    BY Zenon, <1>1, <1>2 DEF Of

LEMMA TailOf ==
  ASSUME NEW s \in Seq(Nat), s # <<>>
  PROVE  /\ Tail(s) \in Seq(Nat) /\ Len(Tail(s)) = Len(s) - 1 /\ Len(s) \in Nat \ {0}
         /\ Of(Tail(s)) \subseteq Of(s) /\ Head(s) \in Of(s) /\ Head(s) \in Nat
  <1>1. /\ Tail(s) \in Seq(Nat) /\ Len(Tail(s)) = Len(s) - 1 /\ Len(s) \in Nat \ {0}
        /\ DOMAIN Tail(s) = 1..(Len(s) - 1) /\ DOMAIN s = 1..Len(s)
        /\ \A i \in 1..(Len(s) - 1) : Tail(s)[i] = s[i + 1]
        /\ Head(s) = s[1] /\ Head(s) \in Nat
    OBVIOUS
  <1>2. 1 \in DOMAIN s /\ \A i \in 1..(Len(s) - 1) : i + 1 \in DOMAIN s
    BY <1>1
  <1>3. ASSUME NEW i \in DOMAIN Tail(s) PROVE Tail(s)[i] \in Of(s)
    BY Zenon, <1>1, <1>2 DEF Of
  <1>4. s[1] \in Of(s)
    BY Zenon, <1>2 DEF Of
  <1> QED
    BY Zenon, <1>1, <1>3, <1>4 DEF Of

LEMMA OldestOf ==
  ASSUME NEW s \in Seq(Nat), NEW n \in Nat
  PROVE  Oldest(n, s) \in Seq(Nat) /\ Of(Oldest(n, s)) \subseteq Of(s)
  <1>1. PICK m \in 0..Len(s) : Oldest(n, s) = SubSeq(s, 1, m)
    BY DEF Oldest
  <1>2. /\ SubSeq(s, 1, m) \in Seq(Nat) /\ DOMAIN SubSeq(s, 1, m) = 1..m
        /\ \A i \in 1..m : SubSeq(s, 1, m)[i] = s[i] /\ i \in DOMAIN s
    OBVIOUS
  <1> QED
    BY Zenon, <1>1, <1>2 DEF Of

LEMMA RememberOf ==
  ASSUME NEW s \in Seq(Nat), Len(s) <= RecentSize, NEW n \in Nat
  PROVE  /\ Remember(s, n) \in Seq(Nat) /\ Len(Remember(s, n)) <= RecentSize
         /\ Of(Remember(s, n)) \subseteq Of(s) \cup {n}
  <1>1. RecentSize \in Nat \ {0} /\ Len(s) \in Nat
    BY SimulatorAssumption
  <1>2. CASE Len(s) < RecentSize
    <2>1. Remember(s, n) = Append(s, n)
      BY Zenon, <1>2 DEF Remember
    <2>2. Len(s) + 1 <= RecentSize
      BY <1>1, <1>2
    <2>3. /\ Append(s, n) \in Seq(Nat) /\ Len(Append(s, n)) = Len(s) + 1
          /\ Of(Append(s, n)) \subseteq Of(s) \cup {n}
      BY Zenon, AppendOf
    <2>4. Len(Append(s, n)) <= RecentSize
      BY Zenon, <2>2, <2>3
    <2> QED
      BY Zenon, <2>1, <2>3, <2>4
  <1>3. CASE ~(Len(s) < RecentSize)
    <2>1. s # <<>> /\ Len(s) = RecentSize
      BY <1>1, <1>3
    <2>2. Remember(s, n) = Append(Tail(s), n)
      BY Zenon, <1>3 DEF Remember
    <2>3. Tail(s) \in Seq(Nat) /\ Len(Tail(s)) = Len(s) - 1 /\ Of(Tail(s)) \subseteq Of(s)
      BY Zenon, <2>1, TailOf
    <2>4. /\ Append(Tail(s), n) \in Seq(Nat) /\ Len(Append(Tail(s), n)) = Len(Tail(s)) + 1
          /\ Of(Append(Tail(s), n)) \subseteq Of(Tail(s)) \cup {n}
      BY Zenon, <2>3, AppendOf
    <2>5. Len(Append(Tail(s), n)) <= RecentSize
      BY <1>1, <2>1, <2>3, <2>4
    <2> QED
      BY Zenon, <2>2, <2>3, <2>4, <2>5
  <1> QED
    BY Zenon, <1>2, <1>3

(* What is assumed of the constants.                                       *)
LEMMA ConstantsAre ==
  /\ DOMAIN Tenants = 1..Len(Tenants) /\ Len(Tenants) \in Nat \ {0}
  /\ DOMAIN Clusters = 1..Len(Clusters) /\ Len(Clusters) \in Nat \ {0}
  /\ MaxRounds \in Nat \ {0} /\ ReplayCount \in Nat /\ ReplayCap \in Nat
  <1>1. ASSUME NEW S, NEW s \in Seq(S), Len(s) > 0
        PROVE  DOMAIN s = 1..Len(s) /\ Len(s) \in Nat \ {0}
    BY <1>1
  <1> QED
    BY Zenon, <1>1, SimulatorAssumption

-----------------------------------------------------------------------------
(* The parts of the invariant that a step leaves alone.                    *)

LEMMA SameSteps == ASSUME Types, UNCHANGED ui PROVE StepTypes'
  BY Zenon DEF Types, StepTypes, ui

LEMMA SameIds == ASSUME Types, UNCHANGED ids PROVE IdTypes'
  BY Zenon DEF Types, IdTypes, ids

LEMMA SameAgents == ASSUME Types, UNCHANGED <<agents, stopped>> PROVE AgentTypes'
  BY Zenon DEF Types, AgentTypes, agents, Looping

LEMMA SameChannels ==
  ASSUME Types, UNCHANGED <<panicked, channels, recentSeqs, wire>>
  PROVE  ChannelTypes'
  BY Zenon DEF Types, ChannelTypes, channels

(* A command goes on, and the ids are only added to.                       *)
LEMMA CommandStays ==
  ASSUME NEW m, NEW id, NEW n \in Nat, NEW s, NEW id2, NEW n2 \in Nat, NEW s2,
         CommandOK(m, id, n, s), \A c \in Cluster : id[c] # 0 => id2[c] # 0, n <= n2,
         n2 = 1 /\ s2 < StepExhaust => n = 1 /\ s < StepExhaust
  PROVE  CommandOK(m, id2, n2, s2)
  <1>1. \A i \in DOMAIN Clusters : Clusters[i] \in Cluster
    BY Zenon DEF Cluster
  <1>2. m.round \in 1..n => m.round \in 1..n2
    OBVIOUS
  <1> QED
    BY Zenon, <1>1, <1>2 DEF CommandOK

LEMMA SameCommands == ASSUME CommandsOK, UNCHANGED <<cmds, clusterID, ui>> PROVE CommandsOK'
  BY Zenon DEF CommandsOK, ui

(* One command goes on.                                                    *)
LEMMA OneCommand ==
  ASSUME Types, CommandsOK, NEW k \in Slot, NEW m, cmds' = [cmds EXCEPT ![k] = m],
         UNCHANGED ui, \A c \in Cluster : clusterID[c] # 0 => clusterID'[c] # 0,
         CommandOK(m, clusterID', round, step)
  PROVE  CommandsOK'
  <1>1. m \in Cmd
    BY Zenon DEF CommandOK
  <1>2. cmds' \in [Slot -> Cmd] /\ \A j \in Slot : cmds'[j] \in {cmds[j], m}
    BY Zenon, <1>1 DEF CommandsOK
  <1>3. round \in Nat /\ round <= round
    BY DEF Types, StepTypes, Round
  <1>4. ASSUME NEW j \in Slot PROVE CommandOK(cmds[j], clusterID', round, step)
    BY Zenon, <1>3, CommandStays DEF CommandsOK
  <1> QED
    BY Zenon, <1>2, <1>4 DEF CommandsOK, ui

LEMMA IdleOK == ASSUME NEW id, NEW n, NEW s PROVE CommandOK(Idle, id, n, s)
  <1>1. /\ Idle.step = -1 /\ Idle \in Cmd
    BY SimulatorAssumption DEF Idle, Command, Cmd, StepSummary
  <1> QED
    BY <1>1 DEF CommandOK, StepProvision, StepStartClusters, StepExhaust

(* A command ends.                                                         *)
LEMMA EndedOK ==
  ASSUME Types, CommandsOK, NEW k \in Slot, Ended(k),
         UNCHANGED ui, \A c \in Cluster : clusterID[c] # 0 => clusterID'[c] # 0
  PROVE  CommandsOK'
  BY Zenon, IdleOK, OneCommand DEF Ended

LEMMA SameNames == ASSUME IdsOK, UNCHANGED <<clusterID, registered, run, wire>> PROVE IdsOK'
  BY Zenon DEF IdsOK, Looping

LEMMA SameFlags ==
  ASSUME AgentsOK, StopFollowsSignal, UNCHANGED <<ui, run, wasStopped, stopped>>
  PROVE  AgentsOK' /\ StopFollowsSignal'
  BY Zenon DEF AgentsOK, StopFollowsSignal, Agents, ui

(* A step that touches no agent and no id.                                 *)
LEMMA OnlyCommands ==
  ASSUME DemoInv, UNCHANGED <<panicked, ui, ids, agents, stopped, channels, recentSeqs, wire>>,
         CommandsOK'
  PROVE  DemoInv'
  <1>1. Types'
    BY Zenon, SameSteps, SameIds, SameAgents, SameChannels DEF DemoInv, Types
  <1>2. UNCHANGED <<clusterID, registered, run, wasStopped>>
    BY Zenon DEF ids, agents
  <1> QED
    BY Zenon, <1>1, <1>2, SameNames, SameFlags DEF DemoInv

-----------------------------------------------------------------------------
(* The interface.                                                          *)

LEMMA GoToKeeps ==
  ASSUME DemoInv, NEW s \in StepProvision..StepSummary, NEW n \in Round, GoTo(s, n),
         n = round \/ n = round + 1,
         n = 1 /\ s < StepExhaust => round = 1 /\ step < StepExhaust
  PROVE  DemoInv'
  <1>1. /\ step' = s /\ round' = n
        /\ UNCHANGED <<panicked, ids, agents, stopped, channels, recentSeqs, wire>>
        /\ UNCHANGED <<clusterID, registered, run, wasStopped>>
    BY Zenon DEF GoTo, ids, agents
  <1>2. /\ round \in Nat /\ n \in Nat /\ round <= n /\ n >= 1 /\ n <= MaxRounds
        /\ n \in 1..n /\ n \in 0..MaxRounds
    BY SimulatorAssumption DEF DemoInv, Types, StepTypes, Round
  <1>3. Types'
    <2>1. StepTypes'
      BY Zenon, <1>1 DEF StepTypes
    <2> QED
      BY Zenon, <1>1, <2>1, SameIds, SameAgents, SameChannels DEF DemoInv, Types
  <1>4. ASSUME NEW k \in Slot PROVE CommandOK(cmds[k], clusterID, n, s)
    BY Zenon, <1>2, CommandStays DEF DemoInv, CommandsOK
  <1>5. CommandsOK'
    <2>1. CASE s \in Announcements
      BY Zenon, <1>1, <1>4, <2>1 DEF GoTo, DemoInv, CommandsOK
    <2>2. CASE s \notin Announcements
      <3>1. PICK k \in Slot : cmds' = [cmds EXCEPT ![k] = Command(s, n)]
        BY Zenon, <2>2 DEF GoTo, Slot
      <3>2. CommandOK(Command(s, n), clusterID, n, s)
        <4>1. Command(s, n) \in Cmd
          <5>1. s \in -1..StepSummary /\ 0 \in Nat /\ <<>> \in Seq(Nat)
            BY DEF StepProvision, StepSummary
          <5> QED
            BY Zenon, <1>2, <5>1 DEF Command, Cmd
        <4>2. /\ Command(s, n).step = s /\ Command(s, n).round = n /\ Command(s, n).at = 0
          BY Zenon DEF Command
        <4>3. s \in 0..StepSummary /\ 0 < Len(Tenants) /\ \A i \in DOMAIN Clusters : ~(i < 0)
          BY SimulatorAssumption DEF StepProvision
        <4>4. s < StepExhaust => s # StepExhaust
          BY DEF StepExhaust
        <4> QED
          BY Zenon, <1>2, <4>1, <4>2, <4>3, <4>4 DEF CommandOK
      <3>3. Command(s, n) \in Cmd
        BY Zenon, <3>2 DEF CommandOK
      <3>4. cmds' \in [Slot -> Cmd] /\ \A j \in Slot : cmds'[j] \in {cmds[j], Command(s, n)}
        BY Zenon, <3>1, <3>3 DEF DemoInv, CommandsOK
      <3> QED
        BY Zenon, <1>1, <1>4, <3>2, <3>4 DEF CommandsOK
    <2> QED
      BY Zenon, <2>1, <2>2
  <1>6. AgentsOK'
    <2>1. \A a \in Agent : a[2] \in Nat /\ (a[2] <= round => a[2] <= n)
      BY <1>2 DEF Agent, Round
    <2> QED
      BY Zenon, <1>1, <2>1 DEF DemoInv, AgentsOK
  <1>7. StopFollowsSignal'
    BY Zenon, <1>1 DEF DemoInv, StopFollowsSignal, Agents
  <1> QED
    BY Zenon, <1>1, <1>3, <1>5, <1>6, <1>7, SameNames DEF DemoInv

LEMMA InterfaceKeeps ==
  ASSUME DemoInv, KeyNext \/ KeyRestart \/ Tick
  PROVE  DemoInv'
  <1>1. step \in 0..6 /\ round \in Round /\ round \in Nat
    BY DEF DemoInv, Types, StepTypes, StepProvision, StepSummary, Round
  <1>2. CASE KeyNext
    <2>1. PICK s : s = IF step >= StepSummary THEN StepExhaust ELSE step + 1
      BY Zenon
    <2>2. s \in StepProvision..StepSummary /\ (s < StepExhaust => step < StepExhaust)
      BY <1>1, <2>1 DEF StepProvision, StepSummary, StepExhaust
    <2>3. GoTo(s, round)
      BY Zenon, <1>2, <2>1 DEF KeyNext
    <2> QED
      BY Zenon, <1>1, <2>2, <2>3, GoToKeeps
  <1>3. CASE KeyRestart
    <2>1. StepProvision \in StepProvision..StepSummary /\ round + 1 \in Round /\ round + 1 # 1
      BY <1>1, <1>3, SimulatorAssumption DEF KeyRestart, StepProvision, StepSummary, Round
    <2>2. GoTo(StepProvision, round + 1)
      BY Zenon, <1>3 DEF KeyRestart
    <2> QED
      BY Zenon, <2>1, <2>2, GoToKeeps
  <1>4. CASE Tick
    <2>1. step + 1 \in StepProvision..StepSummary /\ step < StepExhaust
      BY <1>4 DEF Tick, AutoAdvance, StepProvision, StepStartClusters, StepSummary, StepExhaust
    <2>2. GoTo(step + 1, round)
      BY Zenon, <1>4 DEF Tick
    <2> QED
      BY Zenon, <1>1, <2>1, <2>2, GoToKeeps
  <1> QED
    BY Zenon, <1>2, <1>3, <1>4

-----------------------------------------------------------------------------
(* The commands.                                                           *)

LEMMA CommandTypes ==
  ASSUME DemoInv, NEW k \in Slot, cmds[k].step # -1
  PROVE  /\ CommandOK(cmds[k], clusterID, round, step)
         /\ cmds[k] \in Cmd /\ cmds[k].at \in Nat /\ cmds[k].known \subseteq Tenant
         /\ cmds[k].rest \in Seq(Nat)
         /\ cmds[k].round \in 1..round /\ cmds[k].round \in Round /\ cmds[k].round # 0
         /\ cmds[k].step \in 0..StepSummary
  <1>1. CommandOK(cmds[k], clusterID, round, step) /\ cmds[k] \in Cmd
    BY Zenon DEF DemoInv, CommandsOK, CommandOK
  <1>2. cmds[k] # Idle
    <2>1. Idle.step = -1
      BY DEF Idle, Command
    <2> QED
      BY Zenon, <2>1
  <1>3. cmds[k].round \in 1..round /\ cmds[k].step \in 0..StepSummary
    BY Zenon, <1>1, <1>2 DEF CommandOK
  <1>4. round \in 1..MaxRounds /\ MaxRounds \in Nat
    BY Zenon, SimulatorAssumption DEF DemoInv, Types, StepTypes, Round
  <1>5. cmds[k].round \in Round /\ cmds[k].round # 0
    BY <1>3, <1>4 DEF Round
  <1> QED
    BY Zenon, <1>1, <1>3, <1>5 DEF Cmd

LEMMA stepProvisionKeeps ==
  ASSUME DemoInv, NEW k \in Slot, stepProvision(k)
  PROVE  DemoInv'
  <1>1. cmds[k].step = StepProvision /\ cmds[k].step # -1
    BY DEF stepProvision, StepProvision
  <1>2. /\ CommandOK(cmds[k], clusterID, round, step) /\ cmds[k] \in Cmd /\ cmds[k].at \in Nat
        /\ cmds[k].at < Len(Tenants)
    BY Zenon, <1>1, CommandTypes DEF CommandOK
  <1>3. PICK i : i = cmds[k].at + 1
    BY Zenon
  <1>4. i \in Nat /\ i \in DOMAIN Tenants
    BY <1>2, <1>3, ConstantsAre
  <1>5. Tenants[i] \in Tenant
    BY Zenon, <1>4 DEF Tenant
  <1>6. /\ provisioned' = provisioned \cup {Tenants[i]}
        /\ IF i = Len(Tenants) THEN Ended(k) ELSE cmds' = [cmds EXCEPT ![k] = [@ EXCEPT !.at = i]]
        /\ UNCHANGED <<panicked, ui, clusterID, registered, agents, stopped, channels, recentSeqs,
                       wire, run, wasStopped>>
    BY Zenon, <1>3 DEF stepProvision, agents
  <1>7. Types'
    <2>1. IdTypes'
      BY Zenon, <1>5, <1>6 DEF DemoInv, Types, IdTypes
    <2> QED
      BY Zenon, <1>6, <2>1, SameSteps, SameAgents, SameChannels DEF DemoInv, Types
  <1>8. CommandsOK'
    <2>1. CASE i = Len(Tenants)
      BY Zenon, <1>6, <2>1, EndedOK DEF DemoInv
    <2>2. CASE i # Len(Tenants)
      <3>1. PICK m : m = [cmds[k] EXCEPT !.at = i]
        BY Zenon
      <3>2. /\ m \in Cmd /\ m.step = cmds[k].step /\ m.round = cmds[k].round /\ m.at = i
        BY <1>2, <1>4, <3>1 DEF Cmd
      <3>3. i < Len(Tenants) /\ StepProvision # StepStartClusters /\ StepProvision # StepExhaust
        <4>1. i \in 1..Len(Tenants) /\ Len(Tenants) \in Nat
          BY Zenon, <1>4, ConstantsAre
        <4>2. i < Len(Tenants)
          BY <2>2, <4>1
        <4>3. StepProvision # StepStartClusters /\ StepProvision # StepExhaust
          BY DEF StepProvision, StepStartClusters, StepExhaust
        <4> QED
          BY Zenon, <4>2, <4>3
      <3>4. m.step \in 0..StepSummary /\ m.round \in 1..round
        BY Zenon, <1>1, <3>2, CommandTypes
      <3>5. CommandOK(m, clusterID, round, step)
        BY Zenon, <1>1, <3>2, <3>3, <3>4 DEF CommandOK
      <3>6. cmds' = [cmds EXCEPT ![k] = m]
        BY Zenon, <1>6, <2>2, <3>1
      <3> QED
        BY Zenon, <1>6, <3>5, <3>6, OneCommand DEF DemoInv
    <2> QED
      BY Zenon, <2>1, <2>2
  <1> QED
    BY Zenon, <1>6, <1>7, <1>8, SameNames, SameFlags DEF DemoInv

(* A command looks at something, and remembers it.                         *)
LEMMA CopyKeeps ==
  ASSUME DemoInv, NEW k \in Slot, CopyTenantIDs(k) \/ CopyRecentSeqs(k) \/ CallFails(k)
  PROVE  DemoInv'
  <1>1. UNCHANGED <<panicked, ui, ids, agents, stopped, channels, recentSeqs, wire, clusterID>>
    BY Zenon DEF CopyTenantIDs, CopyRecentSeqs, CallFails, ids
  <1>2. CASE CallFails(k)
    <2>1. CommandsOK'
      BY Zenon, <1>1, <1>2, EndedOK DEF CallFails, DemoInv
    <2> QED
      BY Zenon, <1>1, <2>1, OnlyCommands
  <1>3. CASE CopyTenantIDs(k) \/ CopyRecentSeqs(k)
    <2>1. cmds[k].step \in {StepStartClusters, StepIdempotency} /\ cmds[k].step # -1
      BY <1>3 DEF CopyTenantIDs, CopyRecentSeqs, StepStartClusters, StepIdempotency
    <2>2. /\ cmds[k] \in Cmd /\ cmds[k].round \in 1..round /\ cmds[k].step \in 0..StepSummary
      BY Zenon, <2>1, CommandTypes
    <2>3. PICK m \in Cmd : /\ cmds' = [cmds EXCEPT ![k] = m] /\ m.at = 1
                           /\ m.step = cmds[k].step /\ m.round = cmds[k].round
      <3>1. CASE CopyTenantIDs(k)
        <4>1. PICK m : m = [cmds[k] EXCEPT !.at = 1, !.known = provisioned]
          BY Zenon
        <4>2. cmds' = [cmds EXCEPT ![k] = m]
          BY Zenon, <3>1, <4>1 DEF CopyTenantIDs
        <4>3. provisioned \in SUBSET Tenant
          BY Zenon DEF DemoInv, Types, IdTypes
        <4>4. m \in Cmd /\ m.at = 1 /\ m.step = cmds[k].step /\ m.round = cmds[k].round
          BY <2>2, <4>1, <4>3 DEF Cmd
        <4> QED
          BY Zenon, <4>2, <4>4
      <3>2. CASE CopyRecentSeqs(k)
        <4>1. PICK m : m = [cmds[k] EXCEPT !.at = 1, !.rest = Oldest(ReplayCount, recentSeqs)]
          BY Zenon
        <4>2. cmds' = [cmds EXCEPT ![k] = m]
          BY Zenon, <3>2, <4>1 DEF CopyRecentSeqs
        <4>3. recentSeqs \in Seq(Nat) /\ ReplayCount \in Nat
          BY Zenon, SimulatorAssumption DEF DemoInv, Types, ChannelTypes
        <4>4. Oldest(ReplayCount, recentSeqs) \in Seq(Nat)
          BY Zenon, <4>3, OldestOf
        <4>5. m \in Cmd /\ m.at = 1 /\ m.step = cmds[k].step /\ m.round = cmds[k].round
          BY <2>2, <4>1, <4>4 DEF Cmd
        <4> QED
          BY Zenon, <4>2, <4>5
      <3> QED
        BY Zenon, <1>3, <3>1, <3>2
    <2>4. CommandOK(m, clusterID, round, step)
      <3>1. \A i \in DOMAIN Clusters : ~(i < 1)
        BY SimulatorAssumption
      <3>2. m.step # StepProvision /\ m.step # StepExhaust
        BY <2>1, <2>3
           DEF StepProvision, StepExhaust, StepStartClusters, StepIdempotency
      <3> QED
        BY Zenon, <2>2, <2>3, <3>1, <3>2 DEF CommandOK
    <2>5. CommandsOK'
      BY Zenon, <1>1, <2>3, <2>4, OneCommand DEF DemoInv
    <2> QED
      BY Zenon, <1>1, <2>5, OnlyCommands
  <1> QED
    BY Zenon, <1>2, <1>3

(* The clusters before the next one have their ids.                        *)
LEMMA RegisterNextKeeps ==
  ASSUME DemoInv, NEW k \in Slot, RegisterNext(k)
  PROVE  DemoInv'
  <1>1. cmds[k].step = StepStartClusters /\ cmds[k].step # -1
    BY DEF RegisterNext, StepStartClusters
  <1>2. /\ CommandOK(cmds[k], clusterID, round, step) /\ cmds[k] \in Cmd /\ cmds[k].at \in Nat
        /\ cmds[k].round \in Round /\ cmds[k].round # 0 /\ cmds[k].round \in 1..round
        /\ cmds[k].step \in 0..StepSummary
    BY Zenon, <1>1, CommandTypes
  <1>3. PICK c : c = Clusters[cmds[k].at]
    BY Zenon
  <1>4. cmds[k].at \in DOMAIN Clusters /\ c \in Cluster
    BY Zenon, <1>3 DEF RegisterNext, Cluster
  <1>5. UNCHANGED <<panicked, ui, provisioned, agents, stopped, channels, recentSeqs, wire>>
    BY Zenon DEF RegisterNext
  <1>6. CASE Ended(k) /\ UNCHANGED <<clusterID, registered>>
    <2>1. CommandsOK'
      BY Zenon, <1>5, <1>6, EndedOK DEF DemoInv
    <2> QED
      BY Zenon, <1>5, <1>6, <2>1, OnlyCommands DEF ids
  <1>7. CASE /\ clusterID' = [clusterID EXCEPT ![c] = cmds[k].round]
             /\ registered' = registered \cup {<<c, cmds[k].round>>}
             /\ cmds' = [cmds EXCEPT ![k] = [cmds[k] EXCEPT !.at = cmds[k].at + 1]]
    <2>1. clusterID \in [Cluster -> 0..MaxRounds] /\ cmds[k].round \in 0..MaxRounds
      BY Zenon, <1>2 DEF DemoInv, Types, IdTypes, Cmd
    <2>2. /\ clusterID' \in [Cluster -> 0..MaxRounds]
          /\ \A d \in Cluster : clusterID'[d] = IF d = c THEN cmds[k].round ELSE clusterID[d]
      BY Zenon, <1>7, <2>1
    <2>3. \A d \in Cluster : clusterID[d] # 0 => clusterID'[d] # 0
      BY Zenon, <1>2, <2>2
    <2>4. Types'
      <3>1. <<c, cmds[k].round>> \in Agent
        BY Zenon, <1>2, <1>4 DEF Agent
      <3>2. IdTypes'
        BY Zenon, <1>5, <1>7, <2>2, <3>1 DEF DemoInv, Types, IdTypes
      <3> QED
        BY Zenon, <1>5, <3>2, SameSteps, SameAgents, SameChannels DEF DemoInv, Types
    <2>5. CommandsOK'
      <3>0. cmds[k].at + 1 \in Nat
        BY <1>2
      <3>1. PICK m : m = [cmds[k] EXCEPT !.at = cmds[k].at + 1]
        BY Zenon
      <3>2. m \in Cmd /\ m.step = cmds[k].step /\ m.round = cmds[k].round /\ m.at = cmds[k].at + 1
        BY Zenon, <1>2, <3>0, <3>1 DEF Cmd
      <3>3. StepStartClusters # StepProvision /\ StepStartClusters # StepExhaust
        BY DEF StepProvision, StepStartClusters, StepExhaust
      <3>4. ASSUME NEW i \in DOMAIN Clusters, i < m.at PROVE clusterID'[Clusters[i]] # 0
        <4>1. i < cmds[k].at \/ i = cmds[k].at
          BY <1>2, <3>2, <3>4, ConstantsAre
        <4>2. CASE i = cmds[k].at
          BY Zenon, <1>2, <1>3, <1>4, <2>2, <4>2
        <4>3. CASE i < cmds[k].at
          <5>1. Clusters[i] \in Cluster /\ clusterID[Clusters[i]] # 0
            BY Zenon, <1>1, <1>2, <4>3 DEF CommandOK, Cluster
          <5> QED
            BY Zenon, <2>3, <5>1
        <4> QED
          BY Zenon, <4>1, <4>2, <4>3
      <3>5. CommandOK(m, clusterID', round, step)
        BY Zenon, <1>1, <1>2, <3>2, <3>3, <3>4 DEF CommandOK
      <3>6. cmds' = [cmds EXCEPT ![k] = m]
        BY Zenon, <1>7, <3>1
      <3> QED
        BY Zenon, <1>5, <2>3, <3>5, <3>6, OneCommand DEF DemoInv
    <2>6. IdsOK'
      <3>1. UNCHANGED <<run, wire>> /\ registered \subseteq registered'
        BY Zenon, <1>5, <1>7 DEF agents
      <3>2. \A d \in Cluster : clusterID'[d] # 0 => <<d, clusterID'[d]>> \in registered'
        BY Zenon, <1>7, <2>2, <3>1 DEF DemoInv, IdsOK
      <3>3. \A a \in Agent : a[1] \in Cluster
        BY Zenon DEF Agent
      <3>4. \A a \in Agent : Looping(a)' => clusterID'[a[1]] # 0
        BY Zenon, <2>3, <3>1, <3>3 DEF DemoInv, IdsOK, Looping
      <3> QED
        BY Zenon, <3>1, <3>2, <3>4 DEF DemoInv, IdsOK
    <2> QED
      BY Zenon, <1>5, <2>4, <2>5, <2>6, SameFlags DEF DemoInv, agents
  <1> QED
    BY Zenon, <1>3, <1>6, <1>7 DEF RegisterNext

(* Every cluster has its id when the agents start.                         *)
LEMMA StartAgentsKeeps ==
  ASSUME DemoInv, NEW k \in Slot, StartAgents(k)
  PROVE  DemoInv'
  <1>1. cmds[k].step = StepStartClusters /\ cmds[k].step # -1
    BY DEF StartAgents, StepStartClusters
  <1>2. /\ CommandOK(cmds[k], clusterID, round, step) /\ cmds[k].at \in Nat
        /\ cmds[k].round \in 1..round
    BY Zenon, <1>1, CommandTypes
  <1>3. /\ run' = [a \in Agent |-> IF a[2] = cmds[k].round /\ clusterID[a[1]] # 0
                                  THEN "idle" ELSE run[a]]
        /\ Ended(k) /\ cmds[k].at > Len(Clusters)
        /\ UNCHANGED <<panicked, ui, ids, seq, sending, wasStopped, stopped, channels, recentSeqs, wire,
                       clusterID, registered>>
    BY Zenon DEF StartAgents, HasID, ids
  <1>4. Types'
    <2>1. sending' \subseteq {a \in Agent : Looping(a)'}
      BY Zenon, <1>3 DEF DemoInv, Types, AgentTypes, Looping
    <2>2. AgentTypes'
      BY Zenon, <1>3, <2>1 DEF DemoInv, Types, AgentTypes
    <2> QED
      BY Zenon, <1>3, <2>2, SameSteps, SameIds, SameChannels DEF DemoInv, Types
  <1>5. CommandsOK'
    BY Zenon, <1>3, EndedOK DEF DemoInv
  <1>6. IdsOK'
    <2>1. \A i \in DOMAIN Clusters : i < cmds[k].at
      BY <1>2, <1>3, ConstantsAre
    <2>2. \A c \in Cluster : clusterID[c] # 0
      BY Zenon, <1>1, <1>2, <2>1 DEF CommandOK, Cluster
    <2>3. \A a \in Agent : a[1] \in Cluster
      BY Zenon DEF Agent
    <2> QED
      BY Zenon, <1>3, <2>2, <2>3 DEF DemoInv, IdsOK
  <1>7. \A a \in Agent : /\ run'[a] # "none"
                            => (run[a] # "none" \/ (a[2] = cmds[k].round /\ ~wasStopped[a]))
                         /\ run[a] # "none" => run'[a] # "none"
    BY Zenon, <1>3 DEF DemoInv, AgentsOK
  <1>8. AgentsOK'
    <2>1. cmds[k].round <= round
      BY <1>2
    <2> QED
      BY Zenon, <1>3, <1>7, <2>1 DEF DemoInv, AgentsOK, ui
  <1>9. StopFollowsSignal'
    <2>1. \A c \in Cluster : \A a \in Agents(c) : a \in Agents(c)'
      BY Zenon, <1>7 DEF Agents
    <2>2. \A c \in Cluster : \A a \in Agents(c)' : a \in Agents(c) \/ ~wasStopped[a]
      BY Zenon, <1>7 DEF Agents
    <2> QED
      BY Zenon, <1>3, <2>1, <2>2 DEF DemoInv, StopFollowsSignal, ui
  <1> QED
    BY Zenon, <1>4, <1>5, <1>6, <1>8, <1>9 DEF DemoInv

(* An exhaustion step is not of the first steps of the first round.        *)
LEMMA stepExhaustKeeps ==
  ASSUME DemoInv, NEW k \in Slot, stepExhaust(k)
  PROVE  DemoInv'
  <1>1. cmds[k].step = StepExhaust /\ cmds[k].step # -1
    BY DEF stepExhaust, StepExhaust
  <1>2. ~(round = 1 /\ step < StepExhaust)
    BY Zenon, <1>1, CommandTypes DEF CommandOK
  <1>3. /\ stopped' = [c \in Cluster |-> stopped[c] /\ TenantOf[c] # Acme]
        /\ panicked' = closed /\ closed' = TRUE /\ Ended(k)
        /\ UNCHANGED <<ui, ids, agents, replayCh, recentSeqs, wire, clusterID, registered, run,
                       wasStopped>>
    BY Zenon DEF stepExhaust, ids, agents
  <1>4. Types'
    <2>1. AgentTypes'
      BY Zenon, <1>3 DEF DemoInv, Types, AgentTypes, agents, Looping
    <2>2. ChannelTypes'
      BY Zenon, <1>3 DEF DemoInv, Types, ChannelTypes
    <2> QED
      BY Zenon, <1>3, <2>1, <2>2, SameSteps, SameIds DEF DemoInv, Types
  <1>5. CommandsOK'
    BY Zenon, <1>3, EndedOK DEF DemoInv
  <1>6. AgentsOK'
    BY Zenon, <1>3 DEF DemoInv, AgentsOK, ui
  <1>7. StopFollowsSignal'
    <2>1. \A c \in Cluster : stopped'[c] => stopped[c]
      BY Zenon, <1>3
    <2> QED
      BY Zenon, <1>2, <1>3, <2>1 DEF DemoInv, StopFollowsSignal, Agents, ui
  <1> QED
    BY Zenon, <1>3, <1>4, <1>5, <1>6, <1>7, SameNames DEF DemoInv

LEMMA stepIdempotencyKeeps ==
  ASSUME DemoInv, NEW k \in Slot, stepIdempotency(k)
  PROVE  DemoInv'
  <1>1. cmds[k].step = StepIdempotency /\ cmds[k].step # -1
    BY DEF stepIdempotency, StepIdempotency
  <1>2. /\ CommandOK(cmds[k], clusterID, round, step) /\ cmds[k] \in Cmd
        /\ cmds[k].rest \in Seq(Nat) /\ cmds[k].round \in 1..round /\ cmds[k].step \in 0..StepSummary
    BY Zenon, <1>1, CommandTypes
  <1>3. UNCHANGED <<panicked, ui, ids, agents, stopped, closed, recentSeqs, wire, clusterID,
                    registered, run, wasStopped>>
    BY Zenon DEF stepIdempotency, ids, agents
  <1>4. CASE cmds[k].rest = <<>>
    <2>1. Ended(k) /\ UNCHANGED channels
      BY Zenon, <1>3, <1>4 DEF stepIdempotency, channels
    <2>2. CommandsOK'
      BY Zenon, <1>3, <2>1, EndedOK DEF DemoInv
    <2> QED
      BY Zenon, <1>3, <2>1, <2>2, OnlyCommands
  <1>5. CASE cmds[k].rest # <<>>
    <2>1. PICK m, n : m = [cmds[k] EXCEPT !.rest = Tail(cmds[k].rest)] /\ n = Head(cmds[k].rest)
      BY Zenon
    <2>2. /\ Len(replayCh) < ReplayCap /\ replayCh' = Append(replayCh, n)
          /\ cmds' = [cmds EXCEPT ![k] = m]
      BY Zenon, <1>5, <2>1 DEF stepIdempotency
    <2>3. n \in Nat /\ Tail(cmds[k].rest) \in Seq(Nat)
      BY Zenon, <1>2, <1>5, <2>1, TailOf
    <2>4. Types'
      <3>1. replayCh \in Seq(Nat)
        BY Zenon DEF DemoInv, Types, ChannelTypes
      <3>2. replayCh' \in Seq(Nat) /\ Len(replayCh') = Len(replayCh) + 1 /\ Len(replayCh) \in Nat
        BY Zenon, <2>2, <2>3, <3>1, AppendOf
      <3>3. Len(replayCh') <= ReplayCap
        BY <2>2, <3>2, ConstantsAre
      <3>4. ChannelTypes'
        BY Zenon, <1>3, <3>2, <3>3 DEF DemoInv, Types, ChannelTypes
      <3> QED
        BY Zenon, <1>3, <3>4, SameSteps, SameIds, SameAgents DEF DemoInv, Types
    <2>5. CommandsOK'
      <3>1. m \in Cmd /\ m.step = cmds[k].step /\ m.round = cmds[k].round
        BY Zenon, <1>2, <2>1, <2>3 DEF Cmd
      <3>2. m.step # StepProvision /\ m.step # StepStartClusters /\ m.step # StepExhaust
        BY <1>1, <3>1 DEF StepProvision, StepStartClusters, StepExhaust, StepIdempotency
      <3>3. CommandOK(m, clusterID, round, step)
        BY Zenon, <1>2, <3>1, <3>2 DEF CommandOK
      <3> QED
        BY Zenon, <1>3, <2>2, <3>3, OneCommand DEF DemoInv
    <2> QED
      BY Zenon, <1>3, <2>4, <2>5, SameNames, SameFlags DEF DemoInv
  <1> QED
    BY Zenon, <1>4, <1>5

-----------------------------------------------------------------------------
(* The agents.                                                             *)

LEMMA TakeRampKeeps ==
  ASSUME DemoInv, NEW a \in Agent, TakeRamp(a)
  PROVE  DemoInv'
  <1>1. /\ closed' = FALSE
        /\ UNCHANGED <<panicked, ui, cmds, ids, agents, stopped, replayCh, recentSeqs, wire,
                       clusterID, registered, run, wasStopped>>
    BY Zenon DEF TakeRamp, ids, agents
  <1>2. ChannelTypes'
    BY Zenon, <1>1 DEF DemoInv, Types, ChannelTypes
  <1>3. Types'
    BY Zenon, <1>1, <1>2, SameSteps, SameIds, SameAgents DEF DemoInv, Types
  <1> QED
    BY Zenon, <1>1, <1>3, SameCommands, SameNames, SameFlags DEF DemoInv

(* A heartbeat is sent under an id that the server has given out.          *)
LEMMA SentIsKnown ==
  ASSUME DemoInv, NEW a \in Agent, Looping(a), NEW n \in Nat
  PROVE  /\ a[1] \in Cluster /\ <<a[1], clusterID[a[1]]>> \in registered
         /\ <<a[1], clusterID[a[1]], n>> \in Cluster \X (0..MaxRounds) \X Nat
  <1>1. a[1] \in Cluster /\ clusterID[a[1]] # 0
    BY Zenon DEF DemoInv, IdsOK, Agent
  <1>2. clusterID[a[1]] \in 0..MaxRounds
    BY Zenon, <1>1 DEF DemoInv, Types, IdTypes
  <1> QED
    BY Zenon, <1>1, <1>2 DEF DemoInv, IdsOK

(* What joins the wire is of a registered cluster.                         *)
LEMMA WireOf ==
  ASSUME NEW w, NEW v, NEW reg, NEW c, NEW i, NEW n, v \subseteq w \cup {<<c, i, n>>},
         <<c, i>> \in reg, \A m \in w : <<m[1], m[2]>> \in reg
  PROVE  \A m \in v : <<m[1], m[2]>> \in reg
  <1>1. <<c, i, n>>[1] = c /\ <<c, i, n>>[2] = i
    OBVIOUS
  <1> QED
    BY Zenon, <1>1

(* A stream goes on to its next state.                                     *)
LEMMA RunMoves ==
  ASSUME DemoInv, NEW a \in Agent, Looping(a), NEW v \in {"streaming", "broken", "ended"},
         run' = [run EXCEPT ![a] = v] \/ run' = run, UNCHANGED <<ui, wasStopped, stopped>>
  PROVE  /\ run' \in [Agent -> {"none", "idle", "streaming", "broken", "ended"}]
         /\ \A b \in Agent : /\ run'[b] = run[b] \/ (b = a /\ run'[b] = v)
                             /\ Looping(b)' => Looping(b)
                             /\ Looping(b) /\ (b # a \/ v # "ended") => Looping(b)'
                             /\ run'[b] = "none" <=> run[b] = "none"
         /\ AgentsOK' /\ StopFollowsSignal'
  <1>1. run \in [Agent -> {"none", "idle", "streaming", "broken", "ended"}]
    BY Zenon DEF DemoInv, Types, AgentTypes
  <1>2. \A b \in Agent : run'[b] = run[b] \/ (b = a /\ run'[b] = v)
    BY Zenon, <1>1
  <1>3. \A b \in Agent : run'[b] = "none" <=> run[b] = "none"
    BY Zenon, <1>2 DEF Looping
  <1>4. \A c \in Cluster : Agents(c)' = Agents(c)
    BY Zenon, <1>3 DEF Agents
  <1>5. AgentsOK'
    BY Zenon, <1>3 DEF DemoInv, AgentsOK, ui
  <1>6. StopFollowsSignal'
    BY Zenon, <1>4 DEF DemoInv, StopFollowsSignal, ui
  <1>7. \A b \in Agent : /\ Looping(b)' => Looping(b)
                         /\ Looping(b) /\ (b # a \/ v # "ended") => Looping(b)'
    BY Zenon, <1>2 DEF Looping
  <1> QED
    BY Zenon, <1>1, <1>2, <1>3, <1>5, <1>6, <1>7

LEMMA SendsWhat ==
  ASSUME NEW a \in Agent, NEW n, Sends(a, n)
  PROVE  run' = [run EXCEPT ![a] = "streaming"] /\ wire' = wire \cup {<<a[1], clusterID[a[1]], n>>}
  BY Zenon DEF Sends

LEMMA TakeReplayKeeps ==
  ASSUME DemoInv, NEW a \in Agent, TakeReplay(a)
  PROVE  DemoInv'
  <1>1. /\ Looping(a) /\ a[1] = A /\ replayCh # <<>> /\ replayCh' = Tail(replayCh)
        /\ run' = [run EXCEPT ![a] = "streaming"] \/ run' = run
        /\ wire' \subseteq wire \cup {<<A, clusterID[A], Head(replayCh)>>}
        /\ UNCHANGED <<panicked, ui, cmds, ids, seq, sending, stopped, closed, recentSeqs,
                       clusterID, registered, wasStopped>>
    BY Zenon, SendsWhat DEF TakeReplay, AtSelect, ids
  <1>2. replayCh \in Seq(Nat) /\ Len(replayCh) <= ReplayCap
    BY Zenon DEF DemoInv, Types, ChannelTypes
  <1>3. /\ Head(replayCh) \in Nat /\ replayCh' \in Seq(Nat) /\ Len(replayCh') = Len(replayCh) - 1
        /\ Len(replayCh) \in Nat \ {0}
    BY Zenon, <1>1, <1>2, TailOf
  <1>4. Len(replayCh') <= ReplayCap
    BY <1>2, <1>3, ConstantsAre
  <1>5. /\ <<A, clusterID[A]>> \in registered
        /\ <<A, clusterID[A], Head(replayCh)>> \in Cluster \X (0..MaxRounds) \X Nat
    BY Zenon, <1>1, <1>3, SentIsKnown
  <1>6. /\ run' \in [Agent -> {"none", "idle", "streaming", "broken", "ended"}]
        /\ \A b \in Agent : (Looping(b)' => Looping(b)) /\ (Looping(b) => Looping(b)')
        /\ AgentsOK' /\ StopFollowsSignal'
    BY Zenon, <1>1, RunMoves
  <1>7. Types'
    <2>1. ChannelTypes'
      BY Zenon, <1>1, <1>3, <1>4, <1>5 DEF DemoInv, Types, ChannelTypes
    <2>2. AgentTypes'
      BY Zenon, <1>1, <1>6 DEF DemoInv, Types, AgentTypes
    <2> QED
      BY Zenon, <1>1, <2>1, <2>2, SameSteps, SameIds DEF DemoInv, Types
  <1>8. IdsOK'
    <2>1. \A m \in wire' : <<m[1], m[2]>> \in registered
      BY Zenon, <1>1, <1>5, WireOf DEF DemoInv, IdsOK
    <2> QED
      BY Zenon, <1>1, <1>6, <2>1 DEF DemoInv, IdsOK
  <1> QED
    BY Zenon, <1>1, <1>6, <1>7, <1>8, SameCommands DEF DemoInv

LEMMA DrawNumberKeeps ==
  ASSUME DemoInv, NEW a \in Agent, DrawNumber(a)
  PROVE  DemoInv'
  <1>1. PICK c, n : c = a[1] /\ n = seq[a] + 1
    BY Zenon
  <1>2. /\ Looping(a) /\ seq' = [seq EXCEPT ![a] = n] /\ sending' = sending \cup {a}
        /\ recentSeqs' = IF c = A THEN Remember(recentSeqs, n) ELSE recentSeqs
        /\ UNCHANGED <<panicked, ui, cmds, ids, run, wasStopped, stopped, channels, wire, clusterID,
                       registered, closed, replayCh>>
    BY Zenon, <1>1 DEF DrawNumber, AtSelect, ids, channels
  <1>3. seq \in [Agent -> Nat] /\ n \in Nat
    <2>1. seq \in [Agent -> Nat] /\ seq[a] \in Nat
      BY Zenon DEF DemoInv, Types, AgentTypes
    <2> QED
      BY <1>1, <2>1
  <1>4. Types'
    <2>1. sending' \subseteq {b \in Agent : Looping(b)'}
      BY Zenon, <1>2 DEF DemoInv, Types, AgentTypes, Looping
    <2>2. AgentTypes'
      BY Zenon, <1>2, <1>3, <2>1 DEF DemoInv, Types, AgentTypes
    <2>3. recentSeqs \in Seq(Nat) /\ Len(recentSeqs) <= RecentSize
      BY Zenon DEF DemoInv, Types, ChannelTypes
    <2>4. recentSeqs' \in Seq(Nat) /\ Len(recentSeqs') <= RecentSize
      BY Zenon, <1>2, <1>3, <2>3, RememberOf
    <2>5. ChannelTypes'
      BY Zenon, <1>2, <2>4 DEF DemoInv, Types, ChannelTypes
    <2> QED
      BY Zenon, <1>2, <2>2, <2>5, SameSteps, SameIds DEF DemoInv, Types
  <1> QED
    BY Zenon, <1>2, <1>4, SameCommands, SameNames, SameFlags DEF DemoInv

LEMMA SendHeartbeatKeeps ==
  ASSUME DemoInv, NEW a \in Agent, SendHeartbeat(a)
  PROVE  DemoInv'
  <1>1. PICK v \in {"streaming", "broken", "ended"} :
          /\ sending' = sending \ {a} /\ run' = [run EXCEPT ![a] = v]
          /\ wire' \subseteq wire \cup {<<a[1], clusterID[a[1]], seq[a]>>}
          /\ UNCHANGED <<panicked, ui, cmds, ids, seq, wasStopped, stopped, channels, recentSeqs,
                         clusterID, registered, closed, replayCh>>
    BY Zenon, SendsWhat DEF SendHeartbeat, ids, channels
  <1>2. Looping(a) /\ seq[a] \in Nat
    BY Zenon DEF SendHeartbeat, DemoInv, Types, AgentTypes
  <1>3. /\ <<a[1], clusterID[a[1]]>> \in registered
        /\ <<a[1], clusterID[a[1]], seq[a]>> \in Cluster \X (0..MaxRounds) \X Nat
    BY Zenon, <1>2, SentIsKnown
  <1>4. /\ run' \in [Agent -> {"none", "idle", "streaming", "broken", "ended"}]
        /\ \A b \in Agent : (Looping(b)' => Looping(b)) /\ (Looping(b) /\ b # a => Looping(b)')
        /\ AgentsOK' /\ StopFollowsSignal'
    BY Zenon, <1>1, <1>2, RunMoves
  <1>5. Types'
    <2>1. sending' \subseteq {b \in Agent : Looping(b)'}
      BY Zenon, <1>1, <1>4 DEF DemoInv, Types, AgentTypes
    <2>2. AgentTypes'
      BY Zenon, <1>1, <1>4, <2>1 DEF DemoInv, Types, AgentTypes
    <2>3. ChannelTypes'
      BY Zenon, <1>1, <1>3 DEF DemoInv, Types, ChannelTypes
    <2> QED
      BY Zenon, <1>1, <2>2, <2>3, SameSteps, SameIds DEF DemoInv, Types
  <1>6. IdsOK'
    <2>1. \A m \in wire' : <<m[1], m[2]>> \in registered
      <3>1. \A m \in wire : <<m[1], m[2]>> \in registered
        BY Zenon DEF DemoInv, IdsOK
      <3>2. PICK n : n = seq[a]
        BY Zenon
      <3>3. wire' \subseteq wire \cup {<<a[1], clusterID[a[1]], n>>}
        BY Zenon, <1>1, <3>2
      <3>4. <<a[1], clusterID[a[1]]>> \in registered
        BY Zenon, <1>3
      <3>5. PICK i, c : i = clusterID[a[1]] /\ c = a[1]
        BY Zenon
      <3>6. wire' \subseteq wire \cup {<<c, i, n>>} /\ <<c, i>> \in registered
        BY Zenon, <3>3, <3>4, <3>5
      <3> QED
        BY Zenon, <3>1, <3>6, WireOf
    <2>2. \A b \in Agent : Looping(b)' => Looping(b)
      BY Zenon, <1>4
    <2> QED
      BY Zenon, <1>1, <2>1, <2>2 DEF DemoInv, IdsOK
  <1> QED
    BY Zenon, <1>1, <1>4, <1>5, <1>6, SameCommands DEF DemoInv

LEMMA StreamBreaksKeeps ==
  ASSUME DemoInv, NEW a \in Agent, StreamBreaks(a)
  PROVE  DemoInv'
  <1>1. /\ run' = [run EXCEPT ![a] = "broken"]
        /\ UNCHANGED <<panicked, ui, cmds, ids, seq, sending, wasStopped, stopped, channels,
                       recentSeqs, wire, clusterID, registered, closed, replayCh>>
    BY Zenon DEF StreamBreaks, ids, channels
  <1>2. Looping(a)
    BY Zenon DEF StreamBreaks, Looping
  <1>3. /\ run' \in [Agent -> {"none", "idle", "streaming", "broken", "ended"}]
        /\ \A b \in Agent : (Looping(b)' => Looping(b)) /\ (Looping(b) => Looping(b)')
        /\ AgentsOK' /\ StopFollowsSignal'
    BY Zenon, <1>1, <1>2, RunMoves
  <1>4. Types'
    <2>1. AgentTypes'
      BY Zenon, <1>1, <1>3 DEF DemoInv, Types, AgentTypes
    <2> QED
      BY Zenon, <1>1, <2>1, SameSteps, SameIds, SameChannels DEF DemoInv, Types
  <1>5. IdsOK'
    BY Zenon, <1>1, <1>3 DEF DemoInv, IdsOK
  <1> QED
    BY Zenon, <1>1, <1>3, <1>4, <1>5, SameCommands DEF DemoInv

(* In the first round a cluster has one agent.                             *)
LEMMA ReceiveKeeps ==
  ASSUME DemoInv, NEW a \in Agent, Receive(a)
  PROVE  DemoInv'
  <1>1. PICK hasKill \in BOOLEAN :
          /\ wasStopped' = [wasStopped EXCEPT ![a] = hasKill]
          /\ stopped' = [stopped EXCEPT ![a[1]] = hasKill]
    BY Zenon DEF Receive, Obey
  <1>2. /\ run[a] = "streaming" /\ a[1] \in Cluster
        /\ UNCHANGED <<panicked, ui, cmds, ids, run, seq, sending, channels, recentSeqs, wire,
                       clusterID, registered, step, round>>
    BY Zenon DEF Receive, ids, ui, Agent
  <1>3. /\ wasStopped' \in [Agent -> BOOLEAN] /\ stopped' \in [Cluster -> BOOLEAN]
        /\ \A b \in Agent : wasStopped'[b] = IF b = a THEN hasKill ELSE wasStopped[b]
        /\ \A c \in Cluster : stopped'[c] = IF c = a[1] THEN hasKill ELSE stopped[c]
    BY Zenon, <1>1, <1>2 DEF DemoInv, Types, AgentTypes
  <1>4. Types'
    <2>1. AgentTypes'
      BY Zenon, <1>2, <1>3 DEF DemoInv, Types, AgentTypes, Looping
    <2> QED
      BY Zenon, <1>2, <2>1, SameSteps, SameIds, SameChannels DEF DemoInv, Types
  <1>5. AgentsOK'
    BY Zenon, <1>2, <1>3 DEF DemoInv, AgentsOK
  <1>6. \A c \in Cluster : Agents(c)' = Agents(c)
    BY Zenon, <1>2 DEF Agents
  <1>7. a \in Agents(a[1])
    BY Zenon, <1>2 DEF Agents
  <1>8. ASSUME NEW c \in Cluster, stopped'[c] PROVE \E b \in Agents(c)' : wasStopped'[b]
    <2>1. CASE c = a[1]
      BY Zenon, <1>3, <1>6, <1>7, <1>8, <2>1
    <2>2. CASE c # a[1]
      <3>1. PICK b \in Agents(c) : wasStopped[b]
        BY Zenon, <1>3, <1>8, <2>2 DEF DemoInv, StopFollowsSignal
      <3>2. b \in Agent /\ b # a
        BY Zenon, <2>2 DEF Agents
      <3> QED
        BY Zenon, <1>3, <1>6, <3>1, <3>2
    <2> QED
      BY Zenon, <2>1, <2>2
  <1>9. ASSUME round = 1, step < StepExhaust, NEW c \in Cluster, NEW b \in Agents(c)', wasStopped'[b]
        PROVE  stopped'[c]
    <2>1. b \in Agents(c) /\ b \in Agent /\ b[1] = c /\ run[b] # "none"
      BY Zenon, <1>2, <1>6 DEF Agents
    <2>2. CASE c = a[1]
      <3>1. a[2] <= 1 /\ b[2] <= 1
        BY Zenon, <1>2, <1>9, <2>1 DEF DemoInv, AgentsOK
      <3>2. a[2] \in 1..MaxRounds /\ b[2] \in 1..MaxRounds /\ a = <<a[1], a[2]>> /\ b = <<b[1], b[2]>>
        BY <2>1 DEF Agent, Round
      <3>3. a[2] = 1 /\ b[2] = 1
        BY <3>1, <3>2, ConstantsAre
      <3>4. a = b
        BY Zenon, <2>1, <2>2, <3>2, <3>3
      <3> QED
        BY Zenon, <1>3, <1>9, <2>2, <3>4
    <2>3. CASE c # a[1]
      <3>1. b # a
        BY Zenon, <2>1, <2>3
      <3> QED
        BY Zenon, <1>3, <1>9, <2>1, <2>3, <3>1 DEF DemoInv, StopFollowsSignal
    <2> QED
      BY Zenon, <2>2, <2>3
  <1>10. StopFollowsSignal'
    BY Zenon, <1>2, <1>8, <1>9 DEF StopFollowsSignal
  <1> QED
    BY Zenon, <1>2, <1>4, <1>5, <1>10, SameCommands, SameNames DEF DemoInv

-----------------------------------------------------------------------------
LEMMA DemoInit == Init => DemoInv
  <1> SUFFICES ASSUME Init PROVE DemoInv
    OBVIOUS
  <1>1. Types
    <2>1. /\ 0 \in 0..MaxRounds /\ 1 \in Round /\ 0 <= RecentSize /\ 0 <= ReplayCap
          /\ StepProvision \in StepProvision..StepSummary /\ 0 \in Nat
      <3>1. {MaxRounds, RecentSize, ReplayCap} \subseteq Nat \ {0}
        BY Zenon, SimulatorAssumption
      <3> QED
        BY <3>1 DEF Round, StepProvision, StepSummary
    <2>2. StepTypes /\ IdTypes /\ AgentTypes
      BY Zenon, <2>1 DEF Init, StepTypes, IdTypes, AgentTypes
    <2>3. ChannelTypes
      BY Zenon, <2>1, NothingOf DEF Init, ChannelTypes
    <2> QED
      BY Zenon, <2>2, <2>3 DEF Types
  <1>2. CommandsOK
    <2>1. CommandOK(Command(StepProvision, 1), clusterID, 1, StepProvision)
      <3>1. 1 \in 0..MaxRounds /\ StepProvision \in -1..StepSummary /\ 0 \in Nat /\ <<>> \in Seq(Nat)
        BY ConstantsAre DEF StepProvision, StepSummary
      <3>2. Command(StepProvision, 1) \in Cmd
        BY Zenon, <3>1 DEF Command, Cmd
      <3>3. /\ Command(StepProvision, 1).step = StepProvision
            /\ Command(StepProvision, 1).round = 1 /\ Command(StepProvision, 1).at = 0
        BY Zenon DEF Command
      <3>4. /\ StepProvision \in 0..StepSummary /\ 1 \in 1..1 /\ StepProvision # StepStartClusters
            /\ StepProvision # StepExhaust /\ 0 < Len(Tenants)
        BY ConstantsAre DEF StepProvision, StepSummary, StepStartClusters, StepExhaust
      <3> QED
        BY Zenon, <3>2, <3>3, <3>4 DEF CommandOK
    <2>2. CommandOK(Idle, clusterID, 1, StepProvision)
      BY Zenon, IdleOK
    <2>3. \A k \in Slot : cmds[k] \in {Idle, Command(StepProvision, 1)}
      BY Zenon DEF Init
    <2>4. cmds \in [Slot -> Cmd]
      BY Zenon, <2>1, <2>2 DEF Init, CommandOK
    <2> QED
      BY Zenon, <2>1, <2>2, <2>3, <2>4 DEF Init, CommandsOK
  <1>3. IdsOK /\ AgentsOK
    <2>1. \A a \in Agent : run[a] = "none" /\ ~wasStopped[a]
      BY Zenon DEF Init
    <2> QED
      BY Zenon, <2>1 DEF Init, IdsOK, Looping, AgentsOK
  <1>4. StopFollowsSignal
    BY Zenon DEF Init, StopFollowsSignal, Agents
  <1> QED
    BY Zenon, <1>1, <1>2, <1>3, <1>4 DEF DemoInv

LEMMA DemoStep == DemoInv /\ [Next]_vars => DemoInv'
  <1> SUFFICES ASSUME DemoInv, [Next]_vars PROVE DemoInv'
    OBVIOUS
  <1>1. CASE UNCHANGED vars
    <2>1. CommandsOK'
      BY Zenon, <1>1, SameCommands DEF DemoInv, vars, ids
    <2> QED
      BY Zenon, <1>1, <2>1, OnlyCommands DEF vars
  <1>2. ASSUME NEW k \in Slot, Runs(k) PROVE DemoInv'
    BY Zenon, <1>2, stepProvisionKeeps, CopyKeeps, RegisterNextKeeps, StartAgentsKeeps,
       stepExhaustKeeps, stepIdempotencyKeeps DEF Runs, runStep
  <1>3. CASE Replays \/ Beats
    BY Zenon, <1>3, TakeReplayKeeps, SendHeartbeatKeeps DEF Replays, Beats
  <1>4. ASSUME NEW a \in Agent, TakeRamp(a) \/ DrawNumber(a) \/ Receive(a) \/ StreamBreaks(a)
        PROVE  DemoInv'
    BY Zenon, <1>4, TakeRampKeeps, DrawNumberKeeps, ReceiveKeeps, StreamBreaksKeeps
  <1>5. ASSUME NEW k \in Slot, CallFails(k) PROVE DemoInv'
    BY Zenon, <1>5, CopyKeeps
  <1> QED
    BY Zenon, <1>1, <1>2, <1>3, <1>4, <1>5, InterfaceKeeps DEF Next

(* Whatever keys are pressed and whichever steps fail or overlap, for any  *)
(* tenants, clusters and rounds: every heartbeat and every agent names a   *)
(* cluster that the server has registered, and a cluster holds its         *)
(* heartbeats only when an agent of it was told to.                        *)
THEOREM SimulatorCorrect == Spec => []SimulatorInv
  <1>1. DemoInv => SimulatorInv
    <2> SUFFICES ASSUME DemoInv PROVE SimulatorInv
      OBVIOUS
    <2>1. ASSUME NEW k \in Slot
          PROVE  cmds[k] = Idle \/ <<cmds[k].step, cmds[k].round>> \in (0..StepSummary) \X Round
      <3>1. CASE cmds[k].step # -1
        BY Zenon, <3>1, CommandTypes
      <3>2. CASE cmds[k].step = -1
        <4>1. -1 \notin 0..StepSummary
          OBVIOUS
        <4> QED
          BY Zenon, <3>2, <4>1 DEF DemoInv, CommandsOK, CommandOK
      <3> QED
        BY Zenon, <3>1, <3>2
    <2>2. TypeOK
      BY Zenon, <2>1 DEF DemoInv, Types, StepTypes, IdTypes, AgentTypes, ChannelTypes, TypeOK
    <2>3. NamesKnownCluster
      BY Zenon DEF DemoInv, IdsOK, NamesKnownCluster, Agent
    <2> QED
      BY Zenon, <2>2, <2>3 DEF DemoInv, SimulatorInv
  <1> QED
    BY <1>1, DemoInit, DemoStep, PTL DEF Spec

-----------------------------------------------------------------------------
(* The numbers to replay.                                                  *)

(* A number that is kept for a replay or on its way to one.                *)
Held(n) ==
    n \in Of(recentSeqs) \/ n \in Of(replayCh) \/ \E k \in Slot : n \in Of(cmds[k].rest)

Sent(n) == <<A, clusterID[A], n>> \in wire

InHand(n) == \E b \in sending : b[1] = A /\ seq[b] = n

Lost == \E b \in Agent : b[1] = A /\ run[b] \in {"broken", "ended"}

(* What is held was sent, or is in the hands of an agent that has to send  *)
(* it, or the stream is lost.                                              *)
ReplayInv == RegisteredOnce => Lost \/ \A n : Held(n) => Sent(n) \/ InHand(n)

(* One command goes on; what it holds was held before.                     *)
LEMMA NothingNew ==
  ASSUME DemoInv, NEW k \in Slot, NEW m, cmds' = [cmds EXCEPT ![k] = m],
         \A n : n \in Of(m.rest) => Held(n), \A n : n \in Of(replayCh') => Held(n),
         UNCHANGED recentSeqs
  PROVE  \A n : Held(n)' => Held(n)
  <1>1. \A j \in Slot : cmds'[j] \in {cmds[j], m}
    BY Zenon DEF DemoInv, CommandsOK
  <1>2. ASSUME NEW n, Held(n)' PROVE Held(n)
    <2>1. CASE n \in Of(recentSeqs') \/ n \in Of(replayCh')
      BY Zenon, <2>1 DEF Held
    <2>2. CASE \E j \in Slot : n \in Of(cmds'[j].rest)
      <3>1. PICK j \in Slot : n \in Of(cmds'[j].rest)
        BY Zenon, <2>2
      <3>2. CASE cmds'[j] = m
        BY Zenon, <3>1, <3>2
      <3>3. CASE cmds'[j] = cmds[j]
        BY Zenon, <3>1, <3>3 DEF Held
      <3> QED
        BY Zenon, <1>1, <3>2, <3>3
    <2> QED
      BY Zenon, <1>2, <2>1, <2>2 DEF Held, Of
  <1> QED
    BY Zenon, <1>2

LEMMA SameHeld ==
  ASSUME UNCHANGED <<cmds, replayCh, recentSeqs>>
  PROVE  \A n : Held(n)' => Held(n)
  BY Zenon DEF Held

LEMMA NoRest == Of(Idle.rest) = {} /\ \A s, n : Of(Command(s, n).rest) = {}
  <1>1. Idle.rest = <<>> /\ \A s, n : Command(s, n).rest = <<>>
    BY DEF Idle, Command
  <1> QED
    BY Zenon, <1>1, NothingOf

LEMMA EndsWithNone ==
  ASSUME DemoInv, NEW k \in Slot, Ended(k), UNCHANGED <<replayCh, recentSeqs>>
  PROVE  \A n : Held(n)' => Held(n)
  <1>1. \A n : n \in Of(Idle.rest) => Held(n)
    BY Zenon, NoRest
  <1>2. \A n : n \in Of(replayCh') => Held(n)
    BY Zenon DEF Held
  <1> QED
    BY Zenon, <1>1, <1>2, NothingNew DEF Ended

(* A command goes on and keeps its numbers.                                *)
LEMMA GoesOn ==
  ASSUME DemoInv, NEW k \in Slot, NEW m, cmds' = [cmds EXCEPT ![k] = m], m.rest = cmds[k].rest,
         UNCHANGED <<replayCh, recentSeqs>>
  PROVE  \A n : Held(n)' => Held(n)
  <1>1. \A n : n \in Of(m.rest) => Held(n)
    BY Zenon DEF Held
  <1>2. \A n : n \in Of(replayCh') => Held(n)
    BY Zenon DEF Held
  <1> QED
    BY Zenon, <1>1, <1>2, NothingNew

LEMMA InterfaceHolds ==
  ASSUME DemoInv, NEW s, NEW r \in Round, GoTo(s, r)
  PROVE  \A n : Held(n)' => Held(n)
  <1>1. UNCHANGED <<replayCh, recentSeqs>>
    BY Zenon DEF GoTo, channels
  <1>2. CASE UNCHANGED cmds
    BY Zenon, <1>1, <1>2, SameHeld
  <1>3. ASSUME NEW k \in Slot, cmds' = [cmds EXCEPT ![k] = Command(s, r)]
        PROVE  \A n : Held(n)' => Held(n)
    <2>1. \A n : n \in Of(Command(s, r).rest) => Held(n)
      BY Zenon, NoRest
    <2>2. \A n : n \in Of(replayCh') => Held(n)
      BY Zenon, <1>1 DEF Held
    <2> QED
      BY Zenon, <1>1, <1>3, <2>1, <2>2, NothingNew
  <1> QED
    BY Zenon, <1>2, <1>3 DEF GoTo, Slot

LEMMA CommandHolds ==
  ASSUME DemoInv, NEW k \in Slot, runStep(k) \/ CallFails(k)
  PROVE  \A n : Held(n)' => Held(n)
  <1>1. cmds[k] \in Cmd
    BY Zenon DEF DemoInv, CommandsOK
  <1>2. CASE stepProvision(k)
    <2>1. PICK i, m : i = cmds[k].at + 1 /\ m = [cmds[k] EXCEPT !.at = i]
      BY Zenon
    <2>2. UNCHANGED <<replayCh, recentSeqs>> /\ (Ended(k) \/ cmds' = [cmds EXCEPT ![k] = m])
      BY Zenon, <1>2, <2>1 DEF stepProvision, channels
    <2>3. m.rest = cmds[k].rest
      BY <1>1, <2>1 DEF Cmd
    <2> QED
      BY Zenon, <2>2, <2>3, EndsWithNone, GoesOn
  <1>3. CASE CopyTenantIDs(k)
    <2>1. PICK m : m = [cmds[k] EXCEPT !.at = 1, !.known = provisioned]
      BY Zenon
    <2>2. UNCHANGED <<replayCh, recentSeqs>> /\ cmds' = [cmds EXCEPT ![k] = m]
      BY Zenon, <1>3, <2>1 DEF CopyTenantIDs, channels
    <2>3. m.rest = cmds[k].rest
      BY <1>1, <2>1 DEF Cmd
    <2> QED
      BY Zenon, <2>2, <2>3, GoesOn
  <1>4. CASE RegisterNext(k)
    <2>1. PICK m : m = [cmds[k] EXCEPT !.at = cmds[k].at + 1]
      BY Zenon
    <2>2. UNCHANGED <<replayCh, recentSeqs>> /\ (Ended(k) \/ cmds' = [cmds EXCEPT ![k] = m])
      BY Zenon, <1>4, <2>1 DEF RegisterNext, channels
    <2>3. m.rest = cmds[k].rest
      BY <1>1, <2>1 DEF Cmd
    <2> QED
      BY Zenon, <2>2, <2>3, EndsWithNone, GoesOn
  <1>5. CASE StartAgents(k) \/ stepExhaust(k) \/ CallFails(k)
    <2>1. Ended(k) /\ UNCHANGED <<replayCh, recentSeqs>>
      BY Zenon, <1>5 DEF StartAgents, stepExhaust, CallFails, channels
    <2> QED
      BY Zenon, <2>1, EndsWithNone
  <1>6. CASE CopyRecentSeqs(k)
    <2>1. PICK m, o : o = Oldest(ReplayCount, recentSeqs) /\ m = [cmds[k] EXCEPT !.at = 1, !.rest = o]
      BY Zenon
    <2>2. UNCHANGED <<replayCh, recentSeqs>> /\ cmds' = [cmds EXCEPT ![k] = m]
      BY Zenon, <1>6, <2>1 DEF CopyRecentSeqs, channels
    <2>3. m.rest = o
      BY <1>1, <2>1 DEF Cmd
    <2>4. recentSeqs \in Seq(Nat) /\ ReplayCount \in Nat
      BY Zenon, ConstantsAre DEF DemoInv, Types, ChannelTypes
    <2>5. \A n : n \in Of(m.rest) => Held(n)
      BY Zenon, <2>1, <2>3, <2>4, OldestOf DEF Held
    <2>6. \A n : n \in Of(replayCh') => Held(n)
      BY Zenon, <2>2 DEF Held
    <2> QED
      BY Zenon, <2>2, <2>5, <2>6, NothingNew
  <1>7. CASE stepIdempotency(k)
    <2>1. CASE cmds[k].rest = <<>>
      <3>1. Ended(k) /\ UNCHANGED <<replayCh, recentSeqs>>
        BY Zenon, <1>7, <2>1 DEF stepIdempotency
      <3> QED
        BY Zenon, <3>1, EndsWithNone
    <2>2. CASE cmds[k].rest # <<>>
      <3>1. PICK m, h : m = [cmds[k] EXCEPT !.rest = Tail(cmds[k].rest)] /\ h = Head(cmds[k].rest)
        BY Zenon
      <3>2. /\ UNCHANGED recentSeqs /\ cmds' = [cmds EXCEPT ![k] = m]
            /\ replayCh' = Append(replayCh, h)
        BY Zenon, <1>7, <2>2, <3>1 DEF stepIdempotency
      <3>3. m.rest = Tail(cmds[k].rest) /\ cmds[k].rest \in Seq(Nat)
        BY <1>1, <3>1 DEF Cmd
      <3>4. Of(m.rest) \subseteq Of(cmds[k].rest) /\ h \in Of(cmds[k].rest) /\ h \in Nat
        BY Zenon, <2>2, <3>1, <3>3, TailOf
      <3>5. replayCh \in Seq(Nat)
        BY Zenon DEF DemoInv, Types, ChannelTypes
      <3>6. Of(replayCh') \subseteq Of(replayCh) \cup {h}
        BY Zenon, <3>2, <3>4, <3>5, AppendOf
      <3>7. /\ \A n : n \in Of(m.rest) => Held(n)
            /\ \A n : n \in Of(replayCh') => Held(n)
        BY Zenon, <3>4, <3>6 DEF Held
      <3> QED
        BY Zenon, <3>2, <3>7, NothingNew
    <2> QED
      BY Zenon, <2>1, <2>2
  <1> QED
    BY Zenon, <1>2, <1>3, <1>4, <1>5, <1>6, <1>7 DEF runStep

(* A step after which no other number is held, and no id is given out.     *)
LEMMA HeldStays ==
  ASSUME ReplayInv, RegisteredOnce' => RegisteredOnce, Lost => Lost',
         \A n : Held(n)' => Held(n) \/ Sent(n)' \/ InHand(n)',
         Lost' \/ \A n : Sent(n) \/ InHand(n) => Sent(n)' \/ InHand(n)'
  PROVE  ReplayInv'
  BY Zenon DEF ReplayInv

LEMMA SameSent ==
  ASSUME ReplayInv, \A n : Held(n)' => Held(n), Lost => Lost',
         UNCHANGED <<clusterID, registered, wire, sending, seq>>
  PROVE  ReplayInv'
  <1>1. RegisteredOnce' => RegisteredOnce
    BY Zenon DEF RegisteredOnce
  <1>2. \A n : Sent(n) \/ InHand(n) => Sent(n)' \/ InHand(n)'
    BY Zenon DEF Sent, InHand
  <1> QED
    BY Zenon, <1>1, <1>2, HeldStays

(* A second id of A ends the promise, the first one finds nothing sent.    *)
LEMMA RegisterHolds ==
  ASSUME DemoInv, ReplayInv, NEW k \in Slot, RegisterNext(k)
  PROVE  ReplayInv'
  <1>1. \A n : Held(n)' => Held(n)
    BY Zenon, CommandHolds DEF runStep
  <1>2. UNCHANGED <<run, wire, sending, seq>>
    BY Zenon DEF RegisterNext, agents
  <1>3. Lost => Lost'
    BY Zenon, <1>2 DEF Lost
  <1>4. PICK c : c = Clusters[cmds[k].at]
    BY Zenon
  <1>5. CASE UNCHANGED <<clusterID, registered>>
    BY Zenon, <1>1, <1>2, <1>3, <1>5, SameSent
  <1>6. CASE /\ clusterID' = [clusterID EXCEPT ![c] = cmds[k].round]
             /\ registered' = registered \cup {<<c, cmds[k].round>>}
    <2>1. RegisteredOnce' => RegisteredOnce
      BY Zenon, <1>6 DEF RegisteredOnce
    <2>2. clusterID \in [Cluster -> 0..MaxRounds] /\ A \in Cluster
      <3>1. 1 \in DOMAIN Clusters
        BY ConstantsAre
      <3> QED
        BY Zenon, <3>1 DEF A, Cluster, DemoInv, Types, IdTypes
    <2>3. \A n : InHand(n) => InHand(n)'
      BY Zenon, <1>2 DEF InHand
    <2>4. ASSUME RegisteredOnce', NEW n, Sent(n) PROVE Sent(n)'
      <3>1. clusterID'[A] = clusterID[A]
        <4>1. CASE c # A
          BY Zenon, <1>6, <2>2, <4>1
        <4>2. CASE c = A
          <5>1. clusterID'[A] = cmds[k].round
            BY Zenon, <1>6, <2>2, <4>2
          <5>2. <<A, clusterID[A]>> \in registered
            <6>1. <<A, clusterID[A], n>>[1] = A /\ <<A, clusterID[A], n>>[2] = clusterID[A]
              OBVIOUS
            <6>2. \A m \in wire : <<m[1], m[2]>> \in registered
              BY Zenon DEF DemoInv, IdsOK
            <6> QED
              BY Zenon, <2>4, <6>1, <6>2 DEF Sent
          <5>3. <<A, clusterID[A]>>[1] = A /\ <<A, cmds[k].round>>[1] = A
            OBVIOUS
          <5>4. <<A, clusterID[A]>> \in registered' /\ <<A, cmds[k].round>> \in registered'
            BY Zenon, <1>6, <4>2, <5>2
          <5>5. <<A, clusterID[A]>> = <<A, cmds[k].round>>
            BY Zenon, <2>4, <5>3, <5>4 DEF RegisteredOnce
          <5> QED
            BY Zenon, <5>1, <5>5
        <4> QED
          BY Zenon, <4>1, <4>2
      <3> QED
        BY Zenon, <1>2, <2>4, <3>1 DEF Sent
    <2> QED
      BY Zenon, <1>1, <1>3, <2>1, <2>3, <2>4 DEF ReplayInv
  <1> QED
    BY Zenon, <1>4, <1>5, <1>6 DEF RegisterNext

(* The agent's stream stays lost.                                          *)
LEMMA StaysLost ==
  ASSUME DemoInv, NEW a \in Agent, NEW v \in {"streaming", "broken", "ended"},
         run' = [run EXCEPT ![a] = v] \/ run' = run, v = "streaming" => run[a] \notin {"broken", "ended"}
  PROVE  Lost => Lost'
  <1>1. run \in [Agent -> {"none", "idle", "streaming", "broken", "ended"}]
    BY Zenon DEF DemoInv, Types, AgentTypes
  <1>2. \A b \in Agent : run[b] \in {"broken", "ended"} => run'[b] \in {"broken", "ended"}
    BY Zenon, <1>1
  <1> QED
    BY Zenon, <1>2 DEF Lost

LEMMA TakeReplayHolds ==
  ASSUME DemoInv, ReplayInv, NEW a \in Agent, TakeReplay(a)
  PROVE  ReplayInv'
  <1>1. /\ Looping(a) /\ replayCh # <<>> /\ replayCh' = Tail(replayCh) /\ wire \subseteq wire'
        /\ (run' = [run EXCEPT ![a] = "streaming"] /\ run[a] # "broken") \/ run' = run
        /\ UNCHANGED <<cmds, clusterID, registered, recentSeqs, sending, seq>>
    BY Zenon, SendsWhat DEF TakeReplay, AtSelect, Sends, ids
  <1>2. replayCh \in Seq(Nat)
    BY Zenon DEF DemoInv, Types, ChannelTypes
  <1>3. Of(replayCh') \subseteq Of(replayCh)
    BY Zenon, <1>1, <1>2, TailOf
  <1>4. \A n : Held(n)' => Held(n)
    BY Zenon, <1>1, <1>3 DEF Held
  <1>5. Lost => Lost'
    <2>1. run[a] # "ended"
      BY Zenon, <1>1 DEF Looping
    <2>2. CASE run' = run
      BY Zenon, <2>2 DEF Lost
    <2> QED
      BY Zenon, <1>1, <2>1, <2>2, StaysLost
  <1>6. \A n : Sent(n) \/ InHand(n) => Sent(n)' \/ InHand(n)'
    BY Zenon, <1>1 DEF Sent, InHand
  <1>7. RegisteredOnce' => RegisteredOnce
    BY Zenon, <1>1 DEF RegisteredOnce
  <1> QED
    BY Zenon, <1>4, <1>5, <1>6, <1>7, HeldStays

LEMMA DrawNumberHolds ==
  ASSUME DemoInv, ReplayInv, NEW a \in Agent, DrawNumber(a)
  PROVE  ReplayInv'
  <1>1. PICK c, n : c = a[1] /\ n = seq[a] + 1
    BY Zenon
  <1>2. /\ a \notin sending /\ seq' = [seq EXCEPT ![a] = n] /\ sending' = sending \cup {a}
        /\ recentSeqs' = IF c = A THEN Remember(recentSeqs, n) ELSE recentSeqs
        /\ UNCHANGED <<cmds, clusterID, registered, replayCh, run, wire>>
    BY Zenon, <1>1 DEF DrawNumber, AtSelect, ids, channels
  <1>3. seq \in [Agent -> Nat] /\ sending \subseteq Agent
    BY Zenon DEF DemoInv, Types, AgentTypes
  <1>4. n \in Nat
    <2>1. seq[a] \in Nat
      BY Zenon, <1>3
    <2> QED
      BY <1>1, <2>1
  <1>5. recentSeqs \in Seq(Nat) /\ Len(recentSeqs) <= RecentSize
    BY Zenon DEF DemoInv, Types, ChannelTypes
  <1>6. Of(recentSeqs') \subseteq Of(recentSeqs) \/ (c = A /\ Of(recentSeqs') \subseteq Of(recentSeqs) \cup {n})
    BY Zenon, <1>2, <1>4, <1>5, RememberOf
  <1>7. c = A => InHand(n)'
    BY Zenon, <1>1, <1>2, <1>3 DEF InHand
  <1>8. \A i : Held(i)' => Held(i) \/ (c = A /\ i = n)
    BY Zenon, <1>2, <1>6 DEF Held
  <1>9. \A i : Held(i)' => Held(i) \/ InHand(i)'
    BY Zenon, <1>7, <1>8
  <1>10. \A i : Sent(i) \/ InHand(i) => Sent(i)' \/ InHand(i)'
    <2>1. \A b \in sending : b \in sending' /\ seq'[b] = seq[b]
      BY Zenon, <1>2, <1>3
    <2> QED
      BY Zenon, <1>2, <2>1 DEF Sent, InHand
  <1>11. (Lost => Lost') /\ (RegisteredOnce' => RegisteredOnce)
    BY Zenon, <1>2 DEF Lost, RegisteredOnce
  <1> QED
    BY Zenon, <1>9, <1>10, <1>11, HeldStays

LEMMA SendHeartbeatHolds ==
  ASSUME DemoInv, ReplayInv, NEW a \in Agent, SendHeartbeat(a)
  PROVE  ReplayInv'
  <1>1. /\ a \in sending /\ sending' = sending \ {a}
        /\ UNCHANGED <<cmds, clusterID, registered, replayCh, recentSeqs, seq>>
    BY Zenon DEF SendHeartbeat, ids, channels
  <1>2. Looping(a)
    BY Zenon, <1>1 DEF DemoInv, Types, AgentTypes
  <1>3. \A n : Held(n)' => Held(n)
    BY Zenon, <1>1, SameHeld
  <1>4. RegisteredOnce' => RegisteredOnce
    BY Zenon, <1>1 DEF RegisteredOnce
  <1>5. CASE Sends(a, seq[a])
    <2>1. /\ run[a] # "broken" /\ run' = [run EXCEPT ![a] = "streaming"]
          /\ wire' = wire \cup {<<a[1], clusterID[a[1]], seq[a]>>}
      BY Zenon, <1>5 DEF Sends
    <2>2. run[a] # "ended"
      BY Zenon, <1>2 DEF Looping
    <2>3. Lost => Lost'
      BY Zenon, <2>1, <2>2, StaysLost
    <2>4. ASSUME NEW n, InHand(n) PROVE Sent(n)' \/ InHand(n)'
      <3>1. PICK b \in sending : b[1] = A /\ seq[b] = n
        BY Zenon, <2>4 DEF InHand
      <3>2. CASE b = a
        BY Zenon, <1>1, <2>1, <3>1, <3>2 DEF Sent
      <3>3. CASE b # a
        BY Zenon, <1>1, <3>1, <3>3 DEF InHand
      <3> QED
        BY Zenon, <3>2, <3>3
    <2>5. \A n : Sent(n) => Sent(n)'
      BY Zenon, <1>1, <2>1 DEF Sent
    <2> QED
      BY Zenon, <1>3, <1>4, <2>3, <2>4, <2>5, HeldStays
  <1>6. CASE run[a] = "broken" /\ run' = [run EXCEPT ![a] = "ended"] /\ UNCHANGED wire
    <2>1. Lost => Lost'
      BY Zenon, <1>6, StaysLost
    <2>2. CASE a[1] = A
      <3>1. run'[a] = "ended"
        BY Zenon, <1>6 DEF DemoInv, Types, AgentTypes
      <3> QED
        BY Zenon, <2>2, <3>1 DEF Lost, ReplayInv
    <2>3. CASE a[1] # A
      <3>1. \A n : Sent(n) \/ InHand(n) => Sent(n)' \/ InHand(n)'
        BY Zenon, <1>1, <1>6, <2>3 DEF Sent, InHand
      <3> QED
        BY Zenon, <1>3, <1>4, <2>1, <3>1, HeldStays
    <2> QED
      BY Zenon, <2>2, <2>3
  <1> QED
    BY Zenon, <1>5, <1>6 DEF SendHeartbeat

LEMMA OtherAgentsHold ==
  ASSUME DemoInv, ReplayInv, NEW a \in Agent, TakeRamp(a) \/ Receive(a) \/ StreamBreaks(a)
  PROVE  ReplayInv'
  <1>1. /\ run' = [run EXCEPT ![a] = "broken"] \/ run' = run
        /\ UNCHANGED <<cmds, clusterID, registered, replayCh, recentSeqs, wire, sending, seq>>
    BY Zenon DEF TakeRamp, Receive, StreamBreaks, ids, agents, channels
  <1>2. Lost => Lost'
    BY Zenon, <1>1, StaysLost
  <1> QED
    BY Zenon, <1>1, <1>2, SameHeld, SameSent

-----------------------------------------------------------------------------
(* Agents are started once.                                                *)

Starts(k) == cmds[k].step = StepStartClusters

(* The step that starts the agents of a round is taken once in the round,  *)
(* and finds none of them; an agent that runs was registered.              *)
StartInv ==
    /\ \A k \in Slot : Starts(k) =>
          /\ \A i \in DOMAIN Clusters : i < cmds[k].at => <<Clusters[i], cmds[k].round>> \in registered
          /\ \A a \in Agent : a[2] = cmds[k].round => run[a] = "none"
          /\ \A j \in Slot : Starts(j) /\ cmds[j].round = cmds[k].round => j = k
          /\ step = StepProvision => cmds[k].round # round
    /\ \A a \in Agent : run[a] # "none" => a \in registered /\ (step = StepProvision => a[2] # round)

LEMMA AgentsStart ==
  ASSUME StartInv, \A a \in Agent : run'[a] = "none" <=> run[a] = "none",
         UNCHANGED <<cmds, ui, registered>>
  PROVE  StartInv'
  BY Zenon DEF StartInv, Starts, ui

(* A command goes on.                                                      *)
LEMMA CommandStarts ==
  ASSUME DemoInv, StartInv, NEW k \in Slot, NEW m, cmds' = [cmds EXCEPT ![k] = m],
         m.step = StepStartClusters =>
            /\ Starts(k) /\ m.round = cmds[k].round
            /\ \A i \in DOMAIN Clusters : i < m.at => <<Clusters[i], m.round>> \in registered',
         registered \subseteq registered', UNCHANGED <<ui, run>>
  PROVE  StartInv'
  <1>1. \A j \in Slot : j # k => cmds'[j] = cmds[j]
    BY Zenon DEF DemoInv, CommandsOK
  <1>2. cmds'[k] = m
    BY Zenon DEF DemoInv, CommandsOK
  <1>3. \A j \in Slot : Starts(j)' => Starts(j) /\ cmds'[j].round = cmds[j].round
    BY Zenon, <1>1, <1>2 DEF Starts
  <1>4. ASSUME NEW j \in Slot, Starts(j)', NEW i \in DOMAIN Clusters, i < cmds'[j].at
        PROVE  <<Clusters[i], cmds'[j].round>> \in registered'
    <2>1. CASE j = k
      BY Zenon, <1>2, <1>4, <2>1 DEF Starts
    <2>2. CASE j # k
      BY Zenon, <1>1, <1>3, <1>4, <2>2 DEF StartInv
    <2> QED
      BY Zenon, <2>1, <2>2
  <1>5. ASSUME NEW j \in Slot, Starts(j)'
        PROVE  /\ \A a \in Agent : a[2] = cmds'[j].round => run'[a] = "none"
               /\ \A l \in Slot : Starts(l)' /\ cmds'[l].round = cmds'[j].round => l = j
               /\ step' = StepProvision => cmds'[j].round # round'
    <2>1. Starts(j) /\ cmds'[j].round = cmds[j].round
      BY Zenon, <1>3, <1>5
    <2>2. /\ \A a \in Agent : a[2] = cmds[j].round => run[a] = "none"
          /\ \A l \in Slot : Starts(l) /\ cmds[l].round = cmds[j].round => l = j
          /\ step = StepProvision => cmds[j].round # round
      BY Zenon, <2>1 DEF StartInv
    <2>3. \A l \in Slot : Starts(l)' /\ cmds'[l].round = cmds'[j].round => l = j
      BY Zenon, <1>3, <2>1, <2>2
    <2> QED
      BY Zenon, <2>1, <2>2, <2>3 DEF ui
  <1>6. /\ \A a \in Agent : run[a] # "none" => a \in registered /\ (step = StepProvision => a[2] # round)
        /\ step' = step /\ round' = round /\ run' = run
    BY Zenon DEF StartInv, ui
  <1>7. \A a \in Agent : run'[a] # "none" => a \in registered' /\ (step' = StepProvision => a[2] # round')
    BY Zenon, <1>6
  <1> QED
    BY Zenon, <1>4, <1>5, <1>7 DEF StartInv

LEMMA EndStarts ==
  ASSUME DemoInv, StartInv, NEW k \in Slot, Ended(k), UNCHANGED <<ui, run, registered>>
  PROVE  StartInv'
  <1>1. Idle.step # StepStartClusters
    BY DEF Idle, Command, StepStartClusters
  <1> QED
    BY Zenon, <1>1, CommandStarts DEF Ended

LEMMA RunStepStarts ==
  ASSUME DemoInv, StartInv, NEW k \in Slot, runStep(k) \/ CallFails(k), ~StartAgents(k)
  PROVE  StartInv'
  <1>1. cmds[k] \in Cmd /\ UNCHANGED <<ui, run>>
    BY Zenon
       DEF DemoInv, CommandsOK, runStep, stepProvision, CopyTenantIDs, RegisterNext, stepExhaust,
       CopyRecentSeqs, stepIdempotency, CallFails, agents
  <1>2. CASE stepExhaust(k) \/ CallFails(k)
    <2>1. Ended(k) /\ UNCHANGED registered
      BY Zenon, <1>2 DEF stepExhaust, CallFails, ids
    <2> QED
      BY Zenon, <1>1, <2>1, EndStarts
  <1>3. CASE stepProvision(k)
    <2>1. PICK i, m : i = cmds[k].at + 1 /\ m = [cmds[k] EXCEPT !.at = i]
      BY Zenon
    <2>2. UNCHANGED registered /\ (Ended(k) \/ cmds' = [cmds EXCEPT ![k] = m])
      BY Zenon, <1>3, <2>1 DEF stepProvision
    <2>3. m.step # StepStartClusters
      BY <1>1, <1>3, <2>1 DEF Cmd, stepProvision, StepProvision, StepStartClusters
    <2> QED
      BY Zenon, <1>1, <2>2, <2>3, EndStarts, CommandStarts
  <1>4. CASE CopyTenantIDs(k)
    <2>1. PICK m : m = [cmds[k] EXCEPT !.at = 1, !.known = provisioned]
      BY Zenon
    <2>2. UNCHANGED registered /\ cmds' = [cmds EXCEPT ![k] = m] /\ Starts(k)
      BY Zenon, <1>4, <2>1 DEF CopyTenantIDs, ids, Starts
    <2>3. m.round = cmds[k].round /\ m.at = 1
      BY <1>1, <2>1 DEF Cmd
    <2>4. \A i \in DOMAIN Clusters : ~(i < 1)
      BY ConstantsAre
    <2> QED
      BY Zenon, <1>1, <2>2, <2>3, <2>4, CommandStarts
  <1>5. CASE RegisterNext(k)
    <2>1. PICK m, n : n = cmds[k].at /\ m = [cmds[k] EXCEPT !.at = cmds[k].at + 1]
      BY Zenon
    <2>2. Starts(k) /\ n \in DOMAIN Clusters
      BY Zenon, <1>5, <2>1 DEF RegisterNext, Starts
    <2>3. CASE Ended(k) /\ UNCHANGED registered
      BY Zenon, <1>1, <2>3, EndStarts
    <2>4. CASE /\ registered' = registered \cup {<<Clusters[n], cmds[k].round>>}
               /\ cmds' = [cmds EXCEPT ![k] = m]
      <3>1. m.round = cmds[k].round /\ m.at = n + 1
        BY <1>1, <2>1 DEF Cmd
      <3>2. \A i \in DOMAIN Clusters : i < m.at => i < n \/ i = n
        BY <2>2, <3>1, ConstantsAre
      <3>3. \A i \in DOMAIN Clusters : i < n => <<Clusters[i], cmds[k].round>> \in registered
        BY Zenon, <2>1, <2>2 DEF StartInv
      <3>4. \A i \in DOMAIN Clusters : i < m.at => <<Clusters[i], m.round>> \in registered'
        BY Zenon, <2>4, <3>1, <3>2, <3>3
      <3> QED
        BY Zenon, <1>1, <2>2, <2>4, <3>1, <3>4, CommandStarts
    <2> QED
      BY Zenon, <1>5, <2>1, <2>3, <2>4 DEF RegisterNext
  <1>6. CASE CopyRecentSeqs(k)
    <2>1. PICK m, o : o = Oldest(ReplayCount, recentSeqs) /\ m = [cmds[k] EXCEPT !.at = 1, !.rest = o]
      BY Zenon
    <2>2. UNCHANGED registered /\ cmds' = [cmds EXCEPT ![k] = m]
      BY Zenon, <1>6, <2>1 DEF CopyRecentSeqs, ids
    <2>3. m.step # StepStartClusters
      BY <1>1, <1>6, <2>1 DEF Cmd, CopyRecentSeqs, StepIdempotency, StepStartClusters
    <2> QED
      BY Zenon, <1>1, <2>2, <2>3, CommandStarts
  <1>7. CASE stepIdempotency(k)
    <2>1. PICK m : m = [cmds[k] EXCEPT !.rest = Tail(cmds[k].rest)]
      BY Zenon
    <2>2. UNCHANGED registered /\ (Ended(k) \/ cmds' = [cmds EXCEPT ![k] = m])
      BY Zenon, <1>7, <2>1 DEF stepIdempotency, ids
    <2>3. m.step # StepStartClusters
      BY <1>1, <1>7, <2>1 DEF Cmd, stepIdempotency, StepIdempotency, StepStartClusters
    <2> QED
      BY Zenon, <1>1, <2>2, <2>3, EndStarts, CommandStarts
  <1> QED
    BY Zenon, <1>2, <1>3, <1>4, <1>5, <1>6, <1>7 DEF runStep

LEMMA StartAgentsStarts ==
  ASSUME DemoInv, StartInv, NEW k \in Slot, StartAgents(k)
  PROVE  StartInv'
  <1>1. /\ run' = [a \in Agent |-> IF a[2] = cmds[k].round /\ clusterID[a[1]] # 0
                                  THEN "idle" ELSE run[a]]
        /\ Ended(k) /\ Starts(k) /\ cmds[k].at > Len(Clusters)
        /\ UNCHANGED <<step, round, registered>>
    BY Zenon DEF StartAgents, HasID, ids, ui, Starts
  <1>2. Idle.step # StepStartClusters
    BY DEF Idle, Command, StepStartClusters
  <1>3. \A j \in Slot : (j # k => cmds'[j] = cmds[j]) /\ (j = k => cmds'[j] = Idle)
    BY Zenon, <1>1 DEF DemoInv, CommandsOK, Ended
  <1>4. \A j \in Slot : Starts(j)' => j # k /\ Starts(j) /\ cmds'[j] = cmds[j]
    BY Zenon, <1>2, <1>3 DEF Starts
  <1>5. ASSUME NEW j \in Slot, Starts(j)'
        PROVE  /\ \A i \in DOMAIN Clusters : i < cmds'[j].at => <<Clusters[i], cmds'[j].round>> \in registered'
               /\ \A a \in Agent : a[2] = cmds'[j].round => run'[a] = "none"
               /\ \A l \in Slot : Starts(l)' /\ cmds'[l].round = cmds'[j].round => l = j
               /\ step' = StepProvision => cmds'[j].round # round'
    <2>1. j # k /\ Starts(j) /\ cmds'[j] = cmds[j]
      BY Zenon, <1>4, <1>5
    <2>2. /\ \A i \in DOMAIN Clusters : i < cmds[j].at => <<Clusters[i], cmds[j].round>> \in registered
          /\ \A a \in Agent : a[2] = cmds[j].round => run[a] = "none"
          /\ \A l \in Slot : Starts(l) /\ cmds[l].round = cmds[j].round => l = j
          /\ step = StepProvision => cmds[j].round # round
      BY Zenon, <2>1 DEF StartInv
    <2>3. cmds[k].round # cmds[j].round
      BY Zenon, <1>1, <2>1, <2>2
    <2>4. \A a \in Agent : a[2] = cmds[j].round => run'[a] = "none"
      BY Zenon, <1>1, <2>2, <2>3
    <2>5. \A l \in Slot : Starts(l)' /\ cmds'[l].round = cmds'[j].round => l = j
      BY Zenon, <1>4, <2>1, <2>2
    <2> QED
      BY Zenon, <1>1, <2>1, <2>2, <2>4, <2>5
  <1>6. /\ \A i \in DOMAIN Clusters : i < cmds[k].at => <<Clusters[i], cmds[k].round>> \in registered
        /\ step = StepProvision => cmds[k].round # round
        /\ \A a \in Agent : run[a] # "none" => a \in registered /\ (step = StepProvision => a[2] # round)
    BY Zenon, <1>1 DEF StartInv
  <1>7. \A i \in DOMAIN Clusters : <<Clusters[i], cmds[k].round>> \in registered
    <2>1. \A i \in DOMAIN Clusters : i < cmds[k].at
      <3>1. cmds[k] \in Cmd
        BY Zenon DEF DemoInv, CommandsOK
      <3>2. cmds[k].at \in Nat
        BY <3>1 DEF Cmd
      <3> QED
        BY <1>1, <3>2, ConstantsAre
    <2> QED
      BY Zenon, <1>6, <2>1
  <1>8. ASSUME NEW a \in Agent, run'[a] # "none"
        PROVE  a \in registered' /\ (step' = StepProvision => a[2] # round')
    <2>1. CASE run[a] # "none"
      BY Zenon, <1>1, <1>6, <2>1
    <2>2. CASE run[a] = "none"
      <3>1. a[2] = cmds[k].round
        BY Zenon, <1>1, <1>8, <2>2
      <3>2. PICK i \in DOMAIN Clusters : a[1] = Clusters[i]
        BY Zenon DEF Agent, Cluster
      <3>3. a = <<Clusters[i], cmds[k].round>>
        <4>1. a = <<a[1], a[2]>>
          BY DEF Agent
        <4> QED
          BY Zenon, <3>1, <3>2, <4>1
      <3> QED
        BY Zenon, <1>1, <1>6, <1>7, <3>1, <3>3
    <2> QED
      BY Zenon, <2>1, <2>2
  <1> QED
    BY Zenon, <1>5, <1>8 DEF StartInv

(* The interface goes to another step, in this round or from the start of  *)
(* the next.                                                               *)
LEMMA GoToStarts ==
  ASSUME DemoInv, StartInv, NEW s, NEW n \in Round, GoTo(s, n),
         s = StepStartClusters => step = StepProvision /\ n = round,
         s = StepProvision => n > round
  PROVE  StartInv'
  <1>1. step' = s /\ round' = n /\ UNCHANGED <<run, registered>>
    BY Zenon DEF GoTo, ids, agents
  <1>2. PICK k : UNCHANGED cmds \/ cmds' = [cmds EXCEPT ![k] = Command(s, n)]
    BY Zenon DEF GoTo
  <1>3. Command(s, n).step = s /\ Command(s, n).round = n /\ Command(s, n).at = 0
    BY DEF Command
  <1>4. \A i \in DOMAIN Clusters : ~(i < 0)
    BY ConstantsAre
  <1>5. \A j \in Slot : cmds'[j] = cmds[j] \/ (j = k /\ cmds'[j] = Command(s, n))
    BY Zenon, <1>2 DEF DemoInv, CommandsOK
  <1>6. round \in Nat /\ n \in Nat
    BY DEF DemoInv, Types, StepTypes, Round
  <1>7. ASSUME NEW j \in Slot, Starts(j), s = StepProvision PROVE cmds[j].round # n
    <2>1. cmds[j].round \in 1..round
      <3>1. Idle.step # StepStartClusters
        BY DEF Idle, Command, StepStartClusters
      <3>2. cmds[j] # Idle
        BY Zenon, <1>7, <3>1 DEF Starts
      <3> QED
        BY Zenon, <3>2 DEF DemoInv, CommandsOK, CommandOK
    <2> QED
      BY <1>6, <1>7, <2>1
  <1>8. ASSUME NEW a \in Agent, run[a] # "none", s = StepProvision PROVE a[2] # n
    <2>1. a[2] <= round
      BY Zenon, <1>8 DEF DemoInv, AgentsOK
    <2> QED
      BY <1>6, <1>8, <2>1
  <1>9. StepStartClusters # StepProvision
    BY DEF StepStartClusters, StepProvision
  <1>10. \A j \in Slot : Starts(j)' => \/ Starts(j) /\ cmds'[j] = cmds[j]
                                       \/ s = StepStartClusters /\ j = k /\ cmds'[j] = Command(s, n)
    BY Zenon, <1>3, <1>5 DEF Starts
  <1>11. \A j \in Slot : Starts(j) /\ s = StepStartClusters => cmds[j].round # n
    BY Zenon DEF StartInv
  <1>12. ASSUME NEW j \in Slot, Starts(j)'
         PROVE  /\ \A i \in DOMAIN Clusters : i < cmds'[j].at => <<Clusters[i], cmds'[j].round>> \in registered'
                /\ \A a \in Agent : a[2] = cmds'[j].round => run'[a] = "none"
                /\ \A l \in Slot : Starts(l)' /\ cmds'[l].round = cmds'[j].round => l = j
                /\ step' = StepProvision => cmds'[j].round # round'
    <2>1. CASE Starts(j) /\ cmds'[j] = cmds[j]
      <3>1. /\ \A i \in DOMAIN Clusters : i < cmds[j].at => <<Clusters[i], cmds[j].round>> \in registered
            /\ \A a \in Agent : a[2] = cmds[j].round => run[a] = "none"
            /\ \A l \in Slot : Starts(l) /\ cmds[l].round = cmds[j].round => l = j
        BY Zenon, <2>1 DEF StartInv
      <3>2. \A l \in Slot : Starts(l)' /\ cmds'[l].round = cmds'[j].round => l = j
        BY Zenon, <1>3, <1>10, <1>11, <2>1, <3>1
      <3>3. step' = StepProvision => cmds[j].round # round'
        BY Zenon, <1>1, <1>7, <2>1
      <3> QED
        BY Zenon, <1>1, <2>1, <3>1, <3>2, <3>3
    <2>2. CASE s = StepStartClusters /\ j = k /\ cmds'[j] = Command(s, n)
      <3>1. \A a \in Agent : a[2] = n => run[a] = "none"
        BY Zenon, <2>2 DEF StartInv
      <3>2. \A l \in Slot : Starts(l)' /\ cmds'[l].round = n => l = j
        BY Zenon, <1>10, <1>11, <2>2
      <3> QED
        BY Zenon, <1>1, <1>3, <1>4, <1>9, <2>2, <3>1, <3>2
    <2> QED
      BY Zenon, <1>10, <1>12, <2>1, <2>2
  <1>13. \A a \in Agent : run'[a] # "none" => a \in registered' /\ (step' = StepProvision => a[2] # round')
    <2>1. \A a \in Agent : run[a] # "none" => a \in registered
      BY Zenon DEF StartInv
    <2> QED
      BY Zenon, <1>1, <1>8, <2>1
  <1> QED
    BY Zenon, <1>12, <1>13 DEF StartInv

LEMMA InterfaceStarts ==
  ASSUME DemoInv, StartInv, KeyNext \/ KeyRestart \/ Tick
  PROVE  StartInv'
  <1>1. step \in StepProvision..StepSummary /\ round \in Round
    BY Zenon DEF DemoInv, Types, StepTypes
  <1>2. PICK s : /\ s = (IF step >= StepSummary THEN StepExhaust ELSE step + 1)
                 /\ s \notin {StepProvision} /\ (s = StepStartClusters => step = StepProvision)
    BY <1>1 DEF StepProvision, StepSummary, StepExhaust, StepStartClusters
  <1>3. CASE KeyNext
    <2>1. GoTo(s, round)
      BY Zenon, <1>2, <1>3 DEF KeyNext
    <2> QED
      BY Zenon, <1>1, <1>2, <2>1, GoToStarts
  <1>4. CASE KeyRestart
    <2>1. round + 1 \in Round /\ round + 1 > round /\ StepProvision # StepStartClusters
      <3>1. round < MaxRounds
        BY Zenon, <1>4 DEF KeyRestart
      <3> QED
        BY <1>1, <3>1, ConstantsAre DEF Round, StepProvision, StepStartClusters
    <2>2. GoTo(StepProvision, round + 1)
      BY Zenon, <1>4 DEF KeyRestart
    <2> QED
      BY Zenon, <2>1, <2>2, GoToStarts
  <1>5. CASE Tick
    <2>1. PICK t : t = step + 1 /\ t # StepProvision /\ (t = StepStartClusters => step = StepProvision)
      BY <1>1 DEF StepProvision, StepSummary, StepStartClusters
    <2>2. GoTo(t, round)
      BY Zenon, <1>5, <2>1 DEF Tick
    <2> QED
      BY Zenon, <1>1, <2>1, <2>2, GoToStarts
  <1> QED
    BY Zenon, <1>3, <1>4, <1>5

LEMMA StartInit == Init => StartInv
  <1> SUFFICES ASSUME Init PROVE StartInv
    OBVIOUS
  <1>1. /\ Idle.step # StepStartClusters
        /\ Command(StepProvision, 1).step # StepStartClusters
    BY DEF Idle, Command, StepStartClusters, StepProvision
  <1>2. \A k \in Slot : cmds[k] \in {Idle, Command(StepProvision, 1)}
    BY Zenon DEF Init
  <1>3. \A k \in Slot : ~Starts(k)
    BY Zenon, <1>1, <1>2 DEF Starts
  <1>4. \A a \in Agent : run[a] = "none"
    BY Zenon DEF Init
  <1> QED
    BY Zenon, <1>3, <1>4 DEF StartInv

LEMMA StartStep == DemoInv /\ StartInv /\ [Next]_vars => StartInv'
  <1> SUFFICES ASSUME DemoInv, StartInv, [Next]_vars PROVE StartInv'
    OBVIOUS
  <1>1. CASE UNCHANGED vars
    BY Zenon, <1>1, AgentsStart DEF vars, ids, agents
  <1>2. ASSUME NEW k \in Slot, runStep(k) \/ CallFails(k) PROVE StartInv'
    BY Zenon, <1>2, RunStepStarts, StartAgentsStarts
  <1>3. ASSUME NEW a \in Agent, NEW v \in {"streaming", "broken", "ended"},
               run[a] # "none", run' = [run EXCEPT ![a] = v] \/ run' = run,
               UNCHANGED <<cmds, ui, registered>>
        PROVE  StartInv'
    <2>1. run \in [Agent -> {"none", "idle", "streaming", "broken", "ended"}]
      BY Zenon DEF DemoInv, Types, AgentTypes
    <2>2. \A b \in Agent : run'[b] = "none" <=> run[b] = "none"
      BY Zenon, <1>3, <2>1
    <2> QED
      BY Zenon, <1>3, <2>2, AgentsStart
  <1>4. ASSUME NEW a \in Agent, TakeReplay(a) PROVE StartInv'
    <2>1. /\ run[a] # "none" /\ (run' = [run EXCEPT ![a] = "streaming"] \/ run' = run)
          /\ UNCHANGED <<cmds, ui, registered>>
      BY Zenon, <1>4, SendsWhat DEF TakeReplay, AtSelect, Looping, ids
    <2> QED
      BY Zenon, <1>3, <2>1
  <1>5. ASSUME NEW a \in Agent, SendHeartbeat(a) PROVE StartInv'
    <2>1. Looping(a)
      BY Zenon, <1>5 DEF SendHeartbeat, DemoInv, Types, AgentTypes
    <2>2. /\ run[a] # "none" /\ UNCHANGED <<cmds, ui, registered>>
          /\ run' = [run EXCEPT ![a] = "streaming"] \/ run' = [run EXCEPT ![a] = "ended"]
      BY Zenon, <1>5, <2>1, SendsWhat DEF SendHeartbeat, Looping, ids
    <2> QED
      BY Zenon, <1>3, <2>2
  <1>6. ASSUME NEW a \in Agent, StreamBreaks(a) PROVE StartInv'
    <2>1. /\ run[a] # "none" /\ run' = [run EXCEPT ![a] = "broken"]
          /\ UNCHANGED <<cmds, ui, registered>>
      BY Zenon, <1>6 DEF StreamBreaks, ids
    <2> QED
      BY Zenon, <1>3, <2>1
  <1>7. ASSUME NEW a \in Agent, TakeRamp(a) \/ DrawNumber(a) \/ Receive(a) PROVE StartInv'
    <2>1. UNCHANGED <<cmds, ui, registered, run>>
      BY Zenon, <1>7 DEF TakeRamp, DrawNumber, Receive, ids, agents
    <2> QED
      BY Zenon, <2>1, AgentsStart
  <1> QED
    BY Zenon, <1>1, <1>2, <1>4, <1>5, <1>6, <1>7, InterfaceStarts DEF Next, Runs, Replays, Beats

-----------------------------------------------------------------------------
LEMMA ReplayInit == Init => ReplayInv
  <1> SUFFICES ASSUME Init PROVE ReplayInv
    OBVIOUS
  <1>1. \A k \in Slot : Of(cmds[k].rest) = {}
    BY Zenon, NoRest DEF Init
  <1>2. \A n : ~Held(n)
    BY Zenon, <1>1, NothingOf DEF Init, Held
  <1> QED
    BY Zenon, <1>2 DEF ReplayInv

LEMMA ReplayStep == DemoInv /\ StartInv /\ ReplayInv /\ [Next]_vars => ReplayInv'
  <1> SUFFICES ASSUME DemoInv, StartInv, ReplayInv, [Next]_vars PROVE ReplayInv'
    OBVIOUS
  <1>1. CASE UNCHANGED vars
    <2>1. UNCHANGED <<cmds, replayCh, recentSeqs, wire, clusterID, registered, run, sending, seq>>
      BY Zenon, <1>1 DEF vars, ids, agents, channels
    <2>2. Lost => Lost'
      BY Zenon, <2>1 DEF Lost
    <2> QED
      BY Zenon, <2>1, <2>2, SameHeld, SameSent
  <1>2. ASSUME NEW k \in Slot, runStep(k) \/ CallFails(k) PROVE ReplayInv'
    <2>1. CASE RegisterNext(k)
      BY Zenon, <2>1, RegisterHolds
    <2>2. CASE StartAgents(k)
      <3>1. /\ run' = [a \in Agent |-> IF a[2] = cmds[k].round /\ clusterID[a[1]] # 0
                                      THEN "idle" ELSE run[a]]
            /\ UNCHANGED <<wire, clusterID, registered, sending, seq>> /\ Starts(k)
        BY Zenon, <2>2 DEF StartAgents, HasID, ids, Starts
      <3>2. \A a \in Agent : a[2] = cmds[k].round => run[a] = "none"
        BY Zenon, <3>1 DEF StartInv
      <3>3. \A a \in Agent : run[a] \in {"broken", "ended"} => run'[a] = run[a]
        BY Zenon, <3>1, <3>2
      <3>4. Lost => Lost'
        BY Zenon, <3>3 DEF Lost
      <3> QED
        BY Zenon, <1>2, <3>1, <3>4, CommandHolds, SameSent
    <2>3. CASE ~RegisterNext(k) /\ ~StartAgents(k)
      <3>1. UNCHANGED <<wire, clusterID, registered, run, sending, seq>>
        BY Zenon, <1>2, <2>3 DEF runStep, stepProvision, CopyTenantIDs, stepExhaust,
           CopyRecentSeqs, stepIdempotency, CallFails, ids, agents
      <3>2. Lost => Lost'
        BY Zenon, <3>1 DEF Lost
      <3> QED
        BY Zenon, <1>2, <3>1, <3>2, CommandHolds, SameSent
    <2> QED
      BY Zenon, <2>1, <2>2, <2>3
  <1>3. ASSUME NEW s, NEW r \in Round, GoTo(s, r) PROVE ReplayInv'
    <2>1. UNCHANGED <<wire, clusterID, registered, run, sending, seq>>
      BY Zenon, <1>3 DEF GoTo, ids, agents
    <2>2. Lost => Lost'
      BY Zenon, <2>1 DEF Lost
    <2> QED
      BY Zenon, <1>3, <2>1, <2>2, InterfaceHolds, SameSent
  <1>4. CASE KeyNext \/ KeyRestart \/ Tick
    <2>1. round \in Round /\ (KeyRestart => round + 1 \in Round)
      BY ConstantsAre DEF DemoInv, Types, StepTypes, Round, KeyRestart
    <2> QED
      BY Zenon, <1>3, <1>4, <2>1 DEF KeyNext, KeyRestart, Tick
  <1>5. ASSUME NEW a \in Agent, TakeReplay(a) \/ DrawNumber(a) \/ SendHeartbeat(a) PROVE ReplayInv'
    BY Zenon, <1>5, TakeReplayHolds, DrawNumberHolds, SendHeartbeatHolds
  <1> QED
    BY Zenon, <1>1, <1>2, <1>4, <1>5, OtherAgentsHold DEF Next, Runs, Replays, Beats

(* The agent that takes a replay has nothing in hand, and it is the only   *)
(* one of A.                                                               *)
LEMMA ReplayIsOld ==
  ASSUME DemoInv, StartInv, ReplayInv, RegisteredOnce, NEW a \in Agent, TakeReplay(a)
  PROVE  wire' = wire
  <1>1. /\ Looping(a) /\ a \notin sending /\ a[1] = A /\ replayCh # <<>>
        /\ Sends(a, Head(replayCh)) \/ UNCHANGED wire
    BY Zenon DEF TakeReplay, AtSelect
  <1>2. ASSUME NEW b \in Agent, b[1] = A, run[b] # "none" PROVE b = a
    <2>1. run[a] # "none"
      BY Zenon, <1>1 DEF Looping
    <2>2. a \in registered /\ b \in registered
      BY Zenon, <1>2, <2>1 DEF StartInv
    <2> QED
      BY Zenon, <1>1, <1>2, <2>2 DEF RegisteredOnce
  <1>3. CASE Sends(a, Head(replayCh))
    <2>1. PICK n : n = Head(replayCh)
      BY Zenon
    <2>2. run[a] # "broken" /\ wire' = wire \cup {<<A, clusterID[A], n>>}
      BY Zenon, <1>1, <1>3, <2>1 DEF Sends
    <2>3. Held(n)
      <3>1. replayCh \in Seq(Nat)
        BY Zenon DEF DemoInv, Types, ChannelTypes
      <3> QED
        BY Zenon, <1>1, <2>1, <3>1, TailOf DEF Held
    <2>4. ~Lost
      <3>1. run[a] \notin {"broken", "ended"}
        BY Zenon, <1>1, <2>2 DEF Looping
      <3> QED
        BY Zenon, <1>2, <3>1 DEF Lost
    <2>5. ~InHand(n)
      <3>1. \A b \in sending : b \in Agent /\ run[b] # "none"
        BY Zenon DEF DemoInv, Types, AgentTypes, Looping
      <3> QED
        BY Zenon, <1>1, <1>2, <3>1 DEF InHand
    <2>6. <<A, clusterID[A], n>> \in wire
      BY Zenon, <2>3, <2>4, <2>5 DEF ReplayInv, Sent
    <2> QED
      BY <2>2, <2>6
  <1> QED
    BY Zenon, <1>1, <1>3

(* Nothing else takes a number from the channel.                           *)
LEMMA OnlyReplaysTake ==
  ASSUME DemoInv, [Next]_vars, ~\E a \in Agent : TakeReplay(a)
  PROVE  ~(Len(replayCh') < Len(replayCh))
  <1>1. replayCh \in Seq(Nat)
    BY Zenon DEF DemoInv, Types, ChannelTypes
  <1>2. UNCHANGED replayCh \/ \E k \in Slot : stepIdempotency(k)
    BY Zenon
       DEF vars, Next, Runs, Replays, Beats, runStep, stepProvision, CopyTenantIDs, RegisterNext,
       StartAgents, stepExhaust, CopyRecentSeqs, CallFails, KeyNext, KeyRestart, Tick, GoTo,
       TakeRamp, DrawNumber, SendHeartbeat, Receive, StreamBreaks, channels
  <1>3. UNCHANGED replayCh \/ \E h : replayCh' = Append(replayCh, h)
    BY Zenon, <1>2 DEF stepIdempotency
  <1>4. \A h : Len(Append(replayCh, h)) = Len(replayCh) + 1
    BY <1>1
  <1> QED
    BY <1>1, <1>3, <1>4

(* As long as cluster A has one id, a number replayed was sent before      *)
(* under it, however many idempotency steps overlap, whatever they read    *)
(* while a heartbeat is on its way, and however large the buffers are.     *)
THEOREM ReplaysAreDuplicates == Spec => ReplayIsDuplicate
  <1>1. DemoInv /\ StartInv /\ ReplayInv /\ [Next]_vars
        => [RegisteredOnce /\ Len(replayCh') < Len(replayCh) => wire' = wire]_vars
    BY Zenon, ReplayIsOld, OnlyReplaysTake
  <1> QED
    BY <1>1, DemoInit, DemoStep, StartInit, StartStep, ReplayInit, ReplayStep, PTL
       DEF Spec, ReplayIsDuplicate
=============================================================================
