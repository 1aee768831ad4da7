--------------------------- MODULE MCAccounting ---------------------------
(* Instances of Accounting for TLC.                                        *)
EXTENDS Reports, LedgerWallets, FiniteSetsExt, TLC

CONSTANTS cpu, nodes, c1, c2, u1, u2

CpuOnly == <<cpu>>
NodesOnly == <<nodes>>
CpuAndNodes == <<cpu, nodes>>

(* A value per resource.                                                   *)
Both(x, y) == [r \in Resource |-> IF r = cpu THEN x ELSE y]

Two == Both(2, 2)
Ample == Both(50, 50)
NoLimits == Both(NoLimit, NoLimit)
Limits == Both(2, 2)

One == Both(1, 1)
LargeCredit == [u \in Update |-> [r |-> cpu, amount |-> 9]]
CpuCredit == [u \in Update |-> [r |-> cpu, amount |-> 1]]
NodeCredit == [u \in Update |-> [r |-> nodes, amount |-> 1]]

(* Updates with the same credit are interchangeable.                       *)
UpdateSymmetry == Permutations(Update)

(* Three heartbeats of one cluster, the last with a negative amount.       *)
SignedUsage == [hb \in {c1} \X (1..3) |-> Both(IF hb[2] = 3 THEN -1 ELSE hb[2], 0)]

(* The heartbeats of one cluster: one, then two nodes.                      *)
RisingUsage == [hb \in {c1} \X (1..2) |-> Both(1, hb[2])]

(* A heartbeat that does not fit a wallet of one, then one that does.      *)
FallingUsage == [hb \in {c1} \X (1..2) |-> Both(3 - hb[2], 3 - hb[2])]

(* Two clusters with different node counts.                                *)
SharedUsage == [hb \in {c1, c2} \X {1, 2} |-> Both(1, IF hb[1] = c1 THEN hb[2] ELSE 1)]

(* What a heartbeat has cost is what it reported, once: the debits of a    *)
(* wallet are the sum, over the heartbeats whose transfer is in the books, *)
(* of the signed amount in the heartbeat.                                  *)
Charged(r) ==
    {hb \in Heartbeat : \E t \in committed : t.id = DeriveTransferID(hb[1], hb[2], r)}

ChargedOnce ==
    \A r \in Resource : posted[r] = MapThenSumSet(LAMBDA hb : Usage[hb][r], Charged(r))

(* A credit is given at most once, at its amount: the credits of a wallet  *)
(* are what it was opened with and the amounts of the IssueCredit calls    *)
(* whose transfer is in the books.  A call retries its activity, times out *)
(* with requests still on their way, runs beside another call and beside a *)
(* flush, or is aborted by a new run (workflow_accounting.go:138, 404); no *)
(* attempt of it may post the credit under a second id.                    *)
Credited(r) ==
    {u \in Update : at[u] # "idle" /\ Credit[u].r = r /\ CreditTransfer(u) \in committed}

CreditedOnce ==
    \A r \in Resource :
        credits[r] = InitialCredits[r] + MapThenSumSet(LAMBDA u : Credit[u].amount, Credited(r))
=============================================================================
