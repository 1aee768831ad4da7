------------------------------ MODULE Reports -------------------------------
(***************************************************************************)
(* What the quota reports say: ListTenantQuotas, from the rows of          *)
(* quota_snapshots, and the answer of IssueTenantCredit, from the balances *)
(* that the update looked up.  The answers to agents, which add the marks  *)
(* of the workflow, are in module Enforcement.                             *)
(***************************************************************************)
EXTENDS Accounting

(* Wallets are loaded, so only a row that is not there has no credits.     *)
HasRow(r) == snapshots[r].credits > 0

(* The generated column available, and its recomputation from a lookup.    *)
Left(b) == b.credits - b.posted - b.pending

(* The last unit is taken for none.                                        *)
FaultyNoneLeft(b) == Left(b) <= 1

NoneLeft(b) == Left(b) <= 0

Used80(b, used) == b.credits > 0 /\ 10 * used >= 8 * b.credits

(* A gauge is used up by what is reserved, a counter by what is spent.     *)
QuotaInfo(b, r) ==
    LET used == IF r = ActiveNodes THEN b.pending ELSE b.posted
    IN  [used |-> used, limit |-> b.credits, available |-> Left(b),
         status |-> IF NoneLeft(b) THEN "exceeded"
                    ELSE IF Used80(b, used) THEN "warning" ELSE "ok"]

GetQuotaSnapshots == [r \in {q \in Resource : HasRow(q)} |-> snapshots[r]]

ListTenantQuotas == [r \in DOMAIN GetQuotaSnapshots |-> QuotaInfo(GetQuotaSnapshots[r], r)]

(* The update has looked the balances up and is about to return them.      *)
HasAnswer(u) == at[u] \in {"snapshots", "resetAlert"}

IssueTenantCredit(u) == [r \in Resource |-> QuotaInfo(fetched[u][r], r)]

-----------------------------------------------------------------------------
(* A report is a thing of the past and never of a state that was not:      *)
(* however flushes and credits interleave, and whichever of them wrote a   *)
(* row last, no report shows more credit or more spending than the wallet  *)
(* has, or a wallet overdrawn, and it says exceeded only of a balance that *)
(* was all used up.                                                        *)
Truthful(q, r) ==
    /\ q.limit <= credits[r]
    /\ q.available >= 0
    /\ r # ActiveNodes => q.used <= posted[r]
    /\ q.status = "exceeded" => q.limit <= Used(r) \/ r = ActiveNodes

ReportsArePast ==
    /\ \A r \in DOMAIN ListTenantQuotas : Truthful(ListTenantQuotas[r], r)
    /\ \A u \in Update : HasAnswer(u) =>
          \A r \in Resource : Truthful(IssueTenantCredit(u)[r], r)
=============================================================================
