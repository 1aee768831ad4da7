------------------------------ MODULE Wallets -------------------------------
(***************************************************************************)
(* What a tenant's wallets promise to the rest of the system, with no word *)
(* about transfers, batches, results, retries or refused ids: an           *)
(* idempotent prepaid wallet per resource.  An operation bears an id and   *)
(* takes effect at most once; the amount in use never passes the limit; a  *)
(* reservation is given back once, in full.                                *)
(*                                                                         *)
(* The amount of an operation is read off the step, so that TLC can decide *)
(* whether a step is one of these without enumerating the naturals.        *)
(***************************************************************************)
EXTENDS Integers

CONSTANTS Resource, InitialCredits

VARIABLES
    limit,   \* what has been granted, per resource
    used,    \* what is spent or reserved, per resource
    spent,   \* what is spent for good, per resource
    held,    \* the reservations not yet released: records with id, r, amount
    done     \* the ids of the operations that have taken effect

walletVars == <<limit, used, spent, held, done>>

Init ==
    /\ limit = InitialCredits
    /\ used = [r \in Resource |-> 0]
    /\ spent = [r \in Resource |-> 0]
    /\ held = {}
    /\ done = {}

Takes(id) == id \notin done /\ done' = done \cup {id}

Draw(r, n) ==
    /\ n >= 0
    /\ used[r] + n <= limit[r]
    /\ used' = [used EXCEPT ![r] = @ + n]

Grant(id, r) ==
    /\ Takes(id)
    /\ limit'[r] >= limit[r]
    /\ limit' = [limit EXCEPT ![r] = limit'[r]]
    /\ UNCHANGED <<used, spent, held>>

Spend(id, r) ==
    /\ Takes(id)
    /\ Draw(r, spent'[r] - spent[r])
    /\ spent' = [spent EXCEPT ![r] = spent'[r]]
    /\ UNCHANGED <<limit, held>>

Reserve(h) ==
    /\ Takes(h.id)
    /\ Draw(h.r, h.amount)
    /\ held' = held \cup {h}
    /\ UNCHANGED <<limit, spent>>

Release(id, h) ==
    /\ Takes(id)
    /\ used' = [used EXCEPT ![h.r] = @ - h.amount]
    /\ held' = held \ {h}
    /\ UNCHANGED <<limit, spent>>

Next ==
    \/ \E id \in done', r \in Resource : Grant(id, r) \/ Spend(id, r)
    \/ \E h \in held' : Reserve(h)
    \/ \E id \in done', h \in held : Release(id, h)

Spec == Init /\ [][Next]_walletVars
=============================================================================
