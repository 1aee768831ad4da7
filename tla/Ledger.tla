------------------------------- MODULE Ledger -------------------------------
(***************************************************************************)
(* The quota wallets of one tenant in TigerBeetle, and the transfers that  *)
(* package internal/ledger writes to them.                                 *)
(*                                                                         *)
(* One wallet per resource: credits_posted, debits_posted and              *)
(* debits_pending of an account created with                               *)
(* debits_must_not_exceed_credits.  The operator and sink accounts on the  *)
(* other side of every transfer carry no limit and are not modelled.       *)
(*                                                                         *)
(* TigerBeetle itself is not part of the repository; CreateTransfers is    *)
(* modelled from the way the code calls it and from the results the code   *)
(* tells apart, for the pinned release 0.16.78.  A request is executed     *)
(* transfer by transfer and nothing else happens in between: every other   *)
(* action of the system waits for TBIdle.                                  *)
(***************************************************************************)
EXTENDS Integers, Sequences, FiniteSets

CONSTANTS
    AllResources,    \* the sequence domain.AllResources
    Cluster,         \* the tenant's workload clusters
    InitialCredits   \* credits of each wallet when provisioning is over

Resource == {AllResources[i] : i \in DOMAIN AllResources}

ASSUME ResourcesAssumption ==
    /\ AllResources \in Seq(Resource)
    /\ Len(AllResources) > 0
    /\ InitialCredits \in [Resource -> Nat]

-----------------------------------------------------------------------------
(* Transfer ids.  Each is a blake3 hash of the listed inputs under a       *)
(* domain separator; the model takes the hash to be free of collisions.    *)

(* The sequence number left out of the hash.                               *)
FaultyDeriveTransferID(c, seq, r) == <<"usage", c, 0, r>>

DeriveTransferID(c, seq, r) == <<"usage", c, seq, r>>

DeriveAllocationTransferID(seqNo, r) == <<"alloc", seqNo, r>>

DeriveGaugePendingID(seqNo, c, r) == <<"gauge-pending", seqNo, c, r>>

DeriveGaugeVoidID(seqNo, c, r) == <<"gauge-void", seqNo, c, r>>

NoId == <<>>

TransferId ==
    ({"usage"} \X Cluster \X Nat \X Resource)
        \cup ({"alloc"} \X Nat \X Resource)
        \cup ({"gauge-pending", "gauge-void"} \X Nat \X Cluster \X Resource)

(* A transfer on the wallet of resource r; ref names the pending transfer  *)
(* that a void releases.  NoTransfer is a slot of a batch for which the    *)
(* code builds no transfer.                                                *)
Transfer == [id : TransferId, kind : {"usage", "alloc", "pending", "void"},
             r : Resource, amount : Nat, ref : TransferId \cup {NoId}]

NoTransfer == [kind |-> "none"]

Slot == Transfer \cup {NoTransfer}

Result == {"ok", "skipped", "exists", "id_already_failed", "exceeds_credits",
           "pending_not_found", "pending_already_voided"}

-----------------------------------------------------------------------------
VARIABLES
    credits,     \* credits_posted of each wallet
    posted,      \* debits_posted of each wallet
    pending,     \* debits_pending of each wallet
    committed,   \* the transfers in the books
    failed,      \* ids of transfers that failed and may not be used again
    request      \* the CreateTransfers request being executed

balances == <<credits, posted, pending>>
ledgerVars == <<credits, posted, pending, committed, failed, request>>

(* A caller is an attempt of an activity: its flush number and its count.  *)
Caller == Nat \X Nat

NoRequest == [from |-> <<>>, items |-> <<>>, results |-> <<>>]

Request == [from : Caller, items : Seq(Slot), results : Seq(Result)]

TBIdle == request = NoRequest

LedgerInit ==
    /\ credits = InitialCredits
    /\ posted = [r \in Resource |-> 0]
    /\ pending = [r \in Resource |-> 0]
    /\ committed = {}
    /\ failed = {}
    /\ request = NoRequest

-----------------------------------------------------------------------------
PendingWith(id) == {t \in committed : t.kind = "pending" /\ t.id = id}

Voided(id) == \E t \in committed : t.kind = "void" /\ t.ref = id

LivePending == {t \in committed : t.kind = "pending" /\ ~Voided(t.id)}

Used(r) == posted[r] + pending[r]

(* Operators named Faulty... are variants with a mistake; see the README.  *)
(* A limit that forgets what has been used already.                        *)
FaultyOverdraws(t) == t.kind \in {"usage", "pending"} /\ t.amount > credits[t.r]

(* debits_must_not_exceed_credits, with which every wallet is created.     *)
Overdraws(t) == t.kind \in {"usage", "pending"} /\ Used(t.r) + t.amount > credits[t.r]

(* TigerBeetle's verdict on transfer t in the current state.               *)
Outcome(t) ==
    IF t = NoTransfer THEN "skipped"
    ELSE IF \E u \in committed : u.id = t.id THEN "exists"
    ELSE IF t.id \in failed THEN "id_already_failed"
    ELSE IF t.kind = "void" /\ PendingWith(t.ref) = {} THEN "pending_not_found"
    ELSE IF t.kind = "void" /\ Voided(t.ref) THEN "pending_already_voided"
    ELSE IF Overdraws(t) THEN "exceeds_credits"
    ELSE "ok"

(* The results after which TigerBeetle refuses the id for ever.            *)
Transient == {"exceeds_credits", "pending_not_found"}

(* The amount of the void itself, which is 0.                              *)
FaultyReleased(t) == t

(* The pending transfer that void t releases, in full.                     *)
Released(t) == CHOOSE p \in PendingWith(t.ref) : TRUE

Commit(t) ==
    /\ committed' = committed \cup {t}
    /\ credits' = IF t.kind = "alloc"
                  THEN [credits EXCEPT ![t.r] = @ + t.amount] ELSE credits
    /\ posted' = IF t.kind = "usage"
                 THEN [posted EXCEPT ![t.r] = @ + t.amount] ELSE posted
    /\ pending' = IF t.kind = "pending" THEN [pending EXCEPT ![t.r] = @ + t.amount]
                  ELSE IF t.kind = "void"
                  THEN [pending EXCEPT ![Released(t).r] = @ - Released(t).amount]
                  ELSE pending

(* Client.CreateTransfers: the request reaches TigerBeetle.                *)
CreateTransfers(from, items) ==
    /\ TBIdle
    /\ request' = [from |-> from, items |-> items, results |-> <<>>]
    /\ UNCHANGED <<balances, committed, failed>>

(* TigerBeetle executes the next transfer of the request.                  *)
ApplyNext ==
    /\ ~TBIdle
    /\ Len(request.results) < Len(request.items)
    /\ LET t == request.items[Len(request.results) + 1]
           res == Outcome(t)
       IN  /\ request' = [from |-> request.from, items |-> request.items,
                          results |-> Append(request.results, res)]
           /\ failed' = IF res \in Transient THEN failed \cup {t.id} ELSE failed
           /\ IF res = "ok" THEN Commit(t) ELSE UNCHANGED <<balances, committed>>

Executed == ~TBIdle /\ Len(request.results) = Len(request.items)

(* The response leaves TigerBeetle.                                        *)
Respond ==
    /\ Executed
    /\ request' = NoRequest
    /\ UNCHANGED <<balances, committed, failed>>

-----------------------------------------------------------------------------
(* The ledger under a client that may submit anything at any time: what a  *)
(* system built on it may rely on.                                         *)
AnyRequest ==
    /\ TBIdle
    /\ request' \in Request
    /\ request'.results = <<>>
    /\ UNCHANGED <<balances, committed, failed>>

LedgerStep == AnyRequest \/ ApplyNext \/ Respond

LedgerSpec == LedgerInit /\ [][LedgerStep]_ledgerVars

LedgerTypeOK ==
    /\ credits \in [Resource -> Nat]
    /\ posted \in [Resource -> Nat]
    /\ pending \in [Resource -> Int]
    /\ committed \in SUBSET Transfer
    /\ failed \in SUBSET TransferId
    /\ request \in Request \cup {NoRequest}
    /\ Len(request.results) <= Len(request.items)

(* Invariant I-3: whatever is submitted, in whatever order, with whatever  *)
(* retries, the debits of a wallet never exceed its credits.               *)
HardLimit == \A r \in Resource : Used(r) <= credits[r]

(* A transfer id enters the books at most once, which is what makes a      *)
(* retried or replayed submission free of charge (invariants I-2 and I-5). *)
OneEntryPerId == \A t, u \in committed : t.id = u.id => t = u

(* An id that was refused is never in the books as well: the code may take *)
(* "exists" to mean that the transfer was committed.                       *)
RefusedIsNotCommitted == \A t \in committed : t.id \notin failed

(* Every void in the books released a reservation that was in the books,   *)
(* and no reservation was released twice.                                  *)
VoidsAreMatched ==
    \A t \in committed : t.kind = "void" =>
        /\ PendingWith(t.ref) # {}
        /\ \A u \in committed : u.kind = "void" /\ u.ref = t.ref => u = t

LedgerInv ==
    LedgerTypeOK /\ HardLimit /\ OneEntryPerId /\ RefusedIsNotCommitted /\ VoidsAreMatched
=============================================================================
