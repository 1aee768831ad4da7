--------------------------- MODULE LedgerWallets ----------------------------
(* What the ledger promises: the transfers of module Ledger implement the  *)
(* idempotent prepaid wallets of module Wallets.                           *)
EXTENDS Ledger

(* The transfers implement the wallets: whatever is submitted, every       *)
(* transfer that TigerBeetle executes is one operation on an idempotent    *)
(* prepaid wallet or changes nothing that a client can tell.               *)
W == INSTANCE Wallets WITH
       limit <- credits,
       used <- [r \in Resource |-> Used(r)],
       spent <- posted,
       held <- LivePending,
       done <- {t.id : t \in committed}

ImplementsWallets == W!Spec
=============================================================================
