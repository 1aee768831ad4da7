---------------------------- MODULE MCFlushTimer ----------------------------
(* Instances of FlushTimer for TLC.                                        *)
EXTENDS MCAccounting, FlushTimer
=============================================================================
