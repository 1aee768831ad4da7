----------------------------- MODULE MCGateway -----------------------------
(* Instances of Gateway for TLC.                                           *)
EXTENDS Gateway

CONSTANTS c1, s1, u1

SameCluster == [s \in Stream |-> c1]

EveryFault == [k \in FaultKind |-> 1]
=============================================================================
