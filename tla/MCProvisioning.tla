--------------------------- MODULE MCProvisioning ---------------------------
(* Instances of Provisioning for TLC.                                      *)
EXTENDS Provisioning

CONSTANTS t1

FirstTenant == [c \in NewCluster |-> t1]
=============================================================================
