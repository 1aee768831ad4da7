---------------------------- MODULE MCSimulator -----------------------------
(* Instances of Simulator for TLC.                                         *)
EXTENDS Simulator, TLC

CONSTANTS acme, globex, a, d

TwoTenants == <<acme, globex>>
TwoClusters == <<a, d>>
Owners == a :> acme @@ d :> globex
Numbers == [g \in {a, d} \X {1, 2} |-> IF g = <<a, 1>> THEN 2 ELSE 0]
FirstOfA == {<<a, 1>>}
Live == <<2, 1>>
=============================================================================
