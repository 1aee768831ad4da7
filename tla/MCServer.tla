------------------------------ MODULE MCServer ------------------------------
(* Instances of Server for TLC.                                            *)
EXTENDS Server, TLC

CONSTANTS s1, w1

OneServer == {s1}
OneWorker == {w1}
Starts == s1 :> 2 @@ w1 :> 1
=============================================================================
