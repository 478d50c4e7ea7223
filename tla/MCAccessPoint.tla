---------------------------- MODULE MCAccessPoint ----------------------------
(* Constants for model checking AccessPoint: two networks with different     *)
(* addresses; the modes, one that is not known and one that does not fit.    *)
EXTENDS AccessPoint

MCNets == {"net1", "net2"}
MCAddress == [n \in MCNets |-> IF n = "net1" THEN "10.0.0.1" ELSE "10.0.0.2"]
MCValid == {0, 1, 2}
MCRequests == {0, 1, 2, 3, 256}
=============================================================================
