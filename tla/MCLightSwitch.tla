---------------------------- MODULE MCLightSwitch ----------------------------
(* Constants for model checking the switches of LightState: two               *)
(* interchangeable browsers, a light whose path is not changed.               *)
EXTENDS LightState, TLC

CONSTANTS c1, c2, p1

MCClients == {c1, c2}
MCPaths == {p1}
MCSymmetry == Permutations({c1, c2})
=============================================================================
