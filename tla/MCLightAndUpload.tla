-------------------------- MODULE MCLightAndUpload --------------------------
(* Constants for model checking LightState and FirmwareUpload in one run: two *)
(* browsers and two paths, two requests and two chunks. They share no         *)
(* variable, so a behaviour moves one of them and leaves the other where it   *)
(* starts, in a state where its fairness asks for nothing.                    *)
EXTENDS LightState, FirmwareUpload, TLC

CONSTANTS c1, c2, p1, p2

MCClients == {c1, c2}
MCPaths == {p1, p2}
MCRequests == {"r1", "r2"}

VARIABLE focus      \* the one that moves

\* The paths are interchangeable, so the light may start with either.
MCInit == LightInit /\ Init /\ stored = p1 /\ focus \in {"light", "upload"}

MCNext ==
    /\ UNCHANGED focus
    /\ \/ focus = "light" /\ LightNext /\ UNCHANGED vars
       \/ focus = "upload" /\ Next /\ UNCHANGED lightVars

MCSpec == MCInit /\ [][MCNext]_<<lightVars, vars, focus>> /\ LightFairness /\ Fairness
=============================================================================
