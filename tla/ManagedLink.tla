---------------------------- MODULE ManagedLink ----------------------------
(***************************************************************************)
(* What the services that manage a connection promise about it, without    *)
(* saying how: it is opened with the settings in force and only if they    *)
(* allow it, an edit may come at any time, and once the edit is settled no *)
(* connection with former settings is left.                                *)
(***************************************************************************)
CONSTANTS
    Settings,   \* what a connection can be opened with
    InPlace     \* TRUE: an edit may be settled by opening the connection again
                \* without closing it

VARIABLES
    cur,        \* the settings in force
    enabled,    \* they allow a connection
    pending,    \* something has yet to be done about an edit
    open        \* the settings of the connection: none or one

vars == <<cur, enabled, pending, open>>

Init ==
    /\ cur \in Settings
    /\ enabled \in BOOLEAN
    /\ pending \in BOOLEAN
    /\ open = {}

Edit ==
    /\ cur' \in Settings
    /\ enabled' \in BOOLEAN
    /\ pending' = TRUE
    /\ UNCHANGED open

\* Others may ask for the connection to be looked at as well.
Review ==
    /\ pending' = TRUE
    /\ UNCHANGED <<cur, enabled, open>>

Open ==
    /\ enabled
    /\ open = {} \/ (InPlace /\ pending)
    /\ open' = {cur}
    /\ UNCHANGED <<cur, enabled, pending>>

\* The connection is closed, or lost.
Close ==
    /\ open' = {}
    /\ UNCHANGED <<cur, enabled, pending>>

\* What is open stays open only if it is what the settings ask for.
Settle ==
    /\ pending' = FALSE
    /\ \/ open' = {}
       \/ enabled /\ open \subseteq {cur} /\ open' = open
    /\ UNCHANGED <<cur, enabled>>

Next == Edit \/ Review \/ Open \/ Close \/ Settle

Spec == Init /\ [][Next]_vars

-----------------------------------------------------------------------------

\* There is one connection at most, and with no edit to be settled it has the
\* settings in force.
Current == ~pending => open = {} \/ (enabled /\ open = {cur})
=============================================================================
