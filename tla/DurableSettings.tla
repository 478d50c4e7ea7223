-------------------------- MODULE DurableSettings --------------------------
(***************************************************************************)
(* What the framework promises of a persisted setting, without saying how: *)
(* a save stores the settings in force at the moment it completes, nothing *)
(* is edited while a save is under way, and a restart brings back exactly  *)
(* what is stored. Defaults appear only when nothing usable is stored.     *)
(***************************************************************************)
CONSTANTS
    Values,     \* the settings
    Document,   \* Document[v]: the stored form of v
    Defaults,   \* the settings a device without a stored document starts with
    Contents,   \* what the storage can hold, stored documents included
    Torn(_)     \* Torn(x): what the storage may hold while x is being replaced

VARIABLES
    cur,        \* the settings in force
    disk,       \* the storage
    up,         \* the settings have been loaded
    saving      \* a save is under way

vars == <<cur, disk, up, saving>>

Stored == {Document[v] : v \in Values}

Init ==
    /\ cur \in Values
    /\ disk \in Contents
    /\ up = FALSE
    /\ saving = FALSE

Restart ==
    /\ ~up
    /\ up' = TRUE
    /\ IF disk \in Stored
         THEN cur' \in {v \in Values : Document[v] = disk}
         ELSE cur' \in Defaults
    /\ UNCHANGED <<disk, saving>>

Edit ==
    /\ up
    /\ ~saving
    /\ cur' \in Values
    /\ UNCHANGED <<disk, up, saving>>

BeginSave ==
    /\ up
    /\ ~saving
    /\ saving' = TRUE
    /\ disk' \in Torn(disk)
    /\ UNCHANGED <<cur, up>>

EndSave ==
    /\ saving
    /\ saving' = FALSE
    /\ disk' = Document[cur]
    /\ UNCHANGED <<cur, up>>

\* A reset forgets the settings in force and abandons a save under way.
Reset ==
    /\ up' = FALSE
    /\ saving' = FALSE
    /\ cur' \in Values
    /\ UNCHANGED disk

Next == Restart \/ Edit \/ BeginSave \/ EndSave \/ Reset

Spec == Init /\ [][Next]_vars
=============================================================================
