-------------------------- MODULE SettingsService --------------------------
(***************************************************************************)
(* One settings service of the framework: a StatefulService<T> guarded by  *)
(* its access mutex, an HttpEndpoint that edits it, an FSPersistence that  *)
(* saves and restores it, and the service's own update handler that        *)
(* applies the settings (reconfigureAP, configureNTP, onConfigUpdated...). *)
(* Power cuts and resets may happen between any two steps.                 *)
(*                                                                         *)
(* A step is what one task does between two points where another task can *)
(* run: a transaction of the mutex, or one call of the file system.        *)
(***************************************************************************)
EXTENDS Naturals, FiniteSets

CONSTANTS
    Values,     \* settings the state variable _state can hold
    Blank,      \* the zero-initialised _state before readFromFS()
    Docs,       \* JSON objects a request or a file can carry
    EmptyDoc,   \* the null object applyDefaults() hands to the updater
    Rejected,   \* the documents for which the updater returns ERROR
    Document,   \* Document[v]: what the JsonStateReader writes for settings v
    Updated,    \* Updated[d][v]: what the JsonStateUpdater may make of v given d
                \* (several values when a default is generated at random)
    Compares,   \* TRUE when the updater returns UNCHANGED for equal settings
    Clients,    \* HTTP connections
    Tasks,      \* execution contexts: one on the ESP8266, several on the ESP32
    Main,       \* the context of setup() and loop()
    Net,        \* the context of the web server's callbacks
    Updaters,   \* contexts in which the application calls update()
    AtomicFS,   \* TRUE when a rewritten file keeps its content until close()
    Flash,      \* what the file system may hold when the device first starts
    Missing,    \* there is no file
    Partial     \* the file is no complete JSON object

Stored == {Document[v] : v \in Values}
Contents == Docs \cup {Missing, Partial}

\* The access mutex exists only where there is more than one task; on the
\* ESP8266 Main = Net and nothing preempts a callback.
ASSUME TasksAssumption ==
    /\ Main \in Tasks
    /\ Net \in Tasks
    /\ Updaters \subseteq Tasks

ASSUME DocsAssumption ==
    /\ Blank \in Values
    /\ EmptyDoc \in Docs
    /\ Missing \notin Docs
    /\ Partial \notin Docs
    /\ Missing # Partial
    /\ Flash \subseteq Contents

ASSUME UpdaterAssumption ==
    /\ Rejected \subseteq Docs
    /\ Updated \in [Docs -> [Values -> (SUBSET Values) \ {{}}]]
    /\ Document \in [Values -> Docs]
    /\ Compares \in BOOLEAN
    /\ AtomicFS \in BOOLEAN

\* A saved document reads back as the settings it was written from.
ASSUME RoundTripAssumption ==
    /\ EmptyDoc \notin Rejected
    /\ \A v, old \in Values : Document[v] \notin Rejected
    /\ \A v, old \in Values : Updated[Document[v]][old] = {v}

VARIABLES
    phase,      \* "off", "booting" (setup() runs) or "running"
    state,      \* StatefulService::_state
    file,       \* the content of _filePath
    saved,      \* what the last writeToFS() returned
    applied,    \* the settings the service's own handler last acted on
    pc,         \* where each task is
    doc,        \* the jsonDocument on the stack of each task's writeToFS()
    req,        \* where each HTTP request is
    armed       \* the requests whose onDisconnect calls the update handlers

vars == <<phase, state, file, saved, applied, pc, doc, req, armed>>

\* What a task is about to do. "respond" is the read of updateSettings();
\* "snapshot", "open" and "write" are writeToFS(); "apply" is the service's
\* own handler, which is registered after the one of FSPersistence.
Places == {"idle", "load", "respond", "snapshot", "open", "write", "apply"}

\* Stages of a request: not connected, updated but not answered, answered.
Stages == {"none", "updated", "answered"}

TypeOK ==
    /\ phase \in {"off", "booting", "running"}
    /\ state \in Values
    /\ file \in Contents
    /\ saved \in BOOLEAN
    /\ applied \in Values
    /\ pc \in [Tasks -> Places]
    /\ doc \in [Tasks -> Docs]
    /\ req \in [Clients -> Stages]
    /\ armed \subseteq Clients

Init ==
    /\ phase = "off"
    /\ state = Blank
    /\ file \in Flash
    /\ saved = TRUE
    /\ applied = Blank
    /\ pc = [t \in Tasks |-> "idle"]
    /\ doc = [t \in Tasks |-> EmptyDoc]
    /\ req = [c \in Clients |-> "none"]
    /\ armed = {}

-----------------------------------------------------------------------------
(* StatefulService *)

\* The settings a transaction may leave behind, and whether it reports CHANGED.
Outcomes(d) == IF d \in Rejected THEN {state} ELSE Updated[d][state]
Changed(d, v) == d \notin Rejected /\ (Compares => v # state)

\* Whether task t can start a callback.
Free(t) == phase = "running" /\ pc[t] = "idle"

\* callUpdateHandlers(): first writeToFS(), then the service's own handler.
CallHandlers(t) == pc' = [pc EXCEPT ![t] = "snapshot"]

\* update() from the application: MQTT and WebSocket callbacks, or a loop().
AppUpdate(t, d) ==
    /\ t \in Updaters
    /\ Free(t)
    /\ \E v \in Outcomes(d) :
         /\ state' = v
         /\ IF Changed(d, v) THEN CallHandlers(t) ELSE UNCHANGED pc
    /\ UNCHANGED <<phase, file, saved, applied, doc, req, armed>>

-----------------------------------------------------------------------------
(* HttpEndpoint *)

\* Wrong on purpose: the onDisconnect callback is forgotten.
HttpPostUnarmed(c, d) ==
    /\ Free(Net)
    /\ req[c] = "none"
    /\ state' \in Outcomes(d)
    /\ req' = [req EXCEPT ![c] = IF d \in Rejected THEN "answered" ELSE "updated"]
    /\ pc' = [pc EXCEPT ![Net] = IF d \in Rejected THEN "idle" ELSE "respond"]
    /\ UNCHANGED <<phase, file, saved, applied, doc, armed>>

\* updateSettings() up to its second transaction. A document the updater rejects
\* is answered with 400 at once; so is a body that is no JSON object, which has
\* the same effect.
HttpPost(c, d) ==
    /\ Free(Net)
    /\ req[c] = "none"
    /\ \E v \in Outcomes(d) :
         /\ state' = v
         /\ armed' = IF Changed(d, v) THEN armed \cup {c} ELSE armed
    /\ IF d \in Rejected
         THEN req' = [req EXCEPT ![c] = "answered"] /\ UNCHANGED pc
         ELSE /\ req' = [req EXCEPT ![c] = "updated"]
              /\ pc' = [pc EXCEPT ![Net] = "respond"]
    /\ UNCHANGED <<phase, file, saved, applied, doc>>

\* The read that fills the body of the 200 response.
HttpRespond(c) ==
    /\ phase = "running"
    /\ pc[Net] = "respond"
    /\ req[c] = "updated"
    /\ req' = [req EXCEPT ![c] = "answered"]
    /\ pc' = [pc EXCEPT ![Net] = "idle"]
    /\ UNCHANGED <<phase, state, file, saved, applied, doc, armed>>

\* The connection closes; the onDisconnect callback runs if one was set.
Disconnect(c) ==
    /\ Free(Net)
    /\ req[c] = "answered"
    /\ req' = [req EXCEPT ![c] = "none"]
    /\ armed' = armed \ {c}
    /\ IF c \in armed THEN CallHandlers(Net) ELSE UNCHANGED pc
    /\ UNCHANGED <<phase, state, file, saved, applied, doc>>

-----------------------------------------------------------------------------
(* FSPersistence *)

\* The transaction that copies the state into the jsonDocument.
Snapshot(t) ==
    /\ pc[t] = "snapshot"
    /\ doc' = [doc EXCEPT ![t] = Document[state]]
    /\ pc' = [pc EXCEPT ![t] = "open"]
    /\ UNCHANGED <<phase, state, file, saved, applied, req, armed>>

\* What the flash may hold once the file has been opened for writing: the old
\* content, or a truncated file.
TornFile(old) ==
    {old} \cup (IF AtomicFS /\ old # Missing THEN {} ELSE {Partial})

\* open(_filePath, "w").
OpenFile(t) ==
    /\ pc[t] = "open"
    /\ file' \in TornFile(file)
    /\ pc' = [pc EXCEPT ![t] = "write"]
    /\ UNCHANGED <<phase, state, saved, applied, doc, req, armed>>

\* The open fails: writeToFS() returns false, which nobody looks at.
OpenFails(t) ==
    /\ pc[t] = "open"
    /\ saved' = FALSE
    /\ pc' = [pc EXCEPT ![t] = "apply"]
    /\ UNCHANGED <<phase, state, file, applied, doc, req, armed>>

\* Wrong on purpose: the handlers after the one of FSPersistence do not run.
WriteFileLast(t) ==
    /\ pc[t] = "write"
    /\ file' = doc[t]
    /\ saved' = TRUE
    /\ pc' = [pc EXCEPT ![t] = IF phase = "booting" THEN "apply" ELSE "idle"]
    /\ UNCHANGED <<phase, state, applied, doc, req, armed>>

\* serializeJson() and close().
WriteFile(t) ==
    /\ pc[t] = "write"
    /\ file' = doc[t]
    /\ saved' = TRUE
    /\ pc' = [pc EXCEPT ![t] = "apply"]
    /\ UNCHANGED <<phase, state, applied, doc, req, armed>>

-----------------------------------------------------------------------------
(* The service's own handler, start-up and power *)

\* The handler reads _state directly, so it acts on the latest settings. In
\* begin() it is the statement after readFromFS(), and ends the start-up.
Apply(t) ==
    /\ pc[t] = "apply"
    /\ applied' = state
    /\ phase' = "running"
    /\ pc' = [pc EXCEPT ![t] = "idle"]
    /\ UNCHANGED <<state, file, saved, doc, req, armed>>

PowerOn ==
    /\ phase = "off"
    /\ phase' = "booting"
    /\ pc' = [pc EXCEPT ![Main] = "load"]
    /\ UNCHANGED <<state, file, saved, applied, doc, req, armed>>

\* Wrong on purpose: defaults are applied but not written back.
ReadFromFSUnsaved ==
    /\ pc[Main] = "load"
    /\ \E v \in Outcomes(IF file \in Docs THEN file ELSE EmptyDoc) : state' = v
    /\ pc' = [pc EXCEPT ![Main] = "apply"]
    /\ UNCHANGED <<phase, file, saved, applied, doc, req, armed>>

\* Wrong on purpose: the return after a successful update is missing.
ReadFromFSFallsThrough ==
    /\ pc[Main] = "load"
    /\ state' \in Outcomes(EmptyDoc)
    /\ pc' = [pc EXCEPT ![Main] = "snapshot"]
    /\ UNCHANGED <<phase, file, saved, applied, doc, req, armed>>

\* readFromFS(): a complete JSON object updates the state; anything else
\* applies the defaults, which are then written back.
ReadFromFS ==
    /\ pc[Main] = "load"
    /\ \E v \in Outcomes(IF file \in Docs THEN file ELSE EmptyDoc) : state' = v
    /\ pc' = [pc EXCEPT ![Main] = IF file \in Docs THEN "apply" ELSE "snapshot"]
    /\ UNCHANGED <<phase, file, saved, applied, doc, req, armed>>

\* A reset or a power cut at any point: only the file survives.
PowerOff ==
    /\ phase # "off"
    /\ phase' = "off"
    /\ state' = Blank
    /\ saved' = TRUE
    /\ applied' = Blank
    /\ pc' = [t \in Tasks |-> "idle"]
    /\ doc' = [t \in Tasks |-> EmptyDoc]
    /\ req' = [c \in Clients |-> "none"]
    /\ armed' = {}
    /\ UNCHANGED file

TaskStep(t) ==
    \/ Snapshot(t)
    \/ OpenFile(t)
    \/ OpenFails(t)
    \/ WriteFile(t)
    \/ Apply(t)

Request(c) ==
    \/ \E d \in Docs : HttpPost(c, d)
    \/ HttpRespond(c)
    \/ Disconnect(c)

Next ==
    \/ PowerOn
    \/ ReadFromFS
    \/ PowerOff
    \/ \E t \in Tasks : TaskStep(t) \/ \E d \in Docs : AppUpdate(t, d)
    \/ \E c \in Clients : Request(c)

\* A task that has work runs, the device is switched on again, and the web
\* server's events are handled in the order they were queued, so a connection
\* that stays closed is not passed over for ever.
Fairness ==
    /\ WF_vars(PowerOn)
    /\ WF_vars(ReadFromFS)
    /\ \A t \in Tasks : WF_vars(TaskStep(t))
    /\ \A c \in Clients : WF_vars(HttpRespond(c)) /\ SF_vars(Disconnect(c))

Spec == Init /\ [][Next]_vars
FairSpec == Spec /\ Fairness

-----------------------------------------------------------------------------
(* Properties *)

\* A pass of the update handlers, or the start-up, is on its way to "apply".
Handling(t) == pc[t] \in {"snapshot", "open", "write", "apply"}

\* Something will still save the settings in force: a request whose callback is
\* set, or a write that has not taken its snapshot or has taken the right one.
SavePending ==
    \/ armed # {}
    \/ \E t \in Tasks :
          \/ pc[t] = "snapshot"
          \/ pc[t] \in {"open", "write"} /\ doc[t] = Document[state]

\* FSPersistence keeps the file in step with the state although HttpEndpoint
\* defers the update handlers until the client disconnects: whenever they
\* differ, a write of the settings in force is still to come, or the last write
\* failed. Holds where one task makes all the updates.
NoLostSave ==
    phase = "running" => file = Document[state] \/ ~saved \/ SavePending

\* The service's own handler is never behind the settings for good, whatever
\* tasks update them: it reads _state itself instead of a snapshot.
NoLostApply ==
    phase = "running" =>
        applied = state \/ armed # {} \/ \E t \in Tasks : Handling(t)

\* What is saved and what a reset brings back, as DurableSettings promises it:
\* FSPersistence restores a saved file exactly and writes defaults only over
\* a file it could not read.
Durable == INSTANCE DurableSettings WITH
    Defaults <- Updated[EmptyDoc][Blank],
    Torn     <- TornFile,
    cur      <- state,
    disk     <- file,
    up       <- phase # "off" /\ pc[Main] # "load",
    saving   <- \E t \in Tasks : pc[t] = "write"

DurableSpec == Durable!Spec

\* Settings that are not on file get there, unless a write fails or the device
\* resets first: the file catches up although every save waits for a client to
\* disconnect.
EventuallySaved ==
    phase = "running" /\ file # Document[state] ~>
        file = Document[state] \/ ~saved \/ phase = "off"
=============================================================================
