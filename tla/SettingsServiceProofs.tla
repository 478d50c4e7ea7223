----------------------- MODULE SettingsServiceProofs -----------------------
(***************************************************************************)
(* Theorems about SettingsService for all settings, documents, clients and *)
(* tasks. Those about the file assume that one task makes all the updates, *)
(* as on the ESP8266, and that the device starts with a file it wrote      *)
(* itself or with none.                                                    *)
(***************************************************************************)
EXTENDS SettingsService, TLAPS

\* One task runs every update handler pass once the device is running.
OneUpdater == Updaters \subseteq {Net}

\* The flash first holds a document the firmware wrote, no file, or a torn one.
OwnFlash == Flash \subseteq Stored \cup {Missing, Partial}

-----------------------------------------------------------------------------
(* Operators of the model *)

\* The reader writes documents, and the updater leaves settings behind.
LEMMA DocumentType == \A v \in Values : Document[v] \in Docs
  BY UpdaterAssumption

LEMMA OutcomesType ==
  ASSUME state \in Values, NEW d \in Docs, NEW v \in Outcomes(d)
  PROVE  v \in Values
<1>1. Updated[d][state] \in SUBSET Values
  BY UpdaterAssumption
<1> QED
  BY <1>1 DEF Outcomes

-----------------------------------------------------------------------------
(* Type correctness *)

LEMMA InitTypeOK == Init => TypeOK
  BY DocsAssumption DEF Init, TypeOK, Contents, Places, Stages

LEMMA NextTypeOK == TypeOK /\ [Next]_vars => TypeOK'
<1> SUFFICES ASSUME TypeOK, [Next]_vars PROVE TypeOK'
  OBVIOUS
<1> USE DEF TypeOK, Places, Stages
<1>1. CASE PowerOn
  BY <1>1, TasksAssumption DEF PowerOn
<1>2. CASE ReadFromFS
  <2>1. PICK v \in Outcomes(IF file \in Docs THEN file ELSE EmptyDoc) : state' = v
    BY <1>2 DEF ReadFromFS
  <2>2. state' \in Values
    BY <2>1, OutcomesType, DocsAssumption
  <2> QED
    BY <1>2, <2>2 DEF ReadFromFS
<1>3. CASE PowerOff
  BY <1>3, DocsAssumption DEF PowerOff
<1>4. ASSUME NEW t \in Tasks, TaskStep(t) PROVE TypeOK'
  <2>1. CASE Snapshot(t)
    BY <2>1, DocumentType DEF Snapshot
  <2>2. CASE OpenFile(t)
    BY <2>2 DEF OpenFile, TornFile, Contents
  <2>3. CASE OpenFails(t)
    BY <2>3 DEF OpenFails
  <2>4. CASE WriteFile(t)
    BY <2>4 DEF WriteFile, Contents
  <2>5. CASE Apply(t)
    BY <2>5 DEF Apply
  <2> QED
    BY <1>4, <2>1, <2>2, <2>3, <2>4, <2>5 DEF TaskStep
<1>5. ASSUME NEW t \in Tasks, NEW d \in Docs, AppUpdate(t, d) PROVE TypeOK'
  <2>1. PICK v \in Outcomes(d) : state' = v
    BY <1>5 DEF AppUpdate
  <2>2. state' \in Values
    BY <2>1, OutcomesType
  <2> QED
    BY <1>5, <2>2 DEF AppUpdate, CallHandlers
<1>6. ASSUME NEW c \in Clients, Request(c) PROVE TypeOK'
  <2>1. ASSUME NEW d \in Docs, HttpPost(c, d) PROVE TypeOK'
    <3>1. PICK v \in Outcomes(d) : state' = v
      BY <2>1 DEF HttpPost
    <3>2. state' \in Values
      BY <3>1, OutcomesType
    <3>3. armed' \subseteq Clients
      BY <2>1 DEF HttpPost
    <3> QED
      BY <2>1, <3>2, <3>3 DEF HttpPost
  <2>2. CASE HttpRespond(c)
    BY <2>2 DEF HttpRespond
  <2>3. CASE Disconnect(c)
    BY <2>3 DEF Disconnect, CallHandlers
  <2> QED
    BY <1>6, <2>1, <2>2, <2>3 DEF Request
<1>7. CASE UNCHANGED vars
  BY <1>7 DEF vars
<1> QED
  BY <1>1, <1>2, <1>3, <1>4, <1>5, <1>6, <1>7 DEF Next

\* Every variable keeps its type: no step leaves a document where a setting
\* belongs, or a request in a stage the server does not know.
THEOREM TypeCorrect == Spec => []TypeOK
<1>1. QED
  BY InitTypeOK, NextTypeOK, PTL DEF Spec

-----------------------------------------------------------------------------
(* The service's own handler, with any number of updating tasks *)

\* The file is read while the device starts and at no other time.
LoadsAtBoot == \A t \in Tasks : pc[t] = "load" => phase = "booting"

\* setup() runs by itself: no callback starts before the service has begun.
BootsAlone ==
    \A t \in Tasks : pc[t] # "idle" => phase # "off" /\ (phase = "running" \/ t = Main)

ApplyInv == TypeOK /\ LoadsAtBoot /\ BootsAlone /\ NoLostApply

LEMMA NextApplyInv == ApplyInv /\ [Next]_vars => ApplyInv'
<1> SUFFICES ASSUME ApplyInv, [Next]_vars PROVE ApplyInv'
  OBVIOUS
<1> USE DEF ApplyInv
<1>0. TypeOK'
  BY NextTypeOK
<1> USE DEF TypeOK, Places, LoadsAtBoot, BootsAlone, NoLostApply, Handling
<1>1. CASE PowerOn
  BY <1>0, <1>1, TasksAssumption DEF PowerOn
<1>2. CASE ReadFromFS
  BY <1>0, <1>2 DEF ReadFromFS
<1>3. CASE PowerOff
  BY <1>0, <1>3 DEF PowerOff
<1>4. ASSUME NEW t \in Tasks, TaskStep(t) PROVE ApplyInv'
  <2>1. CASE Snapshot(t)
    BY <1>0, <2>1 DEF Snapshot
  <2>2. CASE OpenFile(t)
    BY <1>0, <2>2 DEF OpenFile
  <2>3. CASE OpenFails(t)
    BY <1>0, <2>3 DEF OpenFails
  <2>4. CASE WriteFile(t)
    BY <1>0, <2>4 DEF WriteFile
  <2>5. CASE Apply(t)
    <3>1. LoadsAtBoot' /\ BootsAlone'
      BY <2>5 DEF Apply
    <3>2. NoLostApply'
      BY <2>5 DEF Apply
    <3> QED
      BY <1>0, <3>1, <3>2
  <2> QED
    BY <1>4, <2>1, <2>2, <2>3, <2>4, <2>5 DEF TaskStep
<1>5. ASSUME NEW t \in Tasks, NEW d \in Docs, AppUpdate(t, d) PROVE ApplyInv'
  BY <1>0, <1>5 DEF AppUpdate, CallHandlers, Changed, Outcomes, Free
<1>6. ASSUME NEW c \in Clients, Request(c) PROVE ApplyInv'
  <2>1. ASSUME NEW d \in Docs, HttpPost(c, d) PROVE ApplyInv'
    BY <1>0, <2>1 DEF HttpPost, Changed, Outcomes, Free
  <2>2. CASE HttpRespond(c)
    BY <1>0, <2>2 DEF HttpRespond
  <2>3. CASE Disconnect(c)
    <3>1. CASE c \in armed
      <4>1. pc' = [pc EXCEPT ![Net] = "snapshot"]
        BY <2>3, <3>1 DEF Disconnect, CallHandlers
      <4>2. NoLostApply'
        BY <4>1, TasksAssumption
      <4>3. LoadsAtBoot' /\ BootsAlone'
        BY <2>3, <4>1, TasksAssumption DEF Disconnect, Free
      <4> QED
        BY <1>0, <4>2, <4>3
    <3>2. CASE c \notin armed
      BY <1>0, <2>3, <3>2 DEF Disconnect, Free
    <3> QED
      BY <3>1, <3>2
  <2> QED
    BY <1>6, <2>1, <2>2, <2>3 DEF Request
<1>7. CASE UNCHANGED vars
  BY <1>0, <1>7 DEF vars
<1> QED
  BY <1>1, <1>2, <1>3, <1>4, <1>5, <1>6, <1>7 DEF Next

\* However many tasks update the settings, a change is either applied or an
\* update handler pass that will apply it is under way or waits for a client.
THEOREM ApplyNeverLost == Spec => []NoLostApply
<1>1. Init => ApplyInv
  BY InitTypeOK DEF Init, ApplyInv, LoadsAtBoot, BootsAlone, NoLostApply
<1>2. ApplyInv => NoLostApply
  BY DEF ApplyInv
<1> QED
  BY <1>1, <1>2, NextApplyInv, PTL DEF Spec

-----------------------------------------------------------------------------
(* The file, with one updating task *)

\* The running device has one task that is ever busy with this service.
NetAlone == phase = "running" => \A t \in Tasks : pc[t] # "idle" => t = Net

\* A writer that holds a snapshot holds the settings in force.
SnapshotsFresh ==
    \A t \in Tasks : pc[t] \in {"open", "write"} => doc[t] = Document[state]

\* A file that parses is one the firmware wrote.
OwnFile == file \in Stored \cup {Missing, Partial}

\* A start-up leaves the file and the settings equal, or a failed write.
Restored ==
    phase = "booting" /\ pc[Main] = "apply" => file = Document[state] \/ ~saved

SaveInv ==
    /\ TypeOK
    /\ LoadsAtBoot
    /\ BootsAlone
    /\ NetAlone
    /\ SnapshotsFresh
    /\ OwnFile
    /\ Restored
    /\ NoLostSave

\* An update that is not CHANGED leaves the settings alone.
LEMMA UnchangedKeepsState ==
  ASSUME NEW d \in Docs, NEW v \in Outcomes(d), ~Changed(d, v)
  PROVE  v = state
  BY DEF Outcomes, Changed

\* The file a start-up reads, if it parses, is the document of the settings it
\* then restores.
LEMMA ReadBack ==
  ASSUME OwnFile, state \in Values, file \in Docs, NEW v \in Outcomes(file)
  PROVE  file = Document[v]
<1>1. PICK w \in Values : file = Document[w]
  BY DocsAssumption DEF OwnFile, Stored
<1>2. v \in Updated[Document[w]][state]
  BY <1>1, RoundTripAssumption DEF Outcomes
<1>3. Updated[Document[w]][state] = {w}
  BY RoundTripAssumption
<1> QED
  BY <1>1, <1>2, <1>3

LEMMA InitSaveInv == ASSUME OwnFlash PROVE Init => SaveInv
<1> SUFFICES ASSUME Init PROVE SaveInv
  OBVIOUS
<1>1. TypeOK
  BY InitTypeOK
<1>2. OwnFile
  BY DEF Init, OwnFlash, OwnFile
<1>3. LoadsAtBoot /\ BootsAlone /\ NetAlone /\ SnapshotsFresh /\ Restored /\ NoLostSave
  BY DEF Init, LoadsAtBoot, BootsAlone, NetAlone, SnapshotsFresh, Restored, NoLostSave
<1> QED
  BY <1>1, <1>2, <1>3 DEF SaveInv

LEMMA NextSaveInv == ASSUME OneUpdater PROVE SaveInv /\ [Next]_vars => SaveInv'
<1> SUFFICES ASSUME SaveInv, [Next]_vars PROVE SaveInv'
  OBVIOUS
<1>0. TypeOK'
  BY NextTypeOK DEF SaveInv
<1>a. Main \in Tasks /\ Net \in Tasks
  BY TasksAssumption
<1> USE DEF SaveInv, TypeOK, Places, LoadsAtBoot, BootsAlone, NetAlone,
            SnapshotsFresh, Restored
<1>1. CASE PowerOn
  BY <1>0, <1>1, <1>a DEF PowerOn, OwnFile, NoLostSave
<1>2. CASE ReadFromFS
  <2>1. phase = "booting" /\ phase' = phase
    BY <1>2, <1>a DEF ReadFromFS
  <2>2. CASE file \in Docs
    <3>1. file' = Document[state']
      BY <1>2, <2>2, ReadBack DEF ReadFromFS
    <3> QED
      BY <1>0, <1>2, <1>a, <2>1, <2>2, <3>1 DEF ReadFromFS, OwnFile, NoLostSave
  <2>3. CASE file \notin Docs
    BY <1>0, <1>2, <1>a, <2>1, <2>3 DEF ReadFromFS, OwnFile, NoLostSave
  <2> QED
    BY <2>2, <2>3
<1>3. CASE PowerOff
  BY <1>0, <1>3 DEF PowerOff, OwnFile, NoLostSave
<1>4. ASSUME NEW t \in Tasks, TaskStep(t) PROVE SaveInv'
  <2>0. /\ phase = "booting" => t = Main /\ \A u \in Tasks : u # t => pc[u] = "idle"
        /\ phase = "running" => t = Net /\ \A u \in Tasks : u # t => pc[u] = "idle"
        /\ phase # "off"
    BY <1>4 DEF TaskStep, Snapshot, OpenFile, OpenFails, WriteFile, Apply
  <2>1. CASE Snapshot(t)
    <3>1. doc' = [doc EXCEPT ![t] = Document[state]] /\ pc' = [pc EXCEPT ![t] = "open"]
      BY <2>1 DEF Snapshot
    <3>2. NoLostSave'
      BY <2>1, <3>1 DEF Snapshot, NoLostSave, SavePending
    <3> QED
      BY <1>0, <1>a, <2>0, <2>1, <3>1, <3>2 DEF Snapshot, OwnFile
  <2>2. CASE OpenFile(t)
    <3>1. pc' = [pc EXCEPT ![t] = "write"]
      BY <2>2 DEF OpenFile
    <3>2. OwnFile'
      BY <2>2 DEF OpenFile, TornFile, OwnFile
    <3>3. NoLostSave'
      BY <2>2, <3>1 DEF OpenFile, NoLostSave, SavePending
    <3> QED
      BY <1>0, <1>a, <2>0, <2>2, <3>1, <3>2, <3>3 DEF OpenFile
  <2>3. CASE OpenFails(t)
    BY <1>0, <1>a, <2>0, <2>3 DEF OpenFails, OwnFile, NoLostSave
  <2>4. CASE WriteFile(t)
    <3>1. file' = Document[state'] /\ state' \in Values
      BY <2>4 DEF WriteFile
    <3>2. OwnFile'
      BY <3>1 DEF OwnFile, Stored
    <3> QED
      BY <1>0, <1>a, <2>0, <2>4, <3>1, <3>2 DEF WriteFile, NoLostSave
  <2>5. CASE Apply(t)
    <3>1. NoLostSave'
      BY <1>a, <2>0, <2>5 DEF Apply, NoLostSave, SavePending
    <3> QED
      BY <1>0, <1>a, <2>0, <2>5, <3>1 DEF Apply, OwnFile
  <2> QED
    BY <1>4, <2>1, <2>2, <2>3, <2>4, <2>5 DEF TaskStep
<1>5. ASSUME NEW t \in Tasks, NEW d \in Docs, AppUpdate(t, d) PROVE SaveInv'
  <2>1. t = Net /\ phase = "running" /\ \A u \in Tasks : pc[u] = "idle"
    BY <1>5 DEF AppUpdate, Free, OneUpdater
  <2>2. PICK v \in Outcomes(d) :
          /\ state' = v
          /\ IF Changed(d, v) THEN CallHandlers(t) ELSE UNCHANGED pc
    BY <1>5 DEF AppUpdate
  <2>3. CASE Changed(d, v)
    <3>1. pc' = [pc EXCEPT ![t] = "snapshot"]
      BY <2>2, <2>3 DEF CallHandlers
    <3> QED
      BY <1>0, <1>5, <1>a, <2>1, <3>1
      DEF AppUpdate, OwnFile, NoLostSave, SavePending
  <2>4. CASE ~Changed(d, v)
    <3>1. state' = state /\ pc' = pc
      BY <2>2, <2>4, UnchangedKeepsState
    <3> QED
      BY <1>0, <1>5, <3>1 DEF AppUpdate, OwnFile, NoLostSave, SavePending
  <2> QED
    BY <2>3, <2>4
<1>6. ASSUME NEW c \in Clients, Request(c) PROVE SaveInv'
  <2>1. ASSUME NEW d \in Docs, HttpPost(c, d) PROVE SaveInv'
    <3>1. phase = "running" /\ \A u \in Tasks : pc[u] = "idle"
      BY <1>a, <2>1 DEF HttpPost, Free
    <3>2. PICK v \in Outcomes(d) :
            /\ state' = v
            /\ armed' = IF Changed(d, v) THEN armed \cup {c} ELSE armed
      BY <2>1 DEF HttpPost
    <3>3. NoLostSave'
      <4>1. CASE Changed(d, v)
        BY <3>2, <4>1 DEF NoLostSave, SavePending
      <4>2. CASE ~Changed(d, v)
        BY <2>1, <3>1, <3>2, <4>2, UnchangedKeepsState
        DEF HttpPost, NoLostSave, SavePending
      <4> QED
        BY <4>1, <4>2
    <3>4. pc' \in {pc, [pc EXCEPT ![Net] = "respond"]}
      BY <2>1 DEF HttpPost
    <3> QED
      BY <1>0, <1>a, <2>1, <3>1, <3>3, <3>4 DEF HttpPost, OwnFile
  <2>2. CASE HttpRespond(c)
    BY <1>0, <1>a, <2>2 DEF HttpRespond, OwnFile, NoLostSave, SavePending
  <2>3. CASE Disconnect(c)
    <3>1. phase = "running" /\ \A u \in Tasks : pc[u] = "idle"
      BY <1>a, <2>3 DEF Disconnect, Free
    <3>2. CASE c \in armed
      <4>1. pc' = [pc EXCEPT ![Net] = "snapshot"]
        BY <2>3, <3>2 DEF Disconnect, CallHandlers
      <4> QED
        BY <1>0, <1>a, <2>3, <3>1, <4>1 DEF Disconnect, OwnFile, NoLostSave, SavePending
    <3>3. CASE c \notin armed
      <4>1. pc' = pc /\ armed' = armed
        BY <2>3, <3>3 DEF Disconnect
      <4> QED
        BY <1>0, <2>3, <4>1 DEF Disconnect, OwnFile, NoLostSave, SavePending
    <3> QED
      BY <3>2, <3>3
  <2> QED
    BY <1>6, <2>1, <2>2, <2>3 DEF Request
<1>7. CASE UNCHANGED vars
  BY <1>0, <1>7 DEF vars, OwnFile, NoLostSave, SavePending
<1> QED
  BY <1>1, <1>2, <1>3, <1>4, <1>5, <1>6, <1>7 DEF Next

\* With one updating task no edit is forgotten: whenever the file and the
\* settings differ, a save of the settings in force is still to come or the
\* last write failed.
THEOREM SaveNeverLost ==
  ASSUME OneUpdater, OwnFlash
  PROVE  Spec => []NoLostSave
<1>1. SaveInv => NoLostSave
  BY DEF SaveInv
<1> QED
  BY <1>1, InitSaveInv, NextSaveInv, PTL DEF Spec

-----------------------------------------------------------------------------
(* Implementing DurableSettings, with one updating task *)

\* What the refinement calls up and saving.
Up == phase # "off" /\ pc[Main] # "load"
Saving == \E t \in Tasks : pc[t] = "write"

\* Before the file is read the state is blank, so the defaults are drawn from
\* the updater's outcomes on the blank state.
BlankAtBoot == phase = "off" \/ pc[Main] = "load" => state = Blank

LEMMA NextBlankAtBoot == SaveInv /\ BlankAtBoot /\ [Next]_vars => BlankAtBoot'
<1> SUFFICES ASSUME SaveInv, BlankAtBoot, [Next]_vars PROVE BlankAtBoot'
  OBVIOUS
<1>a. Main \in Tasks /\ Net \in Tasks
  BY TasksAssumption
<1> USE DEF SaveInv, TypeOK, Places, LoadsAtBoot, BootsAlone, BlankAtBoot
<1>1. CASE PowerOn
  BY <1>1 DEF PowerOn
<1>2. CASE ReadFromFS
  BY <1>2, <1>a DEF ReadFromFS
<1>3. CASE PowerOff
  BY <1>3 DEF PowerOff
<1>4. ASSUME NEW t \in Tasks, TaskStep(t) PROVE BlankAtBoot'
  BY <1>4, <1>a DEF TaskStep, Snapshot, OpenFile, OpenFails, WriteFile, Apply
<1>5. ASSUME NEW t \in Tasks, NEW d \in Docs, AppUpdate(t, d) PROVE BlankAtBoot'
  BY <1>5, <1>a DEF AppUpdate, CallHandlers, Free
<1>6. ASSUME NEW c \in Clients, Request(c) PROVE BlankAtBoot'
  BY <1>6, <1>a DEF Request, HttpPost, HttpRespond, Disconnect, CallHandlers, Free
<1>7. CASE UNCHANGED vars
  BY <1>7 DEF vars
<1> QED
  BY <1>1, <1>2, <1>3, <1>4, <1>5, <1>6, <1>7 DEF Next

LEMMA InitRefines == Init => Durable!Init
  BY DocsAssumption DEF Init, Durable!Init, Contents

LEMMA NextRefines ==
  ASSUME OneUpdater, SaveInv, SaveInv', BlankAtBoot, [Next]_vars
  PROVE  [Durable!Next]_(Durable!vars)
<1>a. Main \in Tasks /\ Net \in Tasks
  BY TasksAssumption
<1> USE DEF SaveInv, TypeOK, Places, LoadsAtBoot, BootsAlone, NetAlone
<1>m. /\ Durable!vars = <<state, file, Up, Saving>>
      /\ (Durable!vars)' = <<state', file', Up', Saving'>>
  BY DEF Durable!vars, Up, Saving
<1>1. CASE PowerOn
  <2>1. Up' = Up /\ Saving' = Saving
    BY <1>1, <1>a DEF PowerOn, Up, Saving
  <2> QED
    BY <1>1, <1>m, <2>1 DEF PowerOn
<1>2. CASE ReadFromFS
  <2>0. pc[Main] = "load" /\ pc' = [pc EXCEPT ![Main] = pc'[Main]]
        /\ pc'[Main] \in {"apply", "snapshot"}
    BY <1>2, <1>a DEF ReadFromFS
  <2>1. ~Up /\ Up' /\ Saving' = Saving
    BY <1>2, <1>a, <2>0 DEF ReadFromFS, Up, Saving
  <2>2. CASE file \in Docs
    <3>1. file \in Durable!Stored
      BY <2>2, DocsAssumption DEF OwnFile, Stored, Durable!Stored
    <3>2. file = Document[state'] /\ state' \in Values
      BY <1>2, <2>2, ReadBack DEF ReadFromFS
    <3> QED
      BY <1>2, <2>1, <3>1, <3>2 DEF ReadFromFS, Durable!Next, Durable!Restart, Up, Saving
  <2>3. CASE file \notin Docs
    <3>1. file \notin Durable!Stored
      BY <2>3, DocumentType DEF Durable!Stored
    <3>2. state' \in Updated[EmptyDoc][Blank]
      BY <1>2, <2>3, RoundTripAssumption DEF ReadFromFS, Outcomes, BlankAtBoot
    <3> QED
      BY <1>2, <2>1, <3>1, <3>2 DEF ReadFromFS, Durable!Next, Durable!Restart, Up, Saving
  <2> QED
    BY <2>2, <2>3
<1>3. CASE PowerOff
  <2>1. ~Up' /\ ~Saving'
    BY <1>3 DEF PowerOff, Up, Saving
  <2> QED
    BY <1>3, <2>1, DocsAssumption
    DEF PowerOff, Durable!Next, Durable!Reset, Up, Saving
<1>4. ASSUME NEW t \in Tasks, TaskStep(t) PROVE [Durable!Next]_(Durable!vars)
  <2>0. phase # "off" /\ pc[t] # "idle" /\ \A u \in Tasks : u # t => pc[u] = "idle"
    BY <1>4 DEF TaskStep, Snapshot, OpenFile, OpenFails, WriteFile, Apply
  <2>1. CASE Snapshot(t)
    <3>1. Up' = Up /\ Saving' = Saving
      BY <1>a, <2>0, <2>1 DEF Snapshot, Up, Saving
    <3> QED
      BY <1>m, <2>1, <3>1 DEF Snapshot
  <2>2. CASE OpenFile(t)
    <3>1. Up /\ Up' /\ ~Saving /\ Saving'
      BY <1>a, <2>0, <2>2 DEF OpenFile, Up, Saving
    <3> QED
      BY <2>2, <3>1 DEF OpenFile, Durable!Next, Durable!BeginSave, Up, Saving
  <2>3. CASE OpenFails(t)
    <3>1. Up' = Up /\ Saving' = Saving
      BY <1>a, <2>0, <2>3 DEF OpenFails, Up, Saving
    <3> QED
      BY <1>m, <2>3, <3>1 DEF OpenFails
  <2>4. CASE WriteFile(t)
    <3>1. Up' = Up /\ Saving /\ ~Saving'
      BY <1>a, <2>0, <2>4 DEF WriteFile, Up, Saving
    <3>2. file' = Document[state]
      BY <2>4 DEF WriteFile, SnapshotsFresh
    <3> QED
      BY <2>4, <3>1, <3>2 DEF WriteFile, Durable!Next, Durable!EndSave, Up, Saving
  <2>5. CASE Apply(t)
    <3>1. Up' = Up /\ Saving' = Saving
      BY <1>a, <2>0, <2>5 DEF Apply, Up, Saving
    <3> QED
      BY <1>m, <2>5, <3>1 DEF Apply
  <2> QED
    BY <1>4, <2>1, <2>2, <2>3, <2>4, <2>5 DEF TaskStep
<1>5. ASSUME NEW t \in Tasks, NEW d \in Docs, AppUpdate(t, d)
      PROVE  [Durable!Next]_(Durable!vars)
  <2>1. phase = "running" /\ \A u \in Tasks : pc[u] = "idle"
    BY <1>5 DEF AppUpdate, Free, OneUpdater
  <2>2. pc' \in {pc, [pc EXCEPT ![t] = "snapshot"]}
    BY <1>5 DEF AppUpdate, CallHandlers
  <2>3. Up /\ Up' /\ ~Saving /\ ~Saving'
    BY <1>5, <1>a, <2>1, <2>2 DEF AppUpdate, Up, Saving
  <2> QED
    BY <1>5, <2>3 DEF AppUpdate, Durable!Next, Durable!Edit, Up, Saving
<1>6. ASSUME NEW c \in Clients, Request(c) PROVE [Durable!Next]_(Durable!vars)
  <2>1. ASSUME NEW d \in Docs, HttpPost(c, d) PROVE [Durable!Next]_(Durable!vars)
    <3>1. phase = "running" /\ \A u \in Tasks : pc[u] = "idle"
      BY <1>a, <2>1 DEF HttpPost, Free
    <3>2. pc' \in {pc, [pc EXCEPT ![Net] = "respond"]}
      BY <2>1 DEF HttpPost
    <3>3. Up /\ Up' /\ ~Saving /\ ~Saving'
      BY <1>a, <2>1, <3>1, <3>2 DEF HttpPost, Up, Saving
    <3> QED
      BY <2>1, <3>3 DEF HttpPost, Durable!Next, Durable!Edit, Up, Saving
  <2>2. CASE HttpRespond(c)
    <3>1. Up' = Up /\ Saving' = Saving
      BY <1>a, <2>2 DEF HttpRespond, Up, Saving
    <3> QED
      BY <1>m, <2>2, <3>1 DEF HttpRespond
  <2>3. CASE Disconnect(c)
    <3>1. pc' \in {pc, [pc EXCEPT ![Net] = "snapshot"]}
      BY <2>3 DEF Disconnect, CallHandlers
    <3>2. Up' = Up /\ Saving' = Saving
      BY <1>a, <2>3, <3>1 DEF Disconnect, Free, Up, Saving
    <3> QED
      BY <1>m, <2>3, <3>2 DEF Disconnect
  <2> QED
    BY <1>6, <2>1, <2>2, <2>3 DEF Request
<1>7. CASE UNCHANGED vars
  BY <1>m, <1>7 DEF vars, Up, Saving
<1> QED
  BY <1>1, <1>2, <1>3, <1>4, <1>5, <1>6, <1>7 DEF Next

\* With one updating task the service does what DurableSettings promises: each
\* completed save stores the settings in force, and a restart restores exactly
\* what is stored or, when nothing usable is, draws defaults.
THEOREM ImplementsDurable ==
  ASSUME OneUpdater, OwnFlash
  PROVE  Spec => DurableSpec
<1>1. Init => SaveInv /\ BlankAtBoot
  BY InitSaveInv DEF Init, BlankAtBoot
<1>2. SaveInv /\ BlankAtBoot /\ [Next]_vars => SaveInv' /\ BlankAtBoot'
  BY NextSaveInv, NextBlankAtBoot
<1>3. SaveInv /\ SaveInv' /\ BlankAtBoot /\ [Next]_vars => [Durable!Next]_(Durable!vars)
  BY NextRefines
<1> QED
  BY <1>1, <1>2, <1>3, InitRefines, PTL DEF Spec, DurableSpec, Durable!Spec
=============================================================================
