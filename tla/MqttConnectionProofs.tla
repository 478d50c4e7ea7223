------------------------ MODULE MqttConnectionProofs ------------------------
(***************************************************************************)
(* Theorems about MqttConnection for any settings, clock and bounds, where *)
(* no callback preempts loop() (the ESP8266). RetryIsScheduled also needs  *)
(* that no disconnect happens at millis() = 0.                             *)
(***************************************************************************)
EXTENDS MqttConnection, TLAPS

LEMMA InitTypeOK == Init => TypeOK
<1> SUFFICES ASSUME Init PROVE TypeOK
  OBVIOUS
<1>1. edits \in 0..MaxEdits /\ events \in 0..MaxEvents
  BY BoundsAssumption DEF Init
<1>2. now \in Clock /\ disconnectedAt \in Clock \cup {0}
  BY DEF Init
<1>3. armed \in BOOLEAN /\ wifi \in BOOLEAN /\ reconfigure \in BOOLEAN
  BY DEF Init
<1> QED
  BY <1>1, <1>2, <1>3 DEF Init, TypeOK

LEMMA NextTypeOK == TypeOK /\ [Next]_vars => TypeOK'
<1> SUFFICES ASSUME TypeOK, [Next]_vars PROVE TypeOK'
  OBVIOUS
<1> USE BoundsAssumption DEF TypeOK
<1>1. ASSUME NEW s \in Settings, Edit(s) PROVE TypeOK'
  BY <1>1 DEF Edit
<1>2. CASE Propagate
  BY <1>2 DEF Propagate, AskReconfigure
<1>3. CASE OnWiFiEvent
  <2>1. events' \in 0..MaxEvents
    BY <1>3 DEF OnWiFiEvent
  <2>2. reconfigure' \in BOOLEAN /\ disconnectedAt' \in Clock \cup {0}
    BY <1>3 DEF OnWiFiEvent, AskReconfigure
  <2> QED
    BY <1>3, <2>1, <2>2 DEF OnWiFiEvent
<1>4. CASE OnMqttDisconnect
  BY <1>4 DEF OnMqttDisconnect
<1>5. CASE LoopStep
  BY <1>5 DEF LoopStep, Loop, Disconnect, Connect, ClearFlags
<1>6. CASE OnMqttConnect
  BY <1>6 DEF OnMqttConnect
<1>7. CASE WiFiChanges
  BY <1>7 DEF WiFiChanges
<1>8. CASE Tick
  <2>1. now' \in Clock
    BY <1>8, ClockAssumption DEF Tick, Clock
  <2> QED
    BY <1>8, <2>1 DEF Tick
<1>9. CASE UNCHANGED vars
  BY <1>9 DEF vars
<1> QED
  BY <1>1, <1>2, <1>3, <1>4, <1>5, <1>6, <1>7, <1>8, <1>9 DEF Next

\* The timestamps, flags and states of the manager keep their types; in
\* particular millis() wraps and never leaves its range.
THEOREM TypeCorrect == Spec => []TypeOK
<1>1. QED
  BY InitTypeOK, NextTypeOK, PTL DEF Spec

-----------------------------------------------------------------------------
(* A connection that is up was opened with the settings in force *)

\* configureMqtt() closes the old connection before it opens a new one.
ClosedFirst == pc = "connect" => link \in {"disconnected", "disconnecting"}

\* What connect() opened is current until loop() has cleared its flags.
OpenedCurrent ==
    pc = "clear" /\ link \in {"connecting", "connected"}
        => state \in Enabled /\ peer = state

\* Between two calls of loop(), an outdated connection has a reconfiguration
\* coming: asked for already, or by the POST whose client is still connected.
OutdatedNoticed ==
    pc = "idle" /\ link \in {"connecting", "connected"}
        => armed \/ reconfigure \/ (state \in Enabled /\ peer = state)

CurrentInv == TypeOK /\ ClosedFirst /\ OpenedCurrent /\ OutdatedNoticed

LEMMA NextCurrentInv ==
  ASSUME Preemptive = FALSE
  PROVE  CurrentInv /\ [Next]_vars => CurrentInv'
<1> SUFFICES ASSUME CurrentInv, [Next]_vars PROVE CurrentInv'
  OBVIOUS
<1>0. TypeOK'
  BY NextTypeOK DEF CurrentInv
<1> USE <1>0 DEF CurrentInv, TypeOK, ClosedFirst, OpenedCurrent, OutdatedNoticed,
                 CanCallBack
<1>1. ASSUME NEW s \in Settings, Edit(s) PROVE CurrentInv'
  BY <1>1 DEF Edit
<1>2. CASE Propagate
  BY <1>2 DEF Propagate, AskReconfigure
<1>3. CASE OnWiFiEvent
  BY <1>3 DEF OnWiFiEvent, AskReconfigure
<1>4. CASE OnMqttDisconnect
  BY <1>4 DEF OnMqttDisconnect
<1>5. CASE LoopStep
  BY <1>5 DEF LoopStep, Loop, Disconnect, Connect, ClearFlags
<1>6. CASE OnMqttConnect
  BY <1>6 DEF OnMqttConnect
<1>7. CASE WiFiChanges
  BY <1>7 DEF WiFiChanges
<1>8. CASE Tick
  BY <1>8 DEF Tick
<1>9. CASE UNCHANGED vars
  BY <1>9 DEF vars
<1> QED
  BY <1>1, <1>2, <1>3, <1>4, <1>5, <1>6, <1>7, <1>8, <1>9 DEF Next

\* Without preemption every edit reaches the client: a connection that is up
\* with nothing under way was opened with the settings in force.
THEOREM ConnectionIsCurrent ==
  ASSUME Preemptive = FALSE
  PROVE  Spec => []ConnectionCurrent
<1>1. Init => CurrentInv
  BY InitTypeOK DEF Init, CurrentInv, ClosedFirst, OpenedCurrent, OutdatedNoticed
<1>2. CurrentInv => ConnectionCurrent
  BY DEF CurrentInv, OutdatedNoticed, ConnectionCurrent, Quiet
<1> QED
  BY <1>1, <1>2, NextCurrentInv, PTL DEF Spec

-----------------------------------------------------------------------------
(* A client that should be connected has its retry scheduled *)

\* Between two calls of loop(), a missing connection is noticed.
MissingNoticed ==
    pc = "idle" /\ wifi /\ state \in Enabled /\ link = "disconnected"
        => armed \/ events > 0 \/ reconfigure \/ disconnectedAt # 0

\* After connect() a missing connection is one that should be missing.
ConnectTried ==
    pc = "clear" => ~(wifi /\ state \in Enabled /\ link = "disconnected")

RetryInv == TypeOK /\ MissingNoticed /\ ConnectTried

LEMMA NextRetryInv ==
  ASSUME Preemptive = FALSE, Start > 0
  PROVE  RetryInv /\ [Next]_vars => RetryInv'
<1> SUFFICES ASSUME RetryInv, [Next]_vars PROVE RetryInv'
  OBVIOUS
<1>0. TypeOK'
  BY NextTypeOK DEF RetryInv
<1>a. now # 0
  BY ClockAssumption DEF RetryInv, TypeOK, Clock
<1> USE <1>0 DEF RetryInv, TypeOK, MissingNoticed, ConnectTried, CanCallBack
<1>1. ASSUME NEW s \in Settings, Edit(s) PROVE RetryInv'
  BY <1>1 DEF Edit
<1>2. CASE Propagate
  BY <1>2 DEF Propagate, AskReconfigure
<1>3. CASE OnWiFiEvent
  BY <1>3 DEF OnWiFiEvent, AskReconfigure
<1>4. CASE OnMqttDisconnect
  BY <1>4, <1>a DEF OnMqttDisconnect
<1>5. CASE LoopStep
  BY <1>5 DEF LoopStep, Loop, Disconnect, Connect, ClearFlags
<1>6. CASE OnMqttConnect
  BY <1>6 DEF OnMqttConnect
<1>7. CASE WiFiChanges
  BY <1>7, BoundsAssumption DEF WiFiChanges
<1>8. CASE Tick
  BY <1>8 DEF Tick
<1>9. CASE UNCHANGED vars
  BY <1>9 DEF vars
<1> QED
  BY <1>1, <1>2, <1>3, <1>4, <1>5, <1>6, <1>7, <1>8, <1>9 DEF Next

\* Without preemption, and with no disconnect at millis() = 0, an enabled client
\* that is disconnected while WiFi is up always has its retry on the clock.
THEOREM RetryIsScheduled ==
  ASSUME Preemptive = FALSE, Start > 0
  PROVE  Spec => []RetryScheduled
<1>1. Init => RetryInv
  BY InitTypeOK DEF Init, RetryInv, MissingNoticed, ConnectTried
<1>2. RetryInv => RetryScheduled
  BY DEF RetryInv, TypeOK, MissingNoticed, RetryScheduled, Quiet
<1> QED
  BY <1>1, <1>2, NextRetryInv, PTL DEF Spec

-----------------------------------------------------------------------------
(* The connection is managed as ManagedLink promises *)

\* The settings of the connection, as the refinement mapping sees it.
OpenLink == IF link \in {"connecting", "connected"} THEN {peer} ELSE {}

LEMMA NextRefines ==
  ASSUME Preemptive = FALSE, CurrentInv, [Next]_vars
  PROVE  [Managed!Next]_(Managed!vars)
<1> USE DEF CurrentInv, TypeOK, CanCallBack
<1>m. /\ Managed!vars = <<state, state \in Enabled, armed \/ reconfigure, OpenLink>>
      /\ (Managed!vars)' = <<state', state' \in Enabled, armed' \/ reconfigure', OpenLink'>>
  BY DEF Managed!vars, OpenLink
<1>1. ASSUME NEW s \in Settings, Edit(s) PROVE Managed!Edit
  BY <1>1 DEF Edit, Managed!Edit
<1>2. CASE Propagate
  BY <1>2 DEF Propagate, AskReconfigure, Managed!Next, Managed!Review
<1>3. CASE OnWiFiEvent
  <2>1. CASE state \in Enabled
    BY <1>3, <2>1 DEF OnWiFiEvent, AskReconfigure, Managed!Next, Managed!Review
  <2>2. CASE state \notin Enabled
    BY <1>3, <1>m, <2>2 DEF OnWiFiEvent, OpenLink
  <2> QED
    BY <2>1, <2>2
<1>4. CASE OnMqttDisconnect
  BY <1>4 DEF OnMqttDisconnect, Managed!Next, Managed!Close
<1>5. CASE Loop \/ OnMqttConnect \/ WiFiChanges \/ Tick \/ UNCHANGED vars
  BY <1>5, <1>m DEF Loop, OnMqttConnect, WiFiChanges, Tick, vars, OpenLink
<1>6. CASE Disconnect
  <2>1. link' \in {"disconnected", "disconnecting"}
    BY <1>6 DEF Disconnect
  <2> QED
    BY <1>6, <2>1 DEF Disconnect, Managed!Next, Managed!Close
<1>7. CASE Connect
  <2>1. CASE state \in Enabled /\ wifi /\ link = "disconnected"
    BY <1>7, <2>1 DEF Connect, Managed!Next, Managed!Open
  <2>2. CASE ~(state \in Enabled /\ wifi /\ link = "disconnected")
    BY <1>7, <1>m, <2>2 DEF Connect, OpenLink
  <2> QED
    BY <2>1, <2>2
<1>8. CASE ClearFlags
  <2>1. CASE armed
    <3>1. CASE reconfigure
      BY <1>8, <1>m, <2>1, <3>1 DEF ClearFlags, OpenLink
    <3>2. CASE ~reconfigure
      BY <1>8, <1>m, <2>1, <3>2 DEF ClearFlags, OpenLink
    <3> QED
      BY <3>1, <3>2
  <2>2. CASE ~armed
    BY <1>8, <2>2 DEF ClearFlags, OpenedCurrent, Managed!Next, Managed!Settle
  <2> QED
    BY <2>1, <2>2
<1> QED
  BY <1>1, <1>2, <1>3, <1>4, <1>5, <1>6, <1>7, <1>8 DEF Next, LoopStep, Managed!Next

\* Without preemption configureMqtt() and the flags manage the connection as
\* ManagedLink promises: every step is one of its steps or does not concern it.
THEOREM ConnectionIsManaged ==
  ASSUME Preemptive = FALSE
  PROVE  Spec => ManagedSpec
<1>1. Init => CurrentInv /\ Managed!Init
  BY InitTypeOK
     DEF Init, CurrentInv, ClosedFirst, OpenedCurrent, OutdatedNoticed, Managed!Init
<1>2. CurrentInv /\ [Next]_vars => CurrentInv' /\ [Managed!Next]_(Managed!vars)
  BY NextCurrentInv, NextRefines
<1> QED
  BY <1>1, <1>2, PTL DEF Spec, ManagedSpec, Managed!Spec

\* What ManagedLink promises of every connection it manages: with no edit to be
\* settled, there is none or it has the settings in force.
LEMMA ManagedIsCurrent == ManagedSpec => []Managed!Current
<1>1. Managed!Init => Managed!Current
  BY DEF Managed!Init, Managed!Current
<1>2. Managed!Current /\ [Managed!Next]_(Managed!vars) => (Managed!Current)'
  BY DEF Managed!Current, Managed!Next, Managed!vars, Managed!Edit, Managed!Review,
         Managed!Open, Managed!Close, Managed!Settle
<1> QED
  BY <1>1, <1>2, PTL DEF ManagedSpec, Managed!Spec

\* Without preemption no connection with former settings outlives the flag that
\* its edit has set, wherever loop() is (MqttSettingsService.cpp:58-67).
THEOREM NoFormerConnection ==
  ASSUME Preemptive = FALSE
  PROVE  Spec => []Managed!Current
  BY ConnectionIsManaged, ManagedIsCurrent, PTL
=============================================================================
