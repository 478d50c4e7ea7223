---------------------------- MODULE WiFiStation ----------------------------
(***************************************************************************)
(* WiFiSettingsService as the manager of the WiFi station: the loop() that *)
(* opens a connection, the update handler that drops it, and the event     *)
(* callbacks that switch a failed station off so that loop() starts over.  *)
(* The WiFi driver queues its events and delivers them later; the network  *)
(* scanner shares the station interface.  On the ESP32 loop(), the requests *)
(* and the driver's events have tasks of their own, and nothing protects   *)
(* what they share; on the ESP8266 each of them runs to its end.           *)
(***************************************************************************)
EXTENDS Naturals, Sequences, SequencesExt

CONSTANTS
    Settings,       \* the WiFi settings
    NoSsid,         \* those without an SSID
    Wrap,           \* millis() counts modulo Wrap
    Delay,          \* WIFI_RECONNECTION_DELAY
    MaxEdits,       \* bound on the edits of the settings
    MaxQueue        \* bound on the queued events, for what the network does

ASSUME SettingsAssumption == NoSsid \in Settings
ASSUME ClockAssumption == Wrap \in Nat /\ Delay \in Nat /\ 0 < Delay /\ Delay < Wrap
ASSUME BoundsAssumption ==
    MaxEdits \in Nat /\ MaxQueue \in Nat

VARIABLES
    esp32,          \* the platform, which does not change
    state,          \* _state
    armed,          \* a POST changed _state and its client has not disconnected
    edits,          \* how often the settings were edited
    handler,        \* what reconfigureWiFiConnection() is about to do
    sta,            \* the station interface of the driver: "idle" once a connection
                    \* or attempt has ended, "scanned" if only a scan switched it on,
                    \* "configured" if only WiFi.config() or a vain WiFi.begin() did
    config,         \* the settings WiFi.config() and the hostname are from
    joined,         \* those that WiFi.begin() has read its SSID from
    queue,          \* driver events not yet delivered
    stopping,       \* _stopping, ESP32 only
    lastAttempt,    \* _lastConnectionAttempt; 0 asks for an attempt at once
    now,            \* millis()
    pc,             \* where loop() is
    overtaken       \* history: the settings were edited while the last attempt
                    \* was being made

settings == <<state, armed, edits>>
station == <<sta, config, joined>>
timers == <<lastAttempt, now>>
vars == <<esp32, settings, handler, station, queue, stopping, timers, pc, overtaken>>

Events == {"disconnected", "stop"}

TypeOK ==
    /\ esp32 \in BOOLEAN /\ overtaken \in BOOLEAN
    /\ state \in Settings
    /\ armed \in BOOLEAN
    /\ edits \in 0..MaxEdits
    /\ handler \in {"none", "disconnect", "stopping"}
    /\ sta \in {"off", "scanned", "configured", "idle", "connecting", "connected"}
    /\ config \in Settings /\ joined \in Settings
    /\ queue \in Seq(Events)
    /\ stopping \in BOOLEAN
    /\ lastAttempt \in 0..Wrap - 1
    /\ now \in 0..Wrap - 1
    /\ pc \in {"idle", "manage", "config", "begin", "connect"}

\* The constructor switches WiFi off; begin() loads the settings and disconnects.
Init ==
    /\ esp32 \in BOOLEAN /\ overtaken = FALSE
    /\ state \in Settings
    /\ armed = FALSE /\ edits = 0
    /\ handler = "none"
    /\ sta = "off" /\ config = NoSsid /\ joined = NoSsid
    /\ queue = <<>>
    /\ stopping = FALSE
    /\ lastAttempt = 0 /\ now = 0
    /\ pc = "idle"

-----------------------------------------------------------------------------
(* The driver *)

On == sta # "off"
Open == sta \in {"connecting", "connected"}

\* WiFi.disconnect(true) switches the station off if it is on. The events say
\* so later: one for a connection or attempt that ends, one for the interface.
DriverOff(q) ==
    /\ sta' = "off"
    /\ queue' = q \o (IF Open THEN <<"disconnected">> ELSE <<>>)
                  \o (IF esp32 /\ On THEN <<"stop">> ELSE <<>>)

\* Callbacks run between two calls of loop() and one after the other, or in tasks
\* of their own on the ESP32; loop() runs when none of them does, or any time.
CanCallBack == esp32 \/ (pc = "idle" /\ handler = "none")
CanLoop == esp32 \/ handler = "none"

\* The network lets the station in.
Join ==
    /\ CanCallBack
    /\ sta = "connecting"
    /\ sta' = "connected"
    /\ UNCHANGED <<esp32, settings, handler, config, joined, queue, stopping, timers, pc, overtaken>>

\* An attempt fails or a connection drops; the interface stays on.
Lose ==
    /\ CanCallBack
    /\ Open
    /\ Len(queue) < MaxQueue
    /\ sta' = "idle"
    /\ queue' = Append(queue, "disconnected")
    /\ UNCHANGED <<esp32, settings, handler, config, joined, stopping, timers, pc, overtaken>>

\* WiFiScanner: scanNetworks() of the driver switches the station on.
ScanNetworks ==
    /\ CanCallBack
    /\ sta = "off"
    /\ sta' = "scanned"
    /\ UNCHANGED <<esp32, settings, handler, config, joined, queue, stopping, timers, pc, overtaken>>

-----------------------------------------------------------------------------
(* Requests, one at a time *)

\* loop() is past its look at the SSID and the station.
Attempting == pc \in {"config", "begin", "connect"}

Edit(s) ==
    /\ CanCallBack /\ handler = "none"
    /\ edits < MaxEdits
    /\ edits' = edits + 1
    /\ state' = s
    /\ armed' = TRUE
    /\ overtaken' = (overtaken \/ Attempting)
    /\ UNCHANGED <<esp32, handler, station, queue, stopping, timers, pc>>

\* reconfigureWiFiConnection(), once the client of the POST disconnects.
Reconfigure ==
    /\ CanCallBack /\ handler = "none"
    /\ armed
    /\ lastAttempt' = 0
    /\ handler' = "disconnect"
    /\ UNCHANGED <<esp32, settings, station, queue, stopping, now, pc, overtaken>>

\* Wrong on purpose: the old connection is kept.
DisconnectKeepingConnection ==
    /\ handler = "disconnect"
    /\ armed' = FALSE
    /\ handler' = "none"
    /\ UNCHANGED <<esp32, state, edits, station, queue, stopping, timers, pc, overtaken>>

\* WiFi.disconnect(true), which tells on the ESP32 whether it has stopped the
\* station; the edit is dealt with, as far as this handler knows.
Disconnect ==
    /\ handler = "disconnect"
    /\ armed' = FALSE
    /\ DriverOff(queue)
    /\ handler' = IF esp32 /\ On THEN "stopping" ELSE "none"
    /\ UNCHANGED <<esp32, state, edits, config, joined, stopping, timers, pc, overtaken>>

\* _stopping = true, which the stop event may have come before.
ExpectStop ==
    /\ handler = "stopping"
    /\ stopping' = TRUE
    /\ handler' = "none"
    /\ UNCHANGED <<esp32, settings, station, queue, timers, pc, overtaken>>

-----------------------------------------------------------------------------
(* Events of the driver *)

\* Wrong on purpose: the callback leaves the failed station on.
OnStationModeDisconnectedIdle ==
    /\ CanCallBack
    /\ queue # <<>> /\ Head(queue) = "disconnected"
    /\ queue' = Tail(queue)
    /\ UNCHANGED <<esp32, settings, handler, station, stopping, timers, pc, overtaken>>

\* The event may be older than the connection it now switches off.
OnStationModeDisconnected ==
    /\ CanCallBack
    /\ queue # <<>> /\ Head(queue) = "disconnected"
    /\ DriverOff(Tail(queue))
    /\ UNCHANGED <<esp32, settings, handler, config, joined, stopping, timers, pc, overtaken>>

OnStationModeStop ==
    /\ CanCallBack
    /\ queue # <<>> /\ Head(queue) = "stop"
    /\ queue' = Tail(queue)
    /\ lastAttempt' = IF stopping THEN 0 ELSE lastAttempt
    /\ stopping' = FALSE
    /\ UNCHANGED <<esp32, settings, handler, station, now, pc, overtaken>>

-----------------------------------------------------------------------------
(* loop() *)

Due == lastAttempt = 0 \/ (now + Wrap - lastAttempt) % Wrap >= Delay

Loop ==
    /\ CanLoop /\ pc = "idle"
    /\ Due
    /\ lastAttempt' = now
    /\ pc' = "manage"
    /\ UNCHANGED <<esp32, settings, handler, station, queue, stopping, now, overtaken>>

\* manageSTA(): nothing to do with a station that is on, or without an SSID.
ManageSTA ==
    /\ pc = "manage"
    /\ IF state # NoSsid /\ ~On
         THEN pc' = "config" /\ overtaken' = FALSE
         ELSE pc' = "idle" /\ UNCHANGED overtaken
    /\ UNCHANGED <<esp32, settings, handler, station, queue, stopping, timers>>

\* A station that is off is switched on by whoever configures it.
SwitchedOn == IF On THEN sta ELSE "configured"

\* manageSTA(): WiFi.config() and the hostname.
ConfigureSTA ==
    /\ pc = "config"
    /\ config' = state
    /\ sta' = SwitchedOn
    /\ pc' = "begin"
    /\ UNCHANGED <<esp32, settings, handler, joined, queue, stopping, timers, overtaken>>

\* manageSTA(): WiFi.begin() gets the SSID, and makes no attempt with an empty one.
BeginSTA ==
    /\ pc = "begin"
    /\ joined' = state
    /\ sta' = SwitchedOn
    /\ pc' = IF state = NoSsid THEN "idle" ELSE "connect"
    /\ UNCHANGED <<esp32, settings, handler, config, queue, stopping, timers, overtaken>>

\* manageSTA(): the attempt that WiFi.begin() makes with it.
ConnectSTA ==
    /\ pc = "connect"
    /\ sta' = "connecting"
    /\ pc' = "idle"
    /\ UNCHANGED <<esp32, settings, handler, config, joined, queue, stopping, timers, overtaken>>

\* The clock is slow compared with loop().
Tick ==
    /\ CanLoop /\ pc = "idle"
    /\ ~Due \/ now = 0
    /\ now' = (now + 1) % Wrap
    /\ UNCHANGED <<esp32, settings, handler, station, queue, stopping, lastAttempt, pc, overtaken>>

LoopStep == Loop \/ ManageSTA \/ ConfigureSTA \/ BeginSTA \/ ConnectSTA
Request == Reconfigure \/ Disconnect \/ ExpectStop
Event == OnStationModeDisconnected \/ OnStationModeStop

Next ==
    \/ \E s \in Settings : Edit(s)
    \/ Request \/ Event
    \/ Join \/ Lose \/ ScanNetworks
    \/ LoopStep
    \/ Tick

Spec == Init /\ [][Next]_vars

\* loop() runs for ever, time passes, queued events are delivered between two
\* calls of loop() at the latest, and a network tried again and again lets the
\* station in.
Fairness ==
    /\ WF_vars(LoopStep)
    /\ SF_vars(Tick)
    /\ SF_vars(Request \/ Event)
    /\ SF_vars(Join)

FairSpec == Spec /\ Fairness

-----------------------------------------------------------------------------
(* Properties *)

\* manageSTA() reconnects only a station that is off. One whose connection or
\* attempt has ended has an event coming whose callback switches it off, and one
\* that has made no attempt is not wanted, or about to be switched off.
StationWatched ==
    /\ sta = "idle" => "disconnected" \in ToSet(queue)
    /\ sta = "configured" /\ ~Attempting => state = NoSsid \/ armed

\* A connection or attempt uses the settings in force, unless a client has yet to
\* disconnect from the POST that changed them: no former attempt survives it. On
\* the ESP32 an edit may also fall into the making of the attempt.
JoinsCurrent ==
    Open => (joined = state /\ config = state) \/ armed \/ overtaken

\* The manager as ManagedLink promises it: manageSTA() never replaces a connection
\* or attempt, and the edit is settled by ending the former one, on which late
\* driver events and scans have no part.
Managed == INSTANCE ManagedLink WITH
    InPlace <- FALSE,
    cur     <- state,
    enabled <- state # NoSsid,
    pending <- armed,
    open    <- IF Open THEN {joined, config} ELSE {}

\* The ESP8266 keeps this promise: on the ESP32 an edit and its handler may both
\* run while manageSTA() does, between the settings it reads and the attempt.
ManagedSpec ==
    /\ ~esp32 => Managed!Init
    /\ [][~esp32 => [Managed!Next]_(Managed!vars)]_vars

\* A station with an SSID whose network keeps letting it in gets connected again
\* after every loss, unless a scan leaves the interface on; with the settings in
\* force, unless an edit has overtaken the attempt.
EventuallyJoined ==
    <>[](state # NoSsid /\ sta # "scanned")
        => []<>(sta = "connected" /\ (joined = state \/ overtaken))
=============================================================================
