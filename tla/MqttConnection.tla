--------------------------- MODULE MqttConnection ---------------------------
(***************************************************************************)
(* MqttSettingsService as the manager of the MQTT connection: the loop()   *)
(* that reconfigures the client on demand or some time after a disconnect, *)
(* and the callbacks that ask for it. The AsyncMqttClient, the WiFi status *)
(* and the clock are its environment.                                      *)
(***************************************************************************)
EXTENDS Naturals

CONSTANTS
    Settings,       \* the MQTT settings
    Enabled,        \* those with enabled = true
    Preemptive,     \* TRUE on the ESP32: callbacks run in another task than loop()
    Wrap,           \* millis() counts modulo Wrap
    Delay,          \* MQTT_RECONNECTION_DELAY
    Start,          \* the first value of millis() a disconnect can be stamped with
    MaxEdits,       \* bound on the edits of the settings
    MaxEvents       \* bound on the undelivered WiFi events

ASSUME SettingsAssumption == Enabled \subseteq Settings
ASSUME ClockAssumption ==
    /\ Wrap \in Nat /\ Delay \in Nat /\ Start \in Nat
    /\ 0 < Delay /\ Start + Delay < Wrap
ASSUME BoundsAssumption ==
    Preemptive \in BOOLEAN /\ MaxEdits \in Nat /\ MaxEvents \in Nat

VARIABLES
    state,          \* _state
    armed,          \* a POST changed _state and its client has not disconnected
    edits,          \* how often the settings were edited
    wifi,           \* WiFi.isConnected()
    events,         \* WiFi events not yet delivered to the callbacks
    reconfigure,    \* _reconfigureMqtt
    disconnectedAt, \* _disconnectedAt; 0 stands for no retry
    now,            \* millis()
    link,           \* the connection of the AsyncMqttClient
    peer,           \* the settings the connection was opened with
    pc              \* where loop() is

vars == <<state, armed, edits, wifi, events, reconfigure, disconnectedAt, now,
          link, peer, pc>>

Clock == Start .. Wrap - 1

TypeOK ==
    /\ state \in Settings
    /\ peer \in Settings
    /\ armed \in BOOLEAN
    /\ edits \in 0..MaxEdits
    /\ wifi \in BOOLEAN
    /\ events \in 0..MaxEvents
    /\ reconfigure \in BOOLEAN
    /\ disconnectedAt \in Clock \cup {0}
    /\ now \in Clock
    /\ link \in {"disconnected", "connecting", "connected", "disconnecting"}
    /\ pc \in {"idle", "disconnect", "connect", "clear"}

\* begin() loads the settings while the station is still off.
Init ==
    /\ state \in Settings
    /\ peer = state
    /\ armed = FALSE
    /\ edits = 0
    /\ wifi = FALSE
    /\ events = 0
    /\ reconfigure = FALSE
    /\ disconnectedAt = 0
    /\ now \in Clock \ {0}
    /\ link = "disconnected"
    /\ pc = "idle"

-----------------------------------------------------------------------------
(* Callbacks: on the ESP8266 they run only between two calls of loop() *)

CanCallBack == Preemptive \/ pc = "idle"

\* onConfigUpdated()
AskReconfigure == reconfigure' = TRUE /\ disconnectedAt' = 0

\* A POST to the endpoint; its handlers run when the client disconnects.
Edit(s) ==
    /\ CanCallBack
    /\ edits < MaxEdits
    /\ edits' = edits + 1
    /\ state' = s
    /\ armed' = TRUE
    /\ UNCHANGED <<wifi, events, reconfigure, disconnectedAt, now, link, peer, pc>>

Propagate ==
    /\ CanCallBack
    /\ armed
    /\ armed' = FALSE
    /\ AskReconfigure
    /\ UNCHANGED <<state, edits, wifi, events, now, link, peer, pc>>

\* onStationModeGotIP() and onStationModeDisconnected()
OnWiFiEvent ==
    /\ CanCallBack
    /\ events > 0
    /\ events' = events - 1
    /\ IF state \in Enabled
         THEN AskReconfigure
         ELSE UNCHANGED <<reconfigure, disconnectedAt>>
    /\ UNCHANGED <<state, armed, edits, wifi, now, link, peer, pc>>

\* Wrong on purpose: the disconnect is not stamped.
OnMqttDisconnectUnstamped ==
    /\ CanCallBack
    /\ link # "disconnected"
    /\ link' = "disconnected"
    /\ UNCHANGED <<state, armed, edits, wifi, events, reconfigure,
                   disconnectedAt, now, peer, pc>>

\* onMqttDisconnect(). The close that configureMqtt() asked for completes, the
\* broker or the network drops the connection, or it cannot be opened.
OnMqttDisconnect ==
    /\ CanCallBack
    /\ link # "disconnected"
    /\ link' = "disconnected"
    /\ disconnectedAt' = now
    /\ UNCHANGED <<state, armed, edits, wifi, events, reconfigure, now, peer, pc>>

-----------------------------------------------------------------------------
(* loop() *)

Due ==
    \/ reconfigure
    \/ disconnectedAt # 0 /\ (now + Wrap - disconnectedAt) % Wrap >= Delay

\* Wrong on purpose: the request to reconfigure is ignored.
LoopRetryOnly ==
    /\ pc = "idle"
    /\ disconnectedAt # 0
    /\ Due
    /\ pc' = "disconnect"
    /\ UNCHANGED <<state, armed, edits, wifi, events, reconfigure,
                   disconnectedAt, now, link, peer>>

Loop ==
    /\ pc = "idle"
    /\ Due
    /\ pc' = "disconnect"
    /\ UNCHANGED <<state, armed, edits, wifi, events, reconfigure,
                   disconnectedAt, now, link, peer>>

\* Wrong on purpose: the old connection is left open.
DisconnectForgotten ==
    /\ pc = "disconnect"
    /\ pc' = "connect"
    /\ UNCHANGED <<state, armed, edits, wifi, events, reconfigure,
                   disconnectedAt, now, link, peer>>

\* disconnect() does nothing without a connection; otherwise the close is either
\* complete on return, with its callback run inside, or still under way.
Disconnect ==
    /\ pc = "disconnect"
    /\ \/ /\ link = "disconnected"
          /\ UNCHANGED <<link, disconnectedAt>>
       \/ /\ link # "disconnected"
          /\ link' = "disconnecting"
          /\ UNCHANGED disconnectedAt
       \/ /\ link # "disconnected"
          /\ link' = "disconnected"
          /\ disconnectedAt' = now
    /\ pc' = "connect"
    /\ UNCHANGED <<state, armed, edits, wifi, events, reconfigure, now, peer>>

\* Wrong on purpose: the settings are not looked at.
ConnectAlways ==
    /\ pc = "connect"
    /\ IF wifi /\ link = "disconnected"
         THEN link' = "connecting" /\ peer' = state
         ELSE UNCHANGED <<link, peer>>
    /\ pc' = "clear"
    /\ UNCHANGED <<state, armed, edits, wifi, events, reconfigure,
                   disconnectedAt, now>>

\* connect() does nothing while an old connection is still being closed.
Connect ==
    /\ pc = "connect"
    /\ IF state \in Enabled /\ wifi /\ link = "disconnected"
         THEN link' = "connecting" /\ peer' = state
         ELSE UNCHANGED <<link, peer>>
    /\ pc' = "clear"
    /\ UNCHANGED <<state, armed, edits, wifi, events, reconfigure,
                   disconnectedAt, now>>

ClearFlags ==
    /\ pc = "clear"
    /\ reconfigure' = FALSE
    /\ disconnectedAt' = 0
    /\ pc' = "idle"
    /\ UNCHANGED <<state, armed, edits, wifi, events, now, link, peer>>

-----------------------------------------------------------------------------
(* Environment *)

\* The broker accepts the connection.
OnMqttConnect ==
    /\ CanCallBack
    /\ link = "connecting"
    /\ wifi
    /\ link' = "connected"
    /\ UNCHANGED <<state, armed, edits, wifi, events, reconfigure,
                   disconnectedAt, now, peer, pc>>

WiFiChanges ==
    /\ CanCallBack
    /\ events < MaxEvents
    /\ wifi' = ~wifi
    /\ events' = events + 1
    /\ UNCHANGED <<state, armed, edits, reconfigure, disconnectedAt, now, link,
                   peer, pc>>

\* The clock is slow compared with loop(), which never misses a whole cycle.
Tick ==
    /\ pc = "idle"
    /\ ~Due
    /\ now' = IF now = Wrap - 1 THEN Start ELSE now + 1
    /\ UNCHANGED <<state, armed, edits, wifi, events, reconfigure,
                   disconnectedAt, link, peer, pc>>

LoopStep == Loop \/ Disconnect \/ Connect \/ ClearFlags

Next ==
    \/ \E s \in Settings : Edit(s)
    \/ Propagate
    \/ OnWiFiEvent
    \/ OnMqttDisconnect
    \/ LoopStep
    \/ OnMqttConnect
    \/ WiFiChanges
    \/ Tick

Spec == Init /\ [][Next]_vars

\* loop() runs for ever, time passes, queued callbacks are delivered between two
\* calls of loop() at the latest, a closing connection gets closed, and a broker
\* tried again and again answers.
Fairness ==
    /\ WF_vars(LoopStep)
    /\ SF_vars(Tick)
    /\ SF_vars(Propagate)
    /\ SF_vars(OnWiFiEvent)
    /\ SF_vars(OnMqttDisconnect /\ link = "disconnecting")
    /\ SF_vars(OnMqttConnect)

FairSpec == Spec /\ Fairness

-----------------------------------------------------------------------------
(* Properties *)

\* Nothing is under way that would look at the connection again.
Quiet == pc = "idle" /\ ~armed /\ events = 0 /\ ~reconfigure

\* A client that should be connected and is not has its retry on the clock: the
\* flags loop() clears after configureMqtt() never hide a disconnect that
\* came in while it ran.
RetryScheduled ==
    Quiet /\ wifi /\ state \in Enabled /\ link = "disconnected"
        => disconnectedAt # 0

\* A connection that is up or coming up was opened with the settings in force,
\* and only if they enable MQTT: an edit always reaches the client.
ConnectionCurrent ==
    Quiet /\ link \in {"connecting", "connected"}
        => state \in Enabled /\ peer = state

\* The manager as ManagedLink promises it: configureMqtt() closes the former
\* connection before it opens one with the settings in force, and takes no edit
\* for settled, by clearing the flag, that the client has yet to see.
Managed == INSTANCE ManagedLink WITH
    InPlace <- FALSE,
    cur     <- state,
    enabled <- state \in Enabled,
    pending <- armed \/ reconfigure,
    open    <- IF link \in {"connecting", "connected"} THEN {peer} ELSE {}

ManagedSpec == Managed!Spec

\* While WiFi stays up and MQTT enabled, the client gets connected again
\* however often the broker drops it.
EventuallyConnected ==
    <>[](wifi /\ state \in Enabled) => []<>(link = "connected" /\ peer = state)

\* Once MQTT is disabled for good the connection ends for good.
EventuallyDisconnected ==
    <>[](state \notin Enabled) => <>[](link = "disconnected")
=============================================================================
