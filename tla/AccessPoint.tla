---------------------------- MODULE AccessPoint ----------------------------
(***************************************************************************)
(* APSettingsService: the settings of the soft access point with their     *)
(* updater, the loop() that starts and stops the access point as the mode  *)
(* and the station's connection require, and the captive portal's DNS      *)
(* server that goes with it.                                               *)
(***************************************************************************)
EXTENDS Naturals

CONSTANTS
    Nets,           \* the network part of the settings: SSID, password, addresses
    Address,        \* Address[n]: the local IP address of n
    Requests,       \* provision_mode values a request may carry
    Preemptive,     \* TRUE on the ESP32: callbacks run in another task than loop()
    Wrap,           \* millis() counts modulo Wrap
    Delay,          \* MANAGE_NETWORK_DELAY
    MaxEdits,       \* bound on the edits of the settings
    None            \* no access point, no DNS server

\* APSettings.h: the values of AP_MODE_*
ALWAYS == 0
DISCONNECTED == 1
NEVER == 2
ValidModes == {ALWAYS, DISCONNECTED, NEVER}

ASSUME NetsAssumption == None \notin Nets /\ \A n \in Nets : Address[n] # None
ASSUME RequestsAssumption == Requests \subseteq Nat
ASSUME ClockAssumption == Wrap \in Nat /\ Delay \in Nat /\ 0 < Delay /\ Delay < Wrap
ASSUME BoundsAssumption == Preemptive \in BOOLEAN /\ MaxEdits \in Nat

VARIABLES
    mode,           \* _state.provisionMode, a uint8_t
    net,            \* the rest of _state
    armed,          \* a POST changed _state and its client has not disconnected
    edits,          \* how often the settings were posted
    wifi,           \* WiFi.status() == WL_CONNECTED
    stations,       \* WiFi.softAPgetStationNum() is not zero
    ap,             \* the network the access point runs, or None
    dns,            \* the address the DNS server answers with, or None
    reconfigure,    \* _reconfigureAp
    lastManaged,    \* _lastManaged
    now,            \* millis()
    pc              \* where loop() is

settings == <<mode, net, armed, edits>>
timing == <<lastManaged, now>>
vars == <<settings, wifi, stations, ap, dns, reconfigure, timing, pc>>

TypeOK ==
    /\ mode \in 0..255
    /\ net \in Nets
    /\ armed \in BOOLEAN
    /\ edits \in 0..MaxEdits
    /\ wifi \in BOOLEAN
    /\ stations \in BOOLEAN
    /\ ap \in Nets \cup {None}
    /\ dns \in {Address[n] : n \in Nets} \cup {None}
    /\ reconfigure \in BOOLEAN
    /\ lastManaged \in 0..Wrap - 1
    /\ now \in 0..Wrap - 1
    /\ pc \in {"idle", "manage", "clear"}

-----------------------------------------------------------------------------
(* APSettings::update *)

\* The mode the updater stores for a requested one. Its switch looks at the mode
\* that is stored already, so it corrects the update after a bad one.
NewMode(requested) ==
    IF mode \in ValidModes THEN requested % 256 ELSE ALWAYS

\* reconfigureAP(): manage at once instead of at the end of the delay.
ReconfigureAP ==
    /\ lastManaged' = (now + Wrap - Delay) % Wrap
    /\ reconfigure' = TRUE

\* begin(): the settings are read from the file into a zeroed _state, whose mode
\* is ALWAYS, and the access point is to be configured.
Init ==
    /\ mode \in {r % 256 : r \in Requests}
    /\ net \in Nets
    /\ armed = FALSE
    /\ edits = 0
    /\ wifi = FALSE
    /\ stations = FALSE
    /\ ap = None
    /\ dns = None
    /\ reconfigure = TRUE
    /\ now = 0
    /\ lastManaged = (now + Wrap - Delay) % Wrap
    /\ pc = "idle"

-----------------------------------------------------------------------------
(* Callbacks: on the ESP8266 they run only between two calls of loop() *)

CanCallBack == Preemptive \/ pc = "idle"

Post(r, n) ==
    /\ CanCallBack
    /\ edits < MaxEdits
    /\ edits' = edits + 1
    /\ mode' = NewMode(r)
    /\ net' = n
    /\ armed' = (armed \/ mode' # mode \/ net' # net)
    /\ UNCHANGED <<wifi, stations, ap, dns, reconfigure, timing, pc>>

\* Wrong on purpose: only the timer is reset.
PropagateTimerOnly ==
    /\ CanCallBack
    /\ armed
    /\ armed' = FALSE
    /\ lastManaged' = (now + Wrap - Delay) % Wrap
    /\ UNCHANGED <<mode, net, edits, wifi, stations, ap, dns, reconfigure, now, pc>>

Propagate ==
    /\ CanCallBack
    /\ armed
    /\ armed' = FALSE
    /\ ReconfigureAP
    /\ UNCHANGED <<mode, net, edits, wifi, stations, ap, dns, now, pc>>

-----------------------------------------------------------------------------
(* loop() *)

Due == (now + Wrap - lastManaged) % Wrap >= Delay

\* Wrong on purpose: only a reconfiguration is acted on.
LoopOnDemand ==
    /\ pc = "idle"
    /\ reconfigure
    /\ lastManaged' = now
    /\ pc' = "manage"
    /\ UNCHANGED <<settings, wifi, stations, ap, dns, reconfigure, now>>

Loop ==
    /\ pc = "idle"
    /\ Due
    /\ lastManaged' = now
    /\ pc' = "manage"
    /\ UNCHANGED <<settings, wifi, stations, ap, dns, reconfigure, now>>

Wanted == mode = ALWAYS \/ (mode = DISCONNECTED /\ ~wifi)

\* startAP(): a DNS server that is running is left as it is.
StartAP ==
    /\ ap' = net
    /\ dns' = IF dns = None THEN Address[net] ELSE dns
    /\ UNCHANGED stations

StopAP == ap' = None /\ stations' = FALSE /\ dns' = None

\* Wrong on purpose: associated stations are not considered.
ManageAPAbrupt ==
    /\ pc = "manage"
    /\ IF Wanted
         THEN IF reconfigure \/ ap = None THEN StartAP ELSE UNCHANGED <<ap, dns, stations>>
         ELSE IF ap # None THEN StopAP ELSE UNCHANGED <<ap, dns, stations>>
    /\ pc' = "clear"
    /\ UNCHANGED <<settings, wifi, reconfigure, timing>>

\* Wrong on purpose: a reconfiguration waits for the phones as well.
ManageAPPolite ==
    /\ pc = "manage"
    /\ \/ Wanted /\ (reconfigure \/ ap = None) /\ StartAP
       \/ ~Wanted /\ ap # None /\ ~stations /\ StopAP
       \/ /\ IF Wanted THEN ~reconfigure /\ ap # None ELSE ap = None \/ stations
          /\ UNCHANGED <<ap, dns, stations>>
    /\ pc' = "clear"
    /\ UNCHANGED <<settings, wifi, reconfigure, timing>>

\* manageAP() up to its last statement.
ManageAP ==
    /\ pc = "manage"
    /\ \/ Wanted /\ (reconfigure \/ ap = None) /\ StartAP
       \/ ~Wanted /\ ap # None /\ (reconfigure \/ ~stations) /\ StopAP
       \/ /\ IF Wanted THEN ~reconfigure /\ ap # None
                       ELSE ap = None \/ (~reconfigure /\ stations)
          /\ UNCHANGED <<ap, dns, stations>>
    /\ pc' = "clear"
    /\ UNCHANGED <<settings, wifi, reconfigure, timing>>

ClearFlag ==
    /\ pc = "clear"
    /\ reconfigure' = FALSE
    /\ pc' = "idle"
    /\ UNCHANGED <<settings, wifi, stations, ap, dns, timing>>

-----------------------------------------------------------------------------
(* Environment *)

WiFiChanges ==
    /\ CanCallBack
    /\ wifi' = ~wifi
    /\ UNCHANGED <<settings, stations, ap, dns, reconfigure, timing, pc>>

\* A phone joins the access point, or the last one leaves.
StationsChange ==
    /\ CanCallBack
    /\ ap # None
    /\ stations' = ~stations
    /\ UNCHANGED <<settings, wifi, ap, dns, reconfigure, timing, pc>>

\* The clock is slow compared with loop().
Tick ==
    /\ pc = "idle"
    /\ ~Due
    /\ now' = (now + 1) % Wrap
    /\ UNCHANGED <<settings, wifi, stations, ap, dns, reconfigure, lastManaged, pc>>

LoopStep == Loop \/ ManageAP \/ ClearFlag

Next ==
    \/ \E r \in Requests, n \in Nets : Post(r, n)
    \/ Propagate
    \/ LoopStep
    \/ WiFiChanges
    \/ StationsChange
    \/ Tick

Spec == Init /\ [][Next]_vars

\* loop() runs for ever, time passes, clients disconnect. Nobody has to leave.
Fairness == WF_vars(LoopStep) /\ SF_vars(Tick) /\ SF_vars(Propagate)

FairSpec == Spec /\ Fairness

-----------------------------------------------------------------------------
(* Properties *)

\* An access point that runs and is wanted runs with the settings in force, or a
\* reconfiguration is to come: the flag manageAP() clears was not set behind it.
RunsCurrent ==
    ap # None /\ mode \in ValidModes \ {NEVER} /\ pc = "idle"
        => ap = net \/ armed \/ reconfigure

\* The manager as ManagedLink promises it: manageAP() starts the access point with
\* the network in force, again in place after an edit, and clears its flag only
\* when no access point runs but one that the mode allows, with that network.
Managed == INSTANCE ManagedLink WITH
    Settings <- Nets,
    InPlace  <- TRUE,
    cur      <- net,
    enabled  <- mode \in ValidModes \ {NEVER},
    pending  <- armed \/ reconfigure,
    open     <- {ap} \ {None}

ManagedSpec == Managed!Spec

\* The captive portal is there exactly while the access point is.
PortalFollowsAP == dns # None <=> ap # None

\* A phone that uses the access point is cut off only by a reconfiguration that
\* somebody asked for since the device started, never because the station
\* connected or because the start's own reconfiguration is still pending.
NeverCutOff ==
    [][ap # None /\ ap' = None /\ stations => reconfigure /\ edits > 0]_vars

\* The access point comes up when the WiFi connection stays away.
FallsBack == <>[](mode = DISCONNECTED /\ ~wifi) => <>[](ap # None)
=============================================================================
