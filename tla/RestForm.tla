------------------------------ MODULE RestForm ------------------------------
(***************************************************************************)
(* A settings form of the interface and the settings of the device behind  *)
(* it: the useRest hook, the inputs and the validator of every form that   *)
(* uses it, and the updaters of the settings.  Somebody else may save the  *)
(* same settings, answers may be lost, and the form may be left while it   *)
(* saves.  Settings are as the device's reader writes them.                *)
(***************************************************************************)
EXTENDS Naturals

CONSTANTS
    Forms,          \* the forms that are looked at
    Stored,         \* Stored[f]: settings that a device has, or that others save
    MaxEdits,       \* bound on what the user edits
    MaxSaves,       \* bound on the saves of the user and of others
    Undefined,      \* no data
    Absent,         \* a key that the settings lack
    NaN,            \* the value of a number input that is empty
    Fraction        \* a number that is no integer

ASSUME BoundsAssumption == MaxEdits \in Nat /\ MaxSaves \in Nat
ASSUME FormsAssumption ==
    Forms \subseteq {"wifi", "ap", "mqtt", "ntp", "ota", "lightMqtt", "light"}
ASSUME NumbersAssumption == NaN \notin Nat /\ Fraction \notin Nat /\ NaN # Fraction

-----------------------------------------------------------------------------
(* Values.  A text stands for all texts that no validator or updater tells  *)
(* apart from it.                                                           *)

Addresses == {"ip", "ip2", "none"}              \* "none": 255.255.255.255
Texts == {"", "junk"} \cup Addresses
ASSUME AbsentAssumption == Absent \notin Texts
AddressTexts == Texts \cup {Absent}
Hosts == {"", "junk", "host", "ip"}
Ssids == {"", "cafe", "home", "long"}           \* "long": more than 32 characters
Passwords == {"", "short", "good", "long"}      \* up to 7, 8 to 64, and more
Numbers == Nat \cup {NaN, Fraction}
ShortSize == 256 * 256                          \* 2^16, for uint16_t
Day == 24 * 60 * 60

WiFiSettings ==
    [ssid : Ssids, password : Passwords, hostname : Hosts, static_ip_config : BOOLEAN,
     local_ip : AddressTexts, gateway_ip : AddressTexts, subnet_mask : AddressTexts,
     dns_ip_1 : AddressTexts, dns_ip_2 : AddressTexts]
APSettings ==
    [provision_mode : 0..2, ssid : Ssids, password : Passwords, channel : 1..13,
     ssid_hidden : BOOLEAN, max_clients : 1..8,
     local_ip : Texts, gateway_ip : Texts, subnet_mask : Texts]
MqttSettings ==
    [enabled : BOOLEAN, host : Hosts, port : Numbers, username : Passwords,
     password : Passwords, client_id : Passwords, keep_alive : Numbers,
     clean_session : BOOLEAN, max_topic_length : Numbers]
Zones == {"London", "Paris", "Rome"}
Formats == {"GMT0BST", "CET-1CEST", "custom"}
NTPSettings == [enabled : BOOLEAN, server : Hosts, tz_label : Zones, tz_format : Formats]
OTASettings == [enabled : BOOLEAN, port : Numbers, password : Passwords]
LightMqttSettings == [unique_id : Hosts, name : Hosts, mqtt_path : Hosts]
LightState == [led_on : BOOLEAN]

Settings ==
    [wifi |-> WiFiSettings, ap |-> APSettings, mqtt |-> MqttSettings, ntp |-> NTPSettings,
     ota |-> OTASettings, lightMqtt |-> LightMqttSettings, light |-> LightState]

-----------------------------------------------------------------------------
(* The validators of the interface *)

Required(v) == v \notin {"", Absent}
IsAddress(v) == v \in {"", Absent} \/ v \in Addresses
IsHostname(v) == v \in {"", "host", "ip"}
Between(v, low, high) == v = Fraction \/ v \in low..high

WiFiAccepts(d) ==
    /\ Required(d.ssid) /\ d.ssid # "long"
    /\ d.password # "long"
    /\ Required(d.hostname) /\ IsHostname(d.hostname)
    /\ d.static_ip_config =>
        /\ Required(d.local_ip) /\ IsAddress(d.local_ip)
        /\ Required(d.gateway_ip) /\ IsAddress(d.gateway_ip)
        /\ Required(d.subnet_mask) /\ IsAddress(d.subnet_mask)
        /\ IsAddress(d.dns_ip_1) /\ IsAddress(d.dns_ip_2)

isAPEnabled(d) == d.provision_mode \in {0, 1}

APAccepts(d) ==
    isAPEnabled(d) =>
        /\ Required(d.ssid) /\ d.ssid # "long"
        /\ d.password = "good"
        /\ d.max_clients \in 1..9
        /\ Required(d.local_ip) /\ IsAddress(d.local_ip)
        /\ Required(d.gateway_ip) /\ IsAddress(d.gateway_ip)
        /\ Required(d.subnet_mask) /\ IsAddress(d.subnet_mask)

MqttAccepts(d) ==
    /\ Required(d.host) /\ IsHostname(d.host)
    /\ Between(d.port, 0, ShortSize - 1)
    /\ Between(d.keep_alive, 1, Day)
    /\ Between(d.max_topic_length, 16, 1024)

NTPAccepts(d) == Required(d.server) /\ IsHostname(d.server) /\ Required(d.tz_label)
OTAAccepts(d) == Between(d.port, 1025, ShortSize - 1) /\ d.password \in {"short", "good"}
LightMqttAccepts(d) == Required(d.unique_id) /\ Required(d.name) /\ Required(d.mqtt_path)

-----------------------------------------------------------------------------
(* The updaters of the device, with what its reader makes of the outcome *)

\* root[key] | factory, where only an integer counts; a uint16_t keeps its low bits.
Integer(v, factory) == IF v \in Nat THEN v ELSE factory
Short(v, factory) == Integer(v, factory) % ShortSize

readIP(v, factory) == IF v \in Addresses THEN v ELSE factory

writeIP(v) == IF v = "none" THEN Absent ELSE v

\* Wrong on purpose: a static configuration stays on without its addresses.
WiFiUpdateStatic(d) ==
    LET ip(v) == writeIP(readIP(v, "none"))
    IN  [d EXCEPT !.local_ip = ip(@), !.gateway_ip = ip(@), !.subnet_mask = ip(@),
                  !.dns_ip_1 = ip(@), !.dns_ip_2 = ip(@)]

WiFiUpdate(d) ==
    LET ip(v) == writeIP(readIP(v, "none"))
        swap == ip(d.dns_ip_1) = Absent
    IN  [d EXCEPT
            !.static_ip_config = @ /\ Absent \notin {ip(d.local_ip), ip(d.gateway_ip), ip(d.subnet_mask)},
            !.local_ip = ip(@), !.gateway_ip = ip(@), !.subnet_mask = ip(@),
            !.dns_ip_1 = IF swap THEN ip(d.dns_ip_2) ELSE ip(@),
            !.dns_ip_2 = IF swap THEN Absent ELSE ip(@)]

\* The check of the mode looks at the one that is stored.
APUpdate(d, stored) ==
    [d EXCEPT !.provision_mode = IF stored.provision_mode \in 0..2 THEN @ ELSE 0,
              !.local_ip = readIP(@, "ip"), !.gateway_ip = readIP(@, "ip"),
              !.subnet_mask = readIP(@, "ip2")]

MqttUpdate(d) ==
    [d EXCEPT !.port = Short(@, 1883), !.keep_alive = Short(@, 60),
              !.max_topic_length = Short(@, 128)]

OTAUpdate(d) == [d EXCEPT !.port = Integer(@, 8266)]

\* Every field of NTP, of the broker settings and of the light is stored as it is.
Update(form, d, stored) ==
    CASE form = "wifi" -> WiFiUpdate(d)
      [] form = "ap" -> APUpdate(d, stored)
      [] form = "mqtt" -> MqttUpdate(d)
      [] form = "ota" -> OTAUpdate(d)
      [] OTHER -> d

\* validateAndSubmit(): the form of the light has no validator.
Accepts(form, d) ==
    CASE form = "wifi" -> WiFiAccepts(d)
      [] form = "ap" -> APAccepts(d)
      [] form = "mqtt" -> MqttAccepts(d)
      [] form = "ntp" -> NTPAccepts(d)
      [] form = "ota" -> OTAAccepts(d)
      [] form = "lightMqtt" -> LightMqttAccepts(d)
      [] form = "light" -> TRUE

-----------------------------------------------------------------------------
(* What the inputs of a form offer *)

Typed ==
    [ssid |-> Ssids, password |-> Passwords, hostname |-> Hosts, static_ip_config |-> BOOLEAN,
     local_ip |-> Texts \ {"ip2"}, gateway_ip |-> {"", "none"}, subnet_mask |-> {"junk", "ip"},
     dns_ip_1 |-> {"", "ip"}, dns_ip_2 |-> {"junk", "ip"},
     provision_mode |-> 0..2, channel |-> {1, 13}, ssid_hidden |-> BOOLEAN, max_clients |-> {1, 8},
     enabled |-> BOOLEAN, host |-> Hosts, username |-> {"", "good"}, client_id |-> {"", "good"},
     port |-> {0, 1025, ShortSize - 1, ShortSize, NaN, Fraction},
     keep_alive |-> {0, 1, ShortSize, Day, NaN, Fraction},
     clean_session |-> BOOLEAN, max_topic_length |-> {15, 16, 1024, 1025, NaN, Fraction},
     server |-> Hosts, unique_id |-> Hosts, name |-> Hosts, mqtt_path |-> Hosts,
     led_on |-> BOOLEAN]

Networks == {[ssid |-> "cafe", open |-> TRUE], [ssid |-> "home", open |-> FALSE]}
isNetworkOpen(network) == network.open

\* What the form of the WiFi settings shows depends on the network that was
\* selected on the scanner's page.
WiFiShown(d, network) ==
    {"hostname", "static_ip_config"}
    \cup (IF network = Undefined THEN {"ssid"} ELSE {})
    \cup (IF network # Undefined /\ isNetworkOpen(network) THEN {} ELSE {"password"})
    \cup (IF d.static_ip_config
          THEN {"local_ip", "gateway_ip", "subnet_mask", "dns_ip_1", "dns_ip_2"} ELSE {})
APShown(d) ==
    {"provision_mode"}
    \cup (IF isAPEnabled(d)
          THEN {"ssid", "password", "channel", "ssid_hidden", "max_clients",
                "local_ip", "gateway_ip", "subnet_mask"} ELSE {})
MqttShown == {"enabled", "host", "port", "username", "password", "client_id",
              "keep_alive", "clean_session", "max_topic_length"}
NTPShown == {"enabled", "server"}
OTAShown == {"enabled", "port", "password"}
LightMqttShown == {"unique_id", "name", "mqtt_path"}
LightShown(saving) == IF saving THEN {} ELSE {"led_on"}

Shown(form, d, network, saving) ==
    CASE form = "wifi" -> WiFiShown(d, network)
      [] form = "ap" -> APShown(d)
      [] form = "mqtt" -> MqttShown
      [] form = "ntp" -> NTPShown
      [] form = "ota" -> OTAShown
      [] form = "lightMqtt" -> LightMqttShown
      [] form = "light" -> LightShown(saving)

TIME_ZONES == [London |-> "GMT0BST", Paris |-> "CET-1CEST", Rome |-> "CET-1CEST"]
selectedTimeZone(label, format) == IF TIME_ZONES[label] = format THEN label ELSE Undefined

-----------------------------------------------------------------------------
(* The form and the device *)

VARIABLES
    form,           \* which form it is
    device,         \* the settings of the device
    open,           \* the form is mounted
    data,           \* data of useRest
    errorMessage,   \* whether useRest has one
    fieldErrors,    \* whether the form shows errors of its validator
    saving,         \* saving of useRest
    selected,       \* selectedNetwork, for the form of the WiFi settings
    request,        \* the request of the form that awaits its answer
    late,           \* saves of a form that was left, yet to reach the device
    edits,          \* how often the user has edited
    saves,          \* how often anybody has saved
    edited,         \* history: data was edited since it came from the device
    behind          \* history: others have saved since data came from the device

user == <<data, errorMessage, fieldErrors, saving, selected, edits, edited>>
vars == <<form, device, open, user, request, late, saves, behind>>

Requests ==
    [op : {"read", "update"}, answered : BOOLEAN, body : Settings[form] \cup {Undefined}]

TypeOK ==
    /\ form \in Forms
    /\ device \in Settings[form]
    /\ open \in BOOLEAN /\ errorMessage \in BOOLEAN /\ fieldErrors \in BOOLEAN
    /\ saving \in BOOLEAN /\ edited \in BOOLEAN /\ behind \in BOOLEAN
    /\ data \in Settings[form] \cup {Undefined}
    /\ selected \in Networks \cup {Undefined}
    /\ request \in Requests \cup {Undefined}
    /\ late \subseteq (Nat \X Settings[form])
    /\ edits \in 0..MaxEdits /\ saves \in 0..MaxSaves

Init ==
    /\ form \in Forms
    /\ device \in Stored[form]
    /\ open = FALSE
    /\ data = Undefined /\ errorMessage = FALSE /\ fieldErrors = FALSE /\ saving = FALSE
    /\ selected = Undefined /\ request = Undefined /\ late = {}
    /\ edits = 0 /\ saves = 0 /\ edited = FALSE /\ behind = FALSE

loadData ==
    /\ data' = Undefined /\ errorMessage' = FALSE
    /\ request' = [op |-> "read", answered |-> FALSE, body |-> Undefined]

\* The form is mounted; a network may have been selected before.
Mount ==
    /\ ~open /\ open' = TRUE
    /\ loadData
    /\ fieldErrors' = FALSE /\ saving' = FALSE /\ edited' = FALSE /\ behind' = FALSE
    /\ selected' \in IF form = "wifi" THEN Networks \cup {Undefined} ELSE {Undefined}
    /\ UNCHANGED <<form, device, late, edits, saves>>

\* FormLoader shows the button if loading has failed.
Retry ==
    /\ open /\ data = Undefined /\ errorMessage
    /\ loadData
    /\ UNCHANGED <<form, device, open, fieldErrors, saving, selected, late, edits, saves,
                   edited, behind>>

\* HttpEndpoint: reads, or updates and reads.
HttpRequest ==
    /\ request # Undefined /\ ~request.answered
    /\ device' = IF request.op = "update" THEN Update(form, request.body, device) ELSE device
    /\ request' = [request EXCEPT !.answered = TRUE, !.body = device']
    /\ behind' = FALSE
    /\ UNCHANGED <<form, open, user, late, saves>>

\* Wrong on purpose: the former password goes to the network that was selected.
PrefilledKeeping(d) ==
    [d EXCEPT !.ssid = selected.ssid, !.static_ip_config = FALSE]

\* The effect that makes the settings of the selected network.
Prefilled(d) ==
    [d EXCEPT !.ssid = selected.ssid, !.password = "", !.static_ip_config = FALSE,
              !.local_ip = Absent, !.gateway_ip = Absent, !.subnet_mask = Absent,
              !.dns_ip_1 = Absent, !.dns_ip_2 = Absent]

Loaded ==
    /\ request # Undefined /\ request.answered /\ request.op = "read"
    /\ data' = IF selected = Undefined THEN request.body ELSE Prefilled(request.body)
    /\ edited' = (selected # Undefined)
    /\ request' = Undefined
    /\ UNCHANGED <<form, device, open, errorMessage, fieldErrors, saving, selected, late,
                   edits, saves, behind>>

\* Wrong on purpose: the form goes on showing what it has sent.
SavedAsSent ==
    /\ request # Undefined /\ request.answered /\ request.op = "update"
    /\ edited' = FALSE /\ saving' = FALSE /\ request' = Undefined
    /\ UNCHANGED <<form, device, open, data, errorMessage, fieldErrors, selected, late,
                   edits, saves, behind>>

\* Whatever was edited meanwhile is replaced.
Saved ==
    /\ request # Undefined /\ request.answered /\ request.op = "update"
    /\ data' = request.body
    /\ edited' = FALSE /\ saving' = FALSE /\ request' = Undefined
    /\ UNCHANGED <<form, device, open, errorMessage, fieldErrors, selected, late, edits,
                   saves, behind>>

\* Wrong on purpose: only a success ends the saving.
FailedSaving ==
    /\ request # Undefined
    /\ errorMessage' = TRUE /\ request' = Undefined
    /\ UNCHANGED <<form, device, open, data, fieldErrors, saving, selected, late, edits,
                   saves, edited, behind>>

\* The request or its answer is lost.
Failed ==
    /\ request # Undefined
    /\ errorMessage' = TRUE /\ saving' = FALSE /\ request' = Undefined
    /\ UNCHANGED <<form, device, open, data, fieldErrors, selected, late, edits, saves,
                   edited, behind>>

Edit ==
    /\ open /\ data # Undefined /\ edits < MaxEdits
    /\ \E f \in Shown(form, data, selected, saving) : \E v \in Typed[f] \ {data[f]} :
        data' = [data EXCEPT ![f] = v]
    /\ edits' = edits + 1 /\ edited' = TRUE
    /\ UNCHANGED <<form, device, open, errorMessage, fieldErrors, saving, selected, request,
                   late, saves, behind>>

changeTimeZone ==
    /\ open /\ form = "ntp" /\ data # Undefined /\ edits < MaxEdits
    /\ \E label \in DOMAIN TIME_ZONES :
        data' = [data EXCEPT !.tz_label = label, !.tz_format = TIME_ZONES[label]]
    /\ edits' = edits + 1 /\ edited' = TRUE
    /\ UNCHANGED <<form, device, open, errorMessage, fieldErrors, saving, selected, request,
                   late, saves, behind>>

deselectNetwork ==
    /\ open /\ data # Undefined /\ selected # Undefined
    /\ selected' = Undefined
    /\ UNCHANGED <<form, device, open, data, errorMessage, fieldErrors, saving, request,
                   late, edits, saves, edited, behind>>

\* The button is disabled while the form saves.
validateAndSubmit ==
    /\ open /\ data # Undefined /\ ~saving /\ saves < MaxSaves
    /\ \/ /\ Accepts(form, data)
          /\ saving' = TRUE /\ saves' = saves + 1
          /\ errorMessage' = FALSE /\ fieldErrors' = FALSE
          /\ request' = [op |-> "update", answered |-> FALSE, body |-> data]
       \/ /\ ~Accepts(form, data)
          /\ fieldErrors' = TRUE
          /\ UNCHANGED <<saving, saves, errorMessage, request>>
    /\ UNCHANGED <<form, device, open, data, selected, late, edits, edited, behind>>

\* A save that is under way is not called back.
Unmount ==
    /\ open /\ open' = FALSE
    /\ late' = late \cup
        (IF request # Undefined /\ request.op = "update" /\ ~request.answered
         THEN {<<saves, request.body>>} ELSE {})
    /\ data' = Undefined /\ errorMessage' = FALSE /\ fieldErrors' = FALSE /\ saving' = FALSE
    /\ selected' = Undefined /\ request' = Undefined /\ edited' = FALSE
    /\ UNCHANGED <<form, device, edits, saves, behind>>

LateRequest ==
    /\ \E l \in late :
        /\ device' = Update(form, l[2], device)
        /\ late' = late \ {l}
    /\ behind' = TRUE
    /\ UNCHANGED <<form, open, user, request, saves>>

\* Somebody else saves the same settings.
OtherSaves ==
    /\ saves < MaxSaves /\ saves' = saves + 1
    /\ \E d \in Stored[form] : device' = Update(form, d, device)
    /\ behind' = TRUE
    /\ UNCHANGED <<form, open, user, request, late>>

Next ==
    \/ Mount \/ Retry \/ HttpRequest \/ Loaded \/ Saved \/ Failed \/ Edit \/ changeTimeZone
    \/ deselectNetwork \/ validateAndSubmit \/ Unmount \/ LateRequest \/ OtherSaves

\* The device answers, and the browser gets the answer or gives up.
Spec == Init /\ [][Next]_vars /\ WF_vars(HttpRequest) /\ WF_vars(Loaded \/ Saved)

-----------------------------------------------------------------------------
(* Properties *)

WiFiLegal(d) ==
    /\ d.ssid # "long" /\ d.password # "long" /\ d.hostname \in {"host", "ip"}
    /\ d.static_ip_config => Absent \notin {d.local_ip, d.gateway_ip, d.subnet_mask}
    /\ d.dns_ip_1 = Absent => d.dns_ip_2 = Absent
    /\ {"", "junk", "none"} \cap
       {d.local_ip, d.gateway_ip, d.subnet_mask, d.dns_ip_1, d.dns_ip_2} = {}
APLegal(d) ==
    /\ isAPEnabled(d) => d.ssid \notin {"", "long"} /\ d.password = "good"
    /\ {d.local_ip, d.gateway_ip, d.subnet_mask} \subseteq Addresses
\* Of keep_alive only that it fits its 16 bits: KeepAliveInRange is its range.
MqttLegal(d) ==
    /\ d.host \in {"host", "ip"} /\ d.port \in 0..(ShortSize - 1)
    /\ d.keep_alive \in 0..(ShortSize - 1) /\ d.max_topic_length \in 16..1024
ZoneLegal(d) ==
    d.tz_format = "custom" \/ selectedTimeZone(d.tz_label, d.tz_format) = d.tz_label
NTPLegal(d) == d.server \in {"host", "ip"} /\ ZoneLegal(d)
OTALegal(d) == d.port \in 1025..(ShortSize - 1) /\ d.password \in {"short", "good"}
LightMqttLegal(d) == "" \notin {d.unique_id, d.name, d.mqtt_path}

Legal(f, d) ==
    CASE f = "wifi" -> WiFiLegal(d)
      [] f = "ap" -> APLegal(d)
      [] f = "mqtt" -> MqttLegal(d)
      [] f = "ntp" -> NTPLegal(d)
      [] f = "ota" -> OTALegal(d)
      [] f = "lightMqtt" -> LightMqttLegal(d)
      [] f = "light" -> TRUE

ASSUME StoredAssumption ==
    \A f \in Forms : \A d \in Stored[f] : d \in Settings[f] /\ Accepts(f, d) /\ Legal(f, d)

\* Whatever the user types, hides or saves, the device has settings it can run
\* with: a static configuration has its addresses, an access point that is
\* enabled its name and password, a time zone the rules that belong to it, a port
\* its range. The range of the broker's keep alive is KeepAliveInRange, which does
\* not hold.
SettingsLegal == Legal(form, device)

\* The validator's words: "Keep alive must be between 1 and 86400", the device's as
\* well. It has 16 bits for it, and what it keeps of 65536 is 0.
KeepAliveInRange == form = "mqtt" => device.keep_alive \in 1..Day

\* A form that nobody has edited shows what the device has stored, also after a
\* save whose data the device has changed, and after one that failed, unless
\* others have saved since.
ShownIsStored ==
    data # Undefined /\ request = Undefined /\ ~edited /\ ~behind => data = device

\* While a selected network hides the input of its name, and of the password if
\* it is open, the data have that name, and no password of another network.
SelectionKept ==
    data # Undefined /\ selected # Undefined =>
        /\ data.ssid = selected.ssid
        /\ isNetworkOpen(selected) => data.password = ""

\* A form does not load or save for ever: it gets data or offers to retry, and
\* its button is enabled again.
Settles ==
    /\ (open /\ data = Undefined /\ ~errorMessage) ~> (~open \/ data # Undefined \/ errorMessage)
    /\ saving ~> ~saving

=============================================================================
