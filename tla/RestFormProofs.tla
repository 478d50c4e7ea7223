--------------------------- MODULE RestFormProofs ---------------------------
(***************************************************************************)
(* Proofs about RestForm: for any settings that a device may start with,   *)
(* any number of edits and of saves, by this form or by others, the device *)
(* has settings it can run with.                                           *)
(***************************************************************************)
EXTENDS RestForm, TLAPS

-----------------------------------------------------------------------------
(* The updaters *)

LEMMA SettingsOf ==
  /\ Settings["wifi"] = WiFiSettings /\ Settings["ap"] = APSettings
  /\ Settings["mqtt"] = MqttSettings /\ Settings["ntp"] = NTPSettings
  /\ Settings["ota"] = OTASettings /\ Settings["lightMqtt"] = LightMqttSettings
  /\ Settings["light"] = LightState
  BY DEF Settings

LEMMA StoredAddress ==
  ASSUME NEW v
  PROVE  /\ writeIP(readIP(v, "none")) \in {"ip", "ip2", Absent}
         /\ readIP(v, "ip") \in Addresses /\ readIP(v, "ip2") \in Addresses
  BY DEF writeIP, readIP, Addresses

\* What the WiFi updater makes of settings, field by field.
LEMMA WiFiUpdated ==
  ASSUME NEW d \in WiFiSettings, NEW u, u = WiFiUpdate(d)
  PROVE  u \in WiFiSettings /\ (WiFiAccepts(d) => WiFiLegal(u))
<1> DEFINE ip(v) == writeIP(readIP(v, "none"))
<1>1. /\ u.ssid = d.ssid /\ u.password = d.password /\ u.hostname = d.hostname
      /\ u.static_ip_config =
           (d.static_ip_config /\ Absent \notin {ip(d.local_ip), ip(d.gateway_ip), ip(d.subnet_mask)})
      /\ u.local_ip = ip(d.local_ip) /\ u.gateway_ip = ip(d.gateway_ip)
      /\ u.subnet_mask = ip(d.subnet_mask)
      /\ u.dns_ip_1 = IF ip(d.dns_ip_1) = Absent THEN ip(d.dns_ip_2) ELSE ip(d.dns_ip_1)
      /\ u.dns_ip_2 = IF ip(d.dns_ip_1) = Absent THEN Absent ELSE ip(d.dns_ip_2)
  BY DEF WiFiUpdate, WiFiSettings
<1>2. /\ {u.local_ip, u.gateway_ip, u.subnet_mask, u.dns_ip_1, u.dns_ip_2} \subseteq {"ip", "ip2", Absent}
      /\ u.static_ip_config \in BOOLEAN
  BY <1>1, StoredAddress
<1>3. {"ip", "ip2", Absent} \subseteq AddressTexts
  BY DEF AddressTexts, Texts, Addresses
<1>4. u \in WiFiSettings
  BY <1>2, <1>3 DEF WiFiUpdate, WiFiSettings
<1>5. ASSUME WiFiAccepts(d) PROVE WiFiLegal(u)
  <2>1. u.ssid # "long" /\ u.password # "long" /\ u.hostname \in {"host", "ip"}
    BY <1>1, <1>5 DEF WiFiAccepts, IsHostname, Required
  <2>2. u.static_ip_config => Absent \notin {u.local_ip, u.gateway_ip, u.subnet_mask}
    BY <1>1
  <2>3. u.dns_ip_1 = Absent => u.dns_ip_2 = Absent
    BY <1>1
  <2>4. {"", "junk", "none"} \cap {u.local_ip, u.gateway_ip, u.subnet_mask, u.dns_ip_1, u.dns_ip_2} = {}
    BY <1>2, AbsentAssumption DEF Texts, Addresses
  <2> QED
    BY <2>1, <2>2, <2>3, <2>4 DEF WiFiLegal
<1> QED
  BY <1>4, <1>5

LEMMA APUpdated ==
  ASSUME NEW d \in APSettings, NEW stored \in APSettings, NEW u, u = APUpdate(d, stored)
  PROVE  u \in APSettings /\ (APAccepts(d) => APLegal(u))
<1>1. /\ u.local_ip = readIP(d.local_ip, "ip") /\ u.gateway_ip = readIP(d.gateway_ip, "ip")
      /\ u.subnet_mask = readIP(d.subnet_mask, "ip2")
      /\ u.provision_mode = d.provision_mode /\ u.ssid = d.ssid /\ u.password = d.password
  BY DEF APUpdate, APSettings
<1>2. {u.local_ip, u.gateway_ip, u.subnet_mask} \subseteq Addresses
  BY <1>1, StoredAddress
<1>3. u.local_ip \in Texts /\ u.gateway_ip \in Texts /\ u.subnet_mask \in Texts
  BY <1>2 DEF Texts
<1>4. u \in APSettings
  BY <1>1, <1>3 DEF APUpdate, APSettings
<1>5. ASSUME APAccepts(d), isAPEnabled(u) PROVE u.ssid \notin {"", "long"} /\ u.password = "good"
  BY <1>1, <1>5 DEF APAccepts, isAPEnabled, Required
<1> QED
  BY <1>2, <1>4, <1>5 DEF APLegal

Shorts == 0..(ShortSize - 1)

LEMMA ShortSizeFacts == ShortSize \in Nat /\ ShortSize > 9000
  BY DEF ShortSize

LEMMA ShortInRange ==
  ASSUME NEW v, NEW f \in Shorts
  PROVE  /\ Short(v, f) \in Shorts
         /\ v \in Shorts => Short(v, f) = v
         /\ v = Fraction => Short(v, f) = f
<1>1. ASSUME NEW n \in Nat PROVE n % ShortSize \in Shorts
  BY ShortSizeFacts DEF Shorts
<1>2. ASSUME NEW n \in Shorts PROVE n % ShortSize = n /\ n \in Nat
  BY ShortSizeFacts DEF Shorts
<1> DEFINE w == IF v \in Nat THEN v ELSE f
<1>3. Short(v, f) = w % ShortSize
  BY DEF Short, Integer
<1>4. w \in Nat
  BY <1>2
<1>5. v \in Shorts => w = v
  BY <1>2
<1>6. v = Fraction => w = f
  BY NumbersAssumption
<1> HIDE DEF w
<1> QED
  BY <1>1, <1>2, <1>3, <1>4, <1>5, <1>6

LEMMA MqttUpdated ==
  ASSUME NEW d \in MqttSettings, NEW u, u = MqttUpdate(d)
  PROVE  u \in MqttSettings /\ (MqttAccepts(d) => MqttLegal(u))
<1>1. /\ u.host = d.host /\ u.port = Short(d.port, 1883)
      /\ u.keep_alive = Short(d.keep_alive, 60)
      /\ u.max_topic_length = Short(d.max_topic_length, 128)
  BY DEF MqttUpdate, MqttSettings
<1>2. u.port \in Shorts /\ u.keep_alive \in Shorts /\ u.max_topic_length \in Shorts
  <2>1. 1883 \in Shorts /\ 60 \in Shorts /\ 128 \in Shorts
    BY ShortSizeFacts DEF Shorts
  <2> QED
    BY <1>1, <2>1, ShortInRange
<1>3. ASSUME NEW n \in Shorts PROVE n \in Numbers
  <2>1. n \in Nat
    BY ShortSizeFacts DEF Shorts
  <2> QED
    BY <2>1 DEF Numbers
<1>4. u.port \in Numbers /\ u.keep_alive \in Numbers /\ u.max_topic_length \in Numbers
  BY <1>2, <1>3
<1>5. u \in MqttSettings
  <2> DEFINE p == Short(d.port, 1883)
             k == Short(d.keep_alive, 60)
             l == Short(d.max_topic_length, 128)
  <2>1. p \in Numbers /\ k \in Numbers /\ l \in Numbers
    BY <1>1, <1>4
  <2>2. u = [d EXCEPT !.port = p, !.keep_alive = k, !.max_topic_length = l]
    BY DEF MqttUpdate, MqttSettings
  <2> HIDE DEF p, k, l
  <2> QED
    BY <2>1, <2>2 DEF MqttSettings
<1>6. ASSUME MqttAccepts(d) PROVE MqttLegal(u)
  <2>1. u.host \in {"host", "ip"}
    <3>1. d.host \in {"host", "ip"}
      BY <1>6 DEF MqttAccepts, Required, IsHostname
    <3> QED
      BY <1>1, <3>1
  <2>2. d.max_topic_length = Fraction \/ d.max_topic_length \in 16..1024
    BY <1>6 DEF MqttAccepts, Between
  <2>3. u.max_topic_length \in 16..1024
    <3>1. 128 \in Shorts /\ 128 \in 16..1024
      BY ShortSizeFacts DEF Shorts
    <3>2. ASSUME NEW n \in 16..1024 PROVE n \in Shorts
      BY ShortSizeFacts DEF Shorts
    <3> QED
      BY <1>1, <2>2, <3>1, <3>2, ShortInRange
  <2> QED
    BY <1>2, <2>1, <2>3 DEF MqttLegal, Shorts
<1> QED
  BY <1>5, <1>6

LEMMA OTAUpdated ==
  ASSUME NEW d \in OTASettings, NEW u, u = OTAUpdate(d)
  PROVE  u \in OTASettings /\ (OTAAccepts(d) => OTALegal(u))
<1>1. u.port = Integer(d.port, 8266) /\ u.password = d.password
  BY DEF OTAUpdate, OTASettings
<1>2. u.port \in Numbers
  BY <1>1 DEF Integer, Numbers
<1>3. u \in OTASettings
  BY <1>2 DEF OTAUpdate, OTASettings
<1>4. ASSUME OTAAccepts(d) PROVE OTALegal(u)
  <2> DEFINE S == 1025..(ShortSize - 1)
  <2>1. d.port = Fraction \/ d.port \in S
    BY <1>4 DEF OTAAccepts, Between
  <2>2. 8266 \in S
    BY ShortSizeFacts
  <2>3. ASSUME NEW n \in S PROVE n \in Nat
    BY ShortSizeFacts
  <2>4. u.password \in {"short", "good"}
    BY <1>1, <1>4 DEF OTAAccepts
  <2>5. u.port \in S => OTALegal(u)
    BY <2>4 DEF OTALegal
  <2> HIDE DEF S
  <2>6. u.port \in S
    BY <1>1, <2>1, <2>2, <2>3, NumbersAssumption DEF Integer
  <2> QED
    BY <2>5, <2>6
<1> QED
  BY <1>3, <1>4

FormNames == {"wifi", "ap", "mqtt", "ntp", "ota", "lightMqtt", "light"}

\* Settings that keep the rules of their time zone.
Sound(f, d) == f = "ntp" => ZoneLegal(d)

\* Settings that a form may send.
Acceptable(f, d) == d \in Settings[f] /\ Accepts(f, d) /\ Sound(f, d)

\* Of everything that is sent the device makes settings it can run with.
LEMMA Updated ==
  ASSUME NEW f \in FormNames, NEW d, Acceptable(f, d), NEW stored \in Settings[f]
  PROVE  Update(f, d, stored) \in Settings[f] /\ Legal(f, Update(f, d, stored))
<1>1. d \in Settings[f] /\ Accepts(f, d) /\ Sound(f, d)
  BY DEF Acceptable
<1>2. CASE f = "wifi"
  <2>1. d \in WiFiSettings /\ WiFiAccepts(d) /\ Update(f, d, stored) = WiFiUpdate(d)
    BY <1>1, <1>2, SettingsOf DEF Accepts, Update
  <2>2. WiFiUpdate(d) \in WiFiSettings /\ WiFiLegal(WiFiUpdate(d))
    BY <2>1, WiFiUpdated
  <2> QED
    BY <1>2, <2>1, <2>2, SettingsOf DEF Legal
<1>3. CASE f = "ap"
  <2>1. d \in APSettings /\ stored \in APSettings /\ APAccepts(d) /\ Update(f, d, stored) = APUpdate(d, stored)
    BY <1>1, <1>3, SettingsOf DEF Accepts, Update
  <2>2. APUpdate(d, stored) \in APSettings /\ APLegal(APUpdate(d, stored))
    BY <2>1, APUpdated
  <2> QED
    BY <1>3, <2>1, <2>2, SettingsOf DEF Legal
<1>4. CASE f = "mqtt"
  <2>1. d \in MqttSettings /\ MqttAccepts(d) /\ Update(f, d, stored) = MqttUpdate(d)
    BY <1>1, <1>4, SettingsOf DEF Accepts, Update
  <2>2. MqttUpdate(d) \in MqttSettings /\ MqttLegal(MqttUpdate(d))
    BY <2>1, MqttUpdated
  <2> QED
    BY <1>4, <2>1, <2>2, SettingsOf DEF Legal
<1>5. CASE f = "ota"
  <2>1. d \in OTASettings /\ OTAAccepts(d) /\ Update(f, d, stored) = OTAUpdate(d)
    BY <1>1, <1>5, SettingsOf DEF Accepts, Update
  <2>2. OTAUpdate(d) \in OTASettings /\ OTALegal(OTAUpdate(d))
    BY <2>1, OTAUpdated
  <2> QED
    BY <1>5, <2>1, <2>2, SettingsOf DEF Legal
<1>6. CASE f = "ntp"
  <2>1. Update(f, d, stored) = d
    BY <1>6 DEF Update
  <2>2. NTPAccepts(d) /\ ZoneLegal(d)
    BY <1>1, <1>6 DEF Accepts, Sound
  <2>3. NTPLegal(d)
    BY <2>2 DEF NTPAccepts, NTPLegal, Required, IsHostname
  <2> QED
    BY <1>1, <1>6, <2>1, <2>3 DEF Legal
<1>7. CASE f = "lightMqtt"
  <2>1. Update(f, d, stored) = d
    BY <1>7 DEF Update
  <2>2. LightMqttAccepts(d)
    BY <1>1, <1>7 DEF Accepts
  <2>3. LightMqttLegal(d)
    BY <2>2 DEF LightMqttAccepts, LightMqttLegal, Required
  <2> QED
    BY <1>1, <1>7, <2>1, <2>3 DEF Legal
<1>8. CASE f = "light"
  BY <1>1, <1>8 DEF Update, Legal
<1> QED
  BY <1>2, <1>3, <1>4, <1>5, <1>6, <1>7, <1>8 DEF FormNames

LEMMA LegalIsSound ==
  ASSUME NEW f \in FormNames, NEW d, Legal(f, d)
  PROVE  Sound(f, d)
  BY DEF Legal, Sound, NTPLegal

-----------------------------------------------------------------------------
(* A save of what is stored changes nothing *)

LEMMA WiFiFixed ==
  ASSUME NEW d \in WiFiSettings, WiFiLegal(d)
  PROVE  WiFiUpdate(d) = d
<1> DEFINE ip(v) == writeIP(readIP(v, "none"))
<1>1. ASSUME NEW v \in AddressTexts, v \notin {"", "junk", "none"} PROVE ip(v) = v
  BY <1>1, AbsentAssumption DEF readIP, writeIP, Addresses, AddressTexts, Texts
<1>2. /\ d.local_ip \in AddressTexts /\ d.gateway_ip \in AddressTexts /\ d.subnet_mask \in AddressTexts
      /\ d.dns_ip_1 \in AddressTexts /\ d.dns_ip_2 \in AddressTexts
  BY DEF WiFiSettings
<1>3. {"", "junk", "none"} \cap {d.local_ip, d.gateway_ip, d.subnet_mask, d.dns_ip_1, d.dns_ip_2} = {}
  BY DEF WiFiLegal
<1>4. /\ ip(d.local_ip) = d.local_ip /\ ip(d.gateway_ip) = d.gateway_ip
      /\ ip(d.subnet_mask) = d.subnet_mask
      /\ ip(d.dns_ip_1) = d.dns_ip_1 /\ ip(d.dns_ip_2) = d.dns_ip_2
  BY <1>1, <1>2, <1>3
<1> DEFINE static == d.static_ip_config /\ Absent \notin {ip(d.local_ip), ip(d.gateway_ip), ip(d.subnet_mask)}
           dns1 == IF ip(d.dns_ip_1) = Absent THEN ip(d.dns_ip_2) ELSE ip(d.dns_ip_1)
           dns2 == IF ip(d.dns_ip_1) = Absent THEN Absent ELSE ip(d.dns_ip_2)
<1>5. static = d.static_ip_config
  <2>1. d.static_ip_config \in BOOLEAN
    BY DEF WiFiSettings
  <2>2. d.static_ip_config => Absent \notin {d.local_ip, d.gateway_ip, d.subnet_mask}
    BY DEF WiFiLegal
  <2> QED
    BY <1>4, <2>1, <2>2
<1>6. dns1 = d.dns_ip_1 /\ dns2 = d.dns_ip_2
  BY <1>4 DEF WiFiLegal
<1>7. WiFiUpdate(d) =
        [d EXCEPT !.static_ip_config = static,
                  !.local_ip = ip(d.local_ip), !.gateway_ip = ip(d.gateway_ip),
                  !.subnet_mask = ip(d.subnet_mask), !.dns_ip_1 = dns1, !.dns_ip_2 = dns2]
  BY DEF WiFiUpdate, WiFiSettings
<1> HIDE DEF ip, static, dns1, dns2
<1>8. WiFiUpdate(d) =
        [d EXCEPT !.static_ip_config = d.static_ip_config,
                  !.local_ip = d.local_ip, !.gateway_ip = d.gateway_ip,
                  !.subnet_mask = d.subnet_mask, !.dns_ip_1 = d.dns_ip_1, !.dns_ip_2 = d.dns_ip_2]
  BY <1>4, <1>5, <1>6, <1>7
<1> QED
  BY <1>8 DEF WiFiSettings

LEMMA APFixed ==
  ASSUME NEW d \in APSettings, NEW stored \in APSettings, APLegal(d)
  PROVE  APUpdate(d, stored) = d
<1>1. ASSUME NEW v \in Addresses, NEW g PROVE readIP(v, g) = v
  BY <1>1 DEF readIP
<1>2. d.local_ip \in Addresses /\ d.gateway_ip \in Addresses /\ d.subnet_mask \in Addresses
  BY DEF APLegal
<1> DEFINE l == readIP(d.local_ip, "ip")
           g == readIP(d.gateway_ip, "ip")
           s == readIP(d.subnet_mask, "ip2")
<1>3. l = d.local_ip /\ g = d.gateway_ip /\ s = d.subnet_mask
  BY <1>1, <1>2
<1>4. APUpdate(d, stored) =
        [d EXCEPT !.provision_mode = d.provision_mode, !.local_ip = l, !.gateway_ip = g, !.subnet_mask = s]
  BY DEF APUpdate, APSettings
<1> HIDE DEF l, g, s
<1> QED
  BY <1>3, <1>4 DEF APSettings

LEMMA MqttFixed ==
  ASSUME NEW d \in MqttSettings, MqttLegal(d)
  PROVE  MqttUpdate(d) = d
<1> DEFINE p == Short(d.port, 1883)
           k == Short(d.keep_alive, 60)
           l == Short(d.max_topic_length, 128)
<1>1. d.port \in Shorts /\ d.keep_alive \in Shorts /\ d.max_topic_length \in Shorts
  <2>1. ASSUME NEW n \in 16..1024 PROVE n \in Shorts
    BY ShortSizeFacts DEF Shorts
  <2>2. d.port \in Shorts /\ d.keep_alive \in Shorts
    BY DEF MqttLegal, Shorts
  <2> QED
    BY <2>1, <2>2 DEF MqttLegal
<1>2. 1883 \in Shorts /\ 60 \in Shorts /\ 128 \in Shorts
  BY ShortSizeFacts DEF Shorts
<1>3. p = d.port /\ k = d.keep_alive /\ l = d.max_topic_length
  BY <1>1, <1>2, ShortInRange
<1>4. MqttUpdate(d) = [d EXCEPT !.port = p, !.keep_alive = k, !.max_topic_length = l]
  BY DEF MqttUpdate, MqttSettings
<1> HIDE DEF p, k, l
<1> QED
  BY <1>3, <1>4 DEF MqttSettings

LEMMA OTAFixed ==
  ASSUME NEW d \in OTASettings, OTALegal(d)
  PROVE  OTAUpdate(d) = d
<1>1. Integer(d.port, 8266) = d.port
  BY ShortSizeFacts DEF OTALegal, Integer
<1> DEFINE p == Integer(d.port, 8266)
<1>2. OTAUpdate(d) = [d EXCEPT !.port = p]
  BY DEF OTAUpdate, OTASettings
<1>3. p = d.port
  BY <1>1
<1> HIDE DEF p
<1> QED
  BY <1>2, <1>3 DEF OTASettings

LEMMA LegalIsFixed ==
  ASSUME NEW f \in FormNames, NEW d \in Settings[f], NEW stored \in Settings[f], Legal(f, d)
  PROVE  Update(f, d, stored) = d
<1>1. CASE f = "wifi"
  BY <1>1, SettingsOf, WiFiFixed DEF Update, Legal
<1>2. CASE f = "ap"
  BY <1>2, SettingsOf, APFixed DEF Update, Legal
<1>3. CASE f = "mqtt"
  BY <1>3, SettingsOf, MqttFixed DEF Update, Legal
<1>4. CASE f = "ota"
  BY <1>4, SettingsOf, OTAFixed DEF Update, Legal
<1>5. CASE f \in {"ntp", "lightMqtt", "light"}
  BY <1>5 DEF Update
<1> QED
  BY <1>1, <1>2, <1>3, <1>4, <1>5 DEF FormNames

-----------------------------------------------------------------------------
(* What the user does keeps the types *)

LEMMA TypedTexts ==
  /\ Typed["ssid"] \subseteq Ssids /\ Typed["password"] \subseteq Passwords
  /\ Typed["hostname"] \subseteq Hosts /\ Typed["static_ip_config"] \subseteq BOOLEAN
  /\ Typed["local_ip"] \subseteq Texts /\ Typed["gateway_ip"] \subseteq Texts
  /\ Typed["subnet_mask"] \subseteq Texts
  /\ Typed["dns_ip_1"] \subseteq Texts /\ Typed["dns_ip_2"] \subseteq Texts
  /\ Typed["provision_mode"] \subseteq 0..2 /\ Typed["channel"] \subseteq 1..13
  /\ Typed["ssid_hidden"] \subseteq BOOLEAN /\ Typed["max_clients"] \subseteq 1..8
  /\ Typed["enabled"] \subseteq BOOLEAN /\ Typed["clean_session"] \subseteq BOOLEAN
  /\ Typed["led_on"] \subseteq BOOLEAN
  /\ Typed["host"] \subseteq Hosts /\ Typed["server"] \subseteq Hosts
  /\ Typed["unique_id"] \subseteq Hosts /\ Typed["name"] \subseteq Hosts
  /\ Typed["mqtt_path"] \subseteq Hosts
  /\ Typed["username"] \subseteq Passwords /\ Typed["client_id"] \subseteq Passwords
<1>1. Typed["provision_mode"] \subseteq 0..2 /\ Typed["channel"] \subseteq 1..13
  BY DEF Typed
<1>2. Typed["max_clients"] \subseteq 1..8
  BY DEF Typed
<1>3. /\ Typed["local_ip"] \subseteq Texts /\ Typed["gateway_ip"] \subseteq Texts
      /\ Typed["subnet_mask"] \subseteq Texts
      /\ Typed["dns_ip_1"] \subseteq Texts /\ Typed["dns_ip_2"] \subseteq Texts
  BY DEF Typed, Texts, Addresses
<1>4. /\ Typed["username"] \subseteq Passwords /\ Typed["client_id"] \subseteq Passwords
  BY DEF Typed, Passwords
<1> QED
  BY <1>1, <1>2, <1>3, <1>4 DEF Typed

LEMMA TypedNumbers ==
  /\ Typed["port"] \subseteq Numbers /\ Typed["keep_alive"] \subseteq Numbers
  /\ Typed["max_topic_length"] \subseteq Numbers
<1>1. ShortSize \in Numbers /\ ShortSize - 1 \in Numbers
  BY ShortSizeFacts DEF Numbers
<1>2. Day \in Numbers
  BY DEF Day, Numbers
<1>3. {0, 1, 15, 16, 1024, 1025, NaN, Fraction} \subseteq Numbers
  BY DEF Numbers
<1> QED
  BY <1>1, <1>2, <1>3 DEF Typed

\* An input changes one field, to a value of its type.
LEMMA Edited ==
  ASSUME NEW f \in FormNames, NEW d \in Settings[f], NEW network, NEW busy,
         NEW field \in Shown(f, d, network, busy), NEW v \in Typed[field],
         NEW e, e = [d EXCEPT ![field] = v]
  PROVE  e \in Settings[f] /\ (Sound(f, d) => Sound(f, e))
<1>1. CASE f = "wifi"
  <2>1. field \in {"hostname", "static_ip_config", "ssid", "password", "local_ip", "gateway_ip",
                   "subnet_mask", "dns_ip_1", "dns_ip_2"}
    BY <1>1 DEF Shown, WiFiShown
  <2>2. Texts \subseteq AddressTexts
    BY DEF AddressTexts
  <2>3. e \in WiFiSettings
    BY <1>1, <2>1, <2>2, TypedTexts, SettingsOf DEF WiFiSettings
  <2> QED
    BY <1>1, <2>3, SettingsOf DEF Sound
<1>2. CASE f = "ap"
  <2>1. field \in {"provision_mode", "ssid", "password", "channel", "ssid_hidden", "max_clients",
                   "local_ip", "gateway_ip", "subnet_mask"}
    BY <1>2 DEF Shown, APShown
  <2>2. e \in APSettings
    BY <1>2, <2>1, TypedTexts, SettingsOf DEF APSettings
  <2> QED
    BY <1>2, <2>2, SettingsOf DEF Sound
<1>3. CASE f = "mqtt"
  <2>1. field \in {"enabled", "host", "port", "username", "password", "client_id", "keep_alive",
                   "clean_session", "max_topic_length"}
    BY <1>3 DEF Shown, MqttShown
  <2>2. e \in MqttSettings
    BY <1>3, <2>1, TypedTexts, TypedNumbers, SettingsOf DEF MqttSettings
  <2> QED
    BY <1>3, <2>2, SettingsOf DEF Sound
<1>4. CASE f = "ntp"
  <2>1. field \in {"enabled", "server"}
    BY <1>4 DEF Shown, NTPShown
  <2>2. e \in NTPSettings /\ e.tz_label = d.tz_label /\ e.tz_format = d.tz_format
    BY <1>4, <2>1, TypedTexts, SettingsOf DEF NTPSettings
  <2> QED
    BY <1>4, <2>2, SettingsOf DEF Sound, ZoneLegal
<1>5. CASE f = "ota"
  <2>1. field \in {"enabled", "port", "password"}
    BY <1>5 DEF Shown, OTAShown
  <2>2. e \in OTASettings
    BY <1>5, <2>1, TypedTexts, TypedNumbers, SettingsOf DEF OTASettings
  <2> QED
    BY <1>5, <2>2, SettingsOf DEF Sound
<1>6. CASE f = "lightMqtt"
  <2>1. field \in {"unique_id", "name", "mqtt_path"}
    BY <1>6 DEF Shown, LightMqttShown
  <2>2. e \in LightMqttSettings
    BY <1>6, <2>1, TypedTexts, SettingsOf DEF LightMqttSettings
  <2> QED
    BY <1>6, <2>2, SettingsOf DEF Sound
<1>7. CASE f = "light"
  <2>1. field = "led_on"
    BY <1>7 DEF Shown, LightShown
  <2>2. e \in LightState
    BY <1>7, <2>1, TypedTexts, SettingsOf DEF LightState
  <2> QED
    BY <1>7, <2>2, SettingsOf DEF Sound
<1> QED
  BY <1>1, <1>2, <1>3, <1>4, <1>5, <1>6, <1>7 DEF FormNames

\* A time zone comes with its rules.
LEMMA ZoneChosen ==
  ASSUME NEW d \in NTPSettings, NEW label \in DOMAIN TIME_ZONES,
         NEW e, e = [d EXCEPT !.tz_label = label, !.tz_format = TIME_ZONES[label]]
  PROVE  e \in NTPSettings /\ ZoneLegal(e)
<1>1. label \in Zones /\ TIME_ZONES[label] \in Formats
  BY DEF TIME_ZONES, Zones, Formats
<1>2. e.tz_label = label /\ e.tz_format = TIME_ZONES[label]
  BY DEF NTPSettings
<1>3. e \in NTPSettings
  BY <1>1 DEF NTPSettings
<1> QED
  BY <1>2, <1>3 DEF ZoneLegal, selectedTimeZone

LEMMA PrefilledType ==
  ASSUME NEW d \in WiFiSettings, selected \in Networks, NEW e, e = Prefilled(d)
  PROVE  /\ e \in WiFiSettings
         /\ e.ssid = selected.ssid /\ e.password = ""
<1>1. selected.ssid \in Ssids
  <2>1. selected.ssid \in {"cafe", "home"}
    BY DEF Networks
  <2> QED
    BY <2>1 DEF Ssids
<1>2. "" \in Passwords /\ Absent \in AddressTexts
  BY DEF Passwords, AddressTexts
<1> QED
  BY <1>1, <1>2 DEF Prefilled, WiFiSettings

-----------------------------------------------------------------------------
(* The inductive invariant *)

\* Settings of the network that is selected.
Kept(d) ==
    selected # Undefined =>
        d.ssid = selected.ssid /\ (isNetworkOpen(selected) => d.password = "")

DataInv ==
    /\ selected # Undefined => form = "wifi"
    /\ data # Undefined =>
        /\ Sound(form, data) /\ Kept(data)
        /\ ~edited => Legal(form, data)

\* A request carries what the form accepted, and as long as nobody edits it that
\* is what is shown; its answer is what the device has unless others save.
RequestInv ==
    request # Undefined =>
        /\ request.op = "read" => data = Undefined
        /\ request.op = "update" /\ ~request.answered =>
            /\ Acceptable(form, request.body) /\ Kept(request.body)
            /\ ~edited => request.body = data
        /\ request.answered =>
            /\ request.body \in Settings[form] /\ Legal(form, request.body)
            /\ request.op = "update" => Kept(request.body)
            /\ ~behind => request.body = device

CurrentInv == data # Undefined /\ ~edited /\ ~behind => data = device
LateInv == \A l \in late : Acceptable(form, l[2])

FormInv ==
    TypeOK /\ SettingsLegal /\ DataInv /\ RequestInv /\ CurrentInv /\ LateInv

LEMMA FormOf ==
  ASSUME TypeOK
  PROVE  form \in FormNames /\ form \in Forms
  BY FormsAssumption DEF TypeOK, FormNames

LEMMA StoredIsAcceptable ==
  ASSUME NEW f \in Forms, NEW d \in Stored[f]
  PROVE  d \in Settings[f] /\ Acceptable(f, d) /\ Legal(f, d)
<1>1. f \in FormNames
  BY FormsAssumption DEF FormNames
<1> QED
  BY <1>1, StoredAssumption, LegalIsSound DEF Acceptable

LEMMA InitFormInv == Init => FormInv
<1> SUFFICES ASSUME Init PROVE FormInv
  OBVIOUS
<1>1. form \in Forms /\ device \in Settings[form] /\ Legal(form, device)
  BY StoredIsAcceptable DEF Init
<1>2. TypeOK
  <2>1. edits \in 0..MaxEdits /\ saves \in 0..MaxSaves
    BY BoundsAssumption DEF Init
  <2> QED
    BY <1>1, <2>1 DEF Init, TypeOK
<1> QED
  BY <1>1, <1>2 DEF Init, FormInv, SettingsLegal, DataInv, RequestInv, CurrentInv, LateInv

LEMMA LoadDataInv ==
  ASSUME FormInv, loadData, UNCHANGED <<form, device, late, edits, saves>>,
         open' \in BOOLEAN /\ fieldErrors' \in BOOLEAN /\ saving' \in BOOLEAN
            /\ edited' \in BOOLEAN /\ behind' \in BOOLEAN,
         selected' \in Networks \cup {Undefined}, selected' # Undefined => form = "wifi"
  PROVE  FormInv'
<1>a. TypeOK /\ SettingsLegal /\ LateInv
  BY DEF FormInv
<1>1. request' \in Requests /\ request'.op = "read" /\ request'.answered = FALSE
  BY DEF loadData, Requests
<1>2. data' = Undefined /\ errorMessage' = FALSE
  BY DEF loadData
<1>3. TypeOK'
  BY <1>a, <1>1, <1>2 DEF TypeOK, Requests
<1>4. (SettingsLegal /\ LateInv)'
  BY <1>a DEF SettingsLegal, LateInv
<1>5. (DataInv /\ RequestInv /\ CurrentInv)'
  BY <1>1, <1>2 DEF DataInv, RequestInv, CurrentInv
<1> QED
  BY <1>3, <1>4, <1>5 DEF FormInv

LEMMA HttpRequestInv ==
  ASSUME FormInv, HttpRequest
  PROVE  FormInv'
<1>a. TypeOK /\ SettingsLegal /\ DataInv /\ RequestInv /\ CurrentInv /\ LateInv
  BY DEF FormInv
<1>b. form \in FormNames /\ device \in Settings[form] /\ request \in Requests
  BY <1>a, FormOf DEF HttpRequest, TypeOK
<1>1. /\ request # Undefined /\ ~request.answered /\ behind' = FALSE
      /\ device' = IF request.op = "update" THEN Update(form, request.body, device) ELSE device
      /\ request' = [request EXCEPT !.answered = TRUE, !.body = device']
      /\ UNCHANGED <<form, open, data, errorMessage, fieldErrors, saving, selected, edits, edited, late, saves>>
  BY DEF HttpRequest, user
<1>2. device' \in Settings[form] /\ Legal(form, device')
  <2>1. CASE request.op = "update"
    <3>1. Acceptable(form, request.body)
      BY <1>a, <1>1, <2>1 DEF RequestInv
    <3> QED
      BY <1>b, <1>1, <2>1, <3>1, Updated
  <2>2. CASE request.op # "update"
    BY <1>a, <1>b, <1>1, <2>2 DEF SettingsLegal
  <2> QED
    BY <2>1, <2>2
<1>3. /\ request' \in Requests
      /\ request'.op = request.op /\ request'.answered = TRUE /\ request'.body = device'
  BY <1>b, <1>1, <1>2 DEF Requests
<1>4. TypeOK'
  BY <1>a, <1>1, <1>2, <1>3 DEF TypeOK, Requests
<1>5. (SettingsLegal /\ DataInv /\ LateInv)'
  BY <1>a, <1>1, <1>2 DEF SettingsLegal, DataInv, Kept, LateInv
<1>6. CurrentInv'
  <2>1. SUFFICES ASSUME data # Undefined, ~edited PROVE data = device'
    BY <1>1 DEF CurrentInv
  <2>2. request.op = "update" /\ request.body = data
    BY <1>a, <1>b, <1>1, <2>1 DEF RequestInv, Requests
  <2>3. Legal(form, data) /\ data \in Settings[form]
    BY <1>a, <2>1 DEF DataInv, TypeOK
  <2> QED
    BY <1>b, <1>1, <2>2, <2>3, LegalIsFixed
<1>7. RequestInv'
  <2>1. request.op = "update" => Kept(device')
    <3>1. SUFFICES ASSUME request.op = "update", selected # Undefined PROVE Kept(device')
      BY DEF Kept
    <3>2. form = "wifi" /\ Acceptable(form, request.body) /\ Kept(request.body)
      BY <1>a, <1>1, <3>1 DEF DataInv, RequestInv
    <3>3. request.body \in WiFiSettings /\ device' = WiFiUpdate(request.body)
      BY <1>1, <3>1, <3>2, SettingsOf DEF Acceptable, Update
    <3>4. device'.ssid = request.body.ssid /\ device'.password = request.body.password
      BY <3>3 DEF WiFiUpdate, WiFiSettings
    <3> QED
      BY <3>2, <3>4 DEF Kept
  <2> QED
    BY <1>a, <1>1, <1>2, <1>3, <2>1 DEF RequestInv, Kept
<1> QED
  BY <1>4, <1>5, <1>6, <1>7 DEF FormInv

LEMMA LoadedInv ==
  ASSUME FormInv, Loaded
  PROVE  FormInv'
<1>a. TypeOK /\ SettingsLegal /\ DataInv /\ RequestInv /\ CurrentInv /\ LateInv
  BY DEF FormInv
<1>1. /\ request # Undefined /\ request.answered
      /\ data' = IF selected = Undefined THEN request.body ELSE Prefilled(request.body)
      /\ edited' = (selected # Undefined) /\ request' = Undefined
      /\ UNCHANGED <<form, device, open, errorMessage, fieldErrors, saving, selected, late,
                     edits, saves, behind>>
  BY DEF Loaded
<1>b. form \in FormNames
  BY <1>a, FormOf
<1>2. /\ request.body \in Settings[form] /\ Legal(form, request.body)
      /\ ~behind => request.body = device
  BY <1>a, <1>1 DEF RequestInv
<1>3. data' \in Settings[form] /\ Sound(form, data') /\ Kept(data')
  <2>1. CASE selected = Undefined
    BY <1>b, <1>1, <1>2, <2>1, LegalIsSound DEF Kept
  <2>2. CASE selected # Undefined
    <3>1. form = "wifi" /\ selected \in Networks
      BY <1>a, <2>2 DEF DataInv, TypeOK
    <3>2. request.body \in WiFiSettings /\ data' = Prefilled(request.body)
      BY <1>1, <1>2, <2>2, <3>1, SettingsOf
    <3> QED
      BY <3>1, <3>2, PrefilledType, SettingsOf DEF Sound, Kept
  <2> QED
    BY <2>1, <2>2
<1>4. TypeOK'
  BY <1>a, <1>1, <1>3 DEF TypeOK, Requests
<1>5. (SettingsLegal /\ LateInv /\ RequestInv)'
  BY <1>a, <1>1 DEF SettingsLegal, LateInv, RequestInv
<1>6. (DataInv /\ CurrentInv)'
  BY <1>a, <1>1, <1>2, <1>3 DEF DataInv, CurrentInv, Kept
<1> QED
  BY <1>4, <1>5, <1>6 DEF FormInv

LEMMA SavedInv ==
  ASSUME FormInv, Saved
  PROVE  FormInv'
<1>a. TypeOK /\ SettingsLegal /\ DataInv /\ RequestInv /\ CurrentInv /\ LateInv
  BY DEF FormInv
<1>b. form \in FormNames
  BY <1>a, FormOf
<1>1. /\ request # Undefined /\ request.answered /\ request.op = "update"
      /\ data' = request.body /\ edited' = FALSE /\ saving' = FALSE /\ request' = Undefined
      /\ UNCHANGED <<form, device, open, errorMessage, fieldErrors, selected, late, edits,
                     saves, behind>>
  BY DEF Saved
<1>2. /\ request.body \in Settings[form] /\ Legal(form, request.body) /\ Kept(request.body)
      /\ ~behind => request.body = device
  BY <1>a, <1>1 DEF RequestInv
<1>3. TypeOK'
  BY <1>a, <1>1, <1>2 DEF TypeOK, Requests
<1>4. (SettingsLegal /\ LateInv /\ RequestInv)'
  BY <1>a, <1>1 DEF SettingsLegal, LateInv, RequestInv
<1>5. Sound(form, request.body)
  BY <1>b, <1>2, LegalIsSound
<1>6. (DataInv /\ CurrentInv)'
  BY <1>a, <1>1, <1>2, <1>5 DEF DataInv, CurrentInv, Kept
<1> QED
  BY <1>3, <1>4, <1>6 DEF FormInv

LEMMA EditInv ==
  ASSUME FormInv, Edit \/ changeTimeZone
  PROVE  FormInv'
<1>a. TypeOK /\ SettingsLegal /\ DataInv /\ RequestInv /\ CurrentInv /\ LateInv
  BY DEF FormInv
<1>b. form \in FormNames
  BY <1>a, FormOf
<1>1. /\ data # Undefined /\ edits' = edits + 1 /\ edits < MaxEdits /\ edited' = TRUE
      /\ UNCHANGED <<form, device, open, errorMessage, fieldErrors, saving, selected, request,
                     late, saves, behind>>
  BY DEF Edit, changeTimeZone
<1>c. data \in Settings[form] /\ Sound(form, data) /\ Kept(data)
  BY <1>a, <1>1 DEF TypeOK, DataInv
<1>2. data' \in Settings[form] /\ Sound(form, data') /\ Kept(data')
  <2>1. CASE Edit
    <3>0. PICK f \in Shown(form, data, selected, saving) :
            \E v \in Typed[f] : data' = [data EXCEPT ![f] = v]
      BY <2>1 DEF Edit
    <3>1. PICK v \in Typed[f] : data' = [data EXCEPT ![f] = v]
      BY <3>0
    <3>2. data' \in Settings[form] /\ Sound(form, data')
      BY <1>b, <1>c, <3>1, Edited
    <3>3. ASSUME selected # Undefined
          PROVE  data'.ssid = data.ssid /\ (isNetworkOpen(selected) => data'.password = data.password)
      <4>1. form = "wifi" /\ data \in WiFiSettings
        BY <1>a, <1>c, <3>3, SettingsOf DEF DataInv
      <4>2. f # "ssid" /\ (isNetworkOpen(selected) => f # "password")
        BY <3>1, <3>3, <4>1 DEF Shown, WiFiShown
      <4> QED
        BY <3>1, <4>1, <4>2 DEF WiFiSettings
    <3> QED
      BY <1>c, <3>2, <3>3 DEF Kept
  <2>2. CASE changeTimeZone
    <3>1. form = "ntp" /\ data \in NTPSettings
      BY <1>c, <2>2, SettingsOf DEF changeTimeZone
    <3>2. PICK label \in DOMAIN TIME_ZONES :
            data' = [data EXCEPT !.tz_label = label, !.tz_format = TIME_ZONES[label]]
      BY <2>2 DEF changeTimeZone
    <3>3. data' \in NTPSettings /\ ZoneLegal(data')
      BY <3>1, <3>2, ZoneChosen
    <3>4. selected = Undefined
      BY <1>a, <3>1 DEF DataInv
    <3> QED
      BY <3>1, <3>3, <3>4, SettingsOf DEF Sound, Kept
  <2> QED
    BY <2>1, <2>2
<1>3. edits' \in 0..MaxEdits
  BY <1>a, <1>1, BoundsAssumption DEF TypeOK
<1>4. TypeOK'
  BY <1>a, <1>1, <1>2, <1>3 DEF TypeOK, Requests
<1>5. (SettingsLegal /\ LateInv /\ CurrentInv)'
  BY <1>a, <1>1 DEF SettingsLegal, LateInv, CurrentInv
<1>6. (DataInv /\ RequestInv)'
  BY <1>a, <1>1, <1>2 DEF DataInv, RequestInv, Kept
<1> QED
  BY <1>4, <1>5, <1>6 DEF FormInv

LEMMA DeselectInv ==
  ASSUME FormInv, deselectNetwork
  PROVE  FormInv'
<1>a. TypeOK /\ SettingsLegal /\ DataInv /\ RequestInv /\ CurrentInv /\ LateInv
  BY DEF FormInv
<1>1. /\ selected' = Undefined
      /\ UNCHANGED <<form, device, open, data, errorMessage, fieldErrors, saving, request,
                     late, edits, saves, edited, behind>>
  BY DEF deselectNetwork
<1>2. TypeOK'
  BY <1>a, <1>1 DEF TypeOK, Requests
<1> QED
  BY <1>a, <1>1, <1>2 DEF FormInv, SettingsLegal, DataInv, RequestInv, CurrentInv, LateInv, Kept

LEMMA SubmitInv ==
  ASSUME FormInv, validateAndSubmit
  PROVE  FormInv'
<1>a. TypeOK /\ SettingsLegal /\ DataInv /\ RequestInv /\ CurrentInv /\ LateInv
  BY DEF FormInv
<1>1. /\ data # Undefined /\ saves < MaxSaves
      /\ UNCHANGED <<form, device, open, data, selected, late, edits, edited, behind>>
  BY DEF validateAndSubmit
<1>b. data \in Settings[form] /\ Sound(form, data) /\ Kept(data)
  BY <1>a, <1>1 DEF TypeOK, DataInv
<1>2. CASE Accepts(form, data)
  <2>1. /\ saving' = TRUE /\ saves' = saves + 1 /\ errorMessage' = FALSE /\ fieldErrors' = FALSE
        /\ request' = [op |-> "update", answered |-> FALSE, body |-> data]
    BY <1>2 DEF validateAndSubmit
  <2>2. /\ request' \in Requests /\ request'.op = "update" /\ request'.answered = FALSE
        /\ request'.body = data
    BY <1>b, <2>1 DEF Requests
  <2>3. saves' \in 0..MaxSaves
    BY <1>a, <1>1, <2>1, BoundsAssumption DEF TypeOK
  <2>4. TypeOK'
    BY <1>a, <1>1, <2>1, <2>2, <2>3 DEF TypeOK, Requests
  <2>5. Acceptable(form, data)
    BY <1>2, <1>b DEF Acceptable
  <2>6. RequestInv'
    BY <1>1, <1>b, <2>2, <2>5 DEF RequestInv, Kept
  <2> QED
    BY <1>a, <1>1, <2>4, <2>6 DEF FormInv, SettingsLegal, DataInv, CurrentInv, LateInv, Kept
<1>3. CASE ~Accepts(form, data)
  <2>1. fieldErrors' = TRUE /\ UNCHANGED <<saving, saves, errorMessage, request>>
    BY <1>3 DEF validateAndSubmit
  <2>2. TypeOK'
    BY <1>a, <1>1, <2>1 DEF TypeOK, Requests
  <2> QED
    BY <1>a, <1>1, <2>1, <2>2
    DEF FormInv, SettingsLegal, DataInv, RequestInv, CurrentInv, LateInv, Kept
<1> QED
  BY <1>2, <1>3

LEMMA FailedInv ==
  ASSUME FormInv, Failed
  PROVE  FormInv'
<1>a. TypeOK /\ SettingsLegal /\ DataInv /\ RequestInv /\ CurrentInv /\ LateInv
  BY DEF FormInv
<1>1. /\ errorMessage' = TRUE /\ saving' = FALSE /\ request' = Undefined
      /\ UNCHANGED <<form, device, open, data, fieldErrors, selected, late, edits, saves,
                     edited, behind>>
  BY DEF Failed
<1>2. TypeOK'
  BY <1>a, <1>1 DEF TypeOK, Requests
<1> QED
  BY <1>a, <1>1, <1>2 DEF FormInv, SettingsLegal, DataInv, RequestInv, CurrentInv, LateInv, Kept

LEMMA UnmountInv ==
  ASSUME FormInv, Unmount
  PROVE  FormInv'
<1>a. TypeOK /\ SettingsLegal /\ RequestInv /\ LateInv
  BY DEF FormInv
<1>1. /\ open' = FALSE /\ data' = Undefined /\ errorMessage' = FALSE /\ fieldErrors' = FALSE
      /\ saving' = FALSE /\ selected' = Undefined /\ request' = Undefined /\ edited' = FALSE
      /\ UNCHANGED <<form, device, edits, saves, behind>>
  BY DEF Unmount
<1>2. ASSUME NEW l \in late' PROVE l \in Nat \X Settings[form] /\ Acceptable(form, l[2])
  <2>1. CASE l \in late
    BY <1>a, <2>1 DEF TypeOK, LateInv
  <2>2. CASE l \notin late
    <3>1. /\ request # Undefined /\ request.op = "update" /\ ~request.answered
          /\ l = <<saves, request.body>>
      BY <1>2, <2>2 DEF Unmount
    <3>2. Acceptable(form, request.body) /\ saves \in Nat
      BY <1>a, <3>1, BoundsAssumption DEF RequestInv, TypeOK
    <3>3. request.body \in Settings[form]
      BY <3>2 DEF Acceptable
    <3> QED
      BY <3>1, <3>2, <3>3
  <2> QED
    BY <2>1, <2>2
<1>3. late' \subseteq Nat \X Settings[form]
  BY <1>2
<1>4. TypeOK'
  BY <1>a, <1>1, <1>3 DEF TypeOK, Requests
<1>5. LateInv'
  BY <1>1, <1>2 DEF LateInv
<1> QED
  BY <1>a, <1>1, <1>4, <1>5 DEF FormInv, SettingsLegal, DataInv, RequestInv, CurrentInv

\* Others change what the device has.
LEMMA OthersInv ==
  ASSUME FormInv, device' \in Settings[form], Legal(form, device'), behind' = TRUE,
         late' \subseteq late, saves' \in 0..MaxSaves, UNCHANGED <<form, open, user, request>>
  PROVE  FormInv'
<1>a. TypeOK /\ SettingsLegal /\ DataInv /\ RequestInv /\ CurrentInv /\ LateInv
  BY DEF FormInv
<1>1. UNCHANGED <<data, errorMessage, fieldErrors, saving, selected, edits, edited>>
  BY DEF user
<1>2. TypeOK'
  BY <1>a, <1>1 DEF TypeOK, Requests
<1> QED
  BY <1>a, <1>1, <1>2 DEF FormInv, SettingsLegal, DataInv, RequestInv, CurrentInv, LateInv, Kept

LEMMA StepFormInv == FormInv /\ [Next]_vars => FormInv'
<1> SUFFICES ASSUME FormInv, [Next]_vars PROVE FormInv'
  OBVIOUS
<1>a. TypeOK /\ LateInv
  BY DEF FormInv
<1>b. form \in FormNames /\ form \in Forms /\ device \in Settings[form]
  BY <1>a, FormOf DEF TypeOK
<1>1. CASE Mount
  <2>1. /\ selected' \in Networks \cup {Undefined}
        /\ selected' # Undefined => form = "wifi"
    BY <1>1 DEF Mount
  <2>2. /\ loadData /\ UNCHANGED <<form, device, late, edits, saves>>
        /\ open' \in BOOLEAN /\ fieldErrors' \in BOOLEAN /\ saving' \in BOOLEAN
        /\ edited' \in BOOLEAN /\ behind' \in BOOLEAN
    BY <1>1 DEF Mount
  <2> QED
    BY <2>1, <2>2, LoadDataInv
<1>2. CASE Retry
  <2>1. /\ loadData
        /\ UNCHANGED <<form, device, open, fieldErrors, saving, selected, late, edits, saves,
                       edited, behind>>
    BY <1>2 DEF Retry
  <2>2. /\ open' \in BOOLEAN /\ fieldErrors' \in BOOLEAN /\ saving' \in BOOLEAN
        /\ edited' \in BOOLEAN /\ behind' \in BOOLEAN
        /\ selected' \in Networks \cup {Undefined} /\ (selected' # Undefined => form = "wifi")
    BY <1>a, <2>1 DEF TypeOK, FormInv, DataInv
  <2> QED
    BY <2>1, <2>2, LoadDataInv
<1>3. CASE LateRequest
  <2>1. PICK l \in late : device' = Update(form, l[2], device) /\ late' = late \ {l}
    BY <1>3 DEF LateRequest
  <2>2. device' \in Settings[form] /\ Legal(form, device')
    BY <1>a, <1>b, <2>1, Updated DEF LateInv
  <2>3. saves' \in 0..MaxSaves
    BY <1>3, <1>a DEF LateRequest, TypeOK
  <2> QED
    BY <1>3, <2>1, <2>2, <2>3, OthersInv DEF LateRequest
<1>4. CASE OtherSaves
  <2>1. PICK d \in Stored[form] : device' = Update(form, d, device)
    BY <1>4 DEF OtherSaves
  <2>2. device' \in Settings[form] /\ Legal(form, device')
    BY <1>b, <2>1, StoredIsAcceptable, Updated
  <2>3. saves' \in 0..MaxSaves
    BY <1>4, <1>a, BoundsAssumption DEF OtherSaves, TypeOK
  <2> QED
    BY <1>4, <2>2, <2>3, OthersInv DEF OtherSaves
<1>5. CASE UNCHANGED vars
  <2>1. UNCHANGED <<form, device, open, data, errorMessage, fieldErrors, saving, selected, edits,
                    edited, request, late, saves, behind>>
    BY <1>5 DEF vars, user
  <2>2. TypeOK'
    BY <1>a, <2>1 DEF TypeOK, Requests
  <2> QED
    BY <2>1, <2>2 DEF FormInv, SettingsLegal, DataInv, RequestInv, CurrentInv, LateInv, Kept
<1> QED
  BY <1>1, <1>2, <1>3, <1>4, <1>5, HttpRequestInv, LoadedInv, SavedInv, FailedInv, EditInv,
     DeselectInv, SubmitInv, UnmountInv DEF Next

-----------------------------------------------------------------------------
(* The theorems *)

THEOREM FormInvariant == Spec => []FormInv
  BY InitFormInv, StepFormInv, PTL DEF Spec

\* Every variable of RestForm keeps its type: no input, updater or late answer
\* makes anything but settings of settings.
THEOREM TypeCorrect == Spec => []TypeOK
<1>1. FormInv => TypeOK
  BY DEF FormInv
<1> QED
  BY <1>1, FormInvariant, PTL

\* Whatever is typed, hidden, saved or sent late, the device has settings it can
\* run with, if those it starts with are.
THEOREM DeviceStaysLegal == Spec => []SettingsLegal
<1>1. FormInv => SettingsLegal
  BY DEF FormInv
<1> QED
  BY <1>1, FormInvariant, PTL

\* A form that nobody has edited shows what the device has, unless others save:
\* a save of what is stored changes nothing, so that a lost answer does no harm.
THEOREM FormsShowWhatIsStored == Spec => []ShownIsStored
<1>1. FormInv => ShownIsStored
  BY DEF FormInv, CurrentInv, ShownIsStored
<1> QED
  BY <1>1, FormInvariant, PTL

\* The network that was selected stays the one that is saved, without the
\* password of another if it is open.
THEOREM SelectionStays == Spec => []SelectionKept
<1>1. FormInv => SelectionKept
  BY DEF FormInv, DataInv, Kept, SelectionKept
<1> QED
  BY <1>1, FormInvariant, PTL

=============================================================================
