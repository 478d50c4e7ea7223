----------------------------- MODULE StatusRows -----------------------------
(***************************************************************************)
(* What the status services of the device answer, and what the pages make  *)
(* of it: the colour of the status and the values that the rows show.  An  *)
(* answer is the status and the keys that come with it.                    *)
(***************************************************************************)

Answer(status, keys) == [status |-> status, keys |-> keys]

-----------------------------------------------------------------------------
(* The services *)

WiFiConnectionStatus ==
    {"IDLE", "NO_SSID_AVAIL", "CONNECTED", "CONNECT_FAILED", "CONNECTION_LOST",
     "DISCONNECTED", "NO_SHIELD"}
wifiConnection == {"local_ip", "mac_address", "ssid", "subnet_mask", "gateway_ip"}
wifiStatus ==
    {Answer(s, {}) : s \in WiFiConnectionStatus \ {"CONNECTED"}}
    \cup {Answer("CONNECTED", wifiConnection \cup dns) : dns \in SUBSET {"dns_ip_1", "dns_ip_2"}}

APNetworkStatus == {"ACTIVE", "INACTIVE", "LINGERING"}
apStatus == {Answer(s, {"ip_address", "mac_address", "station_num"}) : s \in APNetworkStatus}

\* While an edit waits for its handler, a client that is not enabled is connected.
mqttStatus ==
    {Answer([enabled |-> e, connected |-> c], {"client_id", "disconnect_reason"}) :
        e \in BOOLEAN, c \in BOOLEAN}

\* There is no name of a server until NTP has been started.
ntpStatus(enabled) ==
    {Answer(IF enabled THEN "NTP_ACTIVE" ELSE "NTP_INACTIVE",
            {"utc_time", "local_time", "uptime"} \cup server) :
        server \in IF enabled THEN {{"server"}} ELSE {{}, {"server"}}}

\* Of PSRAM the keys stand for sizes that are not 0.
systemStatus ==
    LET common == {"sdk_version", "cpu_freq_mhz", "free_heap", "max_alloc_heap", "sketch_size",
                   "free_sketch_space", "flash_chip_size", "flash_chip_speed", "fs_used", "fs_total"}
    IN  {Answer("esp8266", common \cup {"heap_fragmentation"}),
         Answer("esp32", common \cup {"psram_size", "free_psram"}), Answer("esp32", common)}

-----------------------------------------------------------------------------
(* The pages *)

isConnected(d) == d.status = "CONNECTED"

wifiStatusHighlight(d) ==
    CASE d.status \in {"IDLE", "DISCONNECTED", "NO_SHIELD"} -> "info"
      [] d.status = "CONNECTED" -> "success"
      [] d.status \in {"CONNECT_FAILED", "CONNECTION_LOST"} -> "error"
      [] OTHER -> "warning"

\* dnsServers() and the row of the gateway do without their values.
dnsServers(d) ==
    IF "dns_ip_1" \in d.keys THEN {"dns_ip_1", "dns_ip_2"} \cap d.keys ELSE {}

\* Wrong on purpose: the connection is shown whether there is one or not.
WiFiStatusFormAll(d) == {"ssid", "local_ip", "mac_address", "subnet_mask"} \cup dnsServers(d)

WiFiStatusForm(d) ==
    IF isConnected(d)
    THEN {"ssid", "local_ip", "mac_address", "subnet_mask"} \cup dnsServers(d)
    ELSE {}

apStatusHighlight(d) ==
    CASE d.status = "ACTIVE" -> "success" [] d.status = "INACTIVE" -> "info" [] OTHER -> "warning"
APStatusForm(d) == {"ip_address", "mac_address", "station_num"}

mqttStatusHighlight(d) ==
    CASE ~d.status.enabled -> "info" [] d.status.enabled /\ d.status.connected -> "success"
      [] OTHER -> "error"
MqttStatusForm(d) ==
    IF ~d.status.enabled THEN {}
    ELSE IF d.status.connected THEN {"client_id"} ELSE {"disconnect_reason"}

isNtpActive(d) == d.status = "NTP_ACTIVE"
ntpStatusHighlight(d) == IF isNtpActive(d) THEN "success" ELSE "info"
NTPStatusForm(d) ==
    {"local_time", "utc_time", "uptime"} \cup (IF isNtpActive(d) THEN {"server"} ELSE {})

SystemStatusForm(d) ==
    {"sdk_version", "cpu_freq_mhz", "free_heap", "max_alloc_heap", "sketch_size",
     "free_sketch_space", "flash_chip_size", "flash_chip_speed", "fs_used", "fs_total"}
    \cup (IF d.status = "esp8266" THEN {"heap_fragmentation"} ELSE {})
    \cup (IF d.status = "esp32" /\ "psram_size" \in d.keys THEN {"psram_size", "free_psram"} ELSE {})

Rows(page, d) ==
    CASE page = "wifi" -> WiFiStatusForm(d)
      [] page = "ap" -> APStatusForm(d)
      [] page = "mqtt" -> MqttStatusForm(d)
      [] page = "ntp" -> NTPStatusForm(d)
      [] page = "system" -> SystemStatusForm(d)

Highlight(page, d) ==
    CASE page = "wifi" -> wifiStatusHighlight(d)
      [] page = "ap" -> apStatusHighlight(d)
      [] page = "mqtt" -> mqttStatusHighlight(d)
      [] page = "ntp" -> ntpStatusHighlight(d)
      [] page = "system" -> "none"

\* Of a page whose status is good: what the rows must say about it.
Details(page) ==
    CASE page = "wifi" -> {"ssid", "local_ip"}
      [] page = "ap" -> {"ip_address"}
      [] page = "mqtt" -> {"client_id"}
      [] page = "ntp" -> {"server", "local_time"}
      [] page = "system" -> {}

=============================================================================
