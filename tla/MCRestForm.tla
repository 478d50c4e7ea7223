---------------------------- MODULE MCRestForm ----------------------------
EXTENDS RestForm

Plain == [ssid |-> "home", password |-> "good", hostname |-> "host", static_ip_config |-> FALSE,
          local_ip |-> Absent, gateway_ip |-> Absent, subnet_mask |-> Absent,
          dns_ip_1 |-> Absent, dns_ip_2 |-> Absent]
Static == [Plain EXCEPT !.static_ip_config = TRUE, !.local_ip = "ip", !.gateway_ip = "ip",
                        !.subnet_mask = "ip2", !.dns_ip_1 = "ip"]
OwnAP == [provision_mode |-> 1, ssid |-> "home", password |-> "good", channel |-> 1,
          ssid_hidden |-> FALSE, max_clients |-> 4,
          local_ip |-> "ip", gateway_ip |-> "ip", subnet_mask |-> "ip2"]
Broker == [enabled |-> FALSE, host |-> "host", port |-> 1883, username |-> "", password |-> "",
           client_id |-> "good", keep_alive |-> 60, clean_session |-> TRUE, max_topic_length |-> 128]
Clock == [enabled |-> TRUE, server |-> "host", tz_label |-> "London", tz_format |-> "GMT0BST"]
Ota == [enabled |-> TRUE, port |-> 8266, password |-> "good"]
Topic == [unique_id |-> "host", name |-> "host", mqtt_path |-> "host"]

MCStored ==
    [wifi |-> {Plain, Static},
     ap |-> {OwnAP, [OwnAP EXCEPT !.provision_mode = 2, !.ssid = ""]},
     mqtt |-> {Broker, [Broker EXCEPT !.enabled = TRUE, !.host = "ip"]},
     ntp |-> {Clock, [Clock EXCEPT !.tz_format = "custom"]},
     ota |-> {Ota}, lightMqtt |-> {Topic},
     light |-> {[led_on |-> FALSE], [led_on |-> TRUE]}]
=============================================================================
