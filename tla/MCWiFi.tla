------------------------------- MODULE MCWiFi -------------------------------
(* Constants for model checking WiFiStation: no SSID, and two networks. *)
EXTENDS WiFiStation

MCSettings == {"none", "home", "guest"}
=============================================================================
