------------------------------- MODULE MCMqtt -------------------------------
(* Constants for model checking MqttConnection: MQTT off, and two brokers. *)
EXTENDS MqttConnection

MCSettings == {"off", "broker1", "broker2"}
MCEnabled == {"broker1", "broker2"}
=============================================================================
