---------------------------- MODULE MqttClientMC ----------------------------
(***************************************************************************)
(* MqttClient with three topics: one before, one at and one after a        *)
(* subscribe that fails.                                                    *)
(***************************************************************************)
EXTENDS MqttClient
=============================================================================
