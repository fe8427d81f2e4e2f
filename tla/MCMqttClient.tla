---------------------------- MODULE MCMqttClient ----------------------------
(***************************************************************************)
(* With an echo threshold of one, three messages leave room for a silence, *)
(* for one more publish after its timeout and for echoes in any order.     *)
(* The backoff reaches its cap at the eighth retry.                        *)
(***************************************************************************)
EXTENDS MqttClient
=============================================================================
