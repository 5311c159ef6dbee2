--------------------------- MODULE MqttSessionMC ---------------------------
(* Two connections of two attempts each and two messages: a retry on a     *)
(* socket with a late answer, a cut packet, a reconnect after a loss.      *)
EXTENDS MqttSession
=============================================================================
