--------------------------- MODULE MqttDiscoveryMC ---------------------------
(* Instances of MqttDiscovery for TLC.  Entity 1 changes its converter and      *)
(* then its text, entity 2 comes and goes.                                   *)
EXTENDS MqttDiscovery, TLC

Versions ==
  << (1 :> [type |-> "sensor", payload |-> "a"] @@ 2 :> [type |-> "switch", payload |-> "b"]),
     (1 :> [type |-> "switch", payload |-> "a"] @@ 2 :> NoText),
     (1 :> [type |-> "switch", payload |-> "c"] @@ 2 :> [type |-> "switch", payload |-> "d"]) >>
=============================================================================
