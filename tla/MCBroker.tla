------------------------------ MODULE MCBroker ------------------------------
(* Instances of Broker small enough for TLC. *)
EXTENDS Broker
=============================================================================
