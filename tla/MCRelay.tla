------------------------------ MODULE MCRelay ------------------------------
(* Instances of Relay: the constants are given by the configurations. *)
EXTENDS Relay
=============================================================================
