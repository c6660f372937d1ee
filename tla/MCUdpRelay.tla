----------------------------- MODULE MCUdpRelay -----------------------------
(* Instances of UdpRelay: the constants are given by the configurations. *)
EXTENDS UdpRelay
=============================================================================
