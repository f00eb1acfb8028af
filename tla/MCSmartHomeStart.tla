-------------------------- MODULE MCSmartHomeStart --------------------------
(* Instance of SmartHomeStart for TLC. *)
EXTENDS SmartHomeStart
=============================================================================
