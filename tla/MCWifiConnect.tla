---------------------------- MODULE MCWifiConnect ----------------------------
(* Instance of WifiConnect for TLC. *)
EXTENDS WifiConnect
============================================================================
