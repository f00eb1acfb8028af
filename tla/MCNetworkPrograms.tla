-------------------------- MODULE MCNetworkPrograms --------------------------
(* Instance of NetworkPrograms for TLC. *)
EXTENDS NetworkPrograms
==============================================================================
