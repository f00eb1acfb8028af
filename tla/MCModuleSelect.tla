--------------------------- MODULE MCModuleSelect ---------------------------
(* Instance of ModuleSelect for TLC. *)
EXTENDS ModuleSelect
============================================================================
