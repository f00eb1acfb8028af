--------------------------- MODULE MCPhoneService ---------------------------
(* Instance of PhoneService for TLC. *)
EXTENDS PhoneService
============================================================================
