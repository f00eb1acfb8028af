--------------------------- MODULE MCBoardServer ---------------------------
(* Instances of BoardServer for TLC. *)
EXTENDS BoardServer, TLC

ConnSymmetry == Permutations(Conns)
NoFaults == {}
AllFaults == {"socket", "thread", "heap", "reset"}
============================================================================
