------------------------- MODULE MCBoardImplements -------------------------
(* Instance of BoardImplements for TLC. *)
EXTENDS BoardImplements, TLC

ConnSymmetry == Permutations(Conns)
SomeFaults == {"thread", "heap", "reset"}
============================================================================
