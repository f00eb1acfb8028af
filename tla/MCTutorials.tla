----------------------------- MODULE MCTutorials -----------------------------
(* Instance of Tutorials for TLC.  The lengths are around those at which a *)
(* record fills a page, needs one more page or a longer header.            *)
EXTENDS Tutorials

FirstTexts == {[pos |-> "first", type |-> RTD_TEXT, len |-> n, id |-> 1] : n \in {5, 6, 13, 260}}

Texts == {[pos |-> "first", type |-> RTD_TEXT, len |-> n, id |-> 2] :
             n \in {0, 6, 7, 8, 22, 23, 247, 248, 249, 252, 253, 254, 370, 420}}
Uris == {[pos |-> "first", type |-> RTD_URI, len |-> n, id |-> 2] :
             n \in {0, 8, 9, 10, 247, 248, 249, 250, 251, 254, 255}}
Added == {[pos |-> p, type |-> t, len |-> n, id |-> 2] :
             p \in {"middle", "last"}, t \in {RTD_TEXT, RTD_URI}, n \in {0, 5, 20, 100, 253}}
AllRecords == Texts \cup Uris \cup Added
==============================================================================
