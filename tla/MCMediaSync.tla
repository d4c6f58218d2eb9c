----------------------------- MODULE MCMediaSync -----------------------------
(* Instances of MediaSync for TLC.                                          *)
EXTENDS MediaSync

CONSTANTS f1, f2, d1, d2, short, long, l1

(* The second device syncs a deck that uses one of the files only.           *)
ByDeck == [d \in Devices |-> IF d = d1 THEN Files ELSE {f1}]
=============================================================================
