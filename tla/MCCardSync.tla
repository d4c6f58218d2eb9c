----------------------------- MODULE MCCardSync -----------------------------
(* Instances of CardSync for TLC.                                           *)
EXTENDS CardSync

CONSTANTS k1, c1, c2, other

ByFirst == [k \in Cards |-> c1]
=============================================================================
