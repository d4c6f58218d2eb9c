---------------------------- MODULE MCPlannedSync ----------------------------
(* Instances of PlannedSync for TLC.                                        *)
EXTENDS PlannedSync, TLC

CONSTANTS c1, c2, n1, n2, x, y

Symmetry == Permutations(Clients) \cup Permutations(Texts)
=============================================================================
