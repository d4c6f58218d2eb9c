---------------------------- MODULE MCContentSync ----------------------------
(* Instances of ContentSync for TLC.                                        *)
EXTENDS ContentSync, TLC

CONSTANTS n1, n2, c1, c2

Symmetry == Permutations(Clients) \cup Permutations(Notes)
=============================================================================
