----------------------------- MODULE MCScopedSync -----------------------------
(* Instances of ScopedSync for TLC.                                         *)
EXTENDS ScopedSync, TLC

CONSTANTS c1, c2, n1, inside, outside

(* One client routes one deck, the other both.                              *)
TwoRoutes == {{inside}, {inside, outside}}
First == [c \in Clients |-> IF c = c1 THEN {inside} ELSE {inside, outside}]
=============================================================================
