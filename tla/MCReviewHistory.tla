--------------------------- MODULE MCReviewHistory ---------------------------
(* Instances of ReviewHistory for TLC.                                      *)
EXTENDS ReviewHistory, TLC

CONSTANTS r1, r2, f, g, c1, c2

(* The id r1 was used by two devices for different reviews.                 *)
Reused == [id \in ReviewIds |-> IF id = r1 THEN {f, g} ELSE {f}]
=============================================================================
