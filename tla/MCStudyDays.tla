----------------------------- MODULE MCStudyDays -----------------------------
(* Instances of StudyDays for TLC.                                          *)
EXTENDS StudyDays, TLC

CONSTANTS c1, c2, new, review

Symmetry == Permutations(Clients)
=============================================================================
