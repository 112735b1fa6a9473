------------------------- MODULE MCFinalizationWork -------------------------
(* Model values for the runs of FinalizationWork.                          *)
EXTENDS FinalizationWork, TLC

Symmetric == Permutations(Workers)
=============================================================================
