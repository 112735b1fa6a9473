------------------------- MODULE MCVerificationWork -------------------------
(* Model values for the runs of VerificationWork.                          *)
EXTENDS VerificationWork, TLC

Symmetric == Permutations(Workers)
=============================================================================
