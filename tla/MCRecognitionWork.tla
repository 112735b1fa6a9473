-------------------------- MODULE MCRecognitionWork --------------------------
(* Model values for the runs of RecognitionWork.                           *)
EXTENDS RecognitionWork, TLC

Symmetric == Permutations(Workers)
=============================================================================
