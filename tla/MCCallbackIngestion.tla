------------------------ MODULE MCCallbackIngestion ------------------------
(* Four deliveries: of one signed event, with two evidences that fit, one  *)
(* with a wrong reference and one with a foreign authority; of a forged    *)
(* envelope; and of two hints, one of them with the right authority.       *)
EXTENDS CallbackIngestion, TLC

CONSTANTS d1, d2, d3, d4, paid, failed, unmatched, foreign, forged, genuine, stray, event

OneEvent == [e \in Evidence |-> event]
Alike == Permutations(Delivery)
=============================================================================
