-------------------------- MODULE MCPaymentRequest --------------------------
(* Three keys, the calls of two of which can run at once.                  *)
EXTENDS PaymentRequest, TLC

CONSTANTS k1, k2, k3, p1, p2

Alike == Permutations({k1, k2, k3}) \cup Permutations({p1, p2})
=============================================================================
