------------------------ MODULE MCVerificationEvidence -----------------------
EXTENDS VerificationEvidence, TLC

CONSTANTS t1, t2, w1, w2, w3, r1, r2

MCTransactionOf == w1 :> t1 @@ w2 :> t1 @@ w3 :> t2
MCEventChoices ==
  {w1 :> "hint" @@ w2 :> e @@ w3 :> "hint" : e \in {"signed", "contradictory"}}
MCStatusChoices == {t1 :> s @@ t2 :> "pending_customer" : s \in Requested}
MCSignedReference == w1 :> r1 @@ w2 :> r1 @@ w3 :> r2

=============================================================================
