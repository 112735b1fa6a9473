----------------------- MODULE RecognitionWork_proofs -----------------------
(***************************************************************************)
(* Proofs about RecognitionWork for every number of processes, attempts,   *)
(* crashes and payment versions.                                           *)
(***************************************************************************)
EXTENDS RecognitionWork, TLAPS

\* A process that is about to record a refusal left a review behind, unless
\* the funds were recognised meanwhile.
FailuresAreReviewed ==
  \A w \in Workers :
    pc[w] = "failed" /\ cause[w] = "blocked" => Reviewed \/ allocation # 0

\* The strengthening of CanceledIsReviewed that every step preserves.
IInv == TypeOK /\ CompletedOnlyByAllocation /\ FailuresAreReviewed /\ CanceledIsReviewed

USE DEF Open, Terminal, Causes, Tokens, Reasons, Blocking

LEMMA InitIInv == Init => IInv
<1> SUFFICES ASSUME Init PROVE IInv
  OBVIOUS
<1>1. TypeOK
  <2>1. due \in BOOLEAN /\ eligible \in BOOLEAN
    BY Zenon DEF Init
  <2>2. QED BY <2>1, MaxAttemptsAssumption, BoundsAssumption DEF Init, TypeOK
<1>2. CompletedOnlyByAllocation /\ FailuresAreReviewed /\ CanceledIsReviewed
  BY DEF Init, CompletedOnlyByAllocation, FailuresAreReviewed, CanceledIsReviewed
<1>3. QED BY <1>1, <1>2 DEF IInv

LEMMA NextType == TypeOK /\ [Next]_vars => TypeOK'
<1> SUFFICES ASSUME TypeOK, [Next]_vars PROVE TypeOK'
  OBVIOUS
<1> USE MaxAttemptsAssumption, BoundsAssumption DEF TypeOK, Goto, row, graph, locals
<1>1. ASSUME NEW w \in Workers, Claim(w) PROVE TypeOK'
  BY <1>1 DEF Claim, WithinBudget
<1>2. ASSUME NEW w \in Workers, RecognizeReplay(w) PROVE TypeOK'
  <2>1. CASE allocation = expected[w]
    BY <1>2, <2>1 DEF RecognizeReplay
  <2>2. CASE allocation # expected[w]
    BY <1>2, <2>2 DEF RecognizeReplay
  <2>3. QED BY <2>1, <2>2
<1>3. ASSUME NEW w \in Workers, RecognizeBlocked(w) PROVE TypeOK'
  BY <1>3 DEF RecognizeBlocked, BlockReasons
<1>4. ASSUME NEW w \in Workers, Recognize(w) PROVE TypeOK'
  BY <1>4 DEF Recognize, Completes
<1>5. ASSUME NEW w \in Workers, RecognizeDatabaseError(w) PROVE TypeOK'
  BY <1>5 DEF RecognizeDatabaseError
<1>6. ASSUME NEW w \in Workers, RecordApplicationFailure(w) PROVE TypeOK'
  BY <1>6 DEF RecordApplicationFailure, OpensReview
<1>16. ASSUME NEW w \in Workers, ApplicationFailureLost(w) PROVE TypeOK'
  BY <1>16 DEF ApplicationFailureLost
<1>7. ASSUME NEW w \in Workers, RecordFailure(w) PROVE TypeOK'
  <2>1. CASE OwnsClaim(w)
    <3>1. due' \in BOOLEAN
      BY <1>7, <2>1, Zenon DEF RecordFailure
    <3>2. status' \in {"canceled", "waiting"} /\ token' = 0 /\ attempts' = attempts
      BY <1>7, <2>1 DEF RecordFailure
    <3>3. \E l \in {"review", "idle"} : pc' = [pc EXCEPT ![w] = l]
      BY <1>7, <2>1 DEF RecordFailure
    <3>4. QED BY <1>7, <2>1, <3>1, <3>2, <3>3 DEF RecordFailure
  <2>2. CASE ~OwnsClaim(w)
    BY <1>7, <2>2 DEF RecordFailure
  <2>3. QED BY <2>1, <2>2
<1>8. ASSUME NEW w \in Workers, OpenReview(w) PROVE TypeOK'
  BY <1>8 DEF OpenReview
<1>9. ASSUME NEW w \in Workers, Crash(w) PROVE TypeOK'
  BY <1>9 DEF Crash
<1>10. ASSUME NEW t \in Tokens, LeaseExpires(t) PROVE TypeOK'
  BY <1>10 DEF LeaseExpires
<1>11. CASE BecomesDue
  BY <1>11 DEF BecomesDue
<1>12. CASE PaymentChanges
  BY <1>12 DEF PaymentChanges
<1>13. ASSUME NEW r \in Reasons, ReviewResolved(r) PROVE TypeOK'
  BY <1>13 DEF ReviewResolved
<1>14. CASE UNCHANGED vars
  BY <1>14 DEF vars
<1>15. QED
  BY <1>1, <1>2, <1>3, <1>4, <1>5, <1>6, <1>7, <1>8, <1>9, <1>10, <1>11, <1>12,
     <1>13, <1>14, <1>16 DEF Next, Step

LEMMA NextIInv == IInv /\ [Next]_vars => IInv'
<1> SUFFICES ASSUME IInv, [Next]_vars PROVE IInv'
  OBVIOUS
<1>0. TypeOK'
  BY NextType DEF IInv
<1> USE DEF IInv, TypeOK, CompletedOnlyByAllocation, FailuresAreReviewed,
            CanceledIsReviewed, Reviewed, Goto, row, graph, locals
<1>1. ASSUME NEW w \in Workers, Claim(w) PROVE IInv'
  BY <1>0, <1>1 DEF Claim, Reclaimable
<1>2. ASSUME NEW w \in Workers, RecognizeReplay(w) PROVE IInv'
  BY <1>0, <1>2 DEF RecognizeReplay, Replays
<1>3. ASSUME NEW w \in Workers, RecognizeBlocked(w) PROVE IInv'
  BY <1>0, <1>3 DEF RecognizeBlocked
<1>4. ASSUME NEW w \in Workers, Recognize(w) PROVE IInv'
  <2>1. allocation' # 0 /\ status' \in Terminal /\ (status' = "canceled" => status = "canceled")
    BY <1>4 DEF Recognize, Completes
  <2>2. QED BY <1>0, <1>4, <2>1 DEF Recognize
<1>5. ASSUME NEW w \in Workers, RecognizeDatabaseError(w) PROVE IInv'
  BY <1>0, <1>5 DEF RecognizeDatabaseError
<1>6. ASSUME NEW w \in Workers, RecordApplicationFailure(w) PROVE IInv'
  <2>1. CASE allocation # 0
    BY <1>0, <1>6, <2>1 DEF RecordApplicationFailure
  <2>2. CASE allocation = 0
    <3>1. Reviewed'
      <4>1. reason[w] \in Reasons /\ reviews'[reason[w]] = "open"
        BY <1>6, <2>2 DEF RecordApplicationFailure, OpensReview
      <4>2. QED BY <4>1 DEF Reviewed
    <3>2. QED BY <1>0, <1>6, <2>2, <3>1 DEF RecordApplicationFailure
  <2>3. QED BY <2>1, <2>2
<1>16. ASSUME NEW w \in Workers, ApplicationFailureLost(w) PROVE IInv'
  BY <1>0, <1>16 DEF ApplicationFailureLost, Reviewed
<1>7. ASSUME NEW w \in Workers, RecordFailure(w) PROVE IInv'
  <2>1. CASE OwnsClaim(w)
    BY <1>0, <1>7, <2>1 DEF RecordFailure, OwnsClaim
  <2>2. CASE ~OwnsClaim(w)
    BY <1>0, <1>7, <2>2 DEF RecordFailure
  <2>3. QED BY <2>1, <2>2
<1>8. ASSUME NEW w \in Workers, OpenReview(w) PROVE IInv'
  BY <1>0, <1>8 DEF OpenReview
<1>9. ASSUME NEW w \in Workers, Crash(w) PROVE IInv'
  BY <1>0, <1>9 DEF Crash
<1>10. ASSUME NEW t \in Tokens, LeaseExpires(t) PROVE IInv'
  BY <1>0, <1>10 DEF LeaseExpires
<1>11. CASE BecomesDue
  BY <1>0, <1>11 DEF BecomesDue
<1>12. CASE PaymentChanges
  BY <1>0, <1>12 DEF PaymentChanges
<1>13. ASSUME NEW r \in Reasons, ReviewResolved(r) PROVE IInv'
  BY <1>0, <1>13 DEF ReviewResolved
<1>14. CASE UNCHANGED vars
  BY <1>0, <1>14 DEF vars
<1>15. QED
  BY <1>1, <1>2, <1>3, <1>4, <1>5, <1>6, <1>7, <1>8, <1>9, <1>10, <1>11, <1>12,
     <1>13, <1>14, <1>16 DEF Next, Step

\* Every reachable state satisfies the inductive invariant.
THEOREM Invariant == Spec => []IInv
<1>1. QED BY InitIInv, NextIInv, PTL DEF Spec

\* Type correctness of the row, the reviews and the processes.
THEOREM TypeCorrect == Spec => []TypeOK
<1>1. IInv => TypeOK
  BY DEF IInv
<1>2. QED BY Invariant, <1>1, PTL

\* A recognition work is completed by the allocation of the funds and by nothing
\* else, and no process brings it back to life once the allocation exists.
THEOREM CompletionIsAllocation == Spec => []CompletedOnlyByAllocation
<1>1. IInv => CompletedOnlyByAllocation
  BY DEF IInv
<1>2. QED BY Invariant, <1>1, PTL

\* A recognition that was given up is represented by a review, or owed one by a
\* process that lives.
THEOREM GivenUpIsReviewed == Spec => []CanceledIsReviewed
<1>1. IInv => CanceledIsReviewed
  BY DEF IInv
<1>2. QED BY Invariant, <1>1, PTL

\* Every end of a recognition work is justified: completed by the allocation, or
\* given up under a review.
THEOREM EndsJustified == Spec => []EndIsJustified
<1>1. CompletedOnlyByAllocation /\ CanceledIsReviewed => EndIsJustified
  BY DEF EndIsJustified
<1>2. QED BY CompletionIsAllocation, GivenUpIsReviewed, <1>1, PTL

\* Money is recognised once, at the version the process validated, from an
\* eligible payment without a blocking review.
THEOREM RecognitionIsExact == Spec => RecognizedOnceAsValidated
<1>1. ASSUME TypeOK, [Next]_vars
      PROVE  allocation' # allocation
             => allocation = 0 /\ allocation' = version /\ eligible /\ ~Blocked
  <2> USE DEF row, graph, locals
  <2>1. ASSUME NEW w \in Workers, Recognize(w)
        PROVE  allocation = 0 /\ allocation' = version /\ eligible /\ ~Blocked
    BY <2>1 DEF Recognize, Replays, Recognizable
  <2>2. (\A w \in Workers : ~Recognize(w)) => allocation' = allocation
    BY <1>1 DEF Next, Step, vars, Claim, RecognizeReplay, RecognizeBlocked,
       RecognizeDatabaseError, RecordApplicationFailure, RecordFailure, OpenReview, Crash, ApplicationFailureLost,
       LeaseExpires, BecomesDue, PaymentChanges, ReviewResolved
  <2>3. QED BY <2>1, <2>2
<1>2. IInv => TypeOK
  BY DEF IInv
<1>3. QED BY Invariant, <1>1, <1>2, PTL DEF Spec, RecognizedOnceAsValidated

\* A process that lost its lease cannot take the running lease of another away,
\* except by completing the work they share.
THEOREM RunningLeaseIsFenced == Spec => LeaseIsFenced
<1>1. ASSUME TypeOK, [Next]_vars
      PROVE  LeaseLive /\ token' # token /\ status' # "completed"
             => \E w \in Workers : mine[w] = token /\ pc[w] = "failed"
  <2> USE DEF row, graph, locals
  <2>1. SUFFICES ASSUME LeaseLive, token' # token, status' # "completed"
                 PROVE  \E w \in Workers : mine[w] = token /\ pc[w] = "failed"
    OBVIOUS
  <2>2. \A w \in Workers : ~Claim(w)
    BY <2>1 DEF Claim, LeaseLive, Reclaimable
  <2>3. \A w \in Workers : ~Recognize(w)
    BY <2>1 DEF Recognize, Completes, LeaseLive
  <2>4. \E w \in Workers : RecordFailure(w)
    BY <1>1, <2>1, <2>2, <2>3 DEF Next, Step, vars, RecognizeReplay, RecognizeBlocked,
       RecognizeDatabaseError, RecordApplicationFailure, OpenReview, Crash, ApplicationFailureLost,
       LeaseExpires, BecomesDue, PaymentChanges, ReviewResolved
  <2>5. QED BY <2>1, <2>4 DEF RecordFailure, OwnsClaim
<1>2. IInv => TypeOK
  BY DEF IInv
<1>3. QED BY Invariant, <1>1, <1>2, PTL DEF Spec, LeaseIsFenced
=============================================================================
