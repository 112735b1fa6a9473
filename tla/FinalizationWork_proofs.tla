----------------------- MODULE FinalizationWork_proofs -----------------------
(***************************************************************************)
(* Proofs about FinalizationWork for every number of processes, attempts,  *)
(* deaths and operator interventions: types, that work ends for a reason   *)
(* that is on record, and that every sale is made from a hold that lives.  *)
(***************************************************************************)
EXTENDS FinalizationWork, TLAPS

IInv == TypeOK /\ DeliveredIffCompleted /\ CanceledIsReviewed

USE DEF row, stock, money, review, locals, bounds, Callers, Keys, NoToken, Terminal, Statuses,
        Goto

LEMMA InitIInv == Init => IInv
<1> SUFFICES ASSUME Init PROVE IInv
  OBVIOUS
<1>1. TypeOK
  <2>1. /\ due \in BOOLEAN /\ expired \in BOOLEAN /\ paid \in BOOLEAN
        /\ lapsed \in BOOLEAN /\ blocked \in BOOLEAN /\ reviewed \in BOOLEAN
    BY Zenon DEF Init
  <2>2. QED BY <2>1, MaxAttemptsAssumption, BoundsAssumption DEF Init, TypeOK
<1>2. DeliveredIffCompleted /\ CanceledIsReviewed
  BY DEF Init, DeliveredIffCompleted, CanceledIsReviewed
<1>3. QED BY <1>1, <1>2 DEF IInv

LEMMA NextType == IInv /\ [Next]_vars => TypeOK'
<1> SUFFICES ASSUME IInv, [Next]_vars PROVE TypeOK'
  OBVIOUS
<1> USE MaxAttemptsAssumption, BoundsAssumption DEF IInv, TypeOK
<1>1. ASSUME NEW w \in Workers, SelectDue(w) PROVE TypeOK'
  BY <1>1 DEF SelectDue
<1>2. ASSUME NEW w \in Workers, Start(w) PROVE TypeOK'
  BY <1>2 DEF Start, Remember
<1>3. ASSUME NEW w \in Workers, OperatorRetry(w) PROVE TypeOK'
  BY <1>3 DEF OperatorRetry, Remember
<1>4. ASSUME NEW w \in Workers, Refer(w) PROVE TypeOK'
  BY <1>4 DEF Refer
<1>5. ASSUME NEW w \in Workers, Renew(w) PROVE TypeOK'
  BY <1>5 DEF Renew, RenewedHold
<1>6. ASSUME NEW w \in Workers, Claim(w) PROVE TypeOK'
  <2>1. attempts' \in 0..MaxAttempts /\ version' \in Nat \ {0} /\ token' \in Keys
    BY <1>6 DEF Claim, Claimable, WithinBudget
  <2>2. held' \in [Workers -> Nat \ {0}]
    BY <1>6, <2>1 DEF Claim
  <2>3. expired' \in BOOLEAN
    BY <1>6, Zenon DEF Claim
  <2>4. QED BY <1>6, <2>1, <2>2, <2>3 DEF Claim
<1>7. ASSUME NEW w \in Workers, ClaimReplay(w) PROVE TypeOK'
  BY <1>7 DEF ClaimReplay
<1>8. ASSUME NEW w \in Workers, Unidentified(w) PROVE TypeOK'
  BY <1>8 DEF Unidentified
<1>9. ASSUME NEW w \in Workers, ClaimRefused(w) PROVE TypeOK'
  BY <1>9 DEF ClaimRefused
<1>10. ASSUME NEW w \in Workers, Await(w) PROVE TypeOK'
  BY <1>10 DEF Await
<1>11. ASSUME NEW w \in Workers, Finalize(w) PROVE TypeOK'
  BY <1>11 DEF Finalize, Sell, Deliverable, HoldsClaim
<1>12. ASSUME NEW w \in Workers, FinalizeReplay(w) PROVE TypeOK'
  BY <1>12 DEF FinalizeReplay
<1>13. ASSUME NEW w \in Workers, FinalizeBlocked(w) PROVE TypeOK'
  BY <1>13 DEF FinalizeBlocked
<1>14. ASSUME NEW w \in Workers, FinalizeFails(w) PROVE TypeOK'
  BY <1>14 DEF FinalizeFails
<1>15. ASSUME NEW w \in Workers, RecordFailure(w) PROVE TypeOK'
  <2>1. pc' \in [Workers -> {"idle", "start", "refer", "renew", "claim", "await", "finalize",
                         "failed", "fatal", "keep", "escalate", "caught", "unfit", "cancel"}]
    BY <1>15 DEF RecordFailure
  <2>2. CASE status = "claimed" /\ token = key[w]
    <3>1. due' \in BOOLEAN
      BY <1>15, <2>2, Zenon DEF RecordFailure
    <3>2. status' \in Statuses
      BY <1>15, <2>2 DEF RecordFailure
    <3>3. attempts' = attempts /\ token' = NoToken /\ version' = version + 1
      BY <1>15, <2>2 DEF RecordFailure
    <3>4. QED BY <1>15, <2>1, <3>1, <3>2, <3>3 DEF RecordFailure
  <2>3. CASE ~(status = "claimed" /\ token = key[w])
    BY <1>15, <2>1, <2>3 DEF RecordFailure
  <2>4. QED BY <2>2, <2>3
<1>16. ASSUME NEW w \in Workers, Keep(w) PROVE TypeOK'
  BY <1>16 DEF Keep, RenewedHold
<1>17. ASSUME NEW w \in Workers, Escalate(w) PROVE TypeOK'
  BY <1>17 DEF Escalate, Escalation
<1>18. ASSUME NEW w \in Workers, Caught(w) PROVE TypeOK'
  BY <1>18 DEF Caught
<1>19. ASSUME NEW w \in Workers, CancelExhausted(w) PROVE TypeOK'
  BY <1>19 DEF CancelExhausted, Exhausted
<1>20. ASSUME NEW w \in Workers, Crash(w) PROVE TypeOK'
  BY <1>20 DEF Crash
<1>21. CASE MakeDue
  BY <1>21 DEF MakeDue
<1>22. CASE LeaseExpires
  BY <1>22 DEF LeaseExpires
<1>23. CASE BecomesDue
  BY <1>23 DEF BecomesDue
<1>24. CASE HoldLapses
  BY <1>24 DEF HoldLapses
<1>25. CASE ReviewChanges
  BY <1>25 DEF ReviewChanges
<1>26. CASE UNCHANGED vars
  BY <1>26 DEF vars
<1>27. QED
  BY <1>1, <1>2, <1>3, <1>4, <1>5, <1>6, <1>7, <1>8, <1>9, <1>10, <1>11, <1>12, <1>13,
     <1>14, <1>15, <1>16, <1>17, <1>18, <1>19, <1>20, <1>21, <1>22, <1>23, <1>24, <1>25, <1>26
     DEF Next, Step

LEMMA NextDelivered == IInv /\ [Next]_vars => DeliveredIffCompleted'
<1> SUFFICES ASSUME IInv, [Next]_vars PROVE DeliveredIffCompleted'
  OBVIOUS
<1> USE MaxAttemptsAssumption, BoundsAssumption DEF IInv, TypeOK, DeliveredIffCompleted
<1>1. ASSUME NEW w \in Workers, SelectDue(w) PROVE DeliveredIffCompleted'
  BY <1>1 DEF SelectDue
<1>2. ASSUME NEW w \in Workers, Start(w) PROVE DeliveredIffCompleted'
  BY <1>2 DEF Start, Remember
<1>3. ASSUME NEW w \in Workers, OperatorRetry(w) PROVE DeliveredIffCompleted'
  BY <1>3 DEF OperatorRetry, Remember
<1>4. ASSUME NEW w \in Workers, Refer(w) PROVE DeliveredIffCompleted'
  BY <1>4 DEF Refer
<1>5. ASSUME NEW w \in Workers, Renew(w) PROVE DeliveredIffCompleted'
  BY <1>5 DEF Renew, RenewedHold
<1>6. ASSUME NEW w \in Workers, Claim(w) PROVE DeliveredIffCompleted'
  BY <1>6 DEF Claim, Claimable, WithinBudget
<1>7. ASSUME NEW w \in Workers, ClaimReplay(w) PROVE DeliveredIffCompleted'
  BY <1>7 DEF ClaimReplay
<1>8. ASSUME NEW w \in Workers, Unidentified(w) PROVE DeliveredIffCompleted'
  BY <1>8 DEF Unidentified
<1>9. ASSUME NEW w \in Workers, ClaimRefused(w) PROVE DeliveredIffCompleted'
  BY <1>9 DEF ClaimRefused
<1>10. ASSUME NEW w \in Workers, Await(w) PROVE DeliveredIffCompleted'
  BY <1>10 DEF Await
<1>11. ASSUME NEW w \in Workers, Finalize(w) PROVE DeliveredIffCompleted'
  BY <1>11 DEF Finalize, Sell, Deliverable, HoldsClaim
<1>12. ASSUME NEW w \in Workers, FinalizeReplay(w) PROVE DeliveredIffCompleted'
  BY <1>12 DEF FinalizeReplay
<1>13. ASSUME NEW w \in Workers, FinalizeBlocked(w) PROVE DeliveredIffCompleted'
  BY <1>13 DEF FinalizeBlocked
<1>14. ASSUME NEW w \in Workers, FinalizeFails(w) PROVE DeliveredIffCompleted'
  BY <1>14 DEF FinalizeFails
<1>15. ASSUME NEW w \in Workers, RecordFailure(w) PROVE DeliveredIffCompleted'
  BY <1>15 DEF RecordFailure
<1>16. ASSUME NEW w \in Workers, Keep(w) PROVE DeliveredIffCompleted'
  BY <1>16 DEF Keep, RenewedHold
<1>17. ASSUME NEW w \in Workers, Escalate(w) PROVE DeliveredIffCompleted'
  BY <1>17 DEF Escalate, Escalation
<1>18. ASSUME NEW w \in Workers, Caught(w) PROVE DeliveredIffCompleted'
  BY <1>18 DEF Caught
<1>19. ASSUME NEW w \in Workers, CancelExhausted(w) PROVE DeliveredIffCompleted'
  BY <1>19 DEF CancelExhausted, Exhausted
<1>20. ASSUME NEW w \in Workers, Crash(w) PROVE DeliveredIffCompleted'
  BY <1>20 DEF Crash
<1>21. CASE MakeDue
  BY <1>21 DEF MakeDue
<1>22. CASE LeaseExpires
  BY <1>22 DEF LeaseExpires
<1>23. CASE BecomesDue
  BY <1>23 DEF BecomesDue
<1>24. CASE HoldLapses
  BY <1>24 DEF HoldLapses
<1>25. CASE ReviewChanges
  BY <1>25 DEF ReviewChanges
<1>26. CASE UNCHANGED vars
  BY <1>26 DEF vars
<1>27. QED
  BY <1>1, <1>2, <1>3, <1>4, <1>5, <1>6, <1>7, <1>8, <1>9, <1>10, <1>11, <1>12, <1>13,
     <1>14, <1>15, <1>16, <1>17, <1>18, <1>19, <1>20, <1>21, <1>22, <1>23, <1>24, <1>25, <1>26
     DEF Next, Step

LEMMA NextCanceled == IInv /\ [Next]_vars => CanceledIsReviewed'
<1> SUFFICES ASSUME IInv, [Next]_vars PROVE CanceledIsReviewed'
  OBVIOUS
<1> USE MaxAttemptsAssumption, BoundsAssumption
     DEF IInv, TypeOK, DeliveredIffCompleted, CanceledIsReviewed
<1>1. ASSUME NEW w \in Workers, SelectDue(w) PROVE CanceledIsReviewed'
  BY <1>1 DEF SelectDue
<1>2. ASSUME NEW w \in Workers, Start(w) PROVE CanceledIsReviewed'
  BY <1>2 DEF Start, Remember
<1>3. ASSUME NEW w \in Workers, OperatorRetry(w) PROVE CanceledIsReviewed'
  BY <1>3 DEF OperatorRetry, Remember
<1>4. ASSUME NEW w \in Workers, Refer(w) PROVE CanceledIsReviewed'
  BY <1>4 DEF Refer
<1>5. ASSUME NEW w \in Workers, Renew(w) PROVE CanceledIsReviewed'
  BY <1>5 DEF Renew, RenewedHold
<1>6. ASSUME NEW w \in Workers, Claim(w) PROVE CanceledIsReviewed'
  BY <1>6 DEF Claim, Claimable, WithinBudget
<1>7. ASSUME NEW w \in Workers, ClaimReplay(w) PROVE CanceledIsReviewed'
  BY <1>7 DEF ClaimReplay
<1>8. ASSUME NEW w \in Workers, Unidentified(w) PROVE CanceledIsReviewed'
  BY <1>8 DEF Unidentified
<1>9. ASSUME NEW w \in Workers, ClaimRefused(w) PROVE CanceledIsReviewed'
  BY <1>9 DEF ClaimRefused
<1>10. ASSUME NEW w \in Workers, Await(w) PROVE CanceledIsReviewed'
  BY <1>10 DEF Await
<1>11. ASSUME NEW w \in Workers, Finalize(w) PROVE CanceledIsReviewed'
  BY <1>11 DEF Finalize, Sell, Deliverable, HoldsClaim
<1>12. ASSUME NEW w \in Workers, FinalizeReplay(w) PROVE CanceledIsReviewed'
  BY <1>12 DEF FinalizeReplay
<1>13. ASSUME NEW w \in Workers, FinalizeBlocked(w) PROVE CanceledIsReviewed'
  BY <1>13 DEF FinalizeBlocked
<1>14. ASSUME NEW w \in Workers, FinalizeFails(w) PROVE CanceledIsReviewed'
  BY <1>14 DEF FinalizeFails
<1>15. ASSUME NEW w \in Workers, RecordFailure(w) PROVE CanceledIsReviewed'
  BY <1>15 DEF RecordFailure
<1>16. ASSUME NEW w \in Workers, Keep(w) PROVE CanceledIsReviewed'
  BY <1>16 DEF Keep, RenewedHold
<1>17. ASSUME NEW w \in Workers, Escalate(w) PROVE CanceledIsReviewed'
  BY <1>17 DEF Escalate, Escalation
<1>18. ASSUME NEW w \in Workers, Caught(w) PROVE CanceledIsReviewed'
  BY <1>18 DEF Caught
<1>19. ASSUME NEW w \in Workers, CancelExhausted(w) PROVE CanceledIsReviewed'
  BY <1>19 DEF CancelExhausted, Exhausted
<1>20. ASSUME NEW w \in Workers, Crash(w) PROVE CanceledIsReviewed'
  BY <1>20 DEF Crash
<1>21. CASE MakeDue
  BY <1>21 DEF MakeDue
<1>22. CASE LeaseExpires
  BY <1>22 DEF LeaseExpires
<1>23. CASE BecomesDue
  BY <1>23 DEF BecomesDue
<1>24. CASE HoldLapses
  BY <1>24 DEF HoldLapses
<1>25. CASE ReviewChanges
  BY <1>25 DEF ReviewChanges
<1>26. CASE UNCHANGED vars
  BY <1>26 DEF vars
<1>27. QED
  BY <1>1, <1>2, <1>3, <1>4, <1>5, <1>6, <1>7, <1>8, <1>9, <1>10, <1>11, <1>12, <1>13,
     <1>14, <1>15, <1>16, <1>17, <1>18, <1>19, <1>20, <1>21, <1>22, <1>23, <1>24, <1>25, <1>26
     DEF Next, Step

LEMMA NextIInv == IInv /\ [Next]_vars => IInv'
<1>1. QED BY NextType, NextDelivered, NextCanceled DEF IInv

\* Every reachable state satisfies the inductive invariant.
THEOREM Invariant == Spec => []IInv
<1>1. QED BY InitIInv, NextIInv, PTL DEF Spec

\* The row, the hold, the reviews and the processes have their types.
THEOREM TypeCorrect == Spec => []TypeOK
<1>1. IInv => TypeOK
  BY DEF IInv
<1>2. QED BY Invariant, <1>1, PTL

\* Work is completed by the delivery of the order, whose reservations nothing takes
\* back, or it is given up and escalated, for any number of processes and attempts.
THEOREM EndsJustified == Spec => []EndIsJustified
<1>1. IInv => EndIsJustified
  BY DEF IInv, EndIsJustified
<1>2. QED BY Invariant, <1>1, PTL

\* The sale is made by Finalize and by nothing else.
LEMMA OnlyFinalizeSells == IInv /\ [Next]_vars /\ paid' # paid => \E w \in Workers : Finalize(w)
<1>1. QED
  BY
     DEF Next, Step, vars, SelectDue, Start, OperatorRetry, Refer, Renew, Claim, ClaimReplay,
         Unidentified, ClaimRefused, Await, FinalizeReplay, FinalizeBlocked, FinalizeFails,
         RecordFailure, Keep, Escalate, Caught, CancelExhausted, Crash, MakeDue, LeaseExpires,
         BecomesDue, HoldLapses, ReviewChanges

\* Every sale is made from a hold that lives and under a claim that runs, no process
\* changes work that has ended, and none completes it without the delivery.
THEOREM SalesAreFromLiveHolds == Spec => SoldFromLiveHold
<1>1. IInv /\ [Next]_vars =>
        (paid' # paid => hold = "payment" /\ ~lapsed /\ ~blocked /\ status = "claimed" /\ ~expired)
  BY OnlyFinalizeSells DEF Finalize, Deliverable, HoldsClaim
<1>2. IInv /\ [Next]_vars => WorkProtected
  <2> SUFFICES ASSUME IInv, [Next]_vars, status \in Terminal PROVE status' = status
    BY DEF WorkProtected
  <2>1. QED
    BY
       DEF WorkProtected, Next, Step, vars, SelectDue, Start, OperatorRetry, Refer, Renew,
           Claim, ClaimReplay, Unidentified, ClaimRefused, Await, Finalize, FinalizeReplay,
           FinalizeBlocked, FinalizeFails, RecordFailure, Keep, Escalate, Caught,
           CancelExhausted, Crash, MakeDue, LeaseExpires, BecomesDue, HoldLapses, ReviewChanges,
           Claimable, HoldsClaim, Exhausted
<1>3. IInv' => WorkCompleted
  BY DEF IInv, DeliveredIffCompleted, WorkCompleted
<1>4. QED BY Invariant, <1>1, <1>2, <1>3, PTL DEF Spec, SoldFromLiveHold
=============================================================================
