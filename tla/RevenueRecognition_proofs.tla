--------------------- MODULE RevenueRecognition_proofs ---------------------
(***************************************************************************)
(* Proofs about RevenueRecognition for every set of orders, lines, staff   *)
(* and processes, every allocation and any attempt budget: types, that     *)
(* revenue is earned as it was delivered, and that the commands implement  *)
(* RevenueContract within what RevenueGuards accepts.                      *)
(***************************************************************************)
EXTENDS RevenueRecognition, TLAPS

\* Lines are delivered for paid orders, and a physical line by its evidence.
DeliveryInv ==
  \A l \in Line :
    /\ deliveredBy[l] # NoOne => OrderOf[l] \in paid
    /\ l \in Physical => deliveredBy[l] = evidence[l]

\* A row of work rests on evidence; it is claimed by an attempt, leased only while
\* it is claimed, and completed only with its recognition.
WorkInv ==
  \A l \in Line :
    /\ work[l].status # "absent" => evidence[l] # NoOne
    /\ work[l].status = "claimed" => work[l].attempts > 0
    /\ work[l].live => work[l].status = "claimed"
    /\ work[l].status = "completed" => recognition[l] # 0

IInv == TypeOK /\ DeliveryInv /\ WorkInv /\ EarnedAsDelivered

USE DEF delivery, Claims, Works, Balances, NoWork, Satisfied, Completed, Delivery!TypeOK

LEMMA InitIInv == Init => IInv
<1> SUFFICES ASSUME Init PROVE IInv
  OBVIOUS
<1> USE OrderAssumption, StaffAssumption, AttemptsAssumption DEF Init, Delivery!Init
<1>1. TypeOK
  BY DEF TypeOK
<1>2. DeliveryInv /\ WorkInv
  BY DEF DeliveryInv, WorkInv
<1>3. EarnedAsDelivered
  BY
     DEF EarnedAsDelivered, EvidenceIsTheDelivery, ConsiderationIsConserved,
         RecognizedUnderLastClaim
<1>4. QED BY <1>1, <1>2, <1>3 DEF IInv

LEMMA NextType == IInv /\ [Next]_vars => TypeOK'
<1> SUFFICES ASSUME IInv, [Next]_vars PROVE TypeOK'
  OBVIOUS
<1> USE OrderAssumption, StaffAssumption, AttemptsAssumption
     DEF IInv, TypeOK, WorkInv, EarnedAsDelivered, ConsiderationIsConserved
<1>1. ASSUME NEW o \in Order, Finalize(o) PROVE TypeOK'
  BY <1>1 DEF Finalize, Allocation, Delivery!Pay
<1>2. ASSUME NEW s \in Staff, Deactivate(s) PROVE TypeOK'
  BY <1>2 DEF Deactivate
<1>3. ASSUME NEW l \in Line, NEW s \in Staff, Complete(l, s) PROVE TypeOK'
  BY <1>3 DEF Complete, Delivery!Deliver
<1>4. ASSUME NEW l \in Line, NEW s \in Staff, CompleteStandard(l, s) PROVE TypeOK'
  BY <1>4 DEF CompleteStandard, Persist, LaunchAuthority
<1>5. ASSUME NEW l \in Line, NormalizeDigital(l) PROVE TypeOK'
  BY <1>5 DEF NormalizeDigital, Persist, LaunchAuthority
<1>6. ASSUME NEW l \in Line, CreateWork(l) PROVE TypeOK'
  BY <1>6 DEF CreateWork
<1>7. ASSUME NEW l \in Line, Lapse(l) PROVE TypeOK'
  <2>1. work' = [work EXCEPT ![l].live = FALSE] /\ work[l].live
    BY <1>7 DEF Lapse
  <2>2. work' \in [Line -> Works]
    <3>1. work[l] \in Works
      OBVIOUS
    <3>2. [work[l] EXCEPT !.live = FALSE] \in Works
      BY <3>1
    <3>3. QED BY <2>1, <3>2
  <2>3. \A m \in Line : work'[m].token = (IF work'[m].status = "claimed" THEN work'[m].attempts ELSE 0)
    BY <2>1
  <2>4. QED BY <1>7, <2>2, <2>3 DEF Lapse
<1>8. ASSUME NEW p \in Process, NEW l \in Line, Read(p, l) PROVE TypeOK'
  BY <1>8 DEF Read
<1>9. ASSUME NEW p \in Process, Claim(p) PROVE TypeOK'
  BY <1>9 DEF Claim, Claimable, Reclaimable, WithinBudget
<1>10. ASSUME NEW p \in Process, Recognize(p) PROVE TypeOK'
  <2> DEFINE l == saw[p].line
  <2>1. l \in Line /\ saw[p].token \in Claims /\ work[l] \in Works
    OBVIOUS
  <2>2. ledger' \in [Line -> Balances]
    <3> DEFINE b == [liability |-> ledger[l].liability - Amount[l],
                     revenue |-> ledger[l].revenue + Amount[l]]
    <3>1. recognition[l] = 0 /\ OrderOf[l] \in paid
      BY <1>10, <2>1 DEF Recognize, DeliveryInv, EvidenceIsTheDelivery
    <3>2. ledger[l].liability = Amount[l] /\ ledger[l].revenue = 0
      BY <2>1, <3>1
    <3>3. b \in Balances
      BY <2>1, <3>2
    <3>4. ledger' = [ledger EXCEPT ![l] = b]
      BY <1>10 DEF Recognize, Post
    <3>5. QED BY <2>1, <3>3, <3>4
  <2>3. recognition' \in [Line -> Claims]
    BY <1>10, <2>1 DEF Recognize
  <2>4. /\ work' \in [Line -> Works]
        /\ \A m \in Line : work'[m].token = (IF work'[m].status = "claimed" THEN work'[m].attempts ELSE 0)
    BY <1>10, <2>1 DEF Recognize
  <2>5. QED BY <1>10, <2>2, <2>3, <2>4 DEF Recognize
<1>11. CASE UNCHANGED vars
  BY <1>11 DEF vars
<1>12. QED
  BY <1>1, <1>2, <1>3, <1>4, <1>5, <1>6, <1>7, <1>8, <1>9, <1>10, <1>11 DEF Next

LEMMA NextDelivery == IInv /\ [Next]_vars => DeliveryInv'
<1> SUFFICES ASSUME IInv, [Next]_vars PROVE DeliveryInv'
  OBVIOUS
<1> USE OrderAssumption, StaffAssumption, AttemptsAssumption DEF IInv, TypeOK, DeliveryInv
<1>1. ASSUME NEW o \in Order, Finalize(o) PROVE DeliveryInv'
  BY <1>1 DEF Finalize, Allocation, Delivery!Pay
<1>2. ASSUME NEW s \in Staff, Deactivate(s) PROVE DeliveryInv'
  BY <1>2 DEF Deactivate
<1>3. ASSUME NEW l \in Line, NEW s \in Staff, Complete(l, s) PROVE DeliveryInv'
  BY <1>3 DEF Complete, Delivery!Deliver
<1>4. ASSUME NEW l \in Line, NEW s \in Staff, CompleteStandard(l, s) PROVE DeliveryInv'
  BY <1>4 DEF CompleteStandard, Persist, LaunchAuthority
<1>5. ASSUME NEW l \in Line, NormalizeDigital(l) PROVE DeliveryInv'
  BY <1>5 DEF NormalizeDigital, Persist, LaunchAuthority
<1>6. ASSUME NEW l \in Line, CreateWork(l) PROVE DeliveryInv'
  BY <1>6 DEF CreateWork
<1>7. ASSUME NEW l \in Line, Lapse(l) PROVE DeliveryInv'
  BY <1>7 DEF Lapse
<1>8. ASSUME NEW p \in Process, NEW l \in Line, Read(p, l) PROVE DeliveryInv'
  BY <1>8 DEF Read
<1>9. ASSUME NEW p \in Process, Claim(p) PROVE DeliveryInv'
  BY <1>9 DEF Claim, Claimable, Reclaimable, WithinBudget
<1>10. ASSUME NEW p \in Process, Recognize(p) PROVE DeliveryInv'
  BY <1>10 DEF Recognize, HoldsClaim, Post
<1>11. CASE UNCHANGED vars
  BY <1>11 DEF vars
<1>12. QED
  BY <1>1, <1>2, <1>3, <1>4, <1>5, <1>6, <1>7, <1>8, <1>9, <1>10, <1>11 DEF Next

LEMMA NextWork == IInv /\ [Next]_vars => WorkInv'
<1> SUFFICES ASSUME IInv, [Next]_vars PROVE WorkInv'
  OBVIOUS
<1> USE OrderAssumption, StaffAssumption, AttemptsAssumption DEF IInv, TypeOK, WorkInv
<1>1. ASSUME NEW o \in Order, Finalize(o) PROVE WorkInv'
  BY <1>1 DEF Finalize, Allocation, Delivery!Pay
<1>2. ASSUME NEW s \in Staff, Deactivate(s) PROVE WorkInv'
  BY <1>2 DEF Deactivate
<1>3. ASSUME NEW l \in Line, NEW s \in Staff, Complete(l, s) PROVE WorkInv'
  BY <1>3 DEF Complete, Delivery!Deliver
<1>4. ASSUME NEW l \in Line, NEW s \in Staff, CompleteStandard(l, s) PROVE WorkInv'
  BY <1>4 DEF CompleteStandard, Persist, LaunchAuthority
<1>5. ASSUME NEW l \in Line, NormalizeDigital(l) PROVE WorkInv'
  BY <1>5 DEF NormalizeDigital, Persist, LaunchAuthority
<1>6. ASSUME NEW l \in Line, CreateWork(l) PROVE WorkInv'
  BY <1>6 DEF CreateWork
<1>7. ASSUME NEW l \in Line, Lapse(l) PROVE WorkInv'
  BY <1>7 DEF Lapse
<1>8. ASSUME NEW p \in Process, NEW l \in Line, Read(p, l) PROVE WorkInv'
  BY <1>8 DEF Read
<1>9. ASSUME NEW p \in Process, Claim(p) PROVE WorkInv'
  BY <1>9 DEF Claim, Claimable, Reclaimable, WithinBudget
<1>10. ASSUME NEW p \in Process, Recognize(p) PROVE WorkInv'
  BY <1>10 DEF Recognize, HoldsClaim, Post
<1>11. CASE UNCHANGED vars
  BY <1>11 DEF vars
<1>12. QED
  BY <1>1, <1>2, <1>3, <1>4, <1>5, <1>6, <1>7, <1>8, <1>9, <1>10, <1>11 DEF Next

LEMMA NextEvidence == IInv /\ [Next]_vars => EvidenceIsTheDelivery'
<1> SUFFICES ASSUME IInv, [Next]_vars PROVE EvidenceIsTheDelivery'
  OBVIOUS
<1> USE OrderAssumption, StaffAssumption, AttemptsAssumption
     DEF IInv, TypeOK, DeliveryInv, EarnedAsDelivered, EvidenceIsTheDelivery
<1>1. ASSUME NEW o \in Order, Finalize(o) PROVE EvidenceIsTheDelivery'
  BY <1>1 DEF Finalize, Allocation, Delivery!Pay
<1>2. ASSUME NEW s \in Staff, Deactivate(s) PROVE EvidenceIsTheDelivery'
  BY <1>2 DEF Deactivate
<1>3. ASSUME NEW l \in Line, NEW s \in Staff, Complete(l, s) PROVE EvidenceIsTheDelivery'
  BY <1>3 DEF Complete, Delivery!Deliver
<1>4. ASSUME NEW l \in Line, NEW s \in Staff, CompleteStandard(l, s) PROVE EvidenceIsTheDelivery'
  BY <1>4 DEF CompleteStandard, Persist, LaunchAuthority
<1>5. ASSUME NEW l \in Line, NormalizeDigital(l) PROVE EvidenceIsTheDelivery'
  BY <1>5 DEF NormalizeDigital, Persist, LaunchAuthority
<1>6. ASSUME NEW l \in Line, CreateWork(l) PROVE EvidenceIsTheDelivery'
  BY <1>6 DEF CreateWork
<1>7. ASSUME NEW l \in Line, Lapse(l) PROVE EvidenceIsTheDelivery'
  BY <1>7 DEF Lapse
<1>8. ASSUME NEW p \in Process, NEW l \in Line, Read(p, l) PROVE EvidenceIsTheDelivery'
  BY <1>8 DEF Read
<1>9. ASSUME NEW p \in Process, Claim(p) PROVE EvidenceIsTheDelivery'
  BY <1>9 DEF Claim, Claimable, Reclaimable, WithinBudget
<1>10. ASSUME NEW p \in Process, Recognize(p) PROVE EvidenceIsTheDelivery'
  BY <1>10 DEF Recognize, HoldsClaim, Post
<1>11. CASE UNCHANGED vars
  BY <1>11 DEF vars
<1>12. QED
  BY <1>1, <1>2, <1>3, <1>4, <1>5, <1>6, <1>7, <1>8, <1>9, <1>10, <1>11 DEF Next

LEMMA NextConsideration == IInv /\ [Next]_vars => ConsiderationIsConserved'
<1> SUFFICES ASSUME IInv, [Next]_vars PROVE ConsiderationIsConserved'
  OBVIOUS
<1> USE OrderAssumption, StaffAssumption, AttemptsAssumption
     DEF IInv, TypeOK, WorkInv, EarnedAsDelivered, ConsiderationIsConserved
<1>1. ASSUME NEW o \in Order, Finalize(o) PROVE ConsiderationIsConserved'
  BY <1>1 DEF Finalize, Allocation, Delivery!Pay
<1>2. ASSUME NEW s \in Staff, Deactivate(s) PROVE ConsiderationIsConserved'
  BY <1>2 DEF Deactivate
<1>3. ASSUME NEW l \in Line, NEW s \in Staff, Complete(l, s) PROVE ConsiderationIsConserved'
  BY <1>3 DEF Complete, Delivery!Deliver
<1>4. ASSUME NEW l \in Line, NEW s \in Staff, CompleteStandard(l, s)
      PROVE ConsiderationIsConserved'
  BY <1>4 DEF CompleteStandard, Persist, LaunchAuthority
<1>5. ASSUME NEW l \in Line, NormalizeDigital(l) PROVE ConsiderationIsConserved'
  BY <1>5 DEF NormalizeDigital, Persist, LaunchAuthority
<1>6. ASSUME NEW l \in Line, CreateWork(l) PROVE ConsiderationIsConserved'
  BY <1>6 DEF CreateWork
<1>7. ASSUME NEW l \in Line, Lapse(l) PROVE ConsiderationIsConserved'
  BY <1>7 DEF Lapse
<1>8. ASSUME NEW p \in Process, NEW l \in Line, Read(p, l) PROVE ConsiderationIsConserved'
  BY <1>8 DEF Read
<1>9. ASSUME NEW p \in Process, Claim(p) PROVE ConsiderationIsConserved'
  BY <1>9 DEF Claim, Claimable, Reclaimable, WithinBudget
<1>10. ASSUME NEW p \in Process, Recognize(p) PROVE ConsiderationIsConserved'
  BY <1>10 DEF Recognize, HoldsClaim, Post
<1>11. CASE UNCHANGED vars
  BY <1>11 DEF vars
<1>12. QED
  BY <1>1, <1>2, <1>3, <1>4, <1>5, <1>6, <1>7, <1>8, <1>9, <1>10, <1>11 DEF Next

LEMMA NextClaims == IInv /\ [Next]_vars => RecognizedUnderLastClaim'
<1> SUFFICES ASSUME IInv, [Next]_vars PROVE RecognizedUnderLastClaim'
  OBVIOUS
<1> USE OrderAssumption, StaffAssumption, AttemptsAssumption
     DEF IInv, TypeOK, WorkInv, EarnedAsDelivered, RecognizedUnderLastClaim
<1>1. ASSUME NEW o \in Order, Finalize(o) PROVE RecognizedUnderLastClaim'
  BY <1>1 DEF Finalize, Allocation, Delivery!Pay
<1>2. ASSUME NEW s \in Staff, Deactivate(s) PROVE RecognizedUnderLastClaim'
  BY <1>2 DEF Deactivate
<1>3. ASSUME NEW l \in Line, NEW s \in Staff, Complete(l, s) PROVE RecognizedUnderLastClaim'
  BY <1>3 DEF Complete, Delivery!Deliver
<1>4. ASSUME NEW l \in Line, NEW s \in Staff, CompleteStandard(l, s)
      PROVE RecognizedUnderLastClaim'
  BY <1>4 DEF CompleteStandard, Persist, LaunchAuthority
<1>5. ASSUME NEW l \in Line, NormalizeDigital(l) PROVE RecognizedUnderLastClaim'
  BY <1>5 DEF NormalizeDigital, Persist, LaunchAuthority
<1>6. ASSUME NEW l \in Line, CreateWork(l) PROVE RecognizedUnderLastClaim'
  BY <1>6 DEF CreateWork
<1>7. ASSUME NEW l \in Line, Lapse(l) PROVE RecognizedUnderLastClaim'
  BY <1>7 DEF Lapse
<1>8. ASSUME NEW p \in Process, NEW l \in Line, Read(p, l) PROVE RecognizedUnderLastClaim'
  BY <1>8 DEF Read
<1>9. ASSUME NEW p \in Process, Claim(p) PROVE RecognizedUnderLastClaim'
  BY <1>9 DEF Claim, Claimable, Reclaimable, WithinBudget
<1>10. ASSUME NEW p \in Process, Recognize(p) PROVE RecognizedUnderLastClaim'
  BY <1>10 DEF Recognize, HoldsClaim, Post
<1>11. CASE UNCHANGED vars
  BY <1>11 DEF vars
<1>12. QED
  BY <1>1, <1>2, <1>3, <1>4, <1>5, <1>6, <1>7, <1>8, <1>9, <1>10, <1>11 DEF Next

LEMMA NextIInv == IInv /\ [Next]_vars => IInv'
<1>1. QED
  BY NextType, NextDelivery, NextWork, NextEvidence, NextConsideration, NextClaims
     DEF IInv, EarnedAsDelivered

\* Every reachable state satisfies the inductive invariant.
THEOREM Invariant == Spec => []IInv
<1>1. QED BY InitIInv, NextIInv, PTL DEF Spec

\* The rows of evidence, work, recognition and journal have their types, and a claim
\* token belongs to the last attempt of claimed work.
THEOREM TypeCorrect == Spec => []TypeOK
<1>1. IInv => TypeOK
  BY DEF IInv
<1>2. QED BY Invariant, <1>1, PTL

\* For every allocation, any number of processes and any budget of attempts: revenue
\* rests on the evidence of the delivery, nothing of the consideration is lost or made,
\* and it is recognized under a claim nobody had taken over.
THEOREM RevenueIsEarned == Spec => []EarnedAsDelivered
<1>1. IInv => EarnedAsDelivered
  BY DEF IInv
<1>2. QED BY Invariant, <1>1, PTL

LEMMA StateIsCoherent == IInv => Guards!Coherent
<1> SUFFICES ASSUME IInv, NEW l \in Line
             PROVE  /\ Guards!AllocationOwned(l) /\ Guards!WorkOwned(l) /\ Guards!WorkCoherent(l)
                    /\ Guards!WorkJustified(l) /\ Guards!RecognitionCoherent(l)
                    /\ Guards!PostingBalanced(l)
  BY DEF Guards!Coherent
<1> USE OrderAssumption, AttemptsAssumption
    DEF IInv, TypeOK, DeliveryInv, WorkInv, EarnedAsDelivered, Guards!Recognized, Guards!Worked,
        Guards!Evidenced, Guards!Obliged
<1>1. Guards!AllocationOwned(l)
  BY DEF Guards!AllocationOwned, ConsiderationIsConserved
<1>2. Guards!WorkOwned(l)
  BY DEF Guards!WorkOwned, EvidenceIsTheDelivery
<1>3. Guards!WorkCoherent(l) /\ Guards!WorkJustified(l)
  BY DEF Guards!WorkCoherent, Guards!WorkJustified
<1>4. Guards!RecognitionCoherent(l)
  BY DEF Guards!RecognitionCoherent, RecognizedUnderLastClaim
<1>5. Guards!PostingBalanced(l)
  <2>1. recognition[l] # 0 => OrderOf[l] \in paid
    BY DEF RecognizedUnderLastClaim, EvidenceIsTheDelivery
  <2>2. ASSUME recognition[l] # 0
        PROVE  ledger[l].revenue = Amount[l] /\ ledger[l].liability = 0
    <3>1. /\ ledger[l].revenue = Amount[l]
          /\ ledger[l].liability + ledger[l].revenue = Amount[l]
      BY <2>1, <2>2 DEF ConsiderationIsConserved
    <3>2. ledger[l].liability \in Nat /\ ledger[l].revenue \in Nat /\ Amount[l] \in Nat
      OBVIOUS
    <3>3. \A a, b, c \in Nat : a + b = c /\ b = c => a = 0
      OBVIOUS
    <3>4. QED BY <3>1, <3>2, <3>3, Zenon
  <2>3. ledger[l] = [liability |-> ledger[l].liability, revenue |-> ledger[l].revenue]
    OBVIOUS
  <2>4. QED BY <2>2, <2>3 DEF Guards!PostingBalanced
<1>6. QED BY <1>1, <1>2, <1>3, <1>4, <1>5

\* What the guards ask of every order and line at once.
OrdersAllocated == \A o \in Order : Guards!AllocationComplete(o)
LinesBalanced == \A m \in Line : Guards!EntriesBalanced(m)
LinesEvidenced == \A m \in Line : Guards!EvidenceAdmitted(m) /\ Guards!EvidenceAppended(m)
LinesRecorded ==
  \A m \in Line : Guards!WorkKept(m) /\ Guards!TerminalWorkImmutable(m) /\ Guards!RecognitionOnce(m)

LEMMA AllocationIsComplete == IInv /\ [Next]_vars => OrdersAllocated
<1> SUFFICES ASSUME IInv, [Next]_vars PROVE OrdersAllocated
  OBVIOUS
<1> USE OrderAssumption, StaffAssumption, AttemptsAssumption
     DEF IInv, TypeOK, DeliveryInv, Guards!Recognized, Guards!Worked, Guards!Evidenced,
         Guards!Obliged, Guards!AllocationComplete, OrdersAllocated
<1>1. ASSUME NEW o \in Order, Finalize(o) PROVE OrdersAllocated
  BY <1>1 DEF Finalize, Allocation, Delivery!Pay
<1>2. ASSUME NEW s \in Staff, Deactivate(s) PROVE OrdersAllocated
  BY <1>2 DEF Deactivate
<1>3. ASSUME NEW l \in Line, NEW s \in Staff, Complete(l, s) PROVE OrdersAllocated
  BY <1>3 DEF Complete, Delivery!Deliver
<1>4. ASSUME NEW l \in Line, NEW s \in Staff, CompleteStandard(l, s) PROVE OrdersAllocated
  BY <1>4 DEF CompleteStandard, Persist, LaunchAuthority
<1>5. ASSUME NEW l \in Line, NormalizeDigital(l) PROVE OrdersAllocated
  BY <1>5 DEF NormalizeDigital, Persist, LaunchAuthority
<1>6. ASSUME NEW l \in Line, CreateWork(l) PROVE OrdersAllocated
  BY <1>6 DEF CreateWork
<1>7. ASSUME NEW l \in Line, Lapse(l) PROVE OrdersAllocated
  BY <1>7 DEF Lapse
<1>8. ASSUME NEW p \in Process, NEW l \in Line, Read(p, l) PROVE OrdersAllocated
  BY <1>8 DEF Read
<1>9. ASSUME NEW p \in Process, Claim(p) PROVE OrdersAllocated
  BY <1>9 DEF Claim, Claimable, Reclaimable, WithinBudget
<1>10. ASSUME NEW p \in Process, Recognize(p) PROVE OrdersAllocated
  BY <1>10 DEF Recognize, HoldsClaim, Post
<1>11. CASE UNCHANGED vars
  BY <1>11 DEF vars
<1>12. QED
  BY <1>1, <1>2, <1>3, <1>4, <1>5, <1>6, <1>7, <1>8, <1>9, <1>10, <1>11 DEF Next

LEMMA EntriesAreBalanced == IInv /\ [Next]_vars => LinesBalanced
<1> SUFFICES ASSUME IInv, [Next]_vars PROVE LinesBalanced
  OBVIOUS
<1> USE OrderAssumption, StaffAssumption, AttemptsAssumption
     DEF IInv, TypeOK, DeliveryInv, Guards!Recognized, Guards!Worked, Guards!Evidenced,
         Guards!Obliged, Guards!EntriesBalanced, LinesBalanced
<1>1. ASSUME NEW o \in Order, Finalize(o) PROVE LinesBalanced
  <2> TAKE m \in Line
  <2>1. CASE OrderOf[m] = o
    <3>1. ledger[m].liability = 0 /\ ledger[m].revenue = 0
      BY <1>1, <2>1 DEF Finalize, Delivery!Pay, EarnedAsDelivered, ConsiderationIsConserved
    <3>2. ledger'[m] = [liability |-> Amount[m], revenue |-> 0] /\ o \in paid' \ paid
      BY <1>1, <2>1 DEF Finalize, Allocation, Delivery!Pay
    <3>3. QED BY <2>1, <3>1, <3>2
  <2>2. CASE OrderOf[m] # o
    <3>1. ledger'[m] = ledger[m] /\ OrderOf[m] \notin paid' \ paid
      BY <1>1, <2>2 DEF Finalize, Delivery!Pay
    <3>2. QED BY <3>1
  <2>3. QED BY <2>1, <2>2
<1>2. ASSUME NEW s \in Staff, Deactivate(s) PROVE LinesBalanced
  BY <1>2 DEF Deactivate
<1>3. ASSUME NEW l \in Line, NEW s \in Staff, Complete(l, s) PROVE LinesBalanced
  BY <1>3 DEF Complete, Delivery!Deliver
<1>4. ASSUME NEW l \in Line, NEW s \in Staff, CompleteStandard(l, s) PROVE LinesBalanced
  BY <1>4 DEF CompleteStandard, Persist, LaunchAuthority
<1>5. ASSUME NEW l \in Line, NormalizeDigital(l) PROVE LinesBalanced
  BY <1>5 DEF NormalizeDigital, Persist, LaunchAuthority
<1>6. ASSUME NEW l \in Line, CreateWork(l) PROVE LinesBalanced
  BY <1>6 DEF CreateWork
<1>7. ASSUME NEW l \in Line, Lapse(l) PROVE LinesBalanced
  BY <1>7 DEF Lapse
<1>8. ASSUME NEW p \in Process, NEW l \in Line, Read(p, l) PROVE LinesBalanced
  BY <1>8 DEF Read
<1>9. ASSUME NEW p \in Process, Claim(p) PROVE LinesBalanced
  BY <1>9 DEF Claim, Claimable, Reclaimable, WithinBudget
<1>10. ASSUME NEW p \in Process, Recognize(p) PROVE LinesBalanced
  BY <1>10 DEF Recognize, HoldsClaim, Post
<1>11. CASE UNCHANGED vars
  BY <1>11 DEF vars
<1>12. QED
  BY <1>1, <1>2, <1>3, <1>4, <1>5, <1>6, <1>7, <1>8, <1>9, <1>10, <1>11 DEF Next

LEMMA EvidenceIsAdmitted == IInv /\ [Next]_vars => LinesEvidenced
<1> SUFFICES ASSUME IInv, [Next]_vars PROVE LinesEvidenced
  OBVIOUS
<1> USE OrderAssumption, StaffAssumption, AttemptsAssumption
     DEF IInv, TypeOK, DeliveryInv, Guards!Recognized, Guards!Worked, Guards!Evidenced,
         Guards!Obliged, Guards!EvidenceAdmitted, Guards!EvidenceAppended, LinesEvidenced
<1>1. ASSUME NEW o \in Order, Finalize(o) PROVE LinesEvidenced
  BY <1>1 DEF Finalize, Allocation, Delivery!Pay
<1>2. ASSUME NEW s \in Staff, Deactivate(s) PROVE LinesEvidenced
  BY <1>2 DEF Deactivate
<1>3. ASSUME NEW l \in Line, NEW s \in Staff, Complete(l, s) PROVE LinesEvidenced
  BY <1>3 DEF Complete, Delivery!Deliver
<1>4. ASSUME NEW l \in Line, NEW s \in Staff, CompleteStandard(l, s) PROVE LinesEvidenced
  BY <1>4 DEF CompleteStandard, Persist, LaunchAuthority
<1>5. ASSUME NEW l \in Line, NormalizeDigital(l) PROVE LinesEvidenced
  BY <1>5 DEF NormalizeDigital, Persist, LaunchAuthority
<1>6. ASSUME NEW l \in Line, CreateWork(l) PROVE LinesEvidenced
  BY <1>6 DEF CreateWork
<1>7. ASSUME NEW l \in Line, Lapse(l) PROVE LinesEvidenced
  BY <1>7 DEF Lapse
<1>8. ASSUME NEW p \in Process, NEW l \in Line, Read(p, l) PROVE LinesEvidenced
  BY <1>8 DEF Read
<1>9. ASSUME NEW p \in Process, Claim(p) PROVE LinesEvidenced
  BY <1>9 DEF Claim, Claimable, Reclaimable, WithinBudget
<1>10. ASSUME NEW p \in Process, Recognize(p) PROVE LinesEvidenced
  BY <1>10 DEF Recognize, HoldsClaim, Post
<1>11. CASE UNCHANGED vars
  BY <1>11 DEF vars
<1>12. QED
  BY <1>1, <1>2, <1>3, <1>4, <1>5, <1>6, <1>7, <1>8, <1>9, <1>10, <1>11 DEF Next

LEMMA HistoryIsKept == IInv /\ [Next]_vars => LinesRecorded
<1> SUFFICES ASSUME IInv, [Next]_vars PROVE LinesRecorded
  OBVIOUS
<1> USE OrderAssumption, StaffAssumption, AttemptsAssumption
     DEF IInv, TypeOK, DeliveryInv, Guards!Recognized, Guards!Worked, Guards!Evidenced,
         Guards!Obliged, WorkInv, Guards!WorkKept, Guards!TerminalWorkImmutable,
         Guards!RecognitionOnce, LinesRecorded
<1>1. ASSUME NEW o \in Order, Finalize(o) PROVE LinesRecorded
  BY <1>1 DEF Finalize, Allocation, Delivery!Pay
<1>2. ASSUME NEW s \in Staff, Deactivate(s) PROVE LinesRecorded
  BY <1>2 DEF Deactivate
<1>3. ASSUME NEW l \in Line, NEW s \in Staff, Complete(l, s) PROVE LinesRecorded
  BY <1>3 DEF Complete, Delivery!Deliver
<1>4. ASSUME NEW l \in Line, NEW s \in Staff, CompleteStandard(l, s) PROVE LinesRecorded
  BY <1>4 DEF CompleteStandard, Persist, LaunchAuthority
<1>5. ASSUME NEW l \in Line, NormalizeDigital(l) PROVE LinesRecorded
  BY <1>5 DEF NormalizeDigital, Persist, LaunchAuthority
<1>6. ASSUME NEW l \in Line, CreateWork(l) PROVE LinesRecorded
  BY <1>6 DEF CreateWork
<1>7. ASSUME NEW l \in Line, Lapse(l) PROVE LinesRecorded
  BY <1>7 DEF Lapse
<1>8. ASSUME NEW p \in Process, NEW l \in Line, Read(p, l) PROVE LinesRecorded
  BY <1>8 DEF Read
<1>9. ASSUME NEW p \in Process, Claim(p) PROVE LinesRecorded
  BY <1>9 DEF Claim, Claimable, Reclaimable, WithinBudget
<1>10. ASSUME NEW p \in Process, Recognize(p) PROVE LinesRecorded
  BY <1>10 DEF Recognize, HoldsClaim, Post
<1>11. CASE UNCHANGED vars
  BY <1>11 DEF vars
<1>12. QED
  BY <1>1, <1>2, <1>3, <1>4, <1>5, <1>6, <1>7, <1>8, <1>9, <1>10, <1>11 DEF Next

LEMMA ContractStep == IInv /\ [Next]_vars => [Contract!Next]_(Contract!vars)
<1> SUFFICES ASSUME IInv, [Next]_vars PROVE [Contract!Next]_(Contract!vars)
  OBVIOUS
<1> USE OrderAssumption, StaffAssumption, AttemptsAssumption
     DEF IInv, TypeOK, DeliveryInv, Contract!Next, Contract!vars
<1>1. ASSUME NEW o \in Order, Finalize(o) PROVE [Contract!Next]_(Contract!vars)
  BY <1>1 DEF Finalize, Contract!Delivery!Next, Contract!Delivery!Pay, Delivery!Pay
<1>2. ASSUME NEW s \in Staff, Deactivate(s) PROVE [Contract!Next]_(Contract!vars)
  BY <1>2 DEF Deactivate
<1>3. ASSUME NEW l \in Line, NEW s \in Staff, Complete(l, s) PROVE [Contract!Next]_(Contract!vars)
  BY <1>3 DEF Complete, Delivery!Deliver, Contract!Delivery!Next, Contract!Delivery!Deliver
<1>4. ASSUME NEW l \in Line, NEW s \in Staff, CompleteStandard(l, s)
      PROVE [Contract!Next]_(Contract!vars)
  <2>1. {m \in Line : recognition[m] # 0}' = {m \in Line : recognition[m] # 0}
    BY <1>4 DEF CompleteStandard
  <2>2. CASE deliveredBy[l] = NoOne
    <3>1. Contract!Delivery!Deliver(l, s)
      BY <1>4, <2>2 DEF CompleteStandard, Contract!Delivery!Deliver
    <3>2. QED BY <2>1, <3>1 DEF Contract!Delivery!Next
  <2>3. CASE deliveredBy[l] # NoOne
    BY <1>4, <2>1, <2>3 DEF CompleteStandard
  <2>4. QED BY <2>2, <2>3
<1>5. ASSUME NEW l \in Line, NormalizeDigital(l) PROVE [Contract!Next]_(Contract!vars)
  BY <1>5 DEF NormalizeDigital, Persist, LaunchAuthority
<1>6. ASSUME NEW l \in Line, CreateWork(l) PROVE [Contract!Next]_(Contract!vars)
  BY <1>6 DEF CreateWork
<1>7. ASSUME NEW l \in Line, Lapse(l) PROVE [Contract!Next]_(Contract!vars)
  BY <1>7 DEF Lapse
<1>8. ASSUME NEW p \in Process, NEW l \in Line, Read(p, l) PROVE [Contract!Next]_(Contract!vars)
  BY <1>8 DEF Read
<1>9. ASSUME NEW p \in Process, Claim(p) PROVE [Contract!Next]_(Contract!vars)
  BY <1>9 DEF Claim, Claimable, Reclaimable, WithinBudget
<1>10. ASSUME NEW p \in Process, Recognize(p) PROVE [Contract!Next]_(Contract!vars)
  <2>0. PICK l \in Line : l = saw[p].line
    OBVIOUS
  <2>1. saw[p].token # 0
    BY <1>10, <2>0 DEF Recognize, HoldsClaim, WorkInv
  <2>2. deliveredBy[l] # NoOne /\ recognition[l] = 0
    BY <1>10, <2>0, <2>1 DEF Recognize, EarnedAsDelivered, EvidenceIsTheDelivery
  <2>3. {m \in Line : recognition[m] # 0}' = {m \in Line : recognition[m] # 0} \cup {l}
    BY <1>10, <2>0, <2>1 DEF Recognize
  <2>4. Contract!Earn(l)
    BY <1>10, <2>0, <2>2, <2>3 DEF Recognize, Contract!Earn
  <2>5. QED BY <2>4
<1>11. CASE UNCHANGED vars
  BY <1>11 DEF vars
<1>12. QED
  BY <1>1, <1>2, <1>3, <1>4, <1>5, <1>6, <1>7, <1>8, <1>9, <1>10, <1>11 DEF Next

\* Every command maps to a step of the contract, or leaves it alone, and is one that
\* the constraints and triggers of the database accept.
THEOREM Implementation == Spec => ImplementsRevenueContract
<1>1. Init => Contract!Init /\ Guards!Init
  BY
     DEF Init, Contract!Init, Contract!Delivery!Init, Delivery!Init, Guards!Init,
         Guards!Evidenced,
         Guards!Worked, Guards!Recognized
<1>2. IInv /\ [Next]_vars => [Contract!Next]_(Contract!vars)
  BY ContractStep
<1>3. IInv /\ IInv' /\ [Next]_vars => [Guards!Accepted]_(Guards!vars)
  <2>1. IInv' => Guards!Coherent'
    BY StateIsCoherent, PTL
  <2>2. QED
    BY <2>1, AllocationIsComplete, EntriesAreBalanced, EvidenceIsAdmitted, HistoryIsKept
       DEF Guards!Accepted, OrdersAllocated, LinesBalanced, LinesEvidenced, LinesRecorded
<1>4. QED
  BY Invariant, <1>1, <1>2, <1>3, PTL
     DEF Spec, ImplementsRevenueContract, Contract!Spec, Guards!Spec
=============================================================================
