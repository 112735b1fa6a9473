------------------------- MODULE RevenueRecognition -------------------------
(***************************************************************************)
(* The way from a delivered line to revenue: satisfaction evidence, the    *)
(* recognition work with its claims, and the recognition with its journal  *)
(* entry.  Each command is one transaction under the locks of the rows it  *)
(* reads, so it is one action; what a process carries from one command to  *)
(* the next, the version it read and the token it was given, is its own    *)
(* and may be stale.  A command that raises rolls back what it wrote, so   *)
(* neither a claim beyond the last attempt nor a contradicted completion   *)
(* changes anything.  Nothing in the repository calls these commands       *)
(* periodically, so no progress is promised.                               *)
(***************************************************************************)
EXTENDS Integers

CONSTANTS
  Order, Line,
  OrderOf,       \* [Line -> Order]
  Buyer,         \* [Order -> Staff or NoOne]: an order that a member of staff placed
  Physical,      \* lines of standard commerce; the others are Digital
  Preorder,      \* Digital lines bought before release
  Amount,        \* [Line -> Nat]: the consideration allocated to a line
  Staff, NoOne,
  Process,
  MaxAttempts    \* max_attempts of the work row

ASSUME OrderAssumption ==
  /\ OrderOf \in [Line -> Order]
  /\ Physical \subseteq Line
  /\ Preorder \subseteq Line \ Physical
  /\ Amount \in [Line -> Nat \ {0}]
ASSUME StaffAssumption == NoOne \notin Staff /\ Buyer \in [Order -> Staff \cup {NoOne}]
ASSUME AttemptsAssumption == MaxAttempts \in Nat \ {0}

VARIABLES
  paid, deliveredBy,  \* the contract of fulfillment
  active,             \* staff whose account is active
  evidence,           \* operator of a line's SatisfactionEvidence, NoOne without one
  work,               \* the RevenueRecognitionWorkItem of a line
  recognition,        \* the claim under which its RevenueRecognition was made, 0 if none
  ledger,             \* what the journal holds for a line's allocation
  saw                 \* line, version and claim a process has in hand

delivery == <<paid, deliveredBy>>
vars     == <<delivery, active, evidence, work, recognition, ledger, saw>>

Delivery == INSTANCE DeliveryContract

\* A claim token is derived from the claim's key; it is named by its attempt.
Claims == 0..MaxAttempts
Works == [status : {"absent", "pending", "claimed", "completed"},
          version : Nat, attempts : Claims, token : Claims, live : BOOLEAN]
Balances == [liability : Nat, revenue : Nat]
NoWork == [status |-> "absent", version |-> 0, attempts |-> 0, token |-> 0, live |-> FALSE]

Init ==
  /\ Delivery!Init
  /\ active = Staff
  /\ evidence = [l \in Line |-> NoOne]
  /\ work = [l \in Line |-> NoWork]
  /\ recognition = [l \in Line |-> 0]
  /\ ledger = [l \in Line |-> [liability |-> 0, revenue |-> 0]]
  /\ saw \in [Process -> {[line |-> l, version |-> 0, token |-> 0] : l \in Line}]

-----------------------------------------------------------------------------
(* Finalization and fulfillment                                            *)

\* What is allocated to a line, all of it a liability.
Allocation(l) == [liability |-> Amount[l], revenue |-> 0]

\* The finalizer reclassifies the payment: one allocation for each line.
Finalize(o) ==
  /\ Delivery!Pay(o)
  /\ ledger' = [l \in Line |-> IF OrderOf[l] = o THEN Allocation(l)
                               ELSE ledger[l]]
  /\ UNCHANGED <<active, evidence, work, recognition, saw>>

\* The execution of a Digital line is completed, in DigitalFulfillment.
Complete(l, s) ==
  /\ l \notin Physical /\ Delivery!Deliver(l, s)
  /\ UNCHANGED <<active, evidence, work, recognition, ledger, saw>>

Deactivate(s) ==
  /\ s \in active /\ active' = active \ {s}
  /\ UNCHANGED <<delivery, evidence, work, recognition, ledger, saw>>

-----------------------------------------------------------------------------
(* Satisfaction evidence                                                   *)

\* The first row stays; an equal one is a replay, another one is a conflict.
Persist(l, s) ==
  /\ evidence[l] \in {NoOne, s}
  /\ evidence' = [evidence EXCEPT ![l] = s]

\* A released preorder has a component from its finalization and one from its
\* release, and the lineage asks for exactly one.
OneComponent(l) == l \notin Preorder

\* What PostgreSQL asks of the operator of new evidence: active staff, and not
\* the customer of a physical line.
LaunchAuthority(l, s) == s \in active /\ (l \in Physical => s # Buyer[OrderOf[l]])

\* Delivery of a physical line, which is recorded by its evidence alone.
CompleteStandard(l, s) ==
  /\ l \in Physical /\ OrderOf[l] \in paid
  /\ LaunchAuthority(l, s)
  /\ Persist(l, s)
  /\ deliveredBy' = [deliveredBy EXCEPT ![l] = IF @ = NoOne THEN s ELSE @]
  /\ UNCHANGED <<paid, active, work, recognition, ledger, saw>>

Completed(l) == deliveredBy[l] # NoOne

\* The operator is read from the installation and must still be active.
NormalizeDigital(l) ==
  /\ l \notin Physical /\ OneComponent(l) /\ Completed(l)
  /\ LaunchAuthority(l, deliveredBy[l])
  /\ Persist(l, deliveredBy[l])
  /\ UNCHANGED <<delivery, active, work, recognition, ledger, saw>>

-----------------------------------------------------------------------------
(* Recognition work                                                        *)

\* The obligation has its one evidence.
SatisfiedAlways(l) == OrderOf[l] \in paid
Satisfied(l) == evidence[l] # NoOne

CreateWork(l) ==
  /\ Satisfied(l) /\ work[l].status = "absent"
  /\ work' = [work EXCEPT ![l] = [NoWork EXCEPT !.status = "pending", !.version = 1]]
  /\ UNCHANGED <<delivery, active, evidence, recognition, ledger, saw>>

\* A process reads the version it will expect.
Read(p, l) ==
  /\ work[l].status # "absent"
  /\ saw' = [saw EXCEPT ![p] = [line |-> l, version |-> work[l].version, token |-> 0]]
  /\ UNCHANGED <<delivery, active, evidence, work, recognition, ledger>>

WithinBudgetOffByOne(l) == work[l].attempts <= MaxAttempts
WithinBudget(l) == work[l].attempts < MaxAttempts

\* A claim whose lease ran out is released and taken in one transaction.
Reclaimable(l) == work[l].status = "claimed" /\ ~work[l].live

Claimable(l) == work[l].status = "pending" \/ Reclaimable(l)

Claim(p) ==
  LET l == saw[p].line  w == work[l] IN
  /\ Claimable(l) /\ WithinBudget(l) /\ w.version = saw[p].version
  /\ work' = [work EXCEPT ![l] =
       [status |-> "claimed", version |-> w.version + (IF w.status = "claimed" THEN 2 ELSE 1),
        attempts |-> w.attempts + 1, token |-> w.attempts + 1, live |-> TRUE]]
  /\ saw' = [saw EXCEPT ![p].token = w.attempts + 1]
  /\ UNCHANGED <<delivery, active, evidence, recognition, ledger>>

Lapse(l) ==
  /\ work[l].live /\ work' = [work EXCEPT ![l].live = FALSE]
  /\ UNCHANGED <<delivery, active, evidence, recognition, ledger, saw>>

-----------------------------------------------------------------------------
(* Recognition                                                             *)

HoldsAnyClaim(p) == work[saw[p].line].live
HoldsClaim(p) == work[saw[p].line].live /\ work[saw[p].line].token = saw[p].token

\* A journal entry keyed by the work: liability is debited, revenue credited.
Post(l) == [ledger EXCEPT ![l] = [liability |-> @.liability - Amount[l],
                                  revenue |-> @.revenue + Amount[l]]]

Recognize(p) ==
  LET l == saw[p].line IN
  /\ work[l].status = "claimed" /\ HoldsClaim(p)
  /\ Satisfied(l) /\ recognition[l] = 0
  /\ recognition' = [recognition EXCEPT ![l] = saw[p].token]
  /\ ledger' = Post(l)
  /\ work' = [work EXCEPT ![l] =
       [status |-> "completed", version |-> work[l].version + 1,
        attempts |-> work[l].attempts, token |-> 0, live |-> FALSE]]
  /\ UNCHANGED <<delivery, active, evidence, saw>>

-----------------------------------------------------------------------------
Next ==
  \/ \E o \in Order : Finalize(o)
  \/ \E s \in Staff : Deactivate(s)
  \/ \E l \in Line :
       \/ \E s \in Staff : Complete(l, s) \/ CompleteStandard(l, s)
       \/ NormalizeDigital(l) \/ CreateWork(l) \/ Lapse(l)
  \/ \E p \in Process :
       \/ \E l \in Line : Read(p, l)
       \/ Claim(p) \/ Recognize(p)

Spec == Init /\ [][Next]_vars

-----------------------------------------------------------------------------
(* Properties                                                              *)

\* Every variable has its type; a claim token belongs to a claimed row and its
\* last attempt.
TypeOK ==
  /\ Delivery!TypeOK
  /\ active \subseteq Staff
  /\ evidence \in [Line -> Staff \cup {NoOne}]
  /\ work \in [Line -> Works]
  /\ recognition \in [Line -> Claims]
  /\ ledger \in [Line -> Balances]
  /\ saw \in [Process -> [line : Line, version : Nat, token : Claims]]
  /\ \A l \in Line : work[l].token = (IF work[l].status = "claimed" THEN work[l].attempts ELSE 0)

\* The evidence on which revenue rests names the one who delivered the line,
\* never a later claimant of the same delivery and never the customer.
EvidenceIsTheDelivery ==
  \A l \in Line : evidence[l] # NoOne =>
    evidence[l] = deliveredBy[l] /\ (l \in Physical => evidence[l] # Buyer[OrderOf[l]])

\* No consideration is lost or made: what was paid for a line is its liability
\* until it is recognized, and its revenue from then on, whoever tries again.
ConsiderationIsConserved ==
  \A l \in Line :
    /\ ledger[l].liability + ledger[l].revenue = (IF OrderOf[l] \in paid THEN Amount[l] ELSE 0)
    /\ ledger[l].revenue = (IF recognition[l] = 0 THEN 0 ELSE Amount[l])

\* The recognition was made under the last claim on its work: a process that
\* was overtaken after its lease ran out recognizes nothing.
RecognizedUnderLastClaim ==
  \A l \in Line : recognition[l] # 0 =>
    recognition[l] = work[l].attempts /\ work[l].status = "completed"

\* Revenue is earned as it was delivered: on the evidence of the delivery, in
\* full, and under a claim nobody had taken over.
EarnedAsDelivered == EvidenceIsTheDelivery /\ ConsiderationIsConserved /\ RecognizedUnderLastClaim

\* Consideration becomes revenue once, and only after delivery; and no
\* command that the services let pass is one that PostgreSQL would refuse (for the
\* authority over new evidence alone they rely on it).
Contract == INSTANCE RevenueContract WITH earned <- {l \in Line : recognition[l] # 0}
Guards == INSTANCE RevenueGuards
ImplementsRevenueContract == Contract!Spec /\ Guards!Spec
=============================================================================
