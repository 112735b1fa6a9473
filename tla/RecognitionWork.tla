--------------------------- MODULE RecognitionWork ---------------------------
(***************************************************************************)
(* One APPLY_VERIFIED_FUNDS work item of the durable runtime: the claim,   *)
(* the recognition command of services/funds_application.py and the        *)
(* separate transactions that record its failure.  The recognition locks   *)
(* the whole payment graph, so each of its transactions is one step; the   *)
(* work row is written under its own lock by the claim and the failure     *)
(* record.  A claim token is derived from the attempt number and is named  *)
(* by it.  A process whose failure record or review of the runtime fails   *)
(* is one that dies there: the exception leaves the batch.                 *)
(***************************************************************************)
EXTENDS Naturals

CONSTANTS
  Workers,       \* concurrent processes
  MaxAttempts,   \* max_attempts of the row
  MaxVersion,    \* bound: payment.version
  MaxCrashes     \* bound: processes that die

ASSUME MaxAttemptsAssumption == MaxAttempts \in Nat \ {0}
ASSUME BoundsAssumption == MaxVersion \in Nat \ {0} /\ MaxCrashes \in Nat

VARIABLES
  status, attempts, token, due,   \* the work row; token 0 when null
  expired,       \* tokens whose claim_expires_at has passed
  version,       \* payment.version
  eligible,      \* the payment graph satisfies _validate_exact_success
  allocation,    \* expected version frozen in the FinancialAllocation, 0 when none
  reviews,       \* the payment's ReviewCase of each reason
  pc,            \* where each process is
  mine,          \* claim_token it was given
  expected,      \* payment.version it read with its claim
  cause,         \* the exception it handles
  reason,        \* the review reason that exception carries
  crashes        \* used up so far, of MaxCrashes

row    == <<status, attempts, token, due>>
graph  == <<version, eligible, allocation>>
locals == <<pc, mine, expected, cause, reason>>
vars   == <<row, expired, graph, reviews, locals, crashes>>

Tokens   == 1..MaxAttempts
Terminal == {"completed", "canceled"}
Open     == {"pending", "waiting"}
Causes   == {"blocked", "database", "idempotency"}

\* VERIFIED_FUNDS_APPLICATION_FAILED; overpayment and duplicate allocation;
\* FINANCIAL_INVARIANT_VIOLATION; the review of the runtime itself.
Reasons  == {"followup", "evidence", "invariant", "runtime"}
Blocking == {"evidence", "invariant"}

Init ==
  /\ status = "pending" /\ attempts = 0 /\ token = 0 /\ due = TRUE
  /\ expired = {}
  /\ version = 1 /\ eligible = TRUE /\ allocation = 0
  /\ reviews = [r \in Reasons |-> "none"]
  /\ pc = [w \in Workers |-> "idle"]
  /\ mine = [w \in Workers |-> 0]
  /\ expected = [w \in Workers |-> 1]
  /\ cause = [w \in Workers |-> "blocked"]
  /\ reason = [w \in Workers |-> "followup"]
  /\ crashes = 0

LeaseLive == status = "claimed" /\ token \notin expired
Goto(w, l) == pc' = [pc EXCEPT ![w] = l]

Reviewed == \E r \in Reasons : reviews[r] # "none"
Blocked  == \E r \in Blocking : reviews[r] = "open"

-----------------------------------------------------------------------------
(* _claim_recognition_work.  A claim that is refused changes nothing: its  *)
(* exception rolls back even the release of an expired lease, and the      *)
(* batch skips the item.                                                   *)

Reclaimable == status = "claimed" /\ ~LeaseLive

WithinBudgetOffByOne == attempts <= MaxAttempts
WithinBudget == attempts < MaxAttempts

Claim(w) ==
  /\ pc[w] = "idle"
  /\ status \in Open \/ Reclaimable
  /\ due /\ WithinBudget
  /\ status' = "claimed"
  /\ attempts' = attempts + 1
  /\ token' = attempts + 1
  /\ mine' = [mine EXCEPT ![w] = attempts + 1]
  /\ expected' = [expected EXCEPT ![w] = version]
  /\ Goto(w, "recognize")
  /\ UNCHANGED <<due, expired, graph, reviews, cause, reason, crashes>>

-----------------------------------------------------------------------------
(* recognize_verified_funds: _apply_verified_funds_atomic                  *)

Replays(w) == allocation # 0

\* The key is the work item's, so another expected version conflicts.
RecognizeReplay(w) ==
  /\ pc[w] = "recognize" /\ Replays(w)
  /\ IF allocation = expected[w]
     THEN Goto(w, "idle") /\ UNCHANGED cause
     ELSE Goto(w, "failed") /\ cause' = [cause EXCEPT ![w] = "idempotency"]
  /\ UNCHANGED <<row, expired, graph, reviews, mine, expected, reason, crashes>>

UnversionedEligible(w) == eligible /\ ~Blocked
Recognizable(w) == expected[w] = version /\ eligible /\ ~Blocked

\* The version is compared first; an ineligible graph may be a reason of its own.
BlockReasons(w) ==
  IF expected[w] = version /\ ~eligible THEN {"followup"} \cup Blocking ELSE {"followup"}

RecognizeBlocked(w) ==
  /\ pc[w] = "recognize" /\ ~Replays(w) /\ ~Recognizable(w)
  /\ Goto(w, "blocked")
  /\ cause' = [cause EXCEPT ![w] = "blocked"]
  /\ \E r \in BlockReasons(w) : reason' = [reason EXCEPT ![w] = r]
  /\ UNCHANGED <<row, expired, graph, reviews, mine, expected, crashes>>

\* Every unfinished application work of the transaction is completed, whoever
\* holds its claim; a canceled one stays canceled.
Completes(w) == status \notin Terminal

Recognize(w) ==
  /\ pc[w] = "recognize" /\ ~Replays(w) /\ Recognizable(w) /\ version < MaxVersion
  /\ allocation' = expected[w]
  /\ version' = version + 1
  /\ IF Completes(w) THEN status' = "completed" /\ token' = 0
                     ELSE UNCHANGED <<status, token>>
  /\ Goto(w, "idle")
  /\ UNCHANGED <<attempts, due, expired, eligible, reviews, mine, expected, cause, reason, crashes>>

\* A deadlock victim, a lost connection, a refused deferred guard.
RecognizeDatabaseError(w) ==
  /\ pc[w] = "recognize"
  /\ Goto(w, "blocked")
  /\ cause' = [cause EXCEPT ![w] = "database"]
  /\ reason' = [reason EXCEPT ![w] = "invariant"]
  /\ UNCHANGED <<row, expired, graph, reviews, mine, expected, crashes>>

\* _record_application_failure, a transaction of its own.  An unresolved review
\* of the reason is kept.  A resolved one has taken the unique key of the
\* reason, so that its insertion fails; it may fail for any other error of the
\* database, and either replaces the exception the runtime sees.
OpensNothing(w) == UNCHANGED reviews
OpensReview(w) ==
  /\ reviews[reason[w]] # "resolved"
  /\ reviews' = [reviews EXCEPT ![reason[w]] = "open"]

RecordApplicationFailure(w) ==
  /\ pc[w] = "blocked"
  /\ IF allocation # 0 THEN UNCHANGED reviews ELSE OpensReview(w)
  /\ Goto(w, "failed")
  /\ UNCHANGED <<row, expired, graph, mine, expected, cause, reason, crashes>>

ApplicationFailureLost(w) ==
  /\ pc[w] = "blocked"
  /\ Goto(w, "failed")
  /\ cause' = [cause EXCEPT ![w] = "database"]
  /\ UNCHANGED <<row, expired, graph, reviews, mine, expected, reason, crashes>>

-----------------------------------------------------------------------------
(* _record_recognition_runtime_failure and the review of the runtime       *)

ClaimedByAnyone(w) == status = "claimed"
OwnsClaim(w) == status = "claimed" /\ token = mine[w]
Exhausted(w) == cause[w] = "blocked" \/ attempts >= MaxAttempts

RecordFailure(w) ==
  /\ pc[w] = "failed"
  /\ IF OwnsClaim(w)
     THEN /\ status' = IF Exhausted(w) THEN "canceled" ELSE "waiting"
          /\ token' = 0 /\ due' = FALSE /\ UNCHANGED attempts
     ELSE UNCHANGED row
  /\ Goto(w, IF cause[w] # "blocked" /\ status' = "canceled" THEN "review" ELSE "idle")
  /\ UNCHANGED <<expired, graph, reviews, mine, expected, cause, reason, crashes>>

\* get_or_create: a review that was resolved is not opened again.
OpenReview(w) ==
  /\ pc[w] = "review"
  /\ reviews' = [reviews EXCEPT !["runtime"] = IF @ = "none" THEN "open" ELSE @]
  /\ Goto(w, "idle")
  /\ UNCHANGED <<row, expired, graph, mine, expected, cause, reason, crashes>>

-----------------------------------------------------------------------------
(* What the processes do not control.                                      *)

Crash(w) ==
  /\ pc[w] # "idle" /\ crashes < MaxCrashes
  /\ crashes' = crashes + 1
  /\ Goto(w, "idle")
  /\ UNCHANGED <<row, expired, graph, reviews, mine, expected, cause, reason>>

LeaseExpires(t) ==
  /\ t \in 1..attempts \ expired
  /\ expired' = expired \cup {t}
  /\ UNCHANGED <<row, graph, reviews, locals, crashes>>

\* The retry delay passes, or an operator makes the work due.
BecomesDue ==
  /\ ~due /\ due' = TRUE
  /\ UNCHANGED <<status, attempts, token, expired, graph, reviews, locals, crashes>>

\* Another command writes the payment, for instance a further observation of
\* the provider, which may contradict the success or settle a contradiction.
PaymentChanges ==
  /\ version < MaxVersion - 1 /\ version' = version + 1
  /\ eligible' \in BOOLEAN
  /\ UNCHANGED <<row, expired, allocation, reviews, locals, crashes>>

\* A person resolves a review.
ReviewResolved(r) ==
  /\ reviews[r] = "open"
  /\ reviews' = [reviews EXCEPT ![r] = "resolved"]
  /\ UNCHANGED <<row, expired, graph, locals, crashes>>

Step(w) ==
  \/ RecognizeReplay(w) \/ RecognizeBlocked(w) \/ Recognize(w)
  \/ RecordApplicationFailure(w) \/ ApplicationFailureLost(w)
  \/ RecordFailure(w) \/ OpenReview(w)

Next ==
  \/ \E w \in Workers : Claim(w) \/ Step(w) \/ RecognizeDatabaseError(w) \/ Crash(w)
  \/ \E t \in Tokens : LeaseExpires(t)
  \/ \E r \in Reasons : ReviewResolved(r)
  \/ BecomesDue \/ PaymentChanges

Spec == Init /\ [][Next]_vars

-----------------------------------------------------------------------------
(* Properties.                                                             *)

TypeOK ==
  /\ status \in Open \cup {"claimed"} \cup Terminal
  /\ attempts \in 0..MaxAttempts /\ token \in 0..attempts
  /\ due \in BOOLEAN /\ eligible \in BOOLEAN
  /\ reviews \in [Reasons -> {"none", "open", "resolved"}]
  /\ expired \subseteq Tokens
  /\ version \in 1..MaxVersion /\ allocation \in 0..MaxVersion
  /\ pc \in [Workers -> {"idle", "recognize", "blocked", "failed", "review"}]
  /\ mine \in [Workers -> 0..MaxAttempts]
  /\ expected \in [Workers -> 1..MaxVersion]
  /\ cause \in [Workers -> Causes] /\ reason \in [Workers -> Reasons]
  /\ crashes \in 0..MaxCrashes

\* The work is completed by the allocation and by nothing else, and once the
\* allocation exists no process can bring the work back to life.
CompletedOnlyByAllocation ==
  /\ status = "completed" => allocation # 0
  /\ allocation # 0 => status \in Terminal

\* Money is recognised once, and only from the payment the process validated: at
\* the version it read with its claim, still eligible and with no blocking
\* review, although the processes of several expired leases may all be trying.
RecognizedOnceAsValidated ==
  [][allocation' # allocation
     => allocation = 0 /\ allocation' = version /\ eligible /\ ~Blocked]_vars

\* A process that lost its lease cannot end the work of the one that took over:
\* a running lease ends in completion, or by a step of its own holder.
LeaseIsFenced ==
  [][LeaseLive /\ token' # token /\ status' # "completed"
     => \E w \in Workers : mine[w] = token /\ pc[w] = "failed"]_vars

\* Recognition that was given up is represented by a review, or a process that
\* has not died still owes it: a refused recognition is reviewed before it is
\* canceled, exhausted one after.
CanceledIsReviewed ==
  status = "canceled" =>
    Reviewed \/ crashes > 0 \/ \E w \in Workers : pc[w] = "review"

\* Work ends for a reason that is on record: completed by the allocation, or
\* given up and under review.
EndIsJustified == CompletedOnlyByAllocation /\ CanceledIsReviewed
=============================================================================
