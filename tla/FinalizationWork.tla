-------------------------- MODULE FinalizationWork --------------------------
(***************************************************************************)
(* One CommercialFinalizationWorkItem of a paid digital order, and the     *)
(* processes that finalize it: the runtime's batches and the operator's    *)
(* manage_payment_holds retry-finalization.  Each execution is a chain of  *)
(* transactions (hold renewal, claim, finalization, failure record, hold   *)
(* or review follow-up, cancellation of exhausted work, escalation); all   *)
(* but the claim and the failure record lock the payment graph.            *)
(*                                                                         *)
(* A claim token is derived from the caller's namespace and the attempt    *)
(* number it read, so two processes of one caller that read the same row   *)
(* share a claim.                                                          *)
(***************************************************************************)
EXTENDS Naturals

CONSTANTS
  Workers,       \* concurrent processes
  MaxAttempts,   \* max_attempts of the row
  MaxCrashes,    \* bound: processes that die
  MaxRuns        \* bound: operator interventions

ASSUME MaxAttemptsAssumption == MaxAttempts \in Nat \ {0}
ASSUME BoundsAssumption == MaxCrashes \in Nat /\ MaxRuns \in Nat

VARIABLES
  status, attempts, token, version, due,   \* the work row
  expired,       \* claim_expires_at of the current claim has passed
  paid,          \* payment PAID: a CommercialFinalization exists
  fingerprint,   \* expected work version frozen in it, 0 when none
  hold,          \* state of the order's reservations
  lapsed,        \* their expires_at has passed
  blocked,       \* an unresolved ReviewCase other than the payment's marker
  reviewed,      \* COMMERCIAL_FINALIZATION_FAILED was opened
  pc,            \* where each process is
  key,           \* idempotency key: <<caller, attempt_count it read + 1>>
  expect,        \* expected_work_item_version it read
  held,          \* work.version after its claim
  crashes, runs  \* used up so far, of MaxCrashes and MaxRuns

row     == <<status, attempts, token, version, due>>
stock   == <<hold, lapsed>>
money   == <<paid, fingerprint>>
review  == <<blocked, reviewed>>
locals  == <<pc, key, expect, held>>
bounds  == <<crashes, runs>>
vars    == <<row, expired, stock, money, review, locals, bounds>>

Callers  == {"runtime", "operator"}
Keys     == Callers \X (1..MaxAttempts + 1)
NoToken  == <<"none", 0>>
Terminal == {"completed", "canceled"}
Statuses == {"pending", "claimed"} \cup Terminal

Init ==
  /\ status = "pending" /\ attempts = 0 /\ token = NoToken /\ version = 1 /\ due = TRUE
  /\ expired = FALSE
  /\ paid = FALSE /\ fingerprint = 0
  /\ hold = "payment" /\ lapsed = FALSE
  /\ blocked = FALSE /\ reviewed = FALSE
  /\ pc = [w \in Workers |-> "idle"]
  /\ key = [w \in Workers |-> <<"runtime", 1>>]
  /\ expect = [w \in Workers |-> 1]
  /\ held = [w \in Workers |-> 1]
  /\ crashes = 0 /\ runs = 0

Goto(w, l) == pc' = [pc EXCEPT ![w] = l]
Remember(w, caller) ==
  /\ key' = [key EXCEPT ![w] = <<caller, attempts + 1>>]
  /\ expect' = [expect EXCEPT ![w] = version]

-----------------------------------------------------------------------------
(* Selection, and the unlocked reads that fix the command.                 *)

SelectDue(w) ==
  /\ pc[w] = "idle"
  /\ (status = "pending" /\ due) \/ (status = "claimed" /\ expired)
  /\ Goto(w, "start")
  /\ UNCHANGED <<row, expired, stock, money, review, key, expect, held, bounds>>

\* _execute_finalization reads the row the batch selected.
Start(w) ==
  /\ pc[w] = "start"
  /\ IF status \in Terminal THEN Goto(w, "idle") /\ UNCHANGED <<key, expect>>
     ELSE Goto(w, "refer") /\ Remember(w, "runtime")
  /\ UNCHANGED <<row, expired, stock, money, review, held, bounds>>

\* manage_payment_holds retry-finalization.
OperatorRetry(w) ==
  /\ pc[w] = "idle" /\ runs < MaxRuns
  /\ status = "pending" /\ due
  /\ runs' = runs + 1
  /\ Goto(w, "refer") /\ Remember(w, "operator")
  /\ UNCHANGED <<row, expired, stock, money, review, held, crashes>>

\* make_runtime_work_due
MakeDue ==
  /\ status = "pending" /\ attempts < MaxAttempts /\ ~due /\ runs < MaxRuns
  /\ due' = TRUE /\ version' = version + 1 /\ runs' = runs + 1
  /\ UNCHANGED <<status, attempts, token, expired, stock, money, review, locals, crashes>>

\* finalize_commercial_work_item reads the work again, without a lock, to
\* decide whether the hold is renewed first.
Refer(w) ==
  /\ pc[w] = "refer"
  /\ Goto(w, IF status # "canceled" /\ ~paid THEN "renew" ELSE "claim")
  /\ UNCHANGED <<row, expired, stock, money, review, key, expect, held, bounds>>

\* renew_paid_finalization_hold; without a live hold it raises and changes nothing.
RenewedUnguarded == hold' = "payment" /\ lapsed' = FALSE
RenewedHold ==
  IF ~paid THEN hold' = "payment" /\ lapsed' = FALSE ELSE UNCHANGED stock

Renew(w) ==
  /\ pc[w] = "renew"
  /\ RenewedHold
  /\ Goto(w, "claim")
  /\ UNCHANGED <<row, expired, money, review, key, expect, held, bounds>>

-----------------------------------------------------------------------------
(* _claim_commercial_work_item                                             *)

ClaimableBeyondBudget == due /\ attempts <= MaxAttempts
WithinBudget == due /\ attempts < MaxAttempts

Claimable(w) ==
  /\ status = "pending" \/ (status = "claimed" /\ token # key[w] /\ expired)
  /\ version = expect[w]
  /\ WithinBudget

SharesClaim(w) == status = "claimed" /\ token = key[w] /\ ~expired

\* Another process holds a live lease: wait for its finalization.
Contended(w) == status = "claimed" /\ token # key[w] /\ ~expired

Claim(w) ==
  /\ pc[w] = "claim" /\ Claimable(w)
  /\ status' = "claimed"
  /\ attempts' = attempts + 1
  /\ token' = key[w] /\ expired' = FALSE
  /\ version' = version + (IF status = "claimed" THEN 2 ELSE 1)
  /\ held' = [held EXCEPT ![w] = version']
  /\ Goto(w, "finalize")
  /\ UNCHANGED <<due, stock, money, review, key, expect, bounds>>

ClaimReplay(w) ==
  /\ pc[w] = "claim" /\ SharesClaim(w)
  /\ held' = [held EXCEPT ![w] = version]
  /\ Goto(w, "finalize")
  /\ UNCHANGED <<row, expired, stock, money, review, key, expect, bounds>>

\* The application fingerprint: lines, items, reservations, allocations, journals,
\* snapshots and the policy are frozen with the order and its recognition, so two
\* commands of one work item differ in the versions they expect.
SameEvidence(w) == fingerprint = expect[w]

\* The command has no identity without exactly one active accounting policy: it
\* fails before the claim, and no attempt is counted.
Unidentified(w) ==
  /\ pc[w] = "claim" /\ ~paid
  /\ Goto(w, "unfit")
  /\ UNCHANGED <<row, expired, stock, money, review, key, expect, held, bounds>>

\* The finalization is already there: a replay, or a conflict of evidence.
ClaimRefused(w) ==
  /\ pc[w] = "claim" /\ ~Claimable(w) /\ ~SharesClaim(w)
  /\ Goto(w, IF status = "completed" /\ SameEvidence(w) THEN "idle"
             ELSE IF Contended(w) THEN "await" ELSE "caught")
  /\ UNCHANGED <<row, expired, stock, money, review, key, expect, held, bounds>>

Await(w) ==
  /\ pc[w] = "await"
  /\ \/ Goto(w, "caught")
     \/ paid /\ SameEvidence(w) /\ Goto(w, "idle")
  /\ UNCHANGED <<row, expired, stock, money, review, key, expect, held, bounds>>

-----------------------------------------------------------------------------
(* finalize_paid_commerce: one transaction under the locked graph; the     *)
(* work row is locked and checked last.                                    *)

LivesOn == hold = "payment"
Deliverable == hold = "payment" /\ ~lapsed
HoldsClaim(w) == status = "claimed" /\ token = key[w] /\ ~expired /\ version = held[w]

\* The sale, with the evidence it rests on frozen in it.
Sell(evidence) == paid' = TRUE /\ fingerprint' = evidence /\ hold' = "consumed"

Finalize(w) ==
  /\ pc[w] = "finalize" /\ ~paid
  /\ Deliverable /\ ~blocked /\ HoldsClaim(w)
  /\ status' = "completed" /\ token' = NoToken /\ version' = version + 1
  /\ Sell(expect[w])
  /\ Goto(w, "idle")
  /\ UNCHANGED <<attempts, due, expired, lapsed, review, key, expect, held, bounds>>

FinalizeReplay(w) ==
  /\ pc[w] = "finalize" /\ paid /\ SameEvidence(w)
  /\ Goto(w, "idle")
  /\ UNCHANGED <<row, expired, stock, money, review, key, expect, held, bounds>>

\* An unusable reservation is terminal; a stale claim, a blocking review and
\* other evidence for the same payment are retried.
FinalizeBlocked(w) ==
  /\ pc[w] = "finalize"
  /\ IF paid THEN ~SameEvidence(w) ELSE ~(Deliverable /\ ~blocked /\ HoldsClaim(w))
  /\ Goto(w, IF ~paid /\ ~Deliverable THEN "fatal" ELSE "failed")
  /\ UNCHANGED <<row, expired, stock, money, review, key, expect, held, bounds>>

\* Missing policy, incoherent evidence, a database error; or unsupported,
\* mixed and insufficient, which the message makes terminal.
FinalizeFails(w) ==
  /\ pc[w] = "finalize" /\ ~paid
  /\ \E l \in {"failed", "fatal"} : Goto(w, l)
  /\ UNCHANGED <<row, expired, stock, money, review, key, expect, held, bounds>>

-----------------------------------------------------------------------------
(* The exception handlers of finalize_commercial_work_item and of          *)
(* _execute_finalization.                                                  *)

\* _record_finalization_failure
RecordFailure(w) ==
  /\ pc[w] \in {"failed", "fatal"}
  /\ IF status = "claimed" /\ token = key[w]
     THEN /\ status' = IF pc[w] = "fatal" THEN "canceled" ELSE "pending"
          /\ token' = NoToken /\ due' = (pc[w] = "fatal")
          /\ version' = version + 1 /\ UNCHANGED attempts
     ELSE UNCHANGED row
  /\ Goto(w, IF pc[w] = "fatal" THEN "escalate" ELSE "keep")
  /\ UNCHANGED <<expired, stock, money, review, key, expect, held, bounds>>

\* The hold of retryable work is renewed.
Keep(w) ==
  /\ pc[w] = "keep"
  /\ RenewedHold
  /\ Goto(w, "caught")
  /\ UNCHANGED <<row, expired, money, review, key, expect, held, bounds>>

\* escalate_terminal_finalization_failure, after a terminal failure and after
\* the cancellation of exhausted work; it raises when the payment was finalized.
\* A review it opened before is not opened again.
Escalation ==
  IF paid THEN UNCHANGED <<stock, review>>
  ELSE /\ hold' = "review" /\ lapsed' = FALSE
       /\ blocked' = (blocked \/ ~reviewed) /\ reviewed' = TRUE

Escalate(w) ==
  /\ pc[w] = "escalate"
  /\ Escalation
  /\ Goto(w, "caught")
  /\ UNCHANGED <<row, expired, money, key, expect, held, bounds>>

NeverExhausted == FALSE
Exhausted == status = "pending" /\ attempts >= MaxAttempts

\* Only the runtime cancels exhausted work; it looks without a lock first.
Caught(w) ==
  /\ pc[w] \in {"caught", "unfit"}
  /\ Goto(w, IF Exhausted /\ key[w][1] = "runtime" THEN "cancel" ELSE "idle")
  /\ UNCHANGED <<row, expired, stock, money, review, key, expect, held, bounds>>

CancelExhausted(w) ==
  /\ pc[w] = "cancel"
  /\ IF Exhausted
     THEN /\ status' = "canceled" /\ version' = version + 1
          /\ UNCHANGED <<attempts, token, due>>
     ELSE UNCHANGED row
  /\ Goto(w, "escalate")
  /\ UNCHANGED <<expired, stock, money, review, key, expect, held, bounds>>

-----------------------------------------------------------------------------
(* What the processes do not control.                                      *)

Crash(w) ==
  /\ pc[w] # "idle" /\ crashes < MaxCrashes
  /\ crashes' = crashes + 1
  /\ Goto(w, "idle")
  /\ UNCHANGED <<row, expired, stock, money, review, key, expect, held, runs>>

LeaseExpires ==
  /\ status = "claimed" /\ ~expired /\ expired' = TRUE
  /\ UNCHANGED <<row, stock, money, review, locals, bounds>>

BecomesDue ==
  /\ ~due /\ due' = TRUE
  /\ UNCHANGED <<status, attempts, token, version, expired, stock, money, review, locals, bounds>>

HoldLapses ==
  /\ hold # "consumed" /\ ~lapsed /\ lapsed' = TRUE
  /\ UNCHANGED <<row, expired, hold, money, review, locals, bounds>>

\* Another command opens a review of the payment, or a person resolves one.
ReviewChanges ==
  /\ blocked' = ~blocked
  /\ UNCHANGED <<row, expired, stock, money, reviewed, locals, bounds>>

Step(w) ==
  \/ Start(w) \/ Refer(w) \/ Renew(w)
  \/ Claim(w) \/ ClaimReplay(w) \/ ClaimRefused(w) \/ Await(w)
  \/ Finalize(w) \/ FinalizeReplay(w) \/ FinalizeBlocked(w)
  \/ RecordFailure(w) \/ Keep(w) \/ Escalate(w) \/ Caught(w) \/ CancelExhausted(w)

Next ==
  \/ \E w \in Workers :
       \/ SelectDue(w) \/ OperatorRetry(w) \/ Step(w)
       \/ Unidentified(w) \/ FinalizeFails(w) \/ Crash(w)
  \/ MakeDue \/ LeaseExpires \/ BecomesDue \/ HoldLapses \/ ReviewChanges

Spec == Init /\ [][Next]_vars

(* Batches keep coming, a process that was not killed finishes, time       *)
(* passes.                                                                 *)
Fairness ==
  /\ \A w \in Workers : WF_vars(SelectDue(w)) /\ WF_vars(Step(w))
  /\ WF_vars(LeaseExpires) /\ WF_vars(BecomesDue)

FairSpec == Spec /\ Fairness

-----------------------------------------------------------------------------
(* Properties.                                                             *)

TypeOK ==
  /\ status \in Statuses
  /\ attempts \in 0..MaxAttempts
  /\ token \in Keys \cup {NoToken}
  /\ version \in Nat \ {0} /\ fingerprint \in Nat
  /\ due \in BOOLEAN /\ expired \in BOOLEAN /\ paid \in BOOLEAN
  /\ lapsed \in BOOLEAN /\ blocked \in BOOLEAN /\ reviewed \in BOOLEAN
  /\ hold \in {"payment", "review", "consumed"}
  /\ pc \in [Workers -> {"idle", "start", "refer", "renew", "claim", "await", "finalize",
                         "failed", "fatal", "keep", "escalate", "caught", "unfit", "cancel"}]
  /\ key \in [Workers -> Keys]
  /\ expect \in [Workers -> Nat \ {0}] /\ held \in [Workers -> Nat \ {0}]
  /\ crashes \in 0..MaxCrashes /\ runs \in 0..MaxRuns

\* The order is delivered exactly by the completion of its work, and then
\* nothing takes its reservations back to a hold or to review.
DeliveredIffCompleted ==
  /\ paid <=> status = "completed"
  /\ paid <=> hold = "consumed"

\* The row's guards: terminal work is not reopened, and completed work has the
\* finalization whose graph is whole when the transaction commits.
WorkProtected == status \in Terminal => status' = status
WorkCompleted == status' = "completed" => paid' /\ hold' = "consumed"

\* Every sale is made from a hold that still lives and under a claim that
\* still runs, however long the process slept between its transactions, and no
\* late process changes what has ended.
SoldFromLiveHold ==
  [][/\ paid' # paid => hold = "payment" /\ ~lapsed /\ ~blocked
                       /\ status = "claimed" /\ ~expired
     /\ WorkProtected /\ WorkCompleted]_vars

\* docs/commerce/durable-financial-runtime.md: "Exhausted or classified
\* terminal work becomes CANCELED and is represented by an existing ReviewCase":
\* it is, or a process owes the escalation, unless one died.
CanceledIsReviewed ==
  status = "canceled" =>
    reviewed \/ crashes > 0 \/ \E w \in Workers : pc[w] = "escalate"

\* Work ends for a reason that is on record: completed by the delivery of the
\* order, or given up and escalated.
EndIsJustified == DeliveredIffCompleted /\ CanceledIsReviewed

\* The work reaches a terminal status unless a process dies, or the accounting
\* configuration keeps refusing the command, which counts no attempt.
EventuallyTerminal ==
  <>(status \in Terminal) \/ <>(crashes > 0) \/ []<>(\E w \in Workers : pc[w] = "unfit")
=============================================================================
