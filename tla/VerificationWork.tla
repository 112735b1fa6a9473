-------------------------- MODULE VerificationWork --------------------------
(***************************************************************************)
(* One VerificationWorkItem of the durable financial runtime and the       *)
(* processes that execute it: the claim transaction, the provider query    *)
(* outside any transaction, the apply transaction, and the failure and     *)
(* review transactions of services/runtime.py that follow an exception.    *)
(*                                                                         *)
(* A claim is named by its idempotency key: the runtime derives the key    *)
(* from the attempt number it read before the claim, the key is unique,    *)
(* and the random claim_token is one-to-one with it.  Time is what the     *)
(* code can see of it: a claim's lease has run out or not, the work is due *)
(* or not.                                                                 *)
(***************************************************************************)
EXTENDS Naturals, FiniteSets

CONSTANTS
  Workers,       \* concurrent run-one / run-batch / tick processes
  MaxAttempts,   \* max_attempts of the row
  MaxCrashes,    \* bound: processes that die in a behaviour
  MaxRuns,       \* bound: operator runs that ignore the due filter
  NoWorker       \* the graph lock is free

ASSUME MaxAttemptsAssumption == MaxAttempts \in Nat \ {0}
ASSUME BoundsAssumption == MaxCrashes \in Nat /\ MaxRuns \in Nat
ASSUME NoWorkerAssumption == NoWorker \notin Workers

VARIABLES
  status,        \* work.status
  attempts,      \* work.attempt_count
  token,         \* work.claim_token: the key of its claim, 0 when null
  due,           \* work.next_attempt_at <= now
  claims,        \* idempotency keys of the VerificationClaim rows
  expired,       \* the claims whose expires_at has passed
  evidence,      \* the Verification recorded under each claim
  reviewed,      \* a runtime ReviewCase represents the work
  closed,        \* payment.collection_status is PAID or CANCELED
  graphLock,     \* who holds the rows locked by _lock_graph
  pc,            \* where each process is
  key,           \* root key of its execution: attempt_count it read + 1
  answer,        \* normalised provider answer it carries to apply
  failure,       \* classification it passes to the failure record
  crashes, runs  \* used up so far, of MaxCrashes and MaxRuns

work    == <<status, attempts, token, due>>
history == <<claims, evidence, reviewed>>
locals  == <<pc, key, answer, failure>>
world   == <<expired, closed, crashes, runs>>
vars    == <<work, history, locals, world, graphLock>>

Keys     == 1..MaxAttempts
Terminal == {"completed", "canceled"}
Open     == {"pending", "waiting"}
Answers  == {"pending", "conclusive"}   \* PENDING / NO_EFFECT_RETRYABLE, or any other
Failures == {"conflict", "blocked", "error"}

Init ==
  /\ status = "pending" /\ attempts = 0 /\ token = 0 /\ due = TRUE
  /\ claims = {} /\ evidence = [k \in Keys |-> "none"] /\ reviewed = FALSE
  /\ expired = {} /\ closed = FALSE /\ crashes = 0 /\ runs = 0
  /\ graphLock = NoWorker
  /\ pc = [w \in Workers |-> "idle"]
  /\ key = [w \in Workers |-> 1]
  /\ answer = [w \in Workers |-> "pending"]
  /\ failure = [w \in Workers |-> "error"]

LeaseLive == status = "claimed" /\ token \notin expired

Goto(w, l) == pc' = [pc EXCEPT ![w] = l]
Fail(w, f) == Goto(w, "failed") /\ failure' = [failure EXCEPT ![w] = f]

\* A value the process does not look at again.
DropAnswer(w) == answer' = [answer EXCEPT ![w] = "pending"]
DropFailure(w) == failure' = [failure EXCEPT ![w] = "error"]

-----------------------------------------------------------------------------
(* Selection: the batch's due filter, an operator's run-one and retry.     *)

DueForBatch == \/ status \in Open /\ due
               \/ status = "claimed" /\ token \in expired

SelectDue(w) ==
  /\ pc[w] = "idle" /\ DueForBatch
  /\ Goto(w, "start")
  /\ UNCHANGED <<work, history, key, answer, failure, world, graphLock>>

RunOne(w) ==
  /\ pc[w] = "idle" /\ runs < MaxRuns
  /\ runs' = runs + 1
  /\ Goto(w, "start")
  /\ UNCHANGED <<work, history, key, answer, failure, expired, closed, crashes, graphLock>>

\* make_runtime_work_due, then the execution the retry command continues with.
Retry(w) ==
  /\ pc[w] = "idle" /\ runs < MaxRuns
  /\ status \in Open /\ attempts < MaxAttempts
  /\ due' = TRUE
  /\ runs' = runs + 1
  /\ Goto(w, "start")
  /\ UNCHANGED <<status, attempts, token, history, key, answer, failure,
                 expired, closed, crashes, graphLock>>

\* _execute_verification up to the claim: an unlocked read fixes the root key.
RootKey == attempts + 1

Start(w) ==
  /\ pc[w] = "start"
  /\ IF status \in Terminal
     THEN Goto(w, "idle") /\ UNCHANGED key
     ELSE Goto(w, "claim") /\ key' = [key EXCEPT ![w] = RootKey]
  /\ UNCHANGED <<work, history, answer, failure, world, graphLock>>

-----------------------------------------------------------------------------
(* claim_verification_work: the graph is locked, the work row is only read *)
(* until it is saved, so a failure record (row lock only) may fall between.*)

WithinBudgetOffByOne == attempts <= MaxAttempts
WithinBudget == attempts < MaxAttempts

Claimable ==
  /\ status \in Open \/ (status = "claimed" /\ ~LeaseLive)
  /\ due
  /\ WithinBudget

GraphUnlocked == TRUE
GraphFree == graphLock = NoWorker

ClaimRead(w) ==
  /\ pc[w] = "claim" /\ GraphFree
  /\ \/ key[w] \in claims /\ Goto(w, "query") /\ UNCHANGED <<failure, graphLock>>
     \/ key[w] \notin claims /\ ~Claimable /\ Goto(w, "refresh") /\ UNCHANGED <<failure, graphLock>>
     \/ key[w] \notin claims /\ Claimable /\ closed /\ Fail(w, "blocked") /\ UNCHANGED graphLock
     \/ /\ key[w] \notin claims /\ Claimable /\ ~closed
        /\ Goto(w, "claimSave") /\ graphLock' = w /\ UNCHANGED failure
  /\ UNCHANGED <<work, history, key, answer, world>>

\* The database refuses to reopen a terminal row (trigger of migration 0009).
RowAcceptsAll == TRUE
RowAccepts == status \notin Terminal

ClaimSave(w) ==
  /\ pc[w] = "claimSave"
  /\ graphLock' = NoWorker
  /\ IF RowAccepts
     THEN /\ status' = "claimed" /\ attempts' = attempts + 1 /\ token' = key[w]
          /\ claims' = claims \cup {key[w]}
          /\ Goto(w, "query") /\ UNCHANGED failure
     ELSE /\ Fail(w, "error") /\ UNCHANGED <<status, attempts, token, claims>>
  /\ UNCHANGED <<due, evidence, reviewed, key, answer, world>>

\* After VerificationClaimConflict: contention with a live lease is skipped.
Refresh(w) ==
  /\ pc[w] = "refresh"
  /\ IF LeaseLive THEN Goto(w, "idle") /\ UNCHANGED failure ELSE Fail(w, "conflict")
  /\ UNCHANGED <<work, history, key, answer, world, graphLock>>

-----------------------------------------------------------------------------
(* The provider query, between the two transactions.                       *)

QueryReplay(w) ==
  /\ pc[w] = "query" /\ evidence[key[w]] # "none"
  /\ Goto(w, "idle")
  /\ UNCHANGED <<work, history, key, answer, failure, world, graphLock>>

Query(w) ==
  /\ pc[w] = "query" /\ evidence[key[w]] = "none"
  /\ \E a \in Answers : answer' = [answer EXCEPT ![w] = a]
  /\ Goto(w, "apply")
  /\ UNCHANGED <<work, history, key, failure, world, graphLock>>

-----------------------------------------------------------------------------
(* apply_verification_result                                               *)

OwnsLease(w) == token = key[w] /\ key[w] \notin expired /\ status = "claimed"

ApplyRead(w) ==
  /\ pc[w] = "apply" /\ GraphFree
  /\ \/ /\ evidence[key[w]] = answer[w]      \* same key, same fingerprint: replay
        /\ Goto(w, "idle") /\ DropAnswer(w) /\ UNCHANGED <<failure, graphLock>>
     \/ /\ evidence[key[w]] \notin {"none", answer[w]}   \* another fingerprint
        /\ Fail(w, "error") /\ DropAnswer(w) /\ UNCHANGED graphLock
     \/ /\ evidence[key[w]] = "none" /\ ~OwnsLease(w)   \* StaleVerificationClaim
        /\ Fail(w, "error") /\ DropAnswer(w) /\ UNCHANGED graphLock
     \/ /\ evidence[key[w]] = "none" /\ OwnsLease(w)
        /\ Goto(w, "applySave") /\ graphLock' = w /\ UNCHANGED <<answer, failure>>
  /\ UNCHANGED <<work, history, key, world>>

CompletedByPending(a) == "completed"
StatusAfter(a) == IF a = "pending" THEN "waiting" ELSE "completed"

ApplySave(w) ==
  /\ pc[w] = "applySave"
  /\ graphLock' = NoWorker
  /\ IF RowAccepts
     THEN /\ evidence' = [evidence EXCEPT ![key[w]] = answer[w]]
          /\ status' = StatusAfter(answer[w])
          /\ token' = 0 /\ due' = FALSE
          /\ Goto(w, "idle") /\ UNCHANGED failure
     ELSE /\ Fail(w, "error") /\ UNCHANGED <<status, token, due, evidence>>
  /\ DropAnswer(w)
  /\ UNCHANGED <<attempts, claims, reviewed, key, world>>

\* A refused transition, a database error: the transaction rolls back.
Raise(w) ==
  /\ pc[w] \in {"claimSave", "applySave"}
  /\ graphLock' = NoWorker
  /\ Fail(w, "error")
  /\ UNCHANGED <<work, history, key, answer, world>>

-----------------------------------------------------------------------------
(* _record_verification_runtime_failure and _open_runtime_review           *)

ExhaustedNever(f) == f = "blocked"
Exhausted(f) == f = "blocked" \/ attempts >= MaxAttempts

\* A live lease excuses contention; a terminal row is left alone.
FailureIgnored(f) == (LeaseLive /\ f = "conflict") \/ status \in Terminal

\* The blocked branch opens a review whether or not it canceled the row.
Escalates(f, canceled) == canceled \/ f = "blocked"

RecordFailure(w) ==
  LET canceled == ~FailureIgnored(failure[w]) /\ Exhausted(failure[w]) IN
  /\ pc[w] = "failed"
  /\ IF FailureIgnored(failure[w])
     THEN UNCHANGED work
     ELSE /\ status' = IF canceled THEN "canceled" ELSE "waiting"
          /\ token' = 0 /\ due' = FALSE /\ UNCHANGED attempts
  /\ Goto(w, IF Escalates(failure[w], canceled) THEN "review" ELSE "idle")
  /\ DropFailure(w)
  /\ UNCHANGED <<history, key, answer, world, graphLock>>

OpenReview(w) ==
  /\ pc[w] = "review"
  /\ reviewed' = TRUE
  /\ Goto(w, "idle")
  /\ UNCHANGED <<work, claims, evidence, key, answer, failure, world, graphLock>>

-----------------------------------------------------------------------------
(* What the processes do not control.                                      *)

\* Process death: an open transaction rolls back, committed rows stay.
Crash(w) ==
  /\ pc[w] # "idle" /\ crashes < MaxCrashes
  /\ crashes' = crashes + 1
  /\ Goto(w, "idle") /\ DropAnswer(w) /\ DropFailure(w)
  /\ graphLock' = IF graphLock = w THEN NoWorker ELSE graphLock
  /\ UNCHANGED <<work, history, key, expired, closed, runs>>

LeaseExpires(k) ==
  /\ k \in claims \ expired
  /\ expired' = expired \cup {k}
  /\ UNCHANGED <<work, history, locals, closed, crashes, runs, graphLock>>

BecomesDue ==
  /\ ~due /\ due' = TRUE
  /\ UNCHANGED <<status, attempts, token, history, locals, world, graphLock>>

\* Another operation of the payment settles or cancels it.
PaymentCloses ==
  /\ ~closed /\ graphLock = NoWorker /\ closed' = TRUE
  /\ UNCHANGED <<work, history, locals, expired, crashes, runs, graphLock>>

Step(w) ==
  \/ Start(w) \/ ClaimRead(w) \/ ClaimSave(w) \/ Refresh(w)
  \/ QueryReplay(w) \/ Query(w) \/ ApplyRead(w) \/ ApplySave(w)
  \/ RecordFailure(w) \/ OpenReview(w)

Select(w) == SelectDue(w) \/ RunOne(w) \/ Retry(w)

Next ==
  \/ \E w \in Workers : Select(w) \/ Step(w) \/ Raise(w) \/ Crash(w)
  \/ \E k \in Keys : LeaseExpires(k)
  \/ BecomesDue \/ PaymentCloses

Spec == Init /\ [][Next]_vars

(* An external supervisor keeps running batches, a process that was not    *)
(* killed finishes what it started (lock waits are first come, first       *)
(* served), the database does not refuse a claim for ever, and time        *)
(* passes.  Failing, crashing, the operator and the payment are not        *)
(* obliged to do anything.                                                 *)
Fairness ==
  /\ \A w \in Workers : WF_vars(SelectDue(w)) /\ SF_vars(Step(w)) /\ SF_vars(ClaimSave(w))
  /\ \A k \in Keys : WF_vars(LeaseExpires(k))
  /\ WF_vars(BecomesDue)

FairSpec == Spec /\ Fairness

-----------------------------------------------------------------------------
(* Properties.                                                             *)

\* The one type invariant.
TypeOK ==
  /\ status \in Open \cup {"claimed"} \cup Terminal
  /\ attempts \in 0..MaxAttempts
  /\ token \in 0..MaxAttempts
  /\ due \in BOOLEAN /\ reviewed \in BOOLEAN /\ closed \in BOOLEAN
  /\ claims \subseteq Keys /\ expired \subseteq claims
  /\ evidence \in [Keys -> Answers \cup {"none"}]
  /\ graphLock \in Workers \cup {NoWorker}
  /\ pc \in [Workers -> {"idle", "start", "claim", "claimSave", "refresh", "query",
                         "apply", "applySave", "failed", "review"}]
  /\ key \in [Workers -> 1..MaxAttempts + 1]
  /\ answer \in [Workers -> Answers]
  /\ failure \in [Workers -> Failures]
  /\ crashes \in 0..MaxCrashes /\ runs \in 0..MaxRuns

\* attempt_count counts the immutable claims exactly, although the row is
\* read before it is locked and an execution may replay another one's claim:
\* the keys used are precisely 1..attempt_count, and the lease names one.
OneClaimPerAttempt ==
  /\ claims = 1..attempts
  /\ status = "claimed" <=> token # 0
  /\ token # 0 => token \in claims

\* A conclusive observation and the completion of the work are one fact:
\* neither is ever committed without the other, whoever else writes the row.
ConclusiveIffCompleted ==
  status = "completed" <=> \E k \in Keys : evidence[k] = "conclusive"

\* Work is given up only when its budget is spent or the payment is terminal.
CanceledOnlyWhenExhausted ==
  status = "canceled" => attempts = MaxAttempts \/ closed

\* The work implements the abstract one of ObservedWork: no observation is
\* added to work that was completed or canceled, even by a process that
\* claimed it before, and the settling observation settles it at once.
Outcome == IF status = "completed" THEN "resolved"
           ELSE IF status = "canceled" THEN "abandoned" ELSE "open"

Observed == {k \in Keys : evidence[k] # "none"}

Promise == INSTANCE ObservedWork WITH
             Claims <- Keys, outcome <- Outcome, observed <- Observed

ImplementsObservedWork == Promise!Spec

\* The same page: "Exhausted or classified terminal work becomes CANCELED and
\* is represented by an existing ReviewCase": it is, or a process owes the
\* review, unless one died, whichever of several processes canceled the work.
CanceledIsReviewed ==
  status = "canceled" =>
    reviewed \/ crashes > 0 \/ \E w \in Workers : pc[w] = "review"

\* Work ends for a reason that is on record, in every interleaving of claims,
\* results, failure records and deaths: completed by conclusive evidence, or
\* given up with no attempt left and under review.
EndIsJustified == ConclusiveIffCompleted /\ CanceledOnlyWhenExhausted /\ CanceledIsReviewed

\* Given batches that keep coming, the work reaches a terminal status, unless
\* processes undo each other's starts for ever: the failure record of one, which
\* no lease binds, postpones the row that another one is about to claim.
EventuallyTerminal ==
  \/ <>(status \in Terminal)
  \/ []<>(attempts < MaxAttempts /\ due /\ \E w \in Workers : pc[w] = "failed")
=============================================================================
