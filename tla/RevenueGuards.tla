---------------------------- MODULE RevenueGuards ----------------------------
(***************************************************************************)
(* What PostgreSQL accepts of the recognition of revenue: constraints and  *)
(* triggers on the evidence, the work, the recognition and its journal     *)
(* entry, several of them deferred to the commit of a transaction.         *)
(***************************************************************************)
EXTENDS Integers

CONSTANTS
  Order, Line, OrderOf, Buyer,
  Physical,     \* lines of standard commerce
  Amount,       \* the consideration allocated to a line
  NoOne, MaxAttempts

VARIABLES
  paid,         \* finalized orders
  deliveredBy,  \* the recorded operator of a line's delivery
  active,       \* staff whose account is active
  evidence,     \* the operator a line's evidence names, NoOne without a row
  work,         \* the work row of a line; status "absent" when there is none
  recognition,  \* the claim a line was recognized under, 0 when it was not
  ledger        \* what the journal holds of a line, as liability and as revenue

vars == <<paid, deliveredBy, active, evidence, work, recognition, ledger>>

Obliged(l)    == OrderOf[l] \in paid
Evidenced(l)  == evidence[l] # NoOne
Recognized(l) == recognition[l] # 0
Worked(l)     == work[l].status # "absent"

Init ==
  /\ paid = {}
  /\ \A l \in Line : ~Evidenced(l) /\ ~Worked(l) /\ ~Recognized(l)

-----------------------------------------------------------------------------
(* The finalization of an order                                            *)

\* One allocation for each line, as a liability and never as revenue.
AllocationComplete(o) ==
  o \in paid' \ paid =>
    \A l \in Line : OrderOf[l] = o => ledger'[l] = [liability |-> Amount[l], revenue |-> 0]

\* Nothing is allocated to a line of an order that is not finalized.
AllocationOwned(l) ==
  ledger[l].liability # 0 \/ ledger[l].revenue # 0 => Obliged(l)

\* Every journal entry is balanced, so only the entry that takes a line's share
\* from the customer's unapplied funds changes what the journal holds of the line.
EntriesBalanced(l) ==
  ledger'[l].liability + ledger'[l].revenue =
    ledger[l].liability + ledger[l].revenue
      + (IF OrderOf[l] \in paid' \ paid THEN Amount[l] ELSE 0)

-----------------------------------------------------------------------------
(* Satisfaction evidence                                                   *)

\* Active staff attest; of a physical line never its customer, and of a Digital
\* line the operator of its completed execution.
EvidenceAdmitted(l) ==
  Evidenced(l)' /\ ~Evidenced(l) =>
    /\ evidence'[l] \in active /\ Obliged(l)
    /\ IF l \in Physical THEN evidence'[l] # Buyer[OrderOf[l]]
                         ELSE evidence'[l] = deliveredBy[l]

\* One row for each fulfillment, which no command rewrites.
EvidenceAppended(l) == Evidenced(l) => evidence'[l] = evidence[l]

-----------------------------------------------------------------------------
(* Recognition work                                                        *)

\* A claim has an owner and a token, and nothing else has; attempts are bounded.
WorkCoherent(l) ==
  /\ work[l].token # 0 <=> work[l].status = "claimed"
  /\ work[l].live => work[l].status = "claimed"
  /\ work[l].attempts <= MaxAttempts

WorkOwned(l) == Worked(l) => Obliged(l)

\* The row is never deleted.
WorkKept(l) == Worked(l) => Worked(l)'

TerminalWorkImmutable(l) == work[l].status = "completed" => work'[l] = work[l]

\* Completed work has the recognition it was completed for.
WorkJustified(l) == work[l].status = "completed" => Recognized(l)

-----------------------------------------------------------------------------
(* The recognition                                                         *)

\* Its work is completed, after a claim at least, on the one evidence.
RecognitionCoherent(l) ==
  Recognized(l) =>
    /\ Evidenced(l) /\ work[l].status = "completed"
    /\ work[l].attempts >= 1

\* All of the allocation was earned: the liability is debited by it and revenue
\* credited.
PostingBalanced(l) ==
  Recognized(l) => ledger[l] = [liability |-> 0, revenue |-> Amount[l]]

\* Neither a second recognition of an allocation nor a change of the first.
RecognitionOnce(l) == Recognized(l) => recognition'[l] = recognition[l]

-----------------------------------------------------------------------------
Coherent ==
  \A l \in Line :
    /\ AllocationOwned(l) /\ WorkOwned(l) /\ WorkCoherent(l) /\ WorkJustified(l)
    /\ RecognitionCoherent(l) /\ PostingBalanced(l)

Accepted ==
  /\ Coherent'
  /\ \A o \in Order : AllocationComplete(o)
  /\ \A l \in Line :
       /\ EntriesBalanced(l) /\ EvidenceAdmitted(l) /\ EvidenceAppended(l)
       /\ WorkKept(l) /\ TerminalWorkImmutable(l) /\ RecognitionOnce(l)

Spec == Init /\ [][Accepted]_vars
=============================================================================
