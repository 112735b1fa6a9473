---------------------------- MODULE EvidenceGuards ----------------------------
(***************************************************************************)
(* What PostgreSQL accepts of the evidence about provider transactions:    *)
(* append-only rows in sequence, references that are written once and      *)
(* owned by the row that proved them, and money on exact evidence alone.   *)
(* Each transaction is the only one of its payment.                        *)
(***************************************************************************)
EXTENDS Naturals, Sequences

CONSTANTS Transactions, References, NoReference

VARIABLES
  rows,        \* Verification rows of each transaction
  owner,       \* the transaction and the sequence of the row that owns a reference
  transaction, \* its status
  payment,     \* collection_status; FinancialAllocation exists once recognized
  reference    \* provider_reference of the transaction

vars == <<rows, owner, transaction, payment, reference>>

RowsOf(t)    == {rows[t][i] : i \in DOMAIN rows[t]}
Allocated(t) == payment[t] \in {"recognized", "paid"}
Unpaid       == {"declined", "expired"}

Init ==
  /\ \A t \in Transactions : rows[t] = <<>> /\ reference[t] = NoReference /\ ~Allocated(t)
  /\ \A r \in References : owner[r] = <<>>

-----------------------------------------------------------------------------
(* A new row                                                               *)

\* Rows stay as they are, and one more takes the next sequence.
RowsAppended(t) ==
  rows'[t] # rows[t] => \E v \in RowsOf(t)' : rows'[t] = Append(rows[t], v)

\* A row that counts as success says everything that makes it one, and where it
\* rests on a callback, the callback was signed; no other row claims success.
RowComplete(v) ==
  IF v.state = "success"
  THEN /\ v.outcome = "success" /\ v.effect = "paid" /\ v.final
       /\ v.same /\ v.money = "exact" /\ v.ref # NoReference
       /\ v.basis = "server" \/ (v.basis = "settlement" /\ v.event = "signed")
  ELSE v.outcome # "success"

\* Deferred to the commit: a successful row owns the reference it names.
SuccessOwns(t) ==
  \A i \in DOMAIN rows[t] :
    rows[t][i].state = "success" => owner[rows[t][i].ref] = <<t, i>>

\* A reference is owned by a successful row that names it, for ever.
OwnerNamesIt(r) ==
  owner[r] # <<>> =>
    LET v == rows[owner[r][1]][owner[r][2]] IN v.state = "success" /\ v.ref = r
OwnerPermanent(r) == owner[r] # <<>> => owner'[r] = owner[r]

-----------------------------------------------------------------------------
(* The transaction and its attempt                                         *)

\* What a provider proved of a transaction is written once.
ReferenceWrittenOnce(t) == reference[t] # NoReference => reference'[t] = reference[t]

\* An attempt never fails over a successful row.
FailureUncontradicted(t) ==
  transaction'[t] \in Unpaid /\ transaction[t] \notin Unpaid =>
    \A v \in RowsOf(t) : v.state # "success"

\* A transaction succeeds in the commit that allocates its money.
SuccessAllocated(t) ==
  transaction'[t] = "succeeded" /\ transaction[t] # "succeeded" => Allocated(t)'

\* A payment is not reopened over evidence that may be money.
ReopenUncontradicted(t) ==
  payment'[t] = "open" /\ payment[t] # "open" =>
    \A v \in RowsOf(t)' : v.state \notin {"unapplied", "success", "review"}

-----------------------------------------------------------------------------
(* The allocation                                                          *)

\* Money is allocated on a successful row of the very transaction: its exact
\* amount, under the reference that the transaction and the row share.
AllocationEvidenced(t) ==
  Allocated(t)' /\ ~Allocated(t) =>
    \E v \in RowsOf(t) :
      /\ v.state = "success" /\ v.outcome = "success" /\ v.effect = "paid" /\ v.final
      /\ v.basis \in {"server", "settlement"}
      /\ v.money = "exact" /\ v.ref = reference[t]

AllocationPermanent(t) == Allocated(t) => Allocated(t)'

Accepted ==
  /\ \A t \in Transactions :
       /\ RowsAppended(t) /\ SuccessOwns(t)' /\ \A v \in RowsOf(t)' : RowComplete(v)
       /\ ReferenceWrittenOnce(t) /\ FailureUncontradicted(t) /\ ReopenUncontradicted(t)
       /\ SuccessAllocated(t) /\ AllocationEvidenced(t) /\ AllocationPermanent(t)
  /\ \A r \in References : OwnerNamesIt(r)' /\ OwnerPermanent(r)

Spec == Init /\ [][Accepted]_vars
=============================================================================
