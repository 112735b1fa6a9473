------------------------ MODULE VerificationEvidence ------------------------
(***************************************************************************)
(* How provider answers become evidence: each answer about a transaction   *)
(* is normalized by an adapter outside every database transaction, and     *)
(* later judged against what was recorded meanwhile, appended as one       *)
(* immutable Verification row and projected on the payment graph.  The     *)
(* current reading of the evidence is derived from all rows, and only an   *)
(* eligible one is recognized as money.                                    *)
(*                                                                         *)
(* Every transaction is the only one of its payment (a Digital payment has *)
(* one), all on one merchant account.  An apply that raises rolls back and *)
(* leaves the work to be retried or given up; the lease and the attempts   *)
(* of the work are in VerificationWork.                                    *)
(***************************************************************************)
EXTENDS Integers, Sequences, FiniteSets

CONSTANTS
  Transactions,
  Work,             \* verification work items
  TransactionOf,    \* [Work -> Transactions]
  EventChoices,     \* sets of callback evidence behind the work, [Work -> Events]
  StatusChoices,    \* what the requests may have left, [Transactions -> Requested]
  References,       \* provider references (ref_id)
  NoReference,
  SignedReference,  \* [Work -> References]: the one in a signed event
  NotFoundIsFinal,  \* transactions whose capability says so
  MaxRows           \* bound: rows of one transaction

Requested == {"requesting", "pending_customer", "unknown"}
Events == {"hint", "signed", "contradictory"}

ASSUME WorkAssumption ==
  /\ TransactionOf \in [Work -> Transactions]
  /\ EventChoices \subseteq [Work -> Events]
  /\ StatusChoices \subseteq [Transactions -> Requested]
  /\ SignedReference \in [Work -> References]
  /\ NotFoundIsFinal \subseteq Transactions
ASSUME ReferenceAssumption == NoReference \notin References /\ MaxRows \in Nat

VARIABLES
  event,       \* the evidence behind each work; never changes
  inquiry,     \* due, asked, recorded, given_up
  reply,       \* the normalized result a claim's query returned
  rows,        \* Verification rows of each transaction, in sequence
  owner,       \* ProviderReferenceAllocation: transaction and sequence, or None
  transaction, \* its status
  payment,     \* collection_status
  reference,   \* provider_reference of the transaction
  authority    \* exceptional authorization: none, approved, applied

evidenceVars == <<event, inquiry, reply, rows, owner, transaction, payment, reference, authority>>
graph == <<transaction, payment, reference>>

None == <<>>
Definitive == {"declined", "not_found", "expired"}
Outcomes == Definitive \cup {"success", "pending", "unknown", "mismatch", "contradiction",
                             "security", "configuration", "protocol"}
Ended == {"declined", "expired"}
WorkStates == {"due", "asked", "recorded", "given_up"}
Owners == {None} \cup Transactions \X (1..MaxRows)   \* ProviderReferenceAllocation

EvidenceInit ==
  /\ event \in EventChoices
  /\ inquiry = [w \in Work |-> "due"]
  /\ reply = [w \in Work |-> None]
  /\ rows = [t \in Transactions |-> <<>>]
  /\ owner = [r \in References |-> None]
  /\ transaction \in StatusChoices
  /\ payment = [t \in Transactions |-> IF transaction[t] = "unknown" THEN "review" ELSE "processing"]
  /\ reference = [t \in Transactions |-> NoReference]
  /\ authority = [t \in Transactions |-> "none"]

-----------------------------------------------------------------------------
(* Normalization                                                           *)

Unclear(o) ==
  [outcome |-> o, effect |-> "unknown", final |-> FALSE, same |-> TRUE,
   money |-> "none", ref |-> NoReference, basis |-> "none"]
Unpaid(o) == [Unclear(o) EXCEPT !.effect = "unpaid", !.final = TRUE]
Paid(r, b) ==
  [outcome |-> "success", effect |-> "paid", final |-> TRUE, same |-> TRUE,
   money |-> "exact", ref |-> r, basis |-> b]

\* The code a Zarinpal verification returns; "paid" is 100 or 101 with a ref_id.
Codes == {"paid", "amount", "unpaid", "merchant", "no_authority", "busy", "bad_answer"}
Zarinpal(code, r) ==
  CASE code = "paid"         -> Paid(r, "server")
    [] code = "amount"       -> Unclear("mismatch")
    [] code = "unpaid"       -> Unpaid("declined")
    [] code = "merchant"     -> Unclear("security")
    [] code = "no_authority" -> Unpaid("not_found")
    [] code = "busy"         -> Unclear("unknown")
    [] code = "bad_answer"   -> Unclear("protocol")

\* The certification adapter answers with its own reference, or refuses.
Certification(r, own) == IF own THEN Paid(r, "server") ELSE Unclear("security")

\* What the adapter contract allows beside: pending operations, money that
\* is malformed or another, another operation's identity.
Contract(r, b) ==
  {Unclear("pending"), [Paid(r, b) EXCEPT !.money = "malformed"],
   [Paid(r, b) EXCEPT !.money = "other"], [Paid(r, b) EXCEPT !.same = FALSE],
   [Unpaid("expired") EXCEPT !.final = FALSE]}

\* Answers to a query, a transport failure and a disabled policy among them.
QueryReplies ==
  {Zarinpal(c, r) : c \in Codes, r \in References}
    \cup {Certification(r, own) : r \in References, own \in BOOLEAN}
    \cup (UNION {Contract(r, "server") : r \in References})
    \cup {Unclear("unknown"), Unclear("configuration")}

\* A signed event that is settlement-grade is verified without a query, and
\* a result that differs from the event is a mismatch.
Agrees(w, r) ==
  /\ r.ref = SignedReference[w] /\ r.money = "exact" /\ r.same
  /\ r.effect = "paid" /\ r.final /\ r.basis = "settlement"
SignedReplies(w) ==
  {IF Agrees(w, r) THEN r ELSE [r EXCEPT !.outcome = "mismatch"] :
     r \in {Paid(x, "settlement") : x \in References} \cup {Unclear("unknown")}
             \cup UNION {Contract(x, "settlement") : x \in References}}

Replies(w) ==
  IF event[w] = "signed" THEN SignedReplies(w) \cup {Unclear("configuration")} ELSE QueryReplies

\* claim_verification_work and the query that follows it.
Ask(w) ==
  /\ inquiry[w] = "due" /\ payment[TransactionOf[w]] # "paid"
  /\ inquiry' = [inquiry EXCEPT ![w] = "asked"]
  /\ \E r \in Replies(w) : reply' = [reply EXCEPT ![w] = r]
  /\ UNCHANGED <<rows, owner, graph, authority, event>>

\* The process dies, or its lease passes to another claim.
Drop(w) ==
  /\ inquiry[w] = "asked"
  /\ inquiry' = [inquiry EXCEPT ![w] = "due"]
  /\ reply' = [reply EXCEPT ![w] = None]
  /\ UNCHANGED <<rows, owner, graph, authority, event>>

-----------------------------------------------------------------------------
(* Judging an answer                                                       *)

RowsOf(t) == {rows[t][i] : i \in DOMAIN rows[t]}
Succeeded(t) == \E v \in RowsOf(t) : v.state = "success"
EndedUnpaid(t) == \E v \in RowsOf(t) : v.state = "unpaid"

\* _comparison_failure
ExactElsewhere(t, r) ==
  /\ r.basis \in {"server", "settlement"}
  /\ r.money = "exact" /\ r.ref # NoReference
  /\ reference[t] \in {NoReference, r.ref}
  /\ r.effect = "paid" /\ r.final
Exact(t, r) ==
  /\ r.basis \in {"server", "settlement"} /\ r.same
  /\ r.money = "exact" /\ r.ref # NoReference
  /\ reference[t] \in {NoReference, r.ref}
  /\ r.effect = "paid" /\ r.final

\* The answer alone: its money and its identity, and whether the provider's
\* not-found is final.
Compared(t, r) ==
  IF r.money = "malformed" THEN "protocol"
  ELSE IF r.outcome = "success" /\ ~Exact(t, r) THEN "mismatch"
  ELSE IF r.outcome = "not_found" /\ t \notin NotFoundIsFinal THEN "unknown"
  ELSE r.outcome

\* The answer against what is recorded now.
ContradictsRows(t, o) == (Succeeded(t) /\ o # "success") \/ (EndedUnpaid(t) /\ o = "success")
OwnedByAnother(t, o, r) == o = "success" /\ owner[r.ref] # None /\ owner[r.ref][1] # t
Judged(w) ==
  LET t == TransactionOf[w]
      r == reply[w]
      o == Compared(t, r)
  IN IF ContradictsRows(t, o) \/ event[w] = "contradictory" \/ OwnedByAnother(t, o, r)
     THEN "contradiction"
     ELSE IF o \in Definitive /\ ~(r.effect = "unpaid" /\ r.final) THEN "unknown"
     ELSE o

\* application_state
StateOf(o) ==
  CASE o = "success"      -> "success"
    [] o \in Definitive   -> "unpaid"
    [] o = "pending"      -> "unapplied"
    [] OTHER              -> "review"

Row(w) ==
  LET r == reply[w] IN
  [outcome |-> Judged(w), effect |-> r.effect, final |-> r.final, same |-> r.same,
   money |-> IF r.money = "malformed" THEN "none" ELSE r.money,
   ref |-> r.ref, basis |-> r.basis, state |-> StateOf(Judged(w)),
   spoiled |-> r.money = "malformed" /\ Judged(w) = "protocol", event |-> event[w]]

-----------------------------------------------------------------------------
(* The projection on the payment graph                                     *)

TransactionEdges ==
  [s \in {"requesting", "pending_customer", "pending_provider", "unknown", "review"} |->
     CASE s = "requesting"       ->
            {"pending_provider", "succeeded", "declined", "unknown", "review"}
       [] s = "pending_customer" -> {"declined", "expired", "unknown", "review"}
       [] s = "pending_provider" -> {"succeeded", "declined", "expired", "unknown", "review"}
       [] s = "unknown"          -> {"succeeded", "declined", "expired", "review"}
       [] s = "review"           -> {"succeeded", "declined", "expired", "unknown"}]
PaymentEdges ==
  [p \in {"open", "processing", "review", "recognized"} |->
     CASE p = "open"       -> {"processing", "review"}
       [] p = "processing" -> {"open", "recognized", "review"}
       [] p = "review"     -> {"open", "processing", "recognized"}
       [] p = "recognized" -> {"paid", "review"}]
Moves(edges, from, to) == from = to \/ (from \in DOMAIN edges /\ to \in edges[from])

TransactionTarget(t, v) ==
  CASE v.state = "success"   -> IF transaction[t] \in Ended THEN transaction[t] ELSE "review"
    [] v.state = "unpaid"    -> IF v.outcome = "declined" THEN "declined" ELSE "expired"
    [] v.state = "unapplied" -> "pending_provider"
    [] v.state = "review"    -> IF v.outcome = "unknown" THEN "unknown" ELSE "review"
PaymentTarget(v) ==
  CASE v.state = "unpaid"    -> "open"
    [] v.state = "unapplied" -> "processing"
    [] OTHER                 -> "review"

\* PostgreSQL refuses to reopen a payment over evidence that may be money,
\* and a successful row that does not own its reference itself.
Reopenable(t) ==
  payment[t] # "open" => \A v \in RowsOf(t) : v.state \notin {"unapplied", "success", "review"}
OwnsAnything(t, v) == TRUE
OwnsReference(t, v) ==
  v.state = "success" =>
    /\ owner[v.ref] = None
    /\ \A r \in References : owner[r] # None => owner[r][1] # t
Projects(t, v) ==
  /\ Moves(TransactionEdges, transaction[t], TransactionTarget(t, v))
  /\ Moves(PaymentEdges, payment[t], PaymentTarget(v))
  /\ v.state = "unpaid" => Reopenable(t)
  /\ OwnsReference(t, v)

\* apply_verification_result, committed.
Apply(w) ==
  LET t == TransactionOf[w]
      v == Row(w)
  IN /\ inquiry[w] = "asked" /\ Projects(t, v)
     /\ Len(rows[t]) < MaxRows
     /\ rows' = [rows EXCEPT ![t] = Append(@, v)]
     /\ owner' = IF v.state = "success"
                   THEN [owner EXCEPT ![v.ref] = <<t, Len(rows[t]) + 1>>] ELSE owner
     /\ transaction' = [transaction EXCEPT ![t] = TransactionTarget(t, v)]
     /\ payment' = [payment EXCEPT ![t] = PaymentTarget(v)]
     /\ reference' = IF v.state = "success" /\ reference[t] = NoReference
                       THEN [reference EXCEPT ![t] = v.ref] ELSE reference
     /\ inquiry' = [inquiry EXCEPT ![w] = IF v.state = "unapplied" THEN "due" ELSE "recorded"]
     /\ reply' = [reply EXCEPT ![w] = None]
     /\ UNCHANGED <<authority, event>>

\* apply_verification_result, rolled back: the failure is recorded on the
\* work, which is retried and in the end given up.
Refuse(w) ==
  /\ inquiry[w] = "asked" /\ ~Projects(TransactionOf[w], Row(w))
  /\ \/ inquiry' = [inquiry EXCEPT ![w] = "due"] /\ reply' = [reply EXCEPT ![w] = None]
     \/ inquiry' = [inquiry EXCEPT ![w] = "given_up"] /\ UNCHANGED reply
  /\ UNCHANGED <<rows, owner, graph, authority, event>>

-----------------------------------------------------------------------------
(* Reading the evidence, and recognizing it                                *)

Eligible(t, i) ==
  LET v == rows[t][i] IN
  /\ v.state = "success" /\ v.outcome = "success" /\ v.effect = "paid" /\ v.final
  /\ v.basis \in {"server", "settlement"} /\ v.money # "none" /\ v.ref # NoReference
  /\ owner[v.ref] = <<t, i>>
Controlling(t) ==
  LET all == {i \in DOMAIN rows[t] : Eligible(t, i)} IN
  IF all = {} THEN 0 ELSE CHOOSE i \in all : \A j \in all : j <= i

\* A later success supersedes a row whose money alone could not be read.
SupersededByAny(t, i, s) == s # 0 /\ i < s
Superseded(t, i, s) ==
  /\ s # 0 /\ i < s
  /\ rows[t][i].spoiled /\ rows[t][i].effect = "paid"
  /\ rows[t][i].ref = rows[t][s].ref /\ rows[t][i].same = rows[t][s].same
Blockers(t) ==
  {i \in DOMAIN rows[t] : rows[t][i].state = "review" /\ ~Superseded(t, i, Controlling(t))}

\* derive_current_verification_interpretation
Reading(t) ==
  IF Blockers(t) # {} THEN "blocked"
  ELSE IF Controlling(t) # 0 THEN "eligible"
  ELSE IF EndedUnpaid(t) THEN "unpaid"
  ELSE IF rows[t] = <<>> THEN "unverified" ELSE "waiting"

\* _validate_exact_success, without the terms that no step can change.
ExactSuccess(t) ==
  LET v == rows[t][Controlling(t)] IN
  /\ v.same /\ v.money = "exact" /\ v.ref = reference[t]
  /\ owner[v.ref] = <<t, Controlling(t)>>

Recognizable(t) ==
  /\ payment[t] \in {"processing", "review"}
  /\ Reading(t) = "eligible" /\ ExactSuccess(t)

Recognize(t) ==
  /\ Recognizable(t)
  /\ \/ /\ transaction[t] \notin Ended /\ Moves(TransactionEdges, transaction[t], "succeeded")
        /\ transaction' = [transaction EXCEPT ![t] = "succeeded"]
        /\ UNCHANGED authority
     \/ /\ transaction[t] \in Ended /\ authority[t] = "approved"
        /\ authority' = [authority EXCEPT ![t] = "applied"]
        /\ UNCHANGED transaction
  /\ payment' = [payment EXCEPT ![t] = "recognized"]
  /\ UNCHANGED <<inquiry, reply, rows, owner, reference, event>>

\* The checker of a late payment accepts the exact evidence.
Approve(t) ==
  /\ transaction[t] \in Ended /\ authority[t] = "none" /\ payment[t] = "review"
  /\ Reading(t) = "eligible"
  /\ authority' = [authority EXCEPT ![t] = "approved"]
  /\ UNCHANGED <<inquiry, reply, rows, owner, graph, event>>

Finalize(t) ==
  /\ payment[t] = "recognized"
  /\ payment' = [payment EXCEPT ![t] = "paid"]
  /\ UNCHANGED <<inquiry, reply, rows, owner, transaction, reference, authority, event>>

\* The request itself ends unpaid: the provider's answer to it, or an
\* operator who proves that it never arrived.
EndAtRequest(t) ==
  /\ transaction[t] \in {"requesting", "unknown"} /\ Reopenable(t)
  /\ transaction' = [transaction EXCEPT ![t] = "declined"]
  /\ payment' = [payment EXCEPT ![t] = "open"]
  /\ UNCHANGED <<inquiry, reply, rows, owner, reference, authority, event>>

EvidenceNext ==
  \/ \E w \in Work : Ask(w) \/ Drop(w) \/ Apply(w) \/ Refuse(w)
  \/ \E t \in Transactions : Recognize(t) \/ Approve(t) \/ Finalize(t) \/ EndAtRequest(t)

EvidenceSpec == EvidenceInit /\ [][EvidenceNext]_evidenceVars

-----------------------------------------------------------------------------
(* Properties                                                              *)

RowType ==
  [outcome : Outcomes, effect : {"paid", "unpaid", "unknown"}, final : BOOLEAN, same : BOOLEAN,
   money : {"exact", "other", "none"}, ref : References \cup {NoReference},
   basis : {"server", "settlement", "none"},
   state : {"success", "unpaid", "unapplied", "review"}, spoiled : BOOLEAN, event : Events]

\* Values of the work, the evidence and the payment graph; a transaction has
\* at most one successful row, which the database makes a condition of the
\* ownership of its reference.
EvidenceTypeOK ==
  /\ event \in EventChoices
  /\ inquiry \in [Work -> WorkStates]
  /\ \A t \in Transactions :
       /\ RowsOf(t) \subseteq RowType
       /\ Cardinality({i \in DOMAIN rows[t] : rows[t][i].state = "success"}) <= 1
  /\ owner \in [References -> Owners]
  /\ transaction \in [Transactions -> DOMAIN TransactionEdges \cup Ended \cup {"succeeded"}]
  /\ payment \in [Transactions -> DOMAIN PaymentEdges \cup {"paid"}]
  /\ reference \in [Transactions -> References \cup {NoReference}]
  /\ authority \in [Transactions -> {"none", "approved", "applied"}]

Guards == INSTANCE EvidenceGuards

\* One reference settles one transaction, and evidence read as eligible is exact
\* evidence of that very transaction, whatever was answered to concurrent queries
\* and in whatever order the answers were applied.
EligibleIsExact ==
  /\ \A t, u \in Transactions :
       t # u => reference[t] # reference[u] \/ reference[t] = NoReference
  /\ \A t \in Transactions : Reading(t) = "eligible" => ExactSuccess(t)

\* The reading is never that of the last row: a blocked transaction is only
\* freed by a success that supersedes unreadable money, what was read as
\* final either stays or blocks, and money is recognized on an eligible
\* reading alone; and every commit is one that PostgreSQL accepts.
ReadingMoves ==
  /\ Guards!Spec
  /\ [][\A t \in Transactions :
       /\ Reading(t) = "blocked" =>
            \/ Reading(t)' = "blocked"
            \/ Reading(t)' = "eligible" /\ \A i \in Blockers(t) : rows[t][i].spoiled
       /\ Reading(t) \in {"unpaid", "eligible"} => Reading(t)' \in {Reading(t), "blocked"}
       /\ payment'[t] = "recognized" /\ payment[t] # "recognized" => Reading(t) = "eligible"
    ]_evidenceVars

=============================================================================
