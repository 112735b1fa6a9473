-------------------------- MODULE CallbackIngestion --------------------------
(***************************************************************************)
(* What provider callbacks leave behind: receipts, events and verification *)
(* work.  A delivery is authenticated and compared with what is known in   *)
(* unlocked reads, and persisted in a later transaction under advisory     *)
(* locks on its event; other deliveries, and the result of the request     *)
(* itself, commit between the two.  Providers deliver again, late, out of  *)
(* order and with changed evidence, and a delivery may die half way.       *)
(*                                                                         *)
(* Signed callbacks carry an event id of the provider, by which they are   *)
(* known; an unsigned one is a hint, known by its raw bytes, and counts    *)
(* only with the authority that the provider gave for the transaction.     *)
(* Evidence stands for the bytes, what they normalize to and the version   *)
(* of the key that signed them.                                            *)
(***************************************************************************)
EXTENDS FiniteSets

CONSTANTS
  Delivery,   \* calls of the endpoint; each has a fresh delivery key
  Evidence,
  Forged,     \* evidence that fails to authenticate
  Hint,       \* unsigned evidence
  Genuine,    \* hints that carry the provider's authority
  Unmatched,  \* signed evidence whose reference is not the transaction's
  Foreign,    \* signed evidence with the authority of another transaction
  Event,      \* event ids of the provider
  EventOf,    \* [Evidence -> Event], read for signed evidence
  Nothing

Misfit == Unmatched \cup Foreign

ASSUME EvidenceAssumption ==
  /\ Forged \subseteq Evidence /\ Hint \subseteq Evidence /\ Misfit \subseteq Evidence
  /\ Genuine \subseteq Hint /\ Hint \cap (Forged \cup Misfit) = {}
  /\ EventOf \in [Evidence -> Event]
ASSUME NothingAssumption == Nothing \notin Evidence /\ Hint \cap Event = {}

VARIABLES
  disclosed,  \* the authority is recorded on the transaction
  first,      \* the evidence of the original event of each identity
  others,     \* the contradictory events: identity and evidence
  work,       \* verification work ever enqueued, by its event
  delivery    \* the delivery's stage, evidence, receipt and linked event

events == <<first, others>>
vars   == <<disclosed, events, work, delivery>>

\* The deduplication identity of an event: the trusted id, or the bytes.
Identity == Event \cup Hint
Id(e) == IF e \in Hint THEN e ELSE EventOf[e]

EventIds == Identity \X Evidence \X {"original", "contradictory"}
Original(e) == <<Id(e), e, "original">>
Contradictory(e) == <<Id(e), e, "contradictory">>
Events ==
  {<<i, first[i], "original">> : i \in {j \in Identity : first[j] # Nothing}} \cup others

Undelivered == [stage |-> "none", of |-> Nothing, receipt |-> "none", linked |-> {}]

Init ==
  /\ disclosed = FALSE
  /\ first = [i \in Identity |-> Nothing]
  /\ others = {} /\ work = {}
  /\ delivery = [d \in Delivery |-> Undelivered]

FinishUnread(d, receipt, linked) ==
  delivery' = [delivery EXCEPT ![d].stage = receipt, ![d].receipt = "none", ![d].linked = linked]
Finish(d, receipt, linked) ==
  delivery' = [delivery EXCEPT ![d].stage = "done", ![d].receipt = receipt, ![d].linked = linked]

-----------------------------------------------------------------------------
(* What is read before anything is locked                                  *)

\* A signed delivery whose very evidence has a receipt and an event.
Replayed(e) ==
  {v \in Events \cap {Original(e), Contradictory(e)} :
     e \notin Hint \cup Forged /\ first[v[1]] \notin Misfit}

\* A hint is permitted only if it carries the authority recorded so far.
Permitted(e) == e \notin Hint \/ (disclosed /\ e \in Genuine)

\* late: the signature is right, but the window in which it is accepted is over.
Read(d, e, late) ==
  /\ delivery[d].stage = "none"
  /\ \/ /\ Replayed(e) # {}
        /\ delivery' = [delivery EXCEPT ![d] =
             [stage |-> "done", of |-> e, receipt |-> "replayed", linked |-> Replayed(e)]]
     \/ /\ Replayed(e) = {}
        /\ delivery' = [delivery EXCEPT ![d].of = e, ![d].stage =
             IF e \notin Forged /\ Permitted(e) /\ (e \in Hint \/ ~late)
             THEN "accepted" ELSE "refused"]
  /\ UNCHANGED <<disclosed, events, work>>

-----------------------------------------------------------------------------
(* The transaction that keeps the delivery                                 *)

\* A receipt, and nothing else.
PersistReceiptOnly(d) ==
  /\ delivery[d].stage = "refused"
  /\ Finish(d, IF delivery[d].of \in Forged THEN "security_rejected" ELSE "quarantined", {})
  /\ UNCHANGED <<disclosed, events, work>>

\* enqueue_verification_work finds the work of an event or creates it.
Enqueue(w) == work' = work \cup {w}

PersistNew(d, e) ==
  /\ first[Id(e)] = Nothing
  /\ first' = [first EXCEPT ![Id(e)] = e]
  /\ \/ e \notin Misfit /\ Enqueue(Original(e)) /\ Finish(d, "normalized", {Original(e)})
     \/ e \in Misfit /\ UNCHANGED work /\ Finish(d, "quarantined", {Original(e)})
  /\ UNCHANGED others

\* Another evidence for a known event, or a foreign authority, is kept beside the
\* first one and escalated for the transaction of the first one, if it has any.
Contradicts(e) == first[Id(e)] # Nothing /\ (first[Id(e)] # e \/ e \in Foreign)

PersistDuplicateById(d, e) ==
  /\ first[Id(e)] # Nothing /\ e \notin Foreign
  /\ Finish(d, "duplicate", {<<Id(e), first[Id(e)], "original">>})
  /\ UNCHANGED <<events, work>>
PersistDuplicate(d, e) ==
  /\ first[Id(e)] = e /\ ~Contradicts(e)
  /\ Finish(d, "duplicate", {Original(e)})
  /\ UNCHANGED <<events, work>>

Escalated(e) == first[Id(e)] \notin Misfit

\* PostgreSQL keeps a contradictory event beside an original one of the same id,
\* from which its evidence differs.
Distinct(e) == first[Id(e)] # e

PersistContradiction(d, e) ==
  /\ Contradicts(e) /\ Distinct(e)
  /\ others' = others \cup {Contradictory(e)}
  /\ IF Escalated(e) THEN Enqueue(Contradictory(e)) ELSE UNCHANGED work
  /\ Finish(d, "quarantined", {Contradictory(e)})
  /\ UNCHANGED first

\* A foreign authority delivered again contradicts its own first delivery: the event
\* is refused, the transaction rolls back, and the provider is told nothing.
PersistRefused(d, e) ==
  /\ Contradicts(e) /\ ~Distinct(e)
  /\ Finish(d, "none", {})
  /\ UNCHANGED <<events, work>>

PersistNormalized(d) ==
  /\ delivery[d].stage = "accepted"
  /\ LET e == delivery[d].of
     IN \/ PersistNew(d, e) \/ PersistDuplicate(d, e)
        \/ PersistContradiction(d, e) \/ PersistRefused(d, e)
  /\ UNCHANGED disclosed

\* The process dies before the transaction: the provider was told nothing.
Die(d) ==
  /\ delivery[d].stage \in {"accepted", "refused"}
  /\ Finish(d, "none", {})
  /\ UNCHANGED <<disclosed, events, work>>

-----------------------------------------------------------------------------
(* The rest of the system                                                  *)

\* apply_provider_request_result records the authority.
Disclose == ~disclosed /\ disclosed' = TRUE /\ UNCHANGED <<events, work, delivery>>

Next ==
  \/ \E d \in Delivery :
       \/ \E e \in Evidence, late \in BOOLEAN : Read(d, e, late)
       \/ PersistReceiptOnly(d)
       \/ PersistNormalized(d)
       \/ Die(d)
  \/ Disclose

Spec == Init /\ [][Next]_vars

-----------------------------------------------------------------------------
(* Properties                                                              *)

\* Every variable has its type.
TypeOK ==
  /\ disclosed \in BOOLEAN
  /\ first \in [Identity -> Evidence \cup {Nothing}]
  /\ others \subseteq EventIds
  /\ work \subseteq EventIds
  /\ delivery \in [Delivery ->
       [stage : {"none", "accepted", "refused", "done"}, of : Evidence \cup {Nothing},
        receipt : {"none", "replayed", "normalized", "duplicate", "quarantined",
                   "security_rejected"},
        linked : SUBSET EventIds]]

\* Work exists for exactly the events whose first evidence fits a transaction: a
\* duplicate adds none, a contradiction is never left without, and a quarantined
\* event never gets any, in whatever order deliveries read and commit.
WorkMatchesEvents == work = {v \in Events : first[v[1]] \notin Misfit}

\* The receipt of every delivery that was taken leads to an event that holds its own
\* evidence, and no delivery of a contradiction is answered as a duplicate of what it
\* contradicts, whatever was committed since the delivery read what is known.
ReceiptLeadsToItsEvidence ==
  \A d \in Delivery :
    /\ delivery[d].linked \subseteq Events
    /\ \A v \in delivery[d].linked : v[2] = delivery[d].of
    /\ delivery[d].receipt \in {"normalized", "duplicate", "replayed"} => delivery[d].linked # {}

\* A contradictory event stands beside an original one of its id, whose evidence it
\* still contradicts.
LineageValid == \A v \in others : first[v[1]] \notin {Nothing, v[2]}

\* No delivery is lost between its receipt, the events and their work, however
\* deliveries of one event interleave, repeat or contradict each other.
EvidenceIsKept == WorkMatchesEvents /\ ReceiptLeadsToItsEvidence /\ LineageValid

=============================================================================
