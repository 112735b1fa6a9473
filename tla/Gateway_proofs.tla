--------------------------- MODULE Gateway_proofs ---------------------------
(***************************************************************************)
(* The two sides of a payment provider, for any number of calls, keys,     *)
(* deliveries and provider events: ingestion of its callbacks loses no     *)
(* evidence, and requests leave one page that the customer can pay.        *)
(***************************************************************************)
EXTENDS PaymentRequest, CallbackIngestion, TLAPS

-----------------------------------------------------------------------------
(* Callbacks                                                               *)

\* A delivery that is not over has no receipt and leads nowhere yet; one that
\* was accepted carries evidence.
StageInv ==
  \A d \in Delivery :
    /\ delivery[d].stage \in {"none", "accepted", "refused"} =>
         delivery[d].receipt = "none" /\ delivery[d].linked = {}
    /\ delivery[d].stage = "accepted" => delivery[d].of \in Evidence

\* Contradictions are kept as such.
KindInv == \A v \in others : v[3] = "contradictory"

\* The strengthening of EvidenceIsKept that every step preserves.
IInv == TypeOK /\ EvidenceIsKept /\ StageInv /\ KindInv

-----------------------------------------------------------------------------
(* Events                                                                  *)

LEMMA IdentityOf ==
  ASSUME NEW e \in Evidence
  PROVE  Id(e) \in Identity /\ Original(e) \in EventIds /\ Contradictory(e) \in EventIds
BY EvidenceAssumption DEF Id, Identity, EventIds, Original, Contradictory

LEMMA OriginalIsEvent ==
  ASSUME NEW e \in Evidence, first[Id(e)] = e
  PROVE  Original(e) \in Events
BY IdentityOf, NothingAssumption DEF Events, Original

\* A step that keeps every event keeps where the receipts of other deliveries
\* lead, and it is enough to look at the delivery that moved.
LEMMA ReceiptsStay ==
  ASSUME IInv, NEW d \in Delivery, Events \subseteq Events',
         \A c \in Delivery \ {d} : delivery'[c] = delivery[c],
         delivery'[d].linked \subseteq Events',
         \A v \in delivery'[d].linked : v[2] = delivery'[d].of,
         delivery'[d].receipt \in {"normalized", "duplicate", "replayed"}
           => delivery'[d].linked # {},
         delivery'[d].stage \in {"none", "accepted", "refused"} =>
           delivery'[d].receipt = "none" /\ delivery'[d].linked = {},
         delivery'[d].stage = "accepted" => delivery'[d].of \in Evidence
  PROVE  ReceiptLeadsToItsEvidence' /\ StageInv'
BY DEF IInv, EvidenceIsKept, ReceiptLeadsToItsEvidence, StageInv

\* The kinds of a receipt, and the end of a delivery that writes one.
Receipts == {"none", "replayed", "normalized", "duplicate", "quarantined", "security_rejected"}
DeliveryRows ==
  [stage : {"none", "accepted", "refused", "done"}, of : Evidence \cup {Nothing},
   receipt : Receipts, linked : SUBSET EventIds]

LEMMA Finished ==
  ASSUME IInv, NEW d \in Delivery, NEW receipt \in Receipts, NEW linked \in SUBSET EventIds,
         Finish(d, receipt, linked), Events \subseteq Events', linked \subseteq Events',
         \A v \in linked : v[2] = delivery[d].of,
         receipt \in {"normalized", "duplicate", "replayed"} => linked # {}
  PROVE  /\ ReceiptLeadsToItsEvidence' /\ StageInv'
         /\ delivery' \in [Delivery -> DeliveryRows]
<1> DEFINE r == [delivery[d] EXCEPT !.stage = "done", !.receipt = receipt, !.linked = linked]
<1>1. delivery' = [delivery EXCEPT ![d] = r] /\ delivery[d] \in DeliveryRows
  BY DEF Finish, IInv, TypeOK, DeliveryRows, Receipts
<1>2. /\ delivery'[d] = r /\ \A c \in Delivery \ {d} : delivery'[c] = delivery[c]
      /\ r.stage = "done" /\ r.of = delivery[d].of /\ r.receipt = receipt /\ r.linked = linked
      /\ r \in DeliveryRows
  BY <1>1 DEF IInv, TypeOK, DeliveryRows
<1>3. ReceiptLeadsToItsEvidence' /\ StageInv'
  BY <1>2, ReceiptsStay
<1>4. delivery' \in [Delivery -> DeliveryRows]
  BY <1>1, <1>2 DEF IInv, TypeOK, DeliveryRows, Receipts
<1> QED BY <1>3, <1>4

\* When nothing is kept, what was kept stays right.
LEMMA EventsStay ==
  ASSUME IInv, UNCHANGED <<events, work>>
  PROVE  WorkMatchesEvents' /\ LineageValid' /\ KindInv' /\ Events' = Events
BY DEF IInv, EvidenceIsKept, WorkMatchesEvents, LineageValid, KindInv, Events, events

-----------------------------------------------------------------------------
(* The steps                                                               *)

LEMMA ReadStep ==
  ASSUME IInv, NEW d \in Delivery, NEW e \in Evidence, NEW late \in BOOLEAN, Read(d, e, late)
  PROVE  IInv'
<1>1. /\ WorkMatchesEvents' /\ LineageValid' /\ KindInv' /\ Events' = Events
  BY EventsStay DEF Read
<1>2. delivery[d].receipt = "none" /\ delivery[d].linked = {}
  BY DEF Read, IInv, StageInv
<1>3. CASE Replayed(e) # {} /\ delivery' = [delivery EXCEPT ![d] =
             [stage |-> "done", of |-> e, receipt |-> "replayed", linked |-> Replayed(e)]]
  <2> DEFINE r == [stage |-> "done", of |-> e, receipt |-> "replayed", linked |-> Replayed(e)]
  <2>1. delivery'[d] = r /\ \A c \in Delivery \ {d} : delivery'[c] = delivery[c]
    BY <1>3 DEF IInv, TypeOK
  <2>2. Replayed(e) \subseteq Events /\ Replayed(e) \subseteq {Original(e), Contradictory(e)}
    BY DEF Replayed
  <2>3. \A v \in Replayed(e) : v[2] = e
    BY <2>2 DEF Original, Contradictory
  <2>4. ReceiptLeadsToItsEvidence' /\ StageInv'
    BY <1>1, <1>3, <2>1, <2>2, <2>3, ReceiptsStay
  <2>5. r \in DeliveryRows
    BY <2>2, IdentityOf DEF Receipts, DeliveryRows
  <2>6. TypeOK'
    BY <1>3, <2>5 DEF IInv, TypeOK, Read, events, Receipts, DeliveryRows
  <2> QED BY <1>1, <2>4, <2>6 DEF IInv, EvidenceIsKept
<1>4. ASSUME NEW s \in {"accepted", "refused"},
             delivery' = [delivery EXCEPT ![d].of = e, ![d].stage = s]
      PROVE  IInv'
  <2> DEFINE r == [delivery[d] EXCEPT !.of = e, !.stage = s]
  <2>1. delivery' = [delivery EXCEPT ![d] = r] /\ delivery[d] \in DeliveryRows
    BY <1>4 DEF IInv, TypeOK, DeliveryRows, Receipts
  <2>2. /\ delivery'[d] = r /\ \A c \in Delivery \ {d} : delivery'[c] = delivery[c]
        /\ r.stage = s /\ r.of = e /\ r.receipt = "none" /\ r.linked = {}
        /\ r \in DeliveryRows
    BY <1>2, <2>1 DEF IInv, TypeOK, DeliveryRows
  <2> HIDE DEF r
  <2>3. ReceiptLeadsToItsEvidence' /\ StageInv'
    BY <1>1, <2>2, ReceiptsStay
  <2>4. TypeOK'
    BY <2>1, <2>2 DEF IInv, TypeOK, Read, events, Receipts, DeliveryRows
  <2> QED BY <1>1, <2>3, <2>4 DEF IInv, EvidenceIsKept
<1> QED BY <1>3, <1>4 DEF Read

\* A delivery that keeps nothing but a receipt, or not even that.
LEMMA NothingKept ==
  ASSUME IInv, NEW d \in Delivery, UNCHANGED <<disclosed, events, work>>,
         NEW receipt \in {"none", "security_rejected", "quarantined"}, Finish(d, receipt, {})
  PROVE  IInv'
<1>1. WorkMatchesEvents' /\ LineageValid' /\ KindInv' /\ Events' = Events
  BY EventsStay
<1>2. /\ ReceiptLeadsToItsEvidence' /\ StageInv'
      /\ delivery' \in [Delivery -> DeliveryRows]
  BY <1>1, Finished DEF Receipts, DeliveryRows
<1> QED BY <1>1, <1>2 DEF IInv, TypeOK, EvidenceIsKept, events, Receipts, DeliveryRows

\* The first evidence of an event.  Nothing contradicts an event that is not
\* there yet, so only its own work is added.
LEMMA NewStep ==
  ASSUME IInv, NEW d \in Delivery, NEW e \in Evidence, delivery[d].of = e,
         PersistNew(d, e), UNCHANGED disclosed
  PROVE  IInv'
<1> Id(e) \in Identity /\ Original(e) \in EventIds /\ e # Nothing
  BY IdentityOf, NothingAssumption
<1>1. /\ first[Id(e)] = Nothing /\ first' = [first EXCEPT ![Id(e)] = e] /\ UNCHANGED others
  BY DEF PersistNew
<1>2. first'[Id(e)] = e /\ \A i \in Identity \ {Id(e)} : first'[i] = first[i]
  BY <1>1 DEF IInv, TypeOK
<1>3. Events' = Events \cup {Original(e)}
  <2>1. \A v : v \in Events' => v \in Events \cup {Original(e)}
    BY <1>1, <1>2 DEF Events, Original
  <2>2. \A v : v \in Events \cup {Original(e)} => v \in Events'
    BY <1>1, <1>2 DEF Events, Original
  <2> QED BY <2>1, <2>2
<1>4. \A v \in Events : v[1] \in Identity /\ v[1] # Id(e)
  <2>1. \A v \in others : v[1] \in Identity /\ v[1] # Id(e)
    BY <1>1 DEF IInv, TypeOK, EventIds, EvidenceIsKept, LineageValid
  <2> QED BY <1>1, <2>1 DEF Events
<1>5. \A v \in Events : first'[v[1]] = first[v[1]]
  BY <1>2, <1>4
<1>6. Original(e)[1] = Id(e) /\ Original(e)[2] = e
  BY DEF Original
<1>7. LineageValid' /\ KindInv'
  <2>1. \A v \in others : first'[v[1]] = first[v[1]]
    BY <1>5 DEF Events
  <2> QED BY <1>1, <2>1 DEF IInv, EvidenceIsKept, LineageValid, KindInv
<1>8. \E receipt \in {"normalized", "quarantined"} : Finish(d, receipt, {Original(e)})
  BY DEF PersistNew
<1>9. /\ ReceiptLeadsToItsEvidence' /\ StageInv'
      /\ delivery' \in [Delivery -> DeliveryRows]
  BY <1>3, <1>6, <1>8, Finished DEF Receipts, DeliveryRows
<1>10. work' = IF e \in Misfit THEN work ELSE work \cup {Original(e)}
  BY DEF PersistNew, Enqueue
<1>11. WorkMatchesEvents'
  BY <1>2, <1>3, <1>5, <1>6, <1>10 DEF IInv, EvidenceIsKept, WorkMatchesEvents
<1>12. TypeOK'
  BY <1>1, <1>9, <1>10 DEF IInv, TypeOK, Receipts, DeliveryRows
<1> QED BY <1>7, <1>9, <1>11, <1>12 DEF IInv, EvidenceIsKept

LEMMA DuplicateStep ==
  ASSUME IInv, NEW d \in Delivery, NEW e \in Evidence, delivery[d].of = e,
         PersistDuplicate(d, e), UNCHANGED disclosed
  PROVE  IInv'
<1>1. WorkMatchesEvents' /\ LineageValid' /\ KindInv' /\ Events' = Events
  BY EventsStay DEF PersistDuplicate
<1>2. Original(e) \in Events /\ Original(e) \in EventIds /\ Original(e)[2] = e
  BY IdentityOf, OriginalIsEvent DEF PersistDuplicate, Original
<1>3. /\ ReceiptLeadsToItsEvidence' /\ StageInv'
      /\ delivery' \in [Delivery -> DeliveryRows]
  BY <1>1, <1>2, Finished DEF PersistDuplicate, Receipts, DeliveryRows
<1> QED BY <1>1, <1>3
     DEF IInv, TypeOK, EvidenceIsKept, PersistDuplicate, events, Receipts, DeliveryRows

\* A contradiction is kept beside the first evidence and escalated with it.
LEMMA ContradictionStep ==
  ASSUME IInv, NEW d \in Delivery, NEW e \in Evidence, delivery[d].of = e,
         PersistContradiction(d, e), UNCHANGED disclosed
  PROVE  IInv'
<1> Id(e) \in Identity /\ Contradictory(e) \in EventIds
  BY IdentityOf
<1>1. /\ first[Id(e)] \notin {Nothing, e} /\ UNCHANGED first
      /\ others' = others \cup {Contradictory(e)}
      /\ Finish(d, "quarantined", {Contradictory(e)})
  BY DEF PersistContradiction, Contradicts, Distinct
<1>2. Contradictory(e)[1] = Id(e) /\ Contradictory(e)[2] = e
      /\ Contradictory(e)[3] = "contradictory"
  BY DEF Contradictory
<1>3. Events' = Events \cup {Contradictory(e)}
  BY <1>1 DEF Events
<1>4. LineageValid' /\ KindInv'
  BY <1>1, <1>2 DEF IInv, EvidenceIsKept, LineageValid, KindInv
<1>5. /\ ReceiptLeadsToItsEvidence' /\ StageInv'
      /\ delivery' \in [Delivery -> DeliveryRows]
  BY <1>1, <1>2, <1>3, Finished DEF Receipts, DeliveryRows
<1>6. work' = IF first[Id(e)] \in Misfit THEN work ELSE work \cup {Contradictory(e)}
  BY DEF PersistContradiction, Escalated, Enqueue
<1>7. WorkMatchesEvents'
  BY <1>1, <1>2, <1>3, <1>6 DEF IInv, EvidenceIsKept, WorkMatchesEvents
<1>8. TypeOK'
  BY <1>1, <1>5, <1>6 DEF IInv, TypeOK, Receipts, DeliveryRows
<1> QED BY <1>4, <1>5, <1>7, <1>8 DEF IInv, EvidenceIsKept

LEMMA PersistStep ==
  ASSUME IInv, NEW d \in Delivery, PersistNormalized(d)
  PROVE  IInv'
<1>1. PICK e \in Evidence : e = delivery[d].of
  BY DEF PersistNormalized, IInv, StageInv
<1>2. PersistNew(d, e) \/ PersistDuplicate(d, e) \/ PersistContradiction(d, e)
      \/ PersistRefused(d, e)
  BY <1>1 DEF PersistNormalized
<1>3. UNCHANGED disclosed
  BY DEF PersistNormalized
<1>4. CASE PersistRefused(d, e)
  BY <1>3, <1>4, NothingKept DEF PersistRefused
<1> QED BY <1>1, <1>2, <1>3, <1>4, NewStep, DuplicateStep, ContradictionStep

LEMMA InitIInv == Init => IInv
<1> SUFFICES ASSUME Init PROVE IInv
  OBVIOUS
<1>1. TypeOK
  BY DEF Init, TypeOK, Undelivered
<1>2. Events = {}
  BY DEF Init, Events
<1>3. EvidenceIsKept
  BY <1>2 DEF Init, EvidenceIsKept, WorkMatchesEvents, ReceiptLeadsToItsEvidence, LineageValid,
     Undelivered
<1>4. StageInv /\ KindInv
  BY DEF Init, StageInv, KindInv, Undelivered
<1> QED BY <1>1, <1>3, <1>4 DEF IInv

LEMMA NextIInv == IInv /\ [Next]_vars => IInv'
<1> SUFFICES ASSUME IInv, [Next]_vars PROVE IInv'
  OBVIOUS
<1>1. ASSUME NEW d \in Delivery, NEW e \in Evidence, NEW late \in BOOLEAN, Read(d, e, late)
      PROVE  IInv'
  BY <1>1, ReadStep
<1>2. ASSUME NEW d \in Delivery, PersistReceiptOnly(d) PROVE IInv'
  BY <1>2, NothingKept DEF PersistReceiptOnly
<1>3. ASSUME NEW d \in Delivery, PersistNormalized(d) PROVE IInv'
  BY <1>3, PersistStep
<1>4. ASSUME NEW d \in Delivery, Die(d) PROVE IInv'
  BY <1>4, NothingKept DEF Die
<1>5. CASE Disclose \/ UNCHANGED vars
  <2>1. UNCHANGED <<events, work, delivery>> /\ disclosed' \in BOOLEAN
    BY <1>5 DEF Disclose, vars, IInv, TypeOK
  <2>2. WorkMatchesEvents' /\ LineageValid' /\ KindInv' /\ Events' = Events
    BY <2>1, EventsStay
  <2>3. ReceiptLeadsToItsEvidence' /\ StageInv'
    BY <2>1, <2>2 DEF IInv, EvidenceIsKept, ReceiptLeadsToItsEvidence, StageInv
  <2> QED BY <2>1, <2>2, <2>3 DEF IInv, TypeOK, EvidenceIsKept, events
<1> QED BY <1>1, <1>2, <1>3, <1>4, <1>5 DEF Next

\* The inductive invariant holds in every behavior.
THEOREM Invariant == Spec => []IInv
BY InitIInv, NextIInv, PTL DEF Spec

\* Type correctness for every set of deliveries, evidence and events.
THEOREM TypeCorrect == Spec => []TypeOK
<1>1. IInv => TypeOK
  BY DEF IInv
<1> QED BY <1>1, Invariant, PTL

\* However the deliveries of an event interleave between the unlocked reads
\* and the transaction that persists them, repeat, contradict one another or
\* die: every event that fits has its work, every receipt leads to its own
\* evidence, and every contradiction stands beside what it contradicts.
THEOREM NoEvidenceLost == Spec => []EvidenceIsKept
<1>1. IInv => EvidenceIsKept
  BY DEF IInv
<1> QED BY <1>1, Invariant, PTL

-----------------------------------------------------------------------------
(* Requests                                                                *)

\* Stages of a call that has claimed the request and not applied the answer.
Asking == {"ask", "apply"}
\* Answers behind which the provider has no authority.
Harmless == Unpaid \cup {"no_effect"}

\* A running call has a key.  One call at most is between its claim and the
\* answer: the transaction waits for it, and nothing can be paid until the
\* provider was asked.
CallInv ==
  /\ \A p \in Process : ~At(p, "idle") => KeyOf(p) \in Key
  /\ \A p \in Process : call[p].at \in Asking => Awaited(p) /\ KeyOf(p) \in claimed
  /\ \A p, q \in Process : call[p].at \in Asking /\ call[q].at \in Asking => p = q
  /\ \A p \in Process : At(p, "ask") => authority = {}
  /\ \A p \in Process : At(p, "apply") =>
       call[p].answer \in Outcomes /\ (call[p].answer \in Harmless => authority = {})

\* Only a claim has a result, and a request is made anew only after results that
\* left nothing at the provider.
ClaimInv ==
  /\ \A k \in Key : result[k] # "none" => k \in claimed
  /\ tx.status \in {"none", "created"} => \A k \in claimed : result[k] = "no_effect"
  /\ tx.status = "requesting" => \A k \in claimed \ {tx.token} : result[k] = "no_effect"
  /\ \A k \in authority : result[k] \notin Harmless
  /\ \A k, l \in claimed : result[k] # "no_effect" /\ result[l] # "no_effect" => k = l
  /\ tx.status = "declined" => \A k \in claimed : result[k] \in Harmless

\* An order is canceled with its request.
CancelInv == checkout = "canceled" => tx.status \in Unpaid

\* A late history tells the truth, and goes on telling it: the provider is not
\* asked again unless the history becomes early.  Only a history expires a request.
HistoryInv ==
  /\ "request" \in window => \A p \in Process : ~At(p, "ask")
  /\ history = "late" => "request" \in window /\ authority = {}
  /\ tx.status = "expired" => history # "none"

\* The strengthening that every step preserves: a new authority needs a claim,
\* a claim a request that is created, and that one claims without effect.
RequestIInv == RequestTypeOK /\ CallInv /\ ClaimInv /\ CancelInv /\ HistoryInv /\ OnePayablePage

USE DEF Outcomes, Unknown, Unexplained, Pending, Faulty, Unpaid, RootStates, Stages, Idle,
        Asking, Harmless, At, KeyOf, Proceed, End, Awaited, Placed, Live, FromRequesting,
        commerce, request, evidence, inspection, Windows, Histories, RootCompleted

\* A call that gets its answer is a call.
LEMMA AnswerType ==
  ASSUME NEW K, NEW A, NEW O, NEW f \in [Process -> [key : K, at : A, answer : O]],
         NEW p \in Process, NEW a \in A, NEW o \in O
  PROVE  [f EXCEPT ![p].at = a, ![p].answer = o] \in [Process -> [key : K, at : A, answer : O]]
<1> DEFINE g == [f EXCEPT ![p].at = a]
<1>1. g \in [Process -> [key : K, at : A, answer : O]]
  OBVIOUS
<1>2. [g EXCEPT ![p].answer = o] \in [Process -> [key : K, at : A, answer : O]]
  BY <1>1
<1>3. QED BY <1>2

LEMMA RequestInitIInv == RequestInit => RequestIInv
<1> USE DEF RequestInit
<1>1. RequestInit => RequestTypeOK
  BY DEF RequestTypeOK
<1>2. RequestInit => CallInv /\ ClaimInv /\ CancelInv /\ HistoryInv
  BY DEF CallInv, ClaimInv, CancelInv, HistoryInv
<1>3. RequestInit => OnePayablePage
  BY KeyAssumption
     DEF OnePayablePage, OneAuthority, UnansweredClaimBlocks, ReleasedByEarlyHistory
<1>4. QED BY <1>1, <1>2, <1>3 DEF RequestIInv

LEMMA NextType == RequestTypeOK /\ CallInv /\ [RequestNext]_requestVars => RequestTypeOK'
<1> SUFFICES ASSUME RequestTypeOK, CallInv, [RequestNext]_requestVars PROVE RequestTypeOK'
  OBVIOUS
<1> USE DEF RequestTypeOK, CallInv
<1>1. ASSUME NEW p \in Process, NEW k \in Key, Receive(p, k) PROVE RequestTypeOK'
  BY <1>1 DEF Receive
<1>2. ASSUME NEW p \in Process, Place(p) PROVE RequestTypeOK'
  BY <1>2 DEF Place
<1>3. ASSUME NEW p \in Process, Plan(p) PROVE RequestTypeOK'
  BY <1>3 DEF Plan
<1>4. ASSUME NEW p \in Process, CreateAttempt(p) PROVE RequestTypeOK'
  BY <1>4 DEF CreateAttempt
<1>5. ASSUME NEW p \in Process, CreateTransaction(p) PROVE RequestTypeOK'
  BY <1>5 DEF CreateTransaction
<1>6. ASSUME NEW p \in Process, Claim(p) PROVE RequestTypeOK'
  BY <1>6 DEF Claim, Reset
<1>7. ASSUME NEW p \in Process, NEW o \in Outcomes, Ask(p, o) PROVE RequestTypeOK'
  <2>1. authority' \subseteq claimed'
    <3>1. claimed' = claimed /\ authority \subseteq claimed /\ KeyOf(p) \in claimed
      BY <1>7 DEF Ask
    <3>2. authority' = authority \/ authority' = authority \cup {KeyOf(p)}
      BY <1>7 DEF Ask
    <3>3. QED BY <3>1, <3>2
  <2>2. call' \in [Process -> [key : Key \cup {NoKey}, at : Stages \cup {"idle"},
                              answer : Outcomes \cup {"none"}]]
    <3> DEFINE K == Key \cup {NoKey}
               A == Stages \cup {"idle"}
               O == Outcomes \cup {"none"}
    <3>1. call' = [call EXCEPT ![p].at = "apply", ![p].answer = o]
      BY <1>7 DEF Ask
    <3>2. call \in [Process -> [key : K, at : A, answer : O]] /\ "apply" \in A /\ o \in O
      OBVIOUS
    <3> HIDE DEF K, A, O
    <3>3. [call EXCEPT ![p].at = "apply", ![p].answer = o]
            \in [Process -> [key : K, at : A, answer : O]]
      BY <3>2, AnswerType
    <3>4. QED BY <3>1, <3>3 DEF K, A, O
  <2>3. QED BY <1>7, <2>1, <2>2 DEF Ask
<1>8. ASSUME NEW p \in Process, Accept(p) PROVE RequestTypeOK'
  <2>1. CASE Record(p, "pending_customer", "requires_customer_action")
    BY <1>8, <2>1 DEF Accept, Record
  <2>2. CASE Record(p, "pending_provider", "processing")
    BY <1>8, <2>2 DEF Accept, Record
  <2>3. CASE Record(p, "created", "processing")
    BY <1>8, <2>3 DEF Accept, Record
  <2>4. QED BY <1>8, <2>1, <2>2, <2>3 DEF Accept
<1>9. ASSUME NEW p \in Process, Refuse(p) PROVE RequestTypeOK'
  BY <1>9 DEF Refuse, Record
<1>10. ASSUME NEW p \in Process, Doubt(p) PROVE RequestTypeOK'
  <2>1. CASE call[p].answer \in Unknown /\ Record(p, "outcome_unknown", "outcome_unknown")
             /\ reviews' = reviews \cup {"request"}
    BY <1>10, <2>1 DEF Doubt, Record
  <2>2. CASE call[p].answer \in Faulty /\ Record(p, "review", "review")
             /\ reviews' = reviews \cup {"fault"}
    BY <1>10, <2>2 DEF Doubt, Record
  <2>3. QED BY <1>10, <2>1, <2>2 DEF Doubt
<1>11. ASSUME NEW p \in Process, Stop(p) PROVE RequestTypeOK'
  BY <1>11 DEF Stop
<1>12. CASE EscalateOverdue
  BY <1>12 DEF EscalateOverdue
<1>13. ASSUME NEW c \in reviews, ResolveReview(c) PROVE RequestTypeOK'
  BY <1>13 DEF ResolveReview
<1>14. ASSUME NEW w \in Windows, Pass(w) PROVE RequestTypeOK'
  BY <1>14 DEF Pass
<1>15. CASE Inspect
  BY <1>15 DEF Inspect
<1>16. ASSUME NEW k \in claimed, Surface(k) PROVE RequestTypeOK'
  BY <1>16 DEF Surface
<1>17. CASE ReconcileNoAuthority
  BY <1>17 DEF ReconcileNoAuthority
<1>18. CASE UNCHANGED requestVars
  BY <1>18 DEF requestVars
<1>19. QED
  BY <1>1, <1>2, <1>3, <1>4, <1>5, <1>6, <1>7, <1>8, <1>9, <1>10, <1>11, <1>12, <1>13,
     <1>14, <1>15, <1>16, <1>17, <1>18
     DEF RequestNext

LEMMA NextCall == RequestIInv /\ [RequestNext]_requestVars => CallInv'
<1> SUFFICES ASSUME RequestIInv, [RequestNext]_requestVars PROVE CallInv'
  OBVIOUS
<1> USE KeyAssumption DEF RequestIInv, RequestTypeOK, CallInv, ClaimInv, OnePayablePage, UnansweredClaimBlocks
<1>1. ASSUME NEW p \in Process, NEW k \in Key, Receive(p, k) PROVE CallInv'
  BY <1>1 DEF Receive
<1>2. ASSUME NEW p \in Process, Place(p) PROVE CallInv'
  BY <1>2 DEF Place
<1>3. ASSUME NEW p \in Process, Plan(p) PROVE CallInv'
  BY <1>3 DEF Plan
<1>4. ASSUME NEW p \in Process, CreateAttempt(p) PROVE CallInv'
  BY <1>4 DEF CreateAttempt
<1>5. ASSUME NEW p \in Process, CreateTransaction(p) PROVE CallInv'
  BY <1>5 DEF CreateTransaction
<1>6. ASSUME NEW p \in Process, Claim(p) PROVE CallInv'
  BY <1>6 DEF Claim, Claimable, Reset
<1>7. ASSUME NEW p \in Process, NEW o \in Outcomes, Ask(p, o) PROVE CallInv'
  BY <1>7 DEF Ask
<1>8. ASSUME NEW p \in Process, Accept(p) PROVE CallInv'
  <2>1. CASE Record(p, "pending_customer", "requires_customer_action")
    BY <1>8, <2>1 DEF Accept, Record
  <2>2. CASE Record(p, "pending_provider", "processing")
    BY <1>8, <2>2 DEF Accept, Record
  <2>3. CASE Record(p, "created", "processing")
    BY <1>8, <2>3 DEF Accept, Record
  <2>4. QED BY <1>8, <2>1, <2>2, <2>3 DEF Accept
<1>9. ASSUME NEW p \in Process, Refuse(p) PROVE CallInv'
  BY <1>9 DEF Refuse, Record
<1>10. ASSUME NEW p \in Process, Doubt(p) PROVE CallInv'
  <2>1. CASE call[p].answer \in Unknown /\ Record(p, "outcome_unknown", "outcome_unknown")
             /\ reviews' = reviews \cup {"request"}
    BY <1>10, <2>1 DEF Doubt, Record
  <2>2. CASE call[p].answer \in Faulty /\ Record(p, "review", "review")
             /\ reviews' = reviews \cup {"fault"}
    BY <1>10, <2>2 DEF Doubt, Record
  <2>3. QED BY <1>10, <2>1, <2>2 DEF Doubt
<1>11. ASSUME NEW p \in Process, Stop(p) PROVE CallInv'
  BY <1>11 DEF Stop
<1>12. CASE EscalateOverdue
  BY <1>12 DEF EscalateOverdue
<1>13. ASSUME NEW c \in reviews, ResolveReview(c) PROVE CallInv'
  BY <1>13 DEF ResolveReview
<1>14. ASSUME NEW w \in Windows, Pass(w) PROVE CallInv'
  BY <1>14 DEF Pass
<1>15. CASE Inspect
  BY <1>15 DEF Inspect
<1>16. ASSUME NEW k \in claimed, Surface(k) PROVE CallInv'
  BY <1>16 DEF Surface
<1>17. CASE ReconcileNoAuthority
  BY <1>17 DEF ReconcileNoAuthority
<1>18. CASE UNCHANGED requestVars
  BY <1>18 DEF requestVars
<1>19. QED
  BY <1>1, <1>2, <1>3, <1>4, <1>5, <1>6, <1>7, <1>8, <1>9, <1>10, <1>11, <1>12, <1>13,
     <1>14, <1>15, <1>16, <1>17, <1>18
     DEF RequestNext

LEMMA NextClaim == RequestIInv /\ [RequestNext]_requestVars => ClaimInv'
<1> SUFFICES ASSUME RequestIInv, [RequestNext]_requestVars PROVE ClaimInv'
  OBVIOUS
<1> USE KeyAssumption DEF RequestIInv, RequestTypeOK, CallInv, ClaimInv, OnePayablePage, UnansweredClaimBlocks
<1>1. ASSUME NEW p \in Process, NEW k \in Key, Receive(p, k) PROVE ClaimInv'
  BY <1>1 DEF Receive
<1>2. ASSUME NEW p \in Process, Place(p) PROVE ClaimInv'
  BY <1>2 DEF Place
<1>3. ASSUME NEW p \in Process, Plan(p) PROVE ClaimInv'
  BY <1>3 DEF Plan
<1>4. ASSUME NEW p \in Process, CreateAttempt(p) PROVE ClaimInv'
  BY <1>4 DEF CreateAttempt
<1>5. ASSUME NEW p \in Process, CreateTransaction(p) PROVE ClaimInv'
  BY <1>5 DEF CreateTransaction
<1>6. ASSUME NEW p \in Process, Claim(p) PROVE ClaimInv'
  BY <1>6 DEF Claim, Claimable, Reset
<1>7. ASSUME NEW p \in Process, NEW o \in Outcomes, Ask(p, o) PROVE ClaimInv'
  BY <1>7 DEF Ask
<1>8. ASSUME NEW p \in Process, Accept(p) PROVE ClaimInv'
  <2>1. CASE Record(p, "pending_customer", "requires_customer_action")
    BY <1>8, <2>1 DEF Accept, Record
  <2>2. CASE Record(p, "pending_provider", "processing")
    BY <1>8, <2>2 DEF Accept, Record
  <2>3. CASE call[p].answer = "no_effect" /\ Record(p, "created", "processing")
    BY <1>8, <2>3 DEF Accept, Record
  <2>4. QED BY <1>8, <2>1, <2>2, <2>3 DEF Accept
<1>9. ASSUME NEW p \in Process, Refuse(p) PROVE ClaimInv'
  BY <1>9 DEF Refuse, Record
<1>10. ASSUME NEW p \in Process, Doubt(p) PROVE ClaimInv'
  <2>1. CASE Record(p, "outcome_unknown", "outcome_unknown")
    BY <1>10, <2>1 DEF Doubt, Record
  <2>2. CASE Record(p, "review", "review")
    BY <1>10, <2>2 DEF Doubt, Record
  <2>3. QED BY <1>10, <2>1, <2>2 DEF Doubt
<1>11. ASSUME NEW p \in Process, Stop(p) PROVE ClaimInv'
  BY <1>11 DEF Stop
<1>12. CASE EscalateOverdue
  BY <1>12 DEF EscalateOverdue
<1>13. ASSUME NEW c \in reviews, ResolveReview(c) PROVE ClaimInv'
  BY <1>13 DEF ResolveReview
<1>14. ASSUME NEW w \in Windows, Pass(w) PROVE ClaimInv'
  BY <1>14 DEF Pass
<1>15. CASE Inspect
  BY <1>15 DEF Inspect
<1>16. ASSUME NEW k \in claimed, Surface(k) PROVE ClaimInv'
  BY <1>16 DEF Surface
<1>17. CASE ReconcileNoAuthority
  BY <1>17 DEF ReconcileNoAuthority
<1>18. CASE UNCHANGED requestVars
  BY <1>18 DEF requestVars
<1>19. QED
  BY <1>1, <1>2, <1>3, <1>4, <1>5, <1>6, <1>7, <1>8, <1>9, <1>10, <1>11, <1>12, <1>13,
     <1>14, <1>15, <1>16, <1>17, <1>18
     DEF RequestNext

LEMMA NextCancel == RequestIInv /\ [RequestNext]_requestVars => CancelInv'
<1> SUFFICES ASSUME RequestIInv, [RequestNext]_requestVars PROVE CancelInv'
  OBVIOUS
<1> USE KeyAssumption DEF RequestIInv, RequestTypeOK, CallInv, CancelInv
<1>1. ASSUME NEW p \in Process, NEW k \in Key, Receive(p, k) PROVE CancelInv'
  BY <1>1 DEF Receive
<1>2. ASSUME NEW p \in Process, Place(p) PROVE CancelInv'
  BY <1>2 DEF Place
<1>3. ASSUME NEW p \in Process, Plan(p) PROVE CancelInv'
  BY <1>3 DEF Plan
<1>4. ASSUME NEW p \in Process, CreateAttempt(p) PROVE CancelInv'
  BY <1>4 DEF CreateAttempt
<1>5. ASSUME NEW p \in Process, CreateTransaction(p) PROVE CancelInv'
  BY <1>5 DEF CreateTransaction
<1>6. ASSUME NEW p \in Process, Claim(p) PROVE CancelInv'
  BY <1>6 DEF Claim, Claimable, Reset
<1>7. ASSUME NEW p \in Process, NEW o \in Outcomes, Ask(p, o) PROVE CancelInv'
  BY <1>7 DEF Ask
<1>8. ASSUME NEW p \in Process, Accept(p) PROVE CancelInv'
  <2>1. CASE Record(p, "pending_customer", "requires_customer_action")
    BY <1>8, <2>1 DEF Accept, Record
  <2>2. CASE Record(p, "pending_provider", "processing")
    BY <1>8, <2>2 DEF Accept, Record
  <2>3. CASE call[p].answer = "no_effect" /\ Record(p, "created", "processing")
    BY <1>8, <2>3 DEF Accept, Record
  <2>4. QED BY <1>8, <2>1, <2>2, <2>3 DEF Accept
<1>9. ASSUME NEW p \in Process, Refuse(p) PROVE CancelInv'
  BY <1>9 DEF Refuse, Record
<1>10. ASSUME NEW p \in Process, Doubt(p) PROVE CancelInv'
  <2>1. CASE Record(p, "outcome_unknown", "outcome_unknown")
    BY <1>10, <2>1 DEF Doubt, Record
  <2>2. CASE Record(p, "review", "review")
    BY <1>10, <2>2 DEF Doubt, Record
  <2>3. QED BY <1>10, <2>1, <2>2 DEF Doubt
<1>11. ASSUME NEW p \in Process, Stop(p) PROVE CancelInv'
  BY <1>11 DEF Stop
<1>12. CASE EscalateOverdue
  BY <1>12 DEF EscalateOverdue
<1>13. ASSUME NEW c \in reviews, ResolveReview(c) PROVE CancelInv'
  BY <1>13 DEF ResolveReview
<1>14. ASSUME NEW w \in Windows, Pass(w) PROVE CancelInv'
  BY <1>14 DEF Pass
<1>15. CASE Inspect
  BY <1>15 DEF Inspect
<1>16. ASSUME NEW k \in claimed, Surface(k) PROVE CancelInv'
  BY <1>16 DEF Surface
<1>17. CASE ReconcileNoAuthority
  BY <1>17 DEF ReconcileNoAuthority
<1>18. CASE UNCHANGED requestVars
  BY <1>18 DEF requestVars
<1>19. QED
  BY <1>1, <1>2, <1>3, <1>4, <1>5, <1>6, <1>7, <1>8, <1>9, <1>10, <1>11, <1>12, <1>13,
     <1>14, <1>15, <1>16, <1>17, <1>18
     DEF RequestNext

LEMMA NextHistory == RequestIInv /\ [RequestNext]_requestVars => HistoryInv'
<1> SUFFICES ASSUME RequestIInv, [RequestNext]_requestVars PROVE HistoryInv'
  OBVIOUS
<1> USE KeyAssumption DEF RequestIInv, RequestTypeOK, CallInv, CancelInv, HistoryInv
<1>1. ASSUME NEW p \in Process, NEW k \in Key, Receive(p, k) PROVE HistoryInv'
  BY <1>1 DEF Receive
<1>2. ASSUME NEW p \in Process, Place(p) PROVE HistoryInv'
  BY <1>2 DEF Place
<1>3. ASSUME NEW p \in Process, Plan(p) PROVE HistoryInv'
  BY <1>3 DEF Plan
<1>4. ASSUME NEW p \in Process, CreateAttempt(p) PROVE HistoryInv'
  BY <1>4 DEF CreateAttempt
<1>5. ASSUME NEW p \in Process, CreateTransaction(p) PROVE HistoryInv'
  BY <1>5 DEF CreateTransaction
<1>6. ASSUME NEW p \in Process, Claim(p) PROVE HistoryInv'
  BY <1>6 DEF Claim, Claimable, Reset
<1>7. ASSUME NEW p \in Process, NEW o \in Outcomes, Ask(p, o) PROVE HistoryInv'
  BY <1>7 DEF Ask
<1>8. ASSUME NEW p \in Process, Accept(p) PROVE HistoryInv'
  <2>1. CASE Record(p, "pending_customer", "requires_customer_action")
    BY <1>8, <2>1 DEF Accept, Record
  <2>2. CASE Record(p, "pending_provider", "processing")
    BY <1>8, <2>2 DEF Accept, Record
  <2>3. CASE call[p].answer = "no_effect" /\ Record(p, "created", "processing")
    BY <1>8, <2>3 DEF Accept, Record
  <2>4. QED BY <1>8, <2>1, <2>2, <2>3 DEF Accept
<1>9. ASSUME NEW p \in Process, Refuse(p) PROVE HistoryInv'
  BY <1>9 DEF Refuse, Record
<1>10. ASSUME NEW p \in Process, Doubt(p) PROVE HistoryInv'
  <2>1. CASE Record(p, "outcome_unknown", "outcome_unknown")
    BY <1>10, <2>1 DEF Doubt, Record
  <2>2. CASE Record(p, "review", "review")
    BY <1>10, <2>2 DEF Doubt, Record
  <2>3. QED BY <1>10, <2>1, <2>2 DEF Doubt
<1>11. ASSUME NEW p \in Process, Stop(p) PROVE HistoryInv'
  BY <1>11 DEF Stop
<1>12. CASE EscalateOverdue
  BY <1>12 DEF EscalateOverdue
<1>13. ASSUME NEW c \in reviews, ResolveReview(c) PROVE HistoryInv'
  BY <1>13 DEF ResolveReview
<1>14. ASSUME NEW w \in Windows, Pass(w) PROVE HistoryInv'
  BY <1>14 DEF Pass
<1>15. CASE Inspect
  BY <1>15 DEF Inspect
<1>16. ASSUME NEW k \in claimed, Surface(k) PROVE HistoryInv'
  BY <1>16 DEF Surface
<1>17. CASE ReconcileNoAuthority
  BY <1>17 DEF ReconcileNoAuthority
<1>18. CASE UNCHANGED requestVars
  BY <1>18 DEF requestVars
<1>19. QED
  BY <1>1, <1>2, <1>3, <1>4, <1>5, <1>6, <1>7, <1>8, <1>9, <1>10, <1>11, <1>12, <1>13,
     <1>14, <1>15, <1>16, <1>17, <1>18
     DEF RequestNext

LEMMA NextOne == RequestIInv /\ [RequestNext]_requestVars => OneAuthority'
<1> SUFFICES ASSUME RequestIInv, [RequestNext]_requestVars PROVE OneAuthority'
  OBVIOUS
<1> USE DEF RequestIInv, RequestTypeOK, CallInv, OnePayablePage, OneAuthority
<1>1. ASSUME NEW p \in Process, NEW k \in Key, Receive(p, k) PROVE OneAuthority'
  BY <1>1 DEF Receive
<1>2. ASSUME NEW p \in Process, Place(p) PROVE OneAuthority'
  BY <1>2 DEF Place
<1>3. ASSUME NEW p \in Process, Plan(p) PROVE OneAuthority'
  BY <1>3 DEF Plan
<1>4. ASSUME NEW p \in Process, CreateAttempt(p) PROVE OneAuthority'
  BY <1>4 DEF CreateAttempt
<1>5. ASSUME NEW p \in Process, CreateTransaction(p) PROVE OneAuthority'
  BY <1>5 DEF CreateTransaction
<1>6. ASSUME NEW p \in Process, Claim(p) PROVE OneAuthority'
  BY <1>6 DEF Claim, Claimable, Reset
<1>7. ASSUME NEW p \in Process, NEW o \in Outcomes, Ask(p, o) PROVE OneAuthority'
  BY <1>7 DEF Ask
<1>8. ASSUME NEW p \in Process, Accept(p) PROVE OneAuthority'
  <2>1. CASE Record(p, "pending_customer", "requires_customer_action")
    BY <1>8, <2>1 DEF Accept, Record
  <2>2. CASE Record(p, "pending_provider", "processing")
    BY <1>8, <2>2 DEF Accept, Record
  <2>3. CASE call[p].answer = "no_effect" /\ Record(p, "created", "processing")
    BY <1>8, <2>3 DEF Accept, Record
  <2>4. QED BY <1>8, <2>1, <2>2, <2>3 DEF Accept
<1>9. ASSUME NEW p \in Process, Refuse(p) PROVE OneAuthority'
  BY <1>9 DEF Refuse, Record
<1>10. ASSUME NEW p \in Process, Doubt(p) PROVE OneAuthority'
  <2>1. CASE Record(p, "outcome_unknown", "outcome_unknown")
    BY <1>10, <2>1 DEF Doubt, Record
  <2>2. CASE Record(p, "review", "review")
    BY <1>10, <2>2 DEF Doubt, Record
  <2>3. QED BY <1>10, <2>1, <2>2 DEF Doubt
<1>11. ASSUME NEW p \in Process, Stop(p) PROVE OneAuthority'
  BY <1>11 DEF Stop
<1>12. CASE EscalateOverdue
  BY <1>12 DEF EscalateOverdue
<1>13. ASSUME NEW c \in reviews, ResolveReview(c) PROVE OneAuthority'
  BY <1>13 DEF ResolveReview
<1>14. ASSUME NEW w \in Windows, Pass(w) PROVE OneAuthority'
  BY <1>14 DEF Pass
<1>15. CASE Inspect
  BY <1>15 DEF Inspect
<1>16. ASSUME NEW k \in claimed, Surface(k) PROVE OneAuthority'
  <2>1. \A l \in authority : l = k
    BY <1>16 DEF Surface, ClaimInv
  <2>2. QED BY <1>16, <2>1 DEF Surface
<1>17. CASE ReconcileNoAuthority
  BY <1>17 DEF ReconcileNoAuthority
<1>18. CASE UNCHANGED requestVars
  BY <1>18 DEF requestVars
<1>19. QED
  BY <1>1, <1>2, <1>3, <1>4, <1>5, <1>6, <1>7, <1>8, <1>9, <1>10, <1>11, <1>12, <1>13,
     <1>14, <1>15, <1>16, <1>17, <1>18
     DEF RequestNext

LEMMA NextBlocks == RequestIInv /\ [RequestNext]_requestVars => UnansweredClaimBlocks'
<1> SUFFICES ASSUME RequestIInv, [RequestNext]_requestVars PROVE UnansweredClaimBlocks'
  OBVIOUS
<1> USE KeyAssumption DEF RequestIInv, RequestTypeOK, CallInv, ClaimInv, OnePayablePage, UnansweredClaimBlocks
<1>1. ASSUME NEW p \in Process, NEW k \in Key, Receive(p, k) PROVE UnansweredClaimBlocks'
  BY <1>1 DEF Receive
<1>2. ASSUME NEW p \in Process, Place(p) PROVE UnansweredClaimBlocks'
  BY <1>2 DEF Place
<1>3. ASSUME NEW p \in Process, Plan(p) PROVE UnansweredClaimBlocks'
  BY <1>3 DEF Plan
<1>4. ASSUME NEW p \in Process, CreateAttempt(p) PROVE UnansweredClaimBlocks'
  BY <1>4 DEF CreateAttempt
<1>5. ASSUME NEW p \in Process, CreateTransaction(p) PROVE UnansweredClaimBlocks'
  BY <1>5 DEF CreateTransaction
<1>6. ASSUME NEW p \in Process, Claim(p) PROVE UnansweredClaimBlocks'
  BY <1>6 DEF Claim, Claimable, Reset
<1>7. ASSUME NEW p \in Process, NEW o \in Outcomes, Ask(p, o) PROVE UnansweredClaimBlocks'
  BY <1>7 DEF Ask
<1>8. ASSUME NEW p \in Process, Accept(p) PROVE UnansweredClaimBlocks'
  <2>1. CASE Record(p, "pending_customer", "requires_customer_action")
    BY <1>8, <2>1 DEF Accept, Record
  <2>2. CASE Record(p, "pending_provider", "processing")
    BY <1>8, <2>2 DEF Accept, Record
  <2>3. CASE call[p].answer = "no_effect" /\ Record(p, "created", "processing")
    BY <1>8, <2>3 DEF Accept, Record
  <2>4. QED BY <1>8, <2>1, <2>2, <2>3 DEF Accept
<1>9. ASSUME NEW p \in Process, Refuse(p) PROVE UnansweredClaimBlocks'
  BY <1>9 DEF Refuse, Record
<1>10. ASSUME NEW p \in Process, Doubt(p) PROVE UnansweredClaimBlocks'
  <2>1. CASE Record(p, "outcome_unknown", "outcome_unknown")
    BY <1>10, <2>1 DEF Doubt, Record
  <2>2. CASE Record(p, "review", "review")
    BY <1>10, <2>2 DEF Doubt, Record
  <2>3. QED BY <1>10, <2>1, <2>2 DEF Doubt
<1>11. ASSUME NEW p \in Process, Stop(p) PROVE UnansweredClaimBlocks'
  BY <1>11 DEF Stop
<1>12. CASE EscalateOverdue
  BY <1>12 DEF EscalateOverdue
<1>13. ASSUME NEW c \in reviews, ResolveReview(c) PROVE UnansweredClaimBlocks'
  BY <1>13 DEF ResolveReview
<1>14. ASSUME NEW w \in Windows, Pass(w) PROVE UnansweredClaimBlocks'
  BY <1>14 DEF Pass
<1>15. CASE Inspect
  BY <1>15 DEF Inspect
<1>16. ASSUME NEW k \in claimed, Surface(k) PROVE UnansweredClaimBlocks'
  BY <1>16 DEF Surface
<1>17. CASE ReconcileNoAuthority
  BY <1>17 DEF ReconcileNoAuthority
<1>18. CASE UNCHANGED requestVars
  BY <1>18 DEF requestVars
<1>19. QED
  BY <1>1, <1>2, <1>3, <1>4, <1>5, <1>6, <1>7, <1>8, <1>9, <1>10, <1>11, <1>12, <1>13,
     <1>14, <1>15, <1>16, <1>17, <1>18
     DEF RequestNext

LEMMA NextReleased == RequestIInv /\ [RequestNext]_requestVars => ReleasedByEarlyHistory'
<1> SUFFICES ASSUME RequestIInv, [RequestNext]_requestVars PROVE ReleasedByEarlyHistory'
  OBVIOUS
<1> USE DEF RequestIInv, RequestTypeOK, CallInv, CancelInv, OnePayablePage, ReleasedByEarlyHistory
<1>1. ASSUME NEW p \in Process, NEW k \in Key, Receive(p, k) PROVE ReleasedByEarlyHistory'
  BY <1>1 DEF Receive
<1>2. ASSUME NEW p \in Process, Place(p) PROVE ReleasedByEarlyHistory'
  BY <1>2 DEF Place
<1>3. ASSUME NEW p \in Process, Plan(p) PROVE ReleasedByEarlyHistory'
  BY <1>3 DEF Plan
<1>4. ASSUME NEW p \in Process, CreateAttempt(p) PROVE ReleasedByEarlyHistory'
  BY <1>4 DEF CreateAttempt
<1>5. ASSUME NEW p \in Process, CreateTransaction(p) PROVE ReleasedByEarlyHistory'
  BY <1>5 DEF CreateTransaction
<1>6. ASSUME NEW p \in Process, Claim(p) PROVE ReleasedByEarlyHistory'
  BY <1>6 DEF Claim, Claimable, Reset
<1>7. ASSUME NEW p \in Process, NEW o \in Outcomes, Ask(p, o) PROVE ReleasedByEarlyHistory'
  BY <1>7 DEF Ask
<1>8. ASSUME NEW p \in Process, Accept(p) PROVE ReleasedByEarlyHistory'
  <2>1. CASE Record(p, "pending_customer", "requires_customer_action")
    BY <1>8, <2>1 DEF Accept, Record
  <2>2. CASE Record(p, "pending_provider", "processing")
    BY <1>8, <2>2 DEF Accept, Record
  <2>3. CASE call[p].answer = "no_effect" /\ Record(p, "created", "processing")
    BY <1>8, <2>3 DEF Accept, Record
  <2>4. QED BY <1>8, <2>1, <2>2, <2>3 DEF Accept
<1>9. ASSUME NEW p \in Process, Refuse(p) PROVE ReleasedByEarlyHistory'
  BY <1>9 DEF Refuse, Record
<1>10. ASSUME NEW p \in Process, Doubt(p) PROVE ReleasedByEarlyHistory'
  <2>1. CASE Record(p, "outcome_unknown", "outcome_unknown")
    BY <1>10, <2>1 DEF Doubt, Record
  <2>2. CASE Record(p, "review", "review")
    BY <1>10, <2>2 DEF Doubt, Record
  <2>3. QED BY <1>10, <2>1, <2>2 DEF Doubt
<1>11. ASSUME NEW p \in Process, Stop(p) PROVE ReleasedByEarlyHistory'
  BY <1>11 DEF Stop
<1>12. CASE EscalateOverdue
  BY <1>12 DEF EscalateOverdue
<1>13. ASSUME NEW c \in reviews, ResolveReview(c) PROVE ReleasedByEarlyHistory'
  BY <1>13 DEF ResolveReview
<1>14. ASSUME NEW w \in Windows, Pass(w) PROVE ReleasedByEarlyHistory'
  BY <1>14 DEF Pass
<1>15. CASE Inspect
  BY <1>15 DEF Inspect
<1>16. ASSUME NEW k \in claimed, Surface(k) PROVE ReleasedByEarlyHistory'
  <2>1. CASE checkout = "canceled"
    <3>1. tx.status # "declined" /\ tx.status \in Unpaid
      BY <1>16, <2>1 DEF Surface, ClaimInv
    <3>2. history # "none" /\ history # "late"
      BY <1>16, <3>1 DEF Surface, HistoryInv
    <3>3. QED BY <1>16, <3>1, <3>2 DEF Surface
  <2>2. QED BY <1>16, <2>1 DEF Surface
<1>17. CASE ReconcileNoAuthority
  BY <1>17 DEF ReconcileNoAuthority, HistoryInv
<1>18. CASE UNCHANGED requestVars
  BY <1>18 DEF requestVars
<1>19. QED
  BY <1>1, <1>2, <1>3, <1>4, <1>5, <1>6, <1>7, <1>8, <1>9, <1>10, <1>11, <1>12, <1>13,
     <1>14, <1>15, <1>16, <1>17, <1>18
     DEF RequestNext

LEMMA RequestNextIInv == RequestIInv /\ [RequestNext]_requestVars => RequestIInv'
<1>1. RequestIInv => RequestTypeOK /\ CallInv
  BY DEF RequestIInv
<1>2. QED
  BY <1>1, NextType, NextCall, NextClaim, NextCancel, NextHistory, NextOne, NextBlocks, NextReleased
     DEF RequestIInv, OnePayablePage

\* Every reachable state satisfies the inductive invariant.
THEOREM RequestInvariant == RequestSpec => []RequestIInv
<1>1. QED BY RequestInitIInv, RequestNextIInv, PTL DEF RequestSpec

\* The rows of a payment request have their types, and the provider has an authority
\* only for a request that was claimed.
THEOREM RequestTypeCorrect == RequestSpec => []RequestTypeOK
<1>1. RequestIInv => RequestTypeOK
  BY DEF RequestIInv
<1>2. QED BY RequestInvariant, <1>1, PTL

\* Whatever keys the customer's client sends, retries or abandons, for any number of
\* calls at once: there is one thing to pay, an unanswered claim blocks every other
\* request, and stock is freed under a payable page only by a reconciliation on a
\* history taken before the request's window had passed.
THEOREM PageIsUnique == RequestSpec => []OnePayablePage
<1>1. RequestIInv => OnePayablePage
  BY DEF RequestIInv
<1>2. QED BY RequestInvariant, <1>1, PTL

=============================================================================
