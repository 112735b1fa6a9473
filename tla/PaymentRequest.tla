--------------------------- MODULE PaymentRequest ---------------------------
(***************************************************************************)
(* The payment request of one Digital checkout: the calls of the API, each *)
(* under a customer's idempotency key (the root), that place the checkout, *)
(* create the attempt and its transaction, claim the provider request, ask *)
(* the provider outside any transaction and apply its answer.              *)
(*                                                                         *)
(* Every stage is a transaction of its own and one action.  Between two    *)
(* stages a call holds only what it read; it can raise or die there, and   *)
(* another call, with the same key or another one, can run.  The provider  *)
(* is external: asked for a payment page, it may or may not create an      *)
(* authority under which the customer can pay, whatever it answers.        *)
(* What happens to the payment after the customer got the page belongs to  *)
(* DigitalPurchase.                                                        *)
(***************************************************************************)
CONSTANTS
  Key,      \* idempotency keys the customer's client may send
  Process,  \* calls of the API that can run at once
  NoKey

ASSUME KeyAssumption == NoKey \notin Key

VARIABLES
  root,      \* the idempotency record of each key
  checkout,  \* checkout, cart and reservations, as the holds of the order tell them
  reviews,   \* open cases of the payment that say the provider's state is unclear
  attempt,   \* the attempt: the key that created it, and its status
  tx,        \* the request transaction: its status, and the claim it waits for
  claimed,   \* keys that have claimed the provider request
  result,    \* the recorded answer to each claim
  call,      \* the stage and the answer each running call holds
  authority, \* claims for which the provider has an authority that can be paid
  window,    \* what lies thirty minutes back: the transaction's creation, the last request
  history    \* the provider's history that staff hold, if it shows no authority

commerce == <<checkout, reviews>>
request  == <<attempt, tx>>
evidence == <<claimed, result>>
inspection == <<window, history>>
requestVars == <<root, commerce, request, evidence, call, authority, inspection>>

\* Why a result is an unknown outcome: the adapter raised TimeoutError, or an error
\* it does not classify, or named the phase in which the transport failed.
Unexplained == {"timeout", "transport"}
Unknown     == Unexplained \cup {"classified"}
Pending     == {"customer_action", "accepted"}
Faulty      == {"fault"}   \* a security, configuration or protocol failure
Unpaid      == {"declined", "expired"}   \* declined stands for canceled too
Outcomes    == Unknown \cup Pending \cup Faulty \cup Unpaid \cup {"no_effect"}

RootStates == {"none", "in_progress", "completed"}
Windows    == {"transaction", "request"}
Histories  == {"none", "early", "late"}   \* late: taken with the request's window past

Idle == [key |-> NoKey, at |-> "idle", answer |-> "none"]
Stages == {"place", "plan", "attempt", "transaction", "claim", "ask", "apply"}

RequestInit ==
  /\ root = [k \in Key |-> "none"]
  /\ checkout = "draft"
  /\ reviews = {}
  /\ attempt = [by |-> NoKey, status |-> "none"]
  /\ tx = [status |-> "none", token |-> NoKey]
  /\ claimed = {}
  /\ result = [k \in Key |-> "none"]
  /\ call = [p \in Process |-> Idle]
  /\ authority = {}
  /\ window = {}
  /\ history = "none"

At(p, stage) == call[p].at = stage
KeyOf(p) == call[p].key
Proceed(p, stage) == call' = [call EXCEPT ![p].at = stage]
End(p) == call' = [call EXCEPT ![p] = Idle]

Placed == checkout # "draft"
Live   == checkout \in {"payment_hold", "held_for_review"}

-----------------------------------------------------------------------------
(* The stages                                                              *)

\* A completed root is answered from its record: nothing changes.  A checkout
\* that was canceled accepts no other key.
Receive(p, k) ==
  /\ At(p, "idle") /\ root[k] # "completed" /\ checkout # "canceled"
  /\ root' = [root EXCEPT ![k] = "in_progress"]
  /\ call' = [call EXCEPT ![p] = [key |-> k, at |-> "place", answer |-> "none"]]
  /\ UNCHANGED <<commerce, request, evidence, authority, inspection>>

\* The checkout is placed by the first call; the other calls find the order.
Place(p) ==
  /\ At(p, "place")
  /\ checkout' = IF Placed THEN checkout ELSE "payment_hold"
  /\ Proceed(p, "plan")
  /\ UNCHANGED <<root, reviews, request, evidence, authority, inspection>>

\* The attempts, read without a lock, decide how the call goes on.
Retryable == tx.status = "created" /\ \E k \in claimed : result[k] = "no_effect"

Plan(p) ==
  /\ At(p, "plan")
  /\ \/ attempt.by \in {NoKey, KeyOf(p)} /\ Proceed(p, "attempt")
     \/ /\ attempt.by \notin {NoKey, KeyOf(p)}
        /\ attempt.status = "processing" /\ Retryable
        /\ Proceed(p, "claim")
  /\ UNCHANGED <<root, commerce, request, evidence, authority, inspection>>

\* Replayed by its own key.  A definitive failure is final for a Digital payment,
\* so there is never a second attempt.
CreateAttempt(p) ==
  /\ At(p, "attempt")
  /\ \/ attempt.by = KeyOf(p) /\ UNCHANGED attempt
     \/ /\ attempt.status = "none" /\ reviews = {} /\ checkout = "payment_hold"
        /\ attempt' = [by |-> KeyOf(p), status |-> "created"]
  /\ Proceed(p, "transaction")
  /\ UNCHANGED <<root, commerce, tx, evidence, authority, inspection>>

CreateTransaction(p) ==
  /\ At(p, "transaction")
  /\ \/ tx.status # "none" /\ UNCHANGED tx
     \/ /\ tx.status = "none" /\ attempt.status = "created" /\ reviews = {}
        /\ tx' = [status |-> "created", token |-> NoKey]
  /\ Proceed(p, "claim")
  /\ UNCHANGED <<root, commerce, attempt, evidence, authority, inspection>>

\* The lease on a claim has an end that nothing ever reads.
ClaimableByToken == tx.status # "none" /\ tx.token = NoKey
Claimable == tx.status = "created" /\ tx.token = NoKey

\* The provider is about to be asked: a history that staff already hold is early.
Reset ==
  /\ window' = window \ {"request"}
  /\ history' = IF history = "none" THEN "none" ELSE "early"

ClaimUnrecorded(p) ==
  /\ At(p, "claim") /\ KeyOf(p) \notin claimed /\ reviews = {} /\ Claimable
  /\ tx' = [status |-> "requesting", token |-> KeyOf(p)]
  /\ attempt' = [attempt EXCEPT !.status = "processing"]
  /\ Proceed(p, "ask")
  /\ Reset
  /\ UNCHANGED <<root, commerce, evidence, authority>>
Claim(p) ==
  /\ At(p, "claim") /\ KeyOf(p) \notin claimed /\ reviews = {} /\ Claimable
  /\ claimed' = claimed \cup {KeyOf(p)}
  /\ tx' = [status |-> "requesting", token |-> KeyOf(p)]
  /\ attempt' = [attempt EXCEPT !.status = "processing"]
  /\ Proceed(p, "ask")
  /\ Reset
  /\ UNCHANGED <<root, commerce, result, authority>>

\* The provider answers, or the transport fails with or without an authority
\* behind it.
Ask(p, o) ==
  /\ At(p, "ask")
  /\ authority' \in {authority, authority \cup {KeyOf(p)}}
  /\ o \in Pending => KeyOf(p) \in authority'
  /\ o \in Unpaid \cup {"no_effect"} => authority' = authority
  /\ call' = [call EXCEPT ![p].at = "apply", ![p].answer = o]
  /\ UNCHANGED <<root, commerce, request, evidence, inspection>>

\* The call raises, its process dies, or the customer goes away.  What a stage
\* did not commit is gone, the provider's answer included.
Stop(p) ==
  /\ ~At(p, "idle") /\ End(p)
  /\ UNCHANGED <<root, commerce, request, evidence, authority, inspection>>

-----------------------------------------------------------------------------
(* The answer                                                              *)

\* The statuses to which PAYMENT_TRANSACTION_TRANSITIONS lets REQUESTING go.
FromRequesting ==
  {"created", "pending_customer", "pending_provider", "declined", "outcome_unknown", "review"}

Awaited(p) == tx.status = "requesting" /\ tx.token = KeyOf(p)

\* The result is recorded and the root completed in one transaction.
RootCompleted(k) == [root EXCEPT ![k] = "completed"]
Record(p, status, of) ==
  /\ At(p, "apply") /\ Awaited(p)
  /\ result' = [result EXCEPT ![KeyOf(p)] = call[p].answer]
  /\ root' = RootCompleted(KeyOf(p))
  /\ tx' = [status |-> status, token |-> NoKey]
  /\ attempt' = [attempt EXCEPT !.status = of]
  /\ End(p)
  /\ UNCHANGED <<claimed, authority, inspection>>

Accept(p) ==
  /\ Live
  /\ \/ call[p].answer = "customer_action" /\ Record(p, "pending_customer", "requires_customer_action")
     \/ call[p].answer = "accepted" /\ Record(p, "pending_provider", "processing")
     \/ call[p].answer = "no_effect" /\ Record(p, "created", "processing")
  /\ checkout' = "payment_hold"
  /\ UNCHANGED reviews

\* A definitive refusal terminates the order and frees its stock.  It raises after
\* an escalation, when the stock is not where the termination expects it, and for an
\* expired request, which REQUESTING has no transition to.
Refuse(p) ==
  /\ call[p].answer \in Unpaid \cap FromRequesting /\ checkout = "payment_hold"
  /\ Record(p, call[p].answer, "definitive_failed")
  /\ checkout' = "canceled"
  /\ UNCHANGED reviews

\* A fault opens a case of another reason, which no step here closes.
Doubt(p) ==
  /\ Live
  /\ \/ /\ call[p].answer \in Unknown
        /\ Record(p, "outcome_unknown", "outcome_unknown")
        /\ reviews' = reviews \cup {"request"}
     \/ /\ call[p].answer \in Faulty
        /\ Record(p, "review", "review")
        /\ reviews' = reviews \cup {"fault"}
  /\ checkout' = "held_for_review"

-----------------------------------------------------------------------------
(* The hold sweep and staff                                                *)

\* The payment must be under way; its age may have passed the policy's at any time.
EscalateOverdue ==
  /\ Live /\ tx.status \notin {"none"} \cup Unpaid
  /\ checkout' = "held_for_review"
  /\ reviews' = reviews \cup {"overdue"}
  /\ UNCHANGED <<root, request, evidence, call, authority, inspection>>

ResolveReview(c) ==
  /\ c \in reviews /\ reviews' = reviews \ {c}
  /\ UNCHANGED <<root, checkout, request, evidence, call, authority, inspection>>

\* What reconcile_no_authority_created asks of the results of the request.
EveryResultIsUnexplained == \A k \in claimed : result[k] \in Unexplained

\* Thirty minutes have passed since the transaction was created, or since the
\* provider was last asked.
Pass(w) ==
  /\ w \notin window /\ tx.status # "none"
  /\ w = "request" =>
       "transaction" \in window /\ claimed # {} /\ \A p \in Process : ~At(p, "ask")
  /\ window' = window \cup {w}
  /\ UNCHANGED <<root, commerce, request, evidence, call, authority, history>>

\* Staff find no authority in the provider's history.  When they may look is
\* counted from the creation of the transaction.
Inspect ==
  /\ "transaction" \in window /\ authority = {}
  /\ history' = IF "request" \in window THEN "late" ELSE "early"
  /\ UNCHANGED <<root, commerce, request, evidence, call, authority, window>>

\* The provider finishes a request on which the transport gave up.  It does so
\* within thirty minutes of the request, or never.
Surface(k) ==
  /\ k \in claimed /\ result[k] \in Unknown /\ "request" \notin window
  /\ authority' = authority \cup {k}
  /\ UNCHANGED <<root, commerce, request, evidence, call, inspection>>

\* The history may have been taken at any time since: before the provider was
\* asked, or before it was done.
ReconcileNoAuthority ==
  /\ tx.status = "outcome_unknown" /\ history # "none"
  /\ EveryResultIsUnexplained /\ checkout = "held_for_review"
  /\ \E c \in reviews \cap {"request", "overdue"} : reviews' = reviews \ {c}
  /\ tx' = [tx EXCEPT !.status = "expired"]
  /\ attempt' = [attempt EXCEPT !.status = "definitive_failed"]
  /\ checkout' = "canceled"
  /\ UNCHANGED <<root, evidence, call, authority, inspection>>

-----------------------------------------------------------------------------
RequestNext ==
  \/ \E p \in Process :
       \/ \E k \in Key : Receive(p, k)
       \/ Place(p)
       \/ Plan(p)
       \/ CreateAttempt(p)
       \/ CreateTransaction(p)
       \/ Claim(p)
       \/ \E o \in Outcomes : Ask(p, o)
       \/ Accept(p)
       \/ Refuse(p)
       \/ Doubt(p)
       \/ Stop(p)
  \/ EscalateOverdue
  \/ \E c \in reviews : ResolveReview(c)
  \/ \E w \in Windows : Pass(w)
  \/ Inspect
  \/ \E k \in claimed : Surface(k)
  \/ ReconcileNoAuthority

RequestSpec == RequestInit /\ [][RequestNext]_requestVars

-----------------------------------------------------------------------------
(* Properties                                                              *)

\* Every variable has its type, and a claim names the transaction's request.
RequestTypeOK ==
  /\ root \in [Key -> RootStates]
  /\ checkout \in {"draft", "payment_hold", "held_for_review", "canceled"}
  /\ reviews \subseteq {"request", "overdue", "fault"}
  /\ attempt \in [by : Key \cup {NoKey},
                  status : {"none", "created", "requires_customer_action", "processing",
                            "outcome_unknown", "review", "definitive_failed"}]
  /\ tx \in [status : {"none", "created", "requesting", "pending_customer", "pending_provider",
                       "outcome_unknown", "review"} \cup Unpaid,
             token : Key \cup {NoKey}]
  /\ claimed \subseteq Key
  /\ result \in [Key -> Outcomes \cup {"none"}]
  /\ call \in [Process -> [key : Key \cup {NoKey}, at : Stages \cup {"idle"},
                           answer : Outcomes \cup {"none"}]]
  /\ authority \subseteq claimed
  /\ window \subseteq Windows
  /\ history \in Histories

\* The customer can never pay for one checkout twice at the provider, whatever
\* keys are sent, retried or abandoned, at once or one after the other.
OneAuthority == \A k, l \in authority : k = l

\* A key is completed exactly when its claim is answered; and a claim without an
\* answer is the one the transaction still waits for, so that no other request
\* can be made until it is known what became of it.
UnansweredClaimBlocks ==
  \A k \in Key :
    /\ root[k] = "completed" <=> result[k] # "none"
    /\ k \in claimed /\ result[k] = "none" <=> tx.status = "requesting" /\ tx.token = k

\* The stock of the order is given back only when the provider has no authority
\* under which the customer could still pay.  The runbook asks for it; it is false,
\* and no part of what follows.
ReleasedWithoutAuthority == checkout = "canceled" => authority = {}

\* What the code establishes of it.  Stock is given back under a payable authority
\* in one way alone: staff reconciled the request on a history taken before its
\* window had passed.  No refusal, retry, sweep or lost answer does it.
ReleasedByEarlyHistory ==
  checkout = "canceled" /\ authority # {} => tx.status = "expired" /\ history = "early"

\* There is one thing the customer can pay, no other is made until it is known
\* what became of an unanswered claim, and only an early history frees its stock.
OnePayablePage == OneAuthority /\ UnansweredClaimBlocks /\ ReleasedByEarlyHistory

=============================================================================
