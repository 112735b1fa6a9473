-------------------------- MODULE DigitalPurchase --------------------------
(***************************************************************************)
(* A Digital purchase from the locked cart to the sale: the stock pools,   *)
(* the customer's cart, the checkout and its reservations, the payment     *)
(* with its one provider transaction, the evidence recorded about it, its  *)
(* review cases and the adjudication of a late payment.                    *)
(*                                                                         *)
(* Every command is one transaction that locks the graph it changes, so    *)
(* it is one action; a command that raises rolls back and changes nothing, *)
(* so a condition under which it raises is a guard.  The work rows that    *)
(* schedule verification, recognition and finalization are in modules of   *)
(* their own.                                                              *)
(***************************************************************************)
EXTENDS Integers, FiniteSets

CONSTANTS
  Customers, Pools,
  Checkouts,     \* checkouts that may be prepared, each with its UUID
  Lines,         \* their lines, each of quantity 1
  Owner,         \* [Checkouts -> Customers]
  CheckoutOf,    \* [Lines -> Checkouts]
  PoolOf,        \* [Lines -> Pools]: two lines may draw on one pool
  NoCheckout,
  Payers,        \* bound: the checkouts that are placed
  MaxStock       \* bound: quantity staff ever put in a pool

ASSUME GraphAssumption ==
  /\ Owner \in [Checkouts -> Customers]
  /\ CheckoutOf \in [Lines -> Checkouts]
  /\ PoolOf \in [Lines -> Pools]
  /\ NoCheckout \notin Checkouts
  /\ Payers \subseteq Checkouts
ASSUME StockAssumption == MaxStock \in Nat /\ IsFiniteSet(Lines)

VARIABLES
  sellable,        \* sellable_quantity of each pool
  active, reason,  \* the cart: its active checkout and why it is locked
  status, lapsed,  \* the checkout, and whether expires_at has passed
  res,             \* state of each reservation
  payment, tx,     \* collection status; status of the one transaction
  evidence,        \* what the recorded Verification rows say
  answer,          \* what the provider would say
  reviews,         \* review cases of the payment, by reason
  auth             \* adjudication of a late payment

cart     == <<active, reason>>
checkout == <<status, lapsed>>
money    == <<payment, tx, evidence>>
vars     == <<sellable, cart, checkout, res, money, answer, reviews, auth>>

Reservations == Lines \X {"original", "replacement"}
Current == {"active", "payment_hold", "held_for_review"}
History == {"consumed", "released", "expired"}
LiveTx  == {"requesting", "pending_customer", "pending_provider", "unknown", "review"}
Cases   == {"request", "fault", "unclear", "overdue", "conflict", "late",
            "inventory", "finalization"}
Disputes == {"fault", "conflict"}

Collection    == {"none", "open", "processing", "review", "pending_finalization", "paid"}
ReviewStatus  == {"none", "open", "resolved"}
Authorization == {"none", "open", "proposed", "approved", "closed", "applied"}
ReservationStates == {"none"} \cup Current \cup History

Init ==
  /\ sellable = [p \in Pools |-> MaxStock]
  /\ active = [c \in Customers |-> NoCheckout]
  /\ reason = [c \in Customers |-> "none"]
  /\ status = [k \in Checkouts |-> "none"]
  /\ lapsed = [k \in Checkouts |-> FALSE]
  /\ res = [r \in Reservations |-> "none"]
  /\ payment = [k \in Checkouts |-> "none"]
  /\ tx = [k \in Checkouts |-> "none"]
  /\ evidence = [k \in Checkouts |-> {}]
  /\ answer = [k \in Checkouts |-> "pending"]
  /\ reviews = [k \in Checkouts |-> [c \in Cases |-> "none"]]
  /\ auth = [k \in Checkouts |-> "none"]

LinesOf(k) == {l \in Lines : CheckoutOf[l] = k}
Held(p)    == {r \in Reservations : PoolOf[r[1]] = p /\ res[r] \in Current}

\* A line's current reservation, if it has one, is in one of the states.
Holds(l, states) == \E r \in Reservations : r[1] = l /\ res[r] \in states
EveryLine(k, states) == \A l \in LinesOf(k) : Holds(l, states)
Move(k, from, to) ==
  res' = [r \in Reservations |->
            IF CheckoutOf[r[1]] = k /\ res[r] \in from THEN to ELSE res[r]]

Owns(k) == active[Owner[k]] = k
Lock(k, why) ==
  /\ active' = [active EXCEPT ![Owner[k]] = k]
  /\ reason' = [reason EXCEPT ![Owner[k]] = why]
Unlock(k) ==
  /\ active' = [active EXCEPT ![Owner[k]] = NoCheckout]
  /\ reason' = [reason EXCEPT ![Owner[k]] = "none"]

\* A case's idempotency key makes a second opening a replay, even of a closed case.
Opening(k, c) == [reviews EXCEPT ![k][c] = IF @ = "none" THEN "open" ELSE @]
IsOpen(k, c) == reviews[k][c] = "open"
NoReview(k) == \A c \in Cases : ~IsOpen(k, c)

Pay(k, p, t) == payment' = [payment EXCEPT ![k] = p] /\ tx' = [tx EXCEPT ![k] = t]
Record(k, what) == evidence' = [evidence EXCEPT ![k] = @ \cup {what}]

-----------------------------------------------------------------------------
(* Pools                                                                   *)

\* A controlled adjustment leaves the pool at least what is held.
CoversAnything(p, n) == TRUE
Covers(p, n) == n >= 0 /\ n >= Cardinality(Held(p))

\* The database refuses to lower a pool that has stock of placed orders, but
\* for the finalization that commits it.
Lowerable(p) ==
  \A r \in Reservations :
    PoolOf[r[1]] = p /\ payment[CheckoutOf[r[1]]] # "none"
      => res[r] \notin {"payment_hold", "consumed"}

Adjust(p) ==
  /\ \E d \in {-1, 1} :
       /\ Covers(p, sellable[p] + d) /\ sellable[p] + d <= MaxStock
       /\ d < 0 => Lowerable(p)
       /\ sellable' = [sellable EXCEPT ![p] = @ + d]
  /\ UNCHANGED <<cart, checkout, res, money, answer, reviews, auth>>

RemainingUnheld(p) == sellable[p]
Remaining(p) == sellable[p] - Cardinality(Held(p))

Demand(p, lines) == Cardinality({l \in lines : PoolOf[l] = p})
Available(lines) == \A p \in Pools : Demand(p, lines) > 0 => Demand(p, lines) <= Remaining(p)

-----------------------------------------------------------------------------
(* Preparation, expiry, cancellation, placement                            *)

\* The pools are locked while what remains is counted.
Prepare(k) ==
  /\ status[k] = "none" /\ LinesOf(k) # {}
  /\ active[Owner[k]] = NoCheckout
  /\ \A j \in Checkouts : Owner[j] = Owner[k] => status[j] \notin {"draft", "pending"}
  /\ Available(LinesOf(k))
  /\ status' = [status EXCEPT ![k] = "draft"]
  /\ res' = [r \in Reservations |->
               IF CheckoutOf[r[1]] = k /\ r[2] = "original" THEN "active" ELSE res[r]]
  /\ Lock(k, "checkout")
  /\ UNCHANGED <<sellable, lapsed, money, answer, reviews, auth>>

Lapse(k) ==
  /\ ~lapsed[k] /\ \E l \in LinesOf(k) : Holds(l, Current)
  /\ lapsed' = [lapsed EXCEPT ![k] = TRUE]
  /\ UNCHANGED <<sellable, cart, status, res, money, answer, reviews, auth>>

\* Expiry and cancellation refuse a checkout whose order has a payment, and
\* one whose stock is held for review.
UnplacedByHold(k) == status[k] \in {"draft", "pending"} /\ ~EveryLine(k, {"held_for_review"})
Unplaced(k) ==
  /\ status[k] \in {"draft", "pending"} /\ payment[k] = "none"
  /\ \A l \in LinesOf(k) : ~Holds(l, {"held_for_review"})

Abandon(k, to, released) ==
  /\ status' = [status EXCEPT ![k] = to]
  /\ Move(k, {"active"}, released)
  /\ IF Owns(k) THEN Unlock(k) ELSE UNCHANGED cart
  /\ UNCHANGED <<sellable, lapsed, money, answer, reviews, auth>>

Expirable(k) == lapsed[k] /\ Unplaced(k)

\* expire_checkouts, and the expiry that precedes a preparation.
Expire(k) == Expirable(k) /\ Abandon(k, "expired", "expired")

CancelCheckout(k) == Unplaced(k) /\ Abandon(k, "canceled", "released")

Placeable(k) == k \in Payers /\ status[k] = "draft" /\ ~lapsed[k] /\ Owns(k)

\* Each line's stock passes from the checkout to its order.
HoldForOrder(k) == EveryLine(k, {"active"}) /\ Move(k, {"active"}, "payment_hold")

OpenObligation(k) ==
  /\ payment' = [payment EXCEPT ![k] = "open"]
  /\ status' = [status EXCEPT ![k] = "pending"]
  /\ Lock(k, "payment")

Place(k) ==
  /\ Placeable(k) /\ HoldForOrder(k) /\ OpenObligation(k)
  /\ UNCHANGED <<sellable, lapsed, tx, evidence, answer, reviews, auth>>

-----------------------------------------------------------------------------
(* Holds of a placed checkout                                              *)

Extendable(k) ==
  status[k] = "pending" /\ Owns(k) /\ EveryLine(k, {"payment_hold", "held_for_review"})

\* Raises when there is no hold to keep.
Retain(k, target) ==
  /\ Extendable(k)
  /\ Move(k, {"payment_hold", "held_for_review"}, target)
  /\ lapsed' = [lapsed EXCEPT ![k] = FALSE]
  /\ Lock(k, IF target = "payment_hold" THEN "payment" ELSE "review")
  /\ UNCHANGED status

\* What the policy holds the stock as while it waits in a phase.
HoldIn(phase) ==
  IF phase \in {"review", "paid_finalization_review"} THEN "held_for_review" ELSE "payment_hold"
Keep(k, phase) == Retain(k, HoldIn(phase))

\* terminate_locked_definitive_unpaid_digital_graph: the stock it expects to
\* hold is released with the order and the cart.  A graph already terminated
\* is a replay; any other raises.
Terminate(k, expected) ==
  \/ /\ status[k] = "pending" /\ Owns(k) /\ EveryLine(k, {expected})
     /\ Move(k, {expected}, "released")
     /\ status' = [status EXCEPT ![k] = "canceled"]
     /\ Unlock(k)
     /\ UNCHANGED lapsed
  \/ /\ status[k] = "canceled" /\ \A l \in LinesOf(k) : ~Holds(l, Current)
     /\ UNCHANGED <<cart, checkout, res>>

\* The database refuses to open a payment again over a recorded observation
\* that may be money, or over a review other than the ones resolved with it.
ReopenableAlways(k, resolved) == TRUE
Reopenable(k, resolved) ==
  payment[k] # "open" =>
    /\ evidence[k] \cap {"waiting", "malformed", "doubt", "success"} = {}
    /\ \A c \in Cases \ resolved : ~IsOpen(k, c)

\* The backstop for unpaid operations whose stock is still held for payment.
Abandonable(k) ==
  /\ payment[k] = "open" /\ tx[k] = "terminal" /\ NoReview(k)
  /\ \E l \in LinesOf(k) : Holds(l, {"payment_hold"})

-----------------------------------------------------------------------------
(* The provider request                                                    *)

CreateAttempt(k) ==
  /\ payment[k] = "open" /\ tx[k] = "none" /\ NoReview(k) /\ EveryLine(k, {"payment_hold"})
  /\ Pay(k, "processing", "attempted")
  /\ UNCHANGED <<sellable, cart, checkout, res, evidence, answer, reviews, auth>>

CreateTransaction(k) ==
  /\ tx[k] = "attempted" /\ NoReview(k)
  /\ Pay(k, payment[k], "created")
  /\ UNCHANGED <<sellable, cart, checkout, res, evidence, answer, reviews, auth>>

ClaimRequest(k) ==
  /\ tx[k] = "created" /\ NoReview(k)
  /\ Pay(k, payment[k], "requesting")
  /\ UNCHANGED <<sellable, cart, checkout, res, evidence, answer, reviews, auth>>

\* apply_provider_request_result: a result that finds the transaction
\* elsewhere than REQUESTING is stale.
ResultAccepted(k) ==
  /\ tx[k] = "requesting" /\ payment[k] \in {"open", "processing"}
  /\ \E t \in {"pending_customer", "pending_provider", "created"} : Pay(k, "processing", t)
  /\ Keep(k, "provider_pending")
  /\ UNCHANGED <<sellable, evidence, answer, reviews, auth>>

ResultUnpaid(k) ==
  /\ tx[k] = "requesting" /\ answer[k] = "unpaid" /\ payment[k] \in {"open", "processing", "review"}
  /\ Reopenable(k, {})
  /\ Pay(k, "open", "terminal")
  /\ Terminate(k, "payment_hold")
  /\ UNCHANGED <<sellable, evidence, answer, reviews, auth>>

\* OUTCOME_UNKNOWN, or a security, configuration or protocol failure.
ResultUnclear(k) ==
  /\ tx[k] = "requesting"
  /\ \E o \in {<<"unknown", "request">>, <<"review", "fault">>} :
       Pay(k, "review", o[1]) /\ reviews' = Opening(k, o[2])
  /\ Keep(k, "review")
  /\ UNCHANGED <<sellable, evidence, answer, auth>>

-----------------------------------------------------------------------------
(* The provider                                                            *)

Decide(k, a) ==
  /\ tx[k] \in LiveTx \cup {"terminal"} /\ answer[k] = "pending" /\ a \in {"paid", "unpaid"}
  /\ answer' = [answer EXCEPT ![k] = a]
  /\ UNCHANGED <<sellable, cart, checkout, res, money, reviews, auth>>

\* Money captured after the provider called the operation unpaid.
CaptureLate(k) ==
  /\ answer[k] = "unpaid"
  /\ answer' = [answer EXCEPT ![k] = "paid"]
  /\ UNCHANGED <<sellable, cart, checkout, res, money, reviews, auth>>

-----------------------------------------------------------------------------
(* apply_verification_result                                               *)

Verifiable(k) == tx[k] \in LiveTx /\ payment[k] \in {"open", "processing", "review"}
Unspoiled(k) == "success" \notin evidence[k]

\* A success renews an expired hold too.
HoldAfter(k, outcome) ==
  Keep(k, CASE outcome = "success" -> "nominal_expiry_success"
            [] outcome = "pending" -> "verification_pending"
            [] OTHER -> "review")

VerifySuccess(k) ==
  /\ Verifiable(k) /\ answer[k] = "paid"
  /\ Pay(k, "review", "review") /\ Record(k, "success")
  /\ HoldAfter(k, "success")
  /\ UNCHANGED <<sellable, answer, reviews, auth>>

\* After an applied unpaid result the success is a contradiction, whose
\* transition out of a terminal transaction raises.
VerifyLateSuccess(k) ==
  /\ tx[k] = "terminal" /\ answer[k] = "paid" /\ auth[k] = "none"
  /\ evidence[k] \cap {"success", "unpaid"} = {}
  /\ Pay(k, "review", "terminal") /\ Record(k, "success")
  /\ reviews' = Opening(k, "late")
  /\ auth' = [auth EXCEPT ![k] = "open"]
  /\ UNCHANGED <<sellable, cart, checkout, res, answer>>

VerifyUnpaid(k) ==
  /\ Verifiable(k) \/ (tx[k] = "terminal" /\ payment[k] = "open")
  /\ answer[k] = "unpaid" /\ Unspoiled(k) /\ Reopenable(k, {})
  /\ Pay(k, "open", "terminal") /\ Record(k, "unpaid")
  /\ Terminate(k, "payment_hold")
  /\ UNCHANGED <<sellable, answer, reviews, auth>>

\* PENDING; the transition to PENDING_PROVIDER is refused elsewhere.
VerifyPending(k) ==
  /\ tx[k] \in {"requesting", "pending_provider"} /\ payment[k] \in {"open", "processing", "review"}
  /\ answer[k] = "pending" /\ Unspoiled(k)
  /\ Pay(k, "processing", "pending_provider") /\ Record(k, "waiting")
  /\ HoldAfter(k, "pending")
  /\ UNCHANGED <<sellable, answer, reviews, auth>>

\* OUTCOME_UNKNOWN, or a configuration or protocol failure.
VerifyUnknown(k) ==
  /\ Verifiable(k) /\ Unspoiled(k)
  /\ \E t \in {"unknown", "review"} : Pay(k, "review", t)
  /\ Record(k, "doubt")
  /\ HoldAfter(k, "unclear")
  /\ reviews' = Opening(k, "unclear")
  /\ UNCHANGED <<sellable, answer, auth>>

\* Paid, by an amount that cannot be read: a protocol failure of its own class.
VerifyMalformed(k) ==
  /\ Verifiable(k) /\ answer[k] = "paid" /\ Unspoiled(k)
  /\ Pay(k, "review", "review") /\ Record(k, "malformed")
  /\ HoldAfter(k, "unclear")
  /\ reviews' = Opening(k, "unclear")
  /\ UNCHANGED <<sellable, answer, auth>>

\* A mismatch, contradictory callbacks, or anything else after a success.
VerifyConflict(k) ==
  /\ Verifiable(k)
  /\ Pay(k, "review", "review") /\ Record(k, "doubt")
  /\ HoldAfter(k, "unclear")
  /\ reviews' = Opening(k, "conflict")
  /\ UNCHANGED <<sellable, answer, auth>>

-----------------------------------------------------------------------------
(* Overdue holds and reconciliation                                        *)

\* The policy's age of the unresolved transaction may have passed at any time.
EscalateOverdue(k) ==
  /\ payment[k] \in {"processing", "review"} /\ tx[k] \notin {"none", "attempted"}
  /\ Keep(k, "review")
  /\ reviews' = Opening(k, "overdue")
  /\ UNCHANGED <<sellable, money, answer, auth>>

RenewPaid(k) ==
  /\ payment[k] = "pending_finalization"
  /\ Keep(k, "paid_finalization")
  /\ UNCHANGED <<sellable, money, answer, reviews, auth>>

EscalateFinalization(k) ==
  /\ payment[k] = "pending_finalization"
  /\ Keep(k, "paid_finalization_review") \/ (~Extendable(k) /\ UNCHANGED <<cart, checkout, res>>)
  /\ reviews' = Opening(k, "finalization")
  /\ UNCHANGED <<sellable, money, answer, auth>>

\* The operator states that the request never reached the provider, from what he
\* saw of its history: whatever it answers later, it is not asked here.  Of the
\* cases that say its state is unclear, the first opened must still be open.
Reconcile(k) ==
  /\ tx[k] = "unknown" /\ payment[k] = "review" /\ evidence[k] = {}
  /\ \E c \in {"request", "overdue"} :
       IsOpen(k, c) /\ Reopenable(k, {c}) /\ reviews' = [reviews EXCEPT ![k][c] = "resolved"]
  /\ Pay(k, "open", "terminal")
  /\ Terminate(k, "held_for_review")
  /\ UNCHANGED <<sellable, evidence, answer, auth>>

\* transition_review_case, by staff, up to RESOLVED.
ResolveReview(k) ==
  /\ \E c \in Cases : IsOpen(k, c) /\ reviews' = [reviews EXCEPT ![k][c] = "resolved"]
  /\ UNCHANGED <<sellable, cart, checkout, res, money, answer, auth>>

-----------------------------------------------------------------------------
(* Recognition and finalization                                            *)

\* blocking_review_observations: every doubt that was recorded, but an amount
\* that could not be read, of the same operation and before its success (after
\* it, that is a contradiction).
Clean(k) ==
  /\ "success" \in evidence[k] /\ "doubt" \notin evidence[k]
  /\ \A c \in Disputes : ~IsOpen(k, c)

\* Uncertainty the recognized funds have settled.
Settled(k) ==
  [reviews EXCEPT ![k] = [c \in Cases |->
     IF c \in {"request", "unclear", "overdue"} /\ @[c] = "open" THEN "resolved" ELSE @[c]]]

Recognize(k) ==
  /\ payment[k] \in {"processing", "review"} /\ tx[k] # "terminal" /\ Clean(k)
  /\ Pay(k, "pending_finalization", "succeeded")
  /\ Keep(k, "paid_finalization")
  /\ reviews' = Settled(k)
  /\ UNCHANGED <<sellable, evidence, answer, auth>>

\* Needs the exceptional authorization, and leaves stock to the recovery.
RecognizeLate(k) ==
  /\ payment[k] = "review" /\ tx[k] = "terminal" /\ Clean(k) /\ auth[k] = "approved"
  /\ Pay(k, "pending_finalization", "terminal")
  /\ auth' = [auth EXCEPT ![k] = "applied"]
  /\ reviews' = Settled(k)
  /\ UNCHANGED <<sellable, cart, checkout, res, evidence, answer>>

Finalized(k) == payment[k] = "paid"
Allocated(k) == payment[k] \in {"pending_finalization", "paid"}

\* The allocation's verification is a success, of an operation that succeeded
\* or that an applied authorization excepts.
FundsRecognized(k) ==
  Allocated(k) /\ "success" \in evidence[k] /\ (tx[k] = "succeeded" \/ auth[k] = "applied")

DeliverableFromCurrent(k) == EveryLine(k, Current)
Deliverable(k) == EveryLine(k, {"payment_hold"}) /\ ~lapsed[k]

Finalize(k) ==
  /\ payment[k] = "pending_finalization" /\ status[k] = "pending" /\ Owns(k)
  /\ FundsRecognized(k) /\ Deliverable(k) /\ NoReview(k)
  /\ \A p \in Pools : Demand(p, LinesOf(k)) <= sellable[p]
  /\ sellable' = [p \in Pools |-> sellable[p] - Demand(p, LinesOf(k))]
  /\ Move(k, {"payment_hold"}, "consumed")
  /\ payment' = [payment EXCEPT ![k] = "paid"]
  /\ status' = [status EXCEPT ![k] = "paid"]
  /\ Unlock(k)
  /\ UNCHANGED <<lapsed, tx, evidence, answer, reviews, auth>>

-----------------------------------------------------------------------------
(* Adjudication of a late payment                                          *)

Adjudicate(k, from, to) == auth[k] \in from /\ auth' = [auth EXCEPT ![k] = to]

Propose(k) ==
  /\ Adjudicate(k, {"open", "proposed"}, "proposed")
  /\ UNCHANGED <<sellable, cart, checkout, res, money, answer, reviews>>

\* The checker approves or rejects; either may instead cancel it open.
Check(k) ==
  /\ \/ Adjudicate(k, {"proposed"}, "approved")
     \/ Adjudicate(k, {"open", "proposed"}, "closed")
  /\ reviews' = [reviews EXCEPT ![k]["late"] = "resolved"]
  /\ UNCHANGED <<sellable, cart, checkout, res, money, answer>>

\* The application's first transaction bars finalization until recovery.
BarLate(k) ==
  /\ auth[k] \in {"approved", "applied"}
  /\ reviews' = Opening(k, "inventory")
  /\ UNCHANGED <<sellable, cart, checkout, res, money, answer, auth>>

Missing(k) == {l \in LinesOf(k) : ~Holds(l, Current)}
Replacements(k) == Missing(k) \X {"replacement"}

\* Locks the checkout but not the cart; creates new holds on what remains.
RecoverLate(k) ==
  /\ auth[k] = "applied" /\ reviews[k]["inventory"] # "none"
  /\ \A l \in LinesOf(k) : Holds(l, {"payment_hold"}) \/ l \in Missing(k)
  /\ Available(Missing(k))
  /\ res' = [r \in Reservations |-> IF r \in Replacements(k) THEN "payment_hold" ELSE res[r]]
  /\ lapsed' = [lapsed EXCEPT ![k] = FALSE]
  /\ UNCHANGED <<sellable, cart, status, money, answer, reviews, auth>>

\* A transaction of its own, after the one that recovered the stock.
ResolveInventory(k) ==
  /\ auth[k] = "applied" /\ Missing(k) = {} /\ IsOpen(k, "inventory")
  /\ reviews' = [reviews EXCEPT ![k]["inventory"] = "resolved"]
  /\ UNCHANGED <<sellable, cart, checkout, res, money, answer, auth>>

-----------------------------------------------------------------------------
Shop(k) == Prepare(k) \/ Lapse(k) \/ Expire(k) \/ CancelCheckout(k) \/ Place(k)
Collect(k) ==
  \/ CreateAttempt(k) \/ CreateTransaction(k) \/ ClaimRequest(k)
  \/ ResultAccepted(k) \/ ResultUnpaid(k) \/ ResultUnclear(k)
  \/ \E a \in {"paid", "unpaid"} : Decide(k, a)
  \/ CaptureLate(k)
Verify(k) ==
  \/ VerifySuccess(k) \/ VerifyLateSuccess(k) \/ VerifyUnpaid(k)
  \/ VerifyPending(k) \/ VerifyUnknown(k) \/ VerifyMalformed(k) \/ VerifyConflict(k)
Control(k) ==
  \/ EscalateOverdue(k) \/ RenewPaid(k) \/ EscalateFinalization(k)
  \/ Reconcile(k) \/ ResolveReview(k)
Settle(k) == Recognize(k) \/ RecognizeLate(k) \/ Finalize(k)
Adjudication(k) ==
  \/ Propose(k) \/ Check(k) \/ BarLate(k) \/ RecoverLate(k) \/ ResolveInventory(k)

Next ==
  \/ \E p \in Pools : Adjust(p)
  \/ \E k \in Checkouts :
       Shop(k) \/ Collect(k) \/ Verify(k) \/ Control(k) \/ Settle(k) \/ Adjudication(k)

Spec == Init /\ [][Next]_vars

-----------------------------------------------------------------------------
(* Properties                                                              *)

\* Type invariant.
TypeOK ==
  /\ sellable \in [Pools -> 0..MaxStock]
  /\ active \in [Customers -> Checkouts \cup {NoCheckout}]
  /\ reason \in [Customers -> {"none", "checkout", "payment", "review"}]
  /\ status \in [Checkouts -> {"none", "draft", "pending", "paid", "canceled", "expired"}]
  /\ lapsed \in [Checkouts -> BOOLEAN]
  /\ res \in [Reservations -> ReservationStates]
  /\ payment \in [Checkouts -> Collection]
  /\ tx \in [Checkouts -> {"none", "attempted", "created", "terminal", "succeeded"} \cup LiveTx]
  /\ evidence \in [Checkouts -> SUBSET {"success", "unpaid", "waiting", "malformed", "doubt"}]
  /\ answer \in [Checkouts -> {"pending", "unpaid", "paid"}]
  /\ reviews \in [Checkouts -> [Cases -> ReviewStatus]]
  /\ auth \in [Checkouts -> Authorization]

\* What is reserved in a pool never exceeds what it may sell, through every
\* preparation, staff adjustment, recovery of a late payment and sale.
NoOversell == \A p \in Pools : Cardinality(Held(p)) <= sellable[p]

\* The cart, the checkout and the original reservations agree: a live
\* checkout owns its customer's cart, which says why it is locked by the
\* state of the stock; no other checkout holds original stock.
CartOwnsItsHolds ==
  \A k \in Checkouts :
    /\ (status[k] \in {"draft", "pending"}) <=> Owns(k)
    /\ \A l \in LinesOf(k) :
         IF Owns(k)
         THEN res[<<l, "original">>] = CASE reason[Owner[k]] = "checkout" -> "active"
                                         [] reason[Owner[k]] = "payment"  -> "payment_hold"
                                         [] OTHER -> "held_for_review"
         ELSE res[<<l, "original">>] \notin Current

\* A definitively unpaid operation leaves nothing behind: no checkout
\* pending, no stock held and no cart locked, until money arrives late; the
\* sweep of abandoned holds never finds any.
TerminalUnpaidReleased ==
  \A k \in Checkouts :
    /\ ~Abandonable(k)
    /\ tx[k] = "terminal" /\ payment[k] = "open" =>
      /\ status[k] = "canceled" /\ ~Owns(k)
      /\ \A l \in LinesOf(k) : ~Holds(l, Current)

\* Recognized funds keep the stock they bought and the cart that finalizes it,
\* whatever expires, is canceled or escalated meanwhile; late funds excepted.
PaidKeepsClaim ==
  \A k \in Checkouts :
    payment[k] = "pending_finalization" /\ auth[k] = "none" => Extendable(k)

\* Only a verified success that nothing disputes is recognized or sold on, but
\* for an amount of the same operation that could not be read before it.
PaidOnCleanEvidence ==
  \A k \in Checkouts :
    payment[k] \in {"pending_finalization", "paid"} =>
      /\ "success" \in evidence[k] /\ evidence[k] \cap {"doubt", "unpaid"} = {}
      /\ answer[k] = "paid"

\* Stock leaves a pool exactly for a paid order: one consumed reservation
\* for each of its lines, and none of it still held.
SoldIffPaid ==
  \A k \in Checkouts :
    /\ (status[k] = "paid") <=> (payment[k] = "paid")
    /\ \A l \in LinesOf(k) : Holds(l, {"consumed"}) <=> status[k] = "paid"
    /\ status[k] = "paid" => \A l \in LinesOf(k) : ~Holds(l, Current)

\* The ways a payment settles, in every interleaving with expiry, review and
\* escalation: unpaid, with nothing left behind; recognized, on clean evidence
\* and with its claim kept; or sold.
PaymentSettles ==
  TerminalUnpaidReleased /\ PaidOnCleanEvidence /\ PaidKeepsClaim /\ SoldIffPaid

\* Every command leaves the database in a state its guards and transition
\* tables accept: one that forgets a condition would commit nothing, or break
\* the payment graph where a guard is missing.
Guards == INSTANCE PaymentGuards WITH
  allocated <- {k \in Checkouts : Allocated(k)},
  finalized <- {k \in Checkouts : Finalized(k)},
  adjudicated <- {k \in Checkouts : auth[k] = "applied"}
Guarded == Guards!Spec

=============================================================================
