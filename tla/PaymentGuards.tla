--------------------------- MODULE PaymentGuards ---------------------------
(***************************************************************************)
(* What PostgreSQL accepts.  The rows of a Digital purchase are guarded by *)
(* triggers of the migrations, whatever command writes them: some look at  *)
(* one row before and after its update, others are deferred and look at    *)
(* the whole graph when the transaction commits.  With the transition      *)
(* tables that every service asserts they are the abstract specification   *)
(* of the payment graph: any transaction may commit that they let through. *)
(*                                                                         *)
(* A guard constrains the step from the committed state before to the one  *)
(* after a transaction; a command that a guard refuses rolls back whole.   *)
(***************************************************************************)
EXTENDS Integers, FiniteSets

CONSTANTS
  Customers, Pools, Checkouts, Lines,
  Owner,         \* [Checkouts -> Customers]
  CheckoutOf,    \* [Lines -> Checkouts]
  PoolOf,        \* [Lines -> Pools]
  NoCheckout

VARIABLES
  sellable,      \* inventory_pool.sellable_quantity
  active,        \* cart.active_checkout_id
  status,        \* checkout.status
  res,           \* state of each reservation
  payment, tx,   \* collection status; status of the transaction and its attempt
  evidence,      \* application states of the Verification rows
  reviews,       \* status of each review case of the payment
  allocated,     \* payments with a FinancialAllocation
  finalized,     \* payments with a CommercialFinalization
  adjudicated    \* payments whose allocation has an applied authorization

vars == <<sellable, active, status, res, payment, tx, evidence, reviews,
          allocated, finalized, adjudicated>>

Init ==
  /\ allocated = {} /\ finalized = {} /\ adjudicated = {}
  /\ \A k \in Checkouts : payment[k] = "none" /\ tx[k] = "none" /\ evidence[k] = {}
  /\ \A r \in DOMAIN res : res[r] = "none"

Placed(k)   == payment[k] # "none"
RowsOf(k)   == {r \in DOMAIN res : CheckoutOf[r[1]] = k}
OrderRows(p) == {r \in DOMAIN res : PoolOf[r[1]] = p /\ Placed(CheckoutOf[r[1]])}
Blocking    == {"waiting", "malformed", "doubt", "success"}
Unpaid      == {"terminal"}

-----------------------------------------------------------------------------
(* Transition tables                                                       *)

PaymentMoves ==
  {<<"none", "open">>} \cup
  ({"open"} \X {"processing", "review"}) \cup
  ({"processing"} \X {"open", "pending_finalization", "review"}) \cup
  ({"pending_finalization"} \X {"paid", "review"}) \cup
  ({"review"} \X {"open", "processing", "pending_finalization"})

TransactionMoves ==
  {<<"none", "attempted">>, <<"attempted", "created">>, <<"created", "requesting">>} \cup
  ({"requesting"} \X {"created", "pending_customer", "pending_provider", "succeeded",
                      "terminal", "unknown", "review"}) \cup
  ({"pending_customer"} \X {"terminal", "unknown", "review"}) \cup
  ({"pending_provider"} \X {"succeeded", "terminal", "unknown", "review"}) \cup
  ({"unknown"} \X {"succeeded", "terminal", "review"}) \cup
  ({"review"} \X {"succeeded", "terminal", "unknown"})

CaseMoves == {<<"none", "open">>, <<"open", "resolved">>}

Follows(moves, from, to) == from = to \/ <<from, to>> \in moves

TransitionsFollowed(k) ==
  /\ Follows(PaymentMoves, payment[k], payment'[k])
  /\ Follows(TransactionMoves, tx[k], tx'[k])
  /\ \A c \in DOMAIN reviews[k] : Follows(CaseMoves, reviews[k][c], reviews'[k][c])

-----------------------------------------------------------------------------
(* Guards of one row                                                       *)

\* No paid payment is reopened.
PaymentProtected(k) == payment[k] = "paid" => payment'[k] = "paid"

\* Collection starts again only when nothing recorded or under review may be money.
ReopenGuarded(k) ==
  payment'[k] = "open" /\ payment[k] \notin {"none", "open"} =>
    /\ evidence'[k] \cap Blocking = {}
    /\ \A c \in DOMAIN reviews[k] : reviews'[k][c] # "open"

\* A new attempt, and the definitive failure of one.
AttemptGuarded(k) ==
  /\ tx'[k] = "attempted" /\ tx[k] = "none" => evidence'[k] \cap Blocking = {}
  /\ tx'[k] \in Unpaid /\ tx[k] \notin Unpaid => "success" \notin evidence'[k]

\* An attempt that ended does not change; it succeeds by an allocation.
AttemptProtected(k) ==
  /\ tx[k] \in Unpaid \cup {"succeeded"} => tx'[k] = tx[k]
  /\ tx'[k] = "succeeded" => k \in allocated'

\* Verification rows and allocations are append-only.
EvidenceAppended(k) == evidence[k] \subseteq evidence'[k]
AllocationAppended  == allocated \subseteq allocated' /\ finalized \subseteq finalized'

\* Funds are allocated on recorded, eligible success evidence alone.
AllocationValid(k) == k \in allocated' \ allocated => "success" \in evidence'[k]

\* A consumed reservation is immutable evidence.
ConsumedProtected(r) == res[r] = "consumed" => res'[r] = "consumed"

-----------------------------------------------------------------------------
(* Guards of the graph at commit                                           *)

\* Recognized money is handed over whole: all of it is allocated, and waits for
\* its finalization.
HandedOver(k) == payment'[k] \in {"pending_finalization", "paid"} => k \in allocated'

\* Payment, allocation, transaction and finalization project one another.
AllocationProjected(k) ==
  /\ HandedOver(k)
  /\ k \in allocated' => payment'[k] \notin {"none", "open", "processing"}
  /\ k \in allocated' => tx'[k] = "succeeded" \/ k \in adjudicated'
  /\ payment'[k] = "paid" => k \in finalized'

\* Money counts as collected only on a successful operation or an adjudicated one.
ConfirmedEvidence(k) ==
  payment'[k] \in {"pending_finalization", "paid"} => tx'[k] = "succeeded" \/ k \in adjudicated'

Consumed(k)     == {r \in RowsOf(k) : res'[r] = "consumed"}
Committed(k, p) == Cardinality({r \in Consumed(k) : PoolOf[r[1]] = p})

\* What a finalization commits was held for payment until then.
CommitmentOrigin(k) ==
  \A p \in Pools : Committed(k, p) > 0 =>
    Cardinality({r \in RowsOf(k) : PoolOf[r[1]] = p /\ res[r] = "payment_hold"}) = Committed(k, p)

\* A commitment of a pool is of all that the order consumed in it, and is what
\* left the pool; reservations that were released before it do not count.
CommitmentComplete(k) ==
  \A p \in Pools : Committed(k, p) > 0 => sellable'[p] = sellable[p] - Committed(k, p)

\* A finalization is inserted with its whole graph: payment, checkout and cart
\* ended, and one consumed reservation for every line.
FinalizationComplete(k) ==
  /\ payment'[k] = "paid" /\ status'[k] = "paid"
  /\ active'[Owner[k]] = NoCheckout
  /\ \A l \in {m \in Lines : CheckoutOf[m] = k} :
       Cardinality({r \in Consumed(k) : r[1] = l}) = 1
  /\ CommitmentOrigin(k) /\ CommitmentComplete(k)

FinalizationGuarded(k) == k \in finalized' \ finalized => FinalizationComplete(k)

CheckoutGuarded(k) ==
  status'[k] = "paid" /\ status[k] # "paid" /\ Placed(k) => k \in finalized'

\* What was sold stays sold.
FinalizedCheckoutProtected(k) == k \in finalized => status'[k] = "paid"

ConsumptionGuarded(r) ==
  res'[r] = "consumed" /\ res[r] # "consumed" /\ Placed(CheckoutOf[r[1]])
    => CheckoutOf[r[1]] \in finalized'

\* The graph of an operation that definitely took no money.
DefinitivelyUnpaid(k) ==
  /\ status'[k] = "canceled" /\ payment'[k] = "open" /\ k \notin allocated' /\ tx'[k] \in Unpaid
  /\ \A r \in RowsOf(k) : res'[r] \notin {"active", "payment_hold", "held_for_review"}
  /\ \E r \in RowsOf(k) : res'[r] # "none"

\* A cart leaves a placed checkout when it is sold or definitively unpaid.
CartGuarded(c) ==
  active[c] # NoCheckout /\ active'[c] = NoCheckout /\ Placed(active[c])
    => DefinitivelyUnpaid(active[c]) \/ active[c] \in finalized'

\* A pool with stock of placed orders is lowered by the finalization that
\* commits it in the same transaction, and by nothing else.
PoolGuarded(p) ==
  (sellable'[p] < sellable[p]
     /\ \E r \in OrderRows(p) : res'[r] \in {"payment_hold", "consumed"})
    => \E k \in finalized' \ finalized : sellable[p] - sellable'[p] = Committed(k, p)

-----------------------------------------------------------------------------
Accepted ==
  /\ AllocationAppended
  /\ \A k \in Checkouts :
       /\ TransitionsFollowed(k) /\ PaymentProtected(k) /\ ReopenGuarded(k)
       /\ AttemptGuarded(k) /\ AttemptProtected(k) /\ EvidenceAppended(k) /\ AllocationValid(k)
       /\ AllocationProjected(k) /\ ConfirmedEvidence(k) /\ FinalizationGuarded(k)
       /\ CheckoutGuarded(k) /\ FinalizedCheckoutProtected(k)
  /\ \A r \in DOMAIN res : ConsumedProtected(r) /\ ConsumptionGuarded(r)
  /\ \A c \in Customers : CartGuarded(c)
  /\ \A p \in Pools : PoolGuarded(p)

Spec == Init /\ [][Accepted]_vars
=============================================================================
