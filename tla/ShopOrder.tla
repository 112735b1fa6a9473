------------------------------ MODULE ShopOrder ------------------------------
(***************************************************************************)
(* Standard orders and their legacy payments.  An order is submitted with  *)
(* no claim on stock, slot or discount; its customer chooses a slot and a  *)
(* discount, asks for a payment page and has the payment verified.  Stock, *)
(* slot and discount are taken together when a verification is answered    *)
(* "paid", or the transaction is left for manual review.  Repair requests  *)
(* (module RepairRequest) take slots of the same schedules.                *)
(*                                                                         *)
(* A payment call of the API is one database transaction (ATOMIC_REQUESTS) *)
(* that the provider is asked within: its rows stay locked until the       *)
(* answer is recorded, nobody sees what it has not committed, and if it    *)
(* dies nothing of it is left.  So what a call writes is written by the    *)
(* action that ends it; the claim that services.py writes before it asks,  *)
(* and compares afterwards, is in the same transaction and always agrees.  *)
(*                                                                         *)
(* Sources: shop/services/order.py, shop/services/delivery_schedule.py,    *)
(* shop/selectors/discount.py, shop/payments/services.py and providers.py, *)
(* and their endpoints.  Prices are left out: an order                     *)
(* whose price is not positive is never submitted here.  One provider is   *)
(* configured.                                                             *)
(***************************************************************************)
EXTENDS RepairRequest

CONSTANTS
  Orders, Need, CustomerOf,  \* each order's quantity of the product, its user
  Games,          \* orders of games, which are delivered at a slot
  Stock,          \* initial quantity of the product
  Transactions, OrderOf,     \* payment transactions, one or more per order
  Calls,          \* customer requests that reach the provider, each with a token
  Coupons, Direct,  \* discounts with a common usage_number, and personal ones
  Uses,           \* initial usage_number of a coupon
  Staffed,        \* staff who act in some behaviours
  Casts           \* bound: who acts in one behaviour, sets of orders, repairs and staff

Discounts == Coupons \cup Direct
Customers == {CustomerOf[o] : o \in Orders}
Schedules == {ScheduleOf[s] : s \in Slots}
Live == {"pending", "callback", "review"}

ASSUME OrderAssumption ==
  /\ Need \in [Orders -> Nat \ {0}] /\ Stock \in Nat /\ Games \subseteq Orders
  /\ OrderOf \in [Transactions -> Orders]
  /\ Capacity \in [Schedules -> Nat] /\ Uses \in Nat
  /\ Casts \subseteq SUBSET (Orders \cup Repairs \cup Staffed)
  /\ None \notin Slots \cup Discounts \cup Calls \cup Transactions
  /\ None \notin Live \cup {"paid", "failed", "open", "url", "error", "unpaid"}
  /\ IsFiniteSet(Orders) /\ IsFiniteSet(Slots)

VARIABLES
  quantity,   \* Product.quantity
  payment,    \* Order.payment_status, None before submission
  slot, discount, shipping,  \* what the order's customer chose
  choosing,   \* a slot that passed the endpoint's checks, not stored yet
  remaining,  \* uses left on each discount account
  active,     \* discounts that are active and in their period
  status,     \* PaymentTransaction.status
  evidence,   \* transactions in review although the provider was paid
  denied,     \* transactions whose latest callback does not say OK
  call,       \* what each call is doing
  page,       \* the provider's payment page of each transaction
  cast        \* who acts in this behaviour

choices == <<slot, discount, shipping, choosing>>
resources == <<quantity, used, remaining, active>>
ledger == <<status, evidence, denied, call>>
vars == <<payment, page, choices, resources, ledger, desk, cast>>
orders == <<payment, page, choices, quantity, remaining, active, ledger>>

Idle == [kind |-> "idle"]

\* A coupon has one counter, a direct discount one per customer.
Account(d, u) == IF d \in Coupons THEN <<d, None>> ELSE <<d, u>>
Accounts == {Account(d, u) : d \in Discounts, u \in Customers}

Paid == {o \in Orders : payment[o] = "paid"}
TransactionsOf(o) == {t \in Transactions : OrderOf[t] = o}
PaymentStates == {None, "pending", "failed", "paid"}
TransactionStates == Live \cup {None, "paid", "failed"}

Init ==
  /\ quantity = Stock /\ payment = [o \in Orders |-> None]
  /\ slot = [o \in Orders |-> None] /\ discount = [o \in Orders |-> None]
  /\ shipping = [o \in Orders |-> FALSE] /\ choosing = [o \in Orders |-> None]
  /\ used = [s \in Slots |-> FALSE] /\ DeskInit /\ cast \in Casts
  /\ remaining = [a \in Accounts |-> IF a[2] = None THEN Uses ELSE 1]
  /\ active = Discounts
  /\ status = [t \in Transactions |-> None] /\ evidence = {}
  /\ denied = {} /\ call = [c \in Calls |-> Idle]
  /\ page = [t \in Transactions |-> None]

(***************************************************************************)
(* Rows that a call holds while its provider is asked                      *)
(***************************************************************************)

Asking(kind) == {c \in Calls : call[c].kind = kind}
OrdersOf(calls) == {OrderOf[call[c].tx] : c \in calls}
Locked == OrdersOf(Asking("request") \cup Asking("verify"))

\* A payment request has also locked what it found available: the product, and
\* the schedule of the order's slot.
ProductLocked == Asking("request") # {}
LockedSchedules ==
  {ScheduleOf[slot[o]] : o \in {p \in OrdersOf(Asking("request")) : slot[p] # None}}

(***************************************************************************)
(* The order, and what its customer chooses                                *)
(***************************************************************************)

StockAvailable(o) == Need[o] <= quantity

ShippingReady(o) == o \in Games \/ (shipping[o] /\ slot[o] = None)

SlotAvailableUncounted(o) == slot[o] # None => \A p \in Paid \ {o} : slot[p] # slot[o]

\* The slot serves no other paid order; one that is already in use is not
\* counted again against the capacity of its schedule.
SlotAvailable(o) ==
  slot[o] # None =>
    /\ \A p \in Paid \ {o} : slot[p] # slot[o]
    /\ used[slot[o]] \/ ~Full(ScheduleOf[slot[o]])

Valid(d, u) == d \in active /\ remaining[Account(d, u)] > 0

DiscountAvailable(o) == discount[o] # None => Valid(discount[o], CustomerOf[o])

\* ensure_order_*_available, under the locks of order, product and schedule.
Available(o) ==
  StockAvailable(o) /\ ShippingReady(o) /\ SlotAvailable(o) /\ DiscountAvailable(o)

\* submit_order checks the stock, and takes nothing.
Submit(o) ==
  /\ payment[o] = None /\ StockAvailable(o) /\ ~ProductLocked
  /\ payment' = [payment EXCEPT ![o] = "pending"]
  /\ UNCHANGED <<page, choices, resources, ledger>>

\* The endpoint's unlocked checks of the order and of other orders' slots ...
CheckSlot(o, s) ==
  /\ payment[o] # None /\ o \in Games /\ choosing[o] = None
  /\ slot[o] = None /\ \A p \in Orders \ {o} : slot[p] # s
  /\ choosing' = [choosing EXCEPT ![o] = s]
  /\ UNCHANGED <<payment, page, slot, discount, shipping, resources, ledger>>

\* ... and update_order, which looks at the slot without its schedule's lock.
ChooseSlot(o) ==
  LET s == choosing[o]
      free == slot[o] = None /\ ~used[s] /\ ~Full(ScheduleOf[s])
  IN /\ s # None /\ o \notin Locked /\ choosing' = [choosing EXCEPT ![o] = None]
     /\ slot' = [slot EXCEPT ![o] = IF free THEN s ELSE @]
     /\ UNCHANGED <<payment, page, discount, shipping, resources, ledger>>

\* update_order accepts a discount whatever the order's payment has come to.
ChooseDiscount(o, d) ==
  /\ payment[o] # None /\ Valid(d, CustomerOf[o]) /\ discount[o] # d /\ o \notin Locked
  /\ discount' = [discount EXCEPT ![o] = d]
  /\ UNCHANGED <<payment, page, slot, shipping, choosing, resources, ledger>>

ChooseShipping(o) ==
  /\ payment[o] # None /\ o \notin Games /\ ~shipping[o] /\ o \notin Locked
  /\ shipping' = [shipping EXCEPT ![o] = TRUE]
  /\ UNCHANGED <<payment, page, slot, discount, choosing, resources, ledger>>

\* An administrator deactivates a discount, or its period ends.
Withdraw(d) ==
  /\ d \in active /\ active' = active \ {d}
  /\ UNCHANGED <<payment, page, choices, quantity, used, remaining, ledger>>

(***************************************************************************)
(* The payment request                                                     *)
(***************************************************************************)

RequestableUnlessPending(o) == \A t \in TransactionsOf(o) : status[t] \notin {"pending", "review"}

\* No transaction of the order is live: one in review refuses the request, one
\* that has a payment page returns it.
Requestable(o) == \A t \in TransactionsOf(o) : status[t] \notin Live

RequestPayment(c, t) ==
  LET o == OrderOf[t] IN
  /\ call[c] = Idle /\ status[t] = None /\ o \notin Locked /\ ~ProductLocked
  /\ payment[o] \notin {None, "paid"} /\ Available(o) /\ Requestable(o)
  /\ call' = [call EXCEPT ![c] = [kind |-> "request", tx |-> t, answer |-> None]]
  /\ UNCHANGED <<payment, page, choices, resources, status, evidence, denied>>

Answer(c, answers) ==
  /\ call[c].answer = None
  /\ \E answer \in answers : call' = [call EXCEPT ![c].answer = answer]
  /\ UNCHANGED <<payment, page, choices, resources, status, evidence, denied>>

\* A page that the provider opened behind an error has an address nobody knows.
AnswerRequest(c) == call[c].kind = "request" /\ Answer(c, {"url", "error"})

\* _mark_legacy_review: the transaction waits for staff, the order is pending.
Review(c) ==
  LET t == call[c].tx
      o == OrderOf[t]
  IN /\ status' = [status EXCEPT ![t] = "review"]
     /\ payment' = [payment EXCEPT ![o] = IF @ = "paid" THEN @ ELSE "pending"]
     /\ evidence' = IF call[c].answer = "paid" THEN evidence \cup {t} ELSE evidence

\* The transaction is committed with the answer, and the customer gets the page.
RecordRequest(c) ==
  LET t == call[c].tx IN
  /\ call[c].kind = "request" /\ call[c].answer # None
  /\ call' = [call EXCEPT ![c] = Idle]
  /\ \/ call[c].answer = "error" /\ Review(c) /\ UNCHANGED page
     \/ /\ call[c].answer = "url"
        /\ status' = [status EXCEPT ![t] = "pending"] /\ page' = [page EXCEPT ![t] = "open"]
        /\ UNCHANGED <<payment, evidence>>
  /\ UNCHANGED <<choices, resources, denied>>

\* The customer pays, on a page he may have kept since long ago.
Pay(t) ==
  /\ page[t] = "open" /\ page' = [page EXCEPT ![t] = "paid"]
  /\ UNCHANGED <<payment, choices, resources, ledger>>

\* A browser comes back with the authority and a status, which is the customer's
\* word at most; what it says replaces what an earlier one said.
Callback(t) ==
  /\ page[t] # None /\ \A c \in Asking("verify") : call[c].tx # t
  /\ denied' \in {denied \cup {t}, denied \ {t}}
  /\ status' = [status EXCEPT ![t] = IF @ = "pending" THEN "callback" ELSE @]
  /\ UNCHANGED <<payment, page, choices, resources, evidence, call>>

(***************************************************************************)
(* The verification                                                        *)
(***************************************************************************)

\* Final transactions are returned as they are.
Verifiable(t) == status[t] \in {"pending", "callback"}

Verify(c, t) ==
  /\ call[c] = Idle /\ Verifiable(t) /\ OrderOf[t] \notin Locked
  /\ call' = [call EXCEPT ![c] = [kind |-> "verify", tx |-> t, answer |-> None]]
  /\ UNCHANGED <<payment, page, choices, resources, status, evidence, denied>>

\* The provider says paid of a paid page alone; but it may give another code,
\* and after a callback that was not OK it is not asked.
AnswerVerify(c) ==
  LET t == call[c].tx IN
  /\ call[c].kind = "verify"
  /\ Answer(c, {"error", "unpaid"} \cup
               IF page[t] = "paid" /\ t \notin denied THEN {"paid"} ELSE {})

\* commit_order_delivery_slot, commit_order_stock, commit_order_discount_usage.
Take(o) ==
  /\ quantity' = quantity - Need[o]
  /\ used' = IF slot[o] = None THEN used ELSE [used EXCEPT ![slot[o]] = TRUE]
  /\ remaining' = IF discount[o] = None THEN remaining
                  ELSE [remaining EXCEPT ![Account(discount[o], CustomerOf[o])] = @ - 1]
  /\ UNCHANGED active

Settle(c, st, pay) ==
  LET t == call[c].tx IN
  /\ status' = [status EXCEPT ![t] = st]
  /\ payment' = [payment EXCEPT ![OrderOf[t]] = pay]
  /\ UNCHANGED evidence

PaidUnchecked(c) == Take(OrderOf[call[c].tx]) /\ Settle(c, "paid", "paid")

\* Everything is taken, or nothing and staff are told that money came.
ApplyPaid(c) ==
  LET o == OrderOf[call[c].tx] IN
  IF Available(o) THEN Take(o) /\ Settle(c, "paid", "paid")
  ELSE Review(c) /\ UNCHANGED resources

ApplyUnpaid(c) ==
  LET o == OrderOf[call[c].tx] IN
  Settle(c, "failed", IF payment[o] = "paid" THEN "paid" ELSE "failed") /\ UNCHANGED resources

\* Taking stock waits for a request that has the product locked.
RecordVerify(c) ==
  /\ call[c].kind = "verify" /\ call[c].answer # None
  /\ call' = [call EXCEPT ![c] = Idle]
  /\ \/ call[c].answer = "paid" /\ ~ProductLocked /\ ApplyPaid(c)
     \/ call[c].answer = "unpaid" /\ ApplyUnpaid(c)
     \/ call[c].answer = "error" /\ Review(c) /\ UNCHANGED resources
  /\ UNCHANGED <<page, choices, denied>>

\* The call raises or its process dies: its transaction is rolled back, whatever
\* the provider did.
Die(c) ==
  /\ call[c] # Idle /\ call' = [call EXCEPT ![c] = Idle]
  /\ UNCHANGED <<payment, page, choices, resources, status, evidence, denied>>

Present == Orders \cap cast

Choose ==
  \/ \E o \in Present : Submit(o) \/ ChooseSlot(o) \/ ChooseShipping(o)
  \/ \E o \in Present, s \in Slots : CheckSlot(o, s)
  \/ \E o \in Present, d \in Discounts : ChooseDiscount(o, d)
  \/ Present # {} /\ \E d \in Discounts : Withdraw(d)

PayOrder ==
  \/ \E c \in Calls, t \in Transactions : RequestPayment(c, t) \/ Verify(c, t)
  \/ \E c \in Calls :
       AnswerRequest(c) \/ RecordRequest(c) \/ AnswerVerify(c) \/ RecordVerify(c) \/ Die(c)
  \/ \E t \in Transactions : Pay(t) \/ Callback(t)

\* A slot is reserved under the lock of its schedule.
Unblocked == \A s \in Slots : used'[s] # used[s] => ScheduleOf[s] \notin LockedSchedules

Repair ==
  \/ \E r \in Repairs \cap cast : Customer(r) /\ Unblocked
  \/ Staffed \subseteq cast /\ Staff(Repairs \cap cast)

Next ==
  \/ (Choose \/ PayOrder) /\ UNCHANGED <<desk, cast>>
  \/ Repair /\ UNCHANGED <<orders, cast>>

Spec == Init /\ [][Next]_vars

-----------------------------------------------------------------------------
(***************************************************************************)
(* Properties                                                              *)
(***************************************************************************)

\* Types of the order and payment state; no counter falls below zero.
TypeOK ==
  /\ quantity \in 0..Stock
  /\ payment \in [Orders -> PaymentStates]
  /\ slot \in [Orders -> Slots \cup {None}] /\ choosing \in [Orders -> Slots \cup {None}]
  /\ discount \in [Orders -> Discounts \cup {None}] /\ shipping \in [Orders -> BOOLEAN]
  /\ used \in [Slots -> BOOLEAN] /\ DeskTypeOK
  /\ remaining \in [Accounts -> Nat] /\ active \subseteq Discounts
  /\ status \in [Transactions -> TransactionStates]
  /\ evidence \subseteq Transactions /\ denied \subseteq Transactions
  /\ page \in [Transactions -> {None, "open", "paid"}]

\* The units of the product that some orders ask for.
UnitsOf(some) == UNION {{o} \X (1..Need[o]) : o \in some}

\* Whoever requests, verifies or dies, however late, and whatever browsers say:
\* an order has at most one transaction that is live or PAID, so that money seen
\* is never asked for again; it is PAID with a PAID transaction, which its
\* provider was really paid for; the stock it asked for is gone once, and no
\* stock is gone for an order that is not PAID.  (A page that was paid may still
\* be settled FAILED, and the order paid on another.)
PaidOnce ==
  /\ \A o \in Orders :
       /\ \A t, x \in TransactionsOf(o) :
            status[t] \in Live \cup {"paid"} /\ status[x] \in Live \cup {"paid"} => t = x
       /\ o \in Paid <=> \E t \in TransactionsOf(o) : status[t] = "paid"
  /\ \A t \in Transactions : status[t] = "paid" \/ t \in evidence => page[t] = "paid"
  /\ quantity + Cardinality(UnitsOf(Paid)) = Stock

\* Repair requests and paid orders together never overfill a schedule, and no
\* slot is reserved by two repair requests.  (An order may share a slot: a
\* repair request can take the one it chose, and a PAID order can still choose
\* one, which is then never marked used.)
SlotsHold ==
  /\ \A h \in Schedules : Cardinality({s \in Slots : ScheduleOf[s] = h /\ used[s]}) <= Capacity[h]
  /\ \A r \in Repairs : repair[r] # None =>
       used[repair[r]] /\ \A q \in Repairs \ {r} : repair[q] # repair[r]
  /\ RecordsHold

=============================================================================
