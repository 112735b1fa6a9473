---------------------------- MODULE ShopCheckout ----------------------------
(***************************************************************************)
(* The standard cart and its recoverable checkout: cart rows that change   *)
(* only while the cart is open, a checkout draft that locks the cart and   *)
(* reserves stock, selections that prolong the draft, cancellation, and    *)
(* the command that expires overdue drafts: it reads its candidates first  *)
(* and takes each one under locks afterwards.                              *)
(*                                                                         *)
(* Sources: shop/services/cart.py, shop/services/checkout.py,              *)
(* shop/services/commerce_foundation.py, shop/management/commands/         *)
(* expire_checkouts.py, and the cart endpoints of shop/apis/cart.py.       *)
(* Each action is one transaction under the lock of the cart row.          *)
(***************************************************************************)
EXTENDS Integers, FiniteSets

CONSTANTS
  Shoppers,     \* each has one cart
  Rows, RowOf,  \* cart item identities, and each row's <<customer, product>>
  Products,
  Keys, KeyOf,  \* client_checkout_uuid values, and the customer who sends each
  MaxQuantity,  \* bound on one row, and on a product's stock
  Ttl, Lifetime  \* checkout_expiration_policy, in ticks of the clock

ASSUME ShopAssumption ==
  /\ RowOf \in [Rows -> Shoppers \X Products] /\ KeyOf \in [Keys -> Shoppers]
  /\ MaxQuantity \in Nat \ {0}
  /\ Ttl \in Nat \ {0} /\ Lifetime \in Nat /\ Ttl <= Lifetime
  /\ IsFiniteSet(Rows) /\ IsFiniteSet(Keys) /\ "open" \notin Keys

VARIABLES
  rows,      \* quantity of each cart row, Absent if there is none
  cart,      \* active checkout of each locked cart, Open otherwise
  checkout,  \* Checkout.status, "none" before it is created
  held,      \* its ACTIVE reservations, per product
  left,      \* time until expires_at, and
  life,      \* until maximum_expires_at; 0 once passed
  inventory, \* Product.quantity
  scanned    \* checkouts the expiry command has read and not yet locked

checkoutVars == <<rows, cart, checkout, held, left, life, inventory, scanned>>

Absent == -1
Open == "open"
Quantities == {Absent} \cup 0..MaxQuantity               \* of a CartItem
CartStates == Keys \cup {Open}                           \* the checkout a Cart is locked by
CheckoutStates == {"none", "draft", "canceled", "expired"}
Holdings == [Products -> Nat]                            \* StockReservations of a checkout
NoLines == [p \in Products |-> 0]

RowsOf(u) == {r \in Rows : RowOf[r][1] = u /\ rows[r] # Absent}
Smaller(a, b) == IF a < b THEN a ELSE b

\* Quantity of a product in a customer's cart, over all its rows, and what all
\* checkouts hold of it, each unit counted.
RowUnits(u, p) ==
  UNION {{r} \X (1..rows[r]) : r \in {q \in RowsOf(u) : RowOf[q][2] = p}}
Requirement(u, p) == Cardinality(RowUnits(u, p))

HeldUnits(p) == UNION {{k} \X (1..held[k][p]) : k \in Keys}
HeldOf(p) == Cardinality(HeldUnits(p))

Mutable(u) == cart[u] = Open

CheckoutInit ==
  /\ rows = [r \in Rows |-> Absent] /\ cart = [u \in Shoppers |-> Open]
  /\ checkout = [k \in Keys |-> "none"]
  /\ held = [k \in Keys |-> NoLines]
  /\ left = [k \in Keys |-> 0] /\ life = [k \in Keys |-> 0]
  /\ inventory = [p \in Products |-> MaxQuantity]
  /\ scanned = {}

(***************************************************************************)
(* The cart.  Each endpoint checks on unlocked reads, and its service takes *)
(* the lock of the cart afterwards.  Two requests that both saw no row of a *)
(* product both add one, so a customer may have several; stock that changes *)
(* between check and lock is stock that is edited right after the change.   *)
(***************************************************************************)

\* Stock is compared with this row alone, and a quantity of 0 passes.
Orderable(p, q) == inventory[p] > 0 /\ q <= inventory[p]

\* The checks of the endpoints that add, change and delete a row.
Addable(r, q) == rows[r] = Absent /\ Orderable(RowOf[r][2], q)
Changeable(r, q) == rows[r] # Absent /\ Orderable(RowOf[r][2], q)
Deletable(r) == rows[r] # Absent

AddToCart(r, q) ==
  /\ Addable(r, q) /\ Mutable(RowOf[r][1])
  /\ rows' = [rows EXCEPT ![r] = q]
  /\ UNCHANGED <<cart, checkout, held, left, life, inventory, scanned>>

UpdateItem(r, q) ==
  /\ Changeable(r, q) /\ Mutable(RowOf[r][1])
  /\ rows' = [rows EXCEPT ![r] = q]
  /\ UNCHANGED <<cart, checkout, held, left, life, inventory, scanned>>

DeleteItem(r) ==
  /\ Deletable(r) /\ Mutable(RowOf[r][1])
  /\ rows' = [rows EXCEPT ![r] = Absent]
  /\ UNCHANGED <<cart, checkout, held, left, life, inventory, scanned>>

\* submit_order turns the whole cart into an order, and reserves nothing.
SubmitOrder(u) ==
  /\ RowsOf(u) # {} /\ Mutable(u)
  /\ \A r \in RowsOf(u) : Orderable(RowOf[r][2], rows[r])
  /\ \A p \in Products : Requirement(u, p) <= inventory[p]
  /\ rows' = [r \in Rows |-> IF RowOf[r][1] = u THEN Absent ELSE rows[r]]
  /\ UNCHANGED <<cart, checkout, held, left, life, inventory, scanned>>

(***************************************************************************)
(* The checkout.                                                           *)
(***************************************************************************)

\* A cart that can become a checkout: every row of it, judged by itself.
Commercial(u) ==
  RowsOf(u) # {} /\ \A r \in RowsOf(u) : rows[r] > 0 /\ rows[r] <= inventory[RowOf[r][2]]

\* The checkout's lines copy the rows; what they ask of each product.
Lines(u) == [p \in Products |-> Requirement(u, p)]

SellableByRow(u) ==
  \A r \in RowsOf(u) : HeldOf(RowOf[r][2]) + rows[r] <= inventory[RowOf[r][2]]

\* What other checkouts hold of the cart's products is set aside; the rows of a
\* product are added up.
Sellable(u) ==
  \A p \in {RowOf[r][2] : r \in RowsOf(u)} : HeldOf(p) + Lines(u)[p] <= inventory[p]

\* A key that is already used returns its checkout, whatever became of it.
CreateCheckout(k) ==
  LET u == KeyOf[k] IN
  /\ Commercial(u) /\ checkout[k] = "none" /\ cart[u] = Open
  /\ Sellable(u)
  /\ checkout' = [checkout EXCEPT ![k] = "draft"]
  /\ held' = [held EXCEPT ![k] = Lines(u)]
  /\ left' = [left EXCEPT ![k] = Smaller(Ttl, Lifetime)]
  /\ life' = [life EXCEPT ![k] = Lifetime]
  /\ cart' = [cart EXCEPT ![u] = k]
  /\ UNCHANGED <<rows, inventory, scanned>>

\* The checks of a selection, under the locks of the cart and the checkout.
Editable(k) == checkout[k] = "draft"

TouchUnbounded(k) ==
  /\ Editable(k)
  /\ left' = [left EXCEPT ![k] = Ttl]
  /\ UNCHANGED <<rows, cart, checkout, held, life, inventory, scanned>>

TouchFromExpiry(k) ==
  /\ Editable(k)
  /\ left' = [left EXCEPT ![k] = Smaller(@ + Ttl, life[k])]
  /\ UNCHANGED <<rows, cart, checkout, held, life, inventory, scanned>>

\* Another address, shipping method or schedule prolongs the draft.
Touch(k) ==
  /\ Editable(k)
  /\ left' = [left EXCEPT ![k] = Smaller(Ttl, life[k])]
  /\ UNCHANGED <<rows, cart, checkout, held, life, inventory, scanned>>

EndUnlocked(k, as) ==
  /\ checkout' = [checkout EXCEPT ![k] = as] /\ held' = [held EXCEPT ![k] = NoLines]
  /\ UNCHANGED <<rows, cart, left, life, inventory>>

\* The draft ends, its reservations are released, and its cart opens again.
\* (The times of a draft that ended are read by nothing, and kept at 0.)
End(k, as) ==
  /\ checkout' = [checkout EXCEPT ![k] = as] /\ held' = [held EXCEPT ![k] = NoLines]
  /\ left' = [left EXCEPT ![k] = 0] /\ life' = [life EXCEPT ![k] = 0]
  /\ cart' = [cart EXCEPT ![KeyOf[k]] = IF @ = k THEN Open ELSE @]
  /\ UNCHANGED <<rows, inventory>>

Cancel(k) == checkout[k] = "draft" /\ End(k, "canceled") /\ UNCHANGED scanned

Overdue(k) == checkout[k] = "draft" /\ left[k] = 0

\* expire_checkouts --apply reads the overdue drafts without a lock ...
Scan ==
  /\ scanned = {} /\ scanned' = {k \in Keys : Overdue(k)} /\ scanned' # {}
  /\ UNCHANGED <<rows, cart, checkout, held, left, life, inventory>>

\* ... and expires each under the locks of its cart and itself, rechecking
\* the status and not the time.
Expire(k) ==
  /\ k \in scanned /\ scanned' = scanned \ {k}
  /\ IF checkout[k] = "draft" THEN End(k, "expired")
     ELSE UNCHANGED <<rows, cart, checkout, held, left, life, inventory>>

\* The command dies between two candidates.
Interrupt ==
  /\ scanned # {} /\ scanned' = {}
  /\ UNCHANGED <<rows, cart, checkout, held, left, life, inventory>>

\* An administrator edits the stock, or a paid order takes some.
EditStock(p, n) ==
  /\ inventory[p] # n /\ inventory' = [inventory EXCEPT ![p] = n]
  /\ UNCHANGED <<rows, cart, checkout, held, left, life, scanned>>

Less(t) == IF t = 0 THEN 0 ELSE t - 1

Tick ==
  /\ left' = [k \in Keys |-> Less(left[k])] /\ life' = [k \in Keys |-> Less(life[k])]
  /\ UNCHANGED <<rows, cart, checkout, held, inventory, scanned>>

Shop ==
  \/ \E r \in Rows, q \in 0..MaxQuantity : AddToCart(r, q) \/ UpdateItem(r, q)
  \/ \E r \in Rows : DeleteItem(r)
  \/ \E u \in Shoppers : SubmitOrder(u)
  \/ \E k \in Keys : CreateCheckout(k) \/ Touch(k) \/ Cancel(k)
  \/ \E p \in Products, n \in 0..MaxQuantity : EditStock(p, n)

CheckoutNext ==
  \/ Shop
  \/ Scan \/ Interrupt \/ Tick
  \/ \E k \in Keys : Expire(k)

CheckoutSpec == CheckoutInit /\ [][CheckoutNext]_checkoutVars

\* The clock runs, and the command is run again and again to its end.
CheckoutFairness == WF_checkoutVars(Tick) /\ WF_checkoutVars(Scan) /\ \A k \in Keys : SF_checkoutVars(Expire(k))
FairCheckoutSpec == CheckoutSpec /\ CheckoutFairness

-----------------------------------------------------------------------------
(***************************************************************************)
(* Properties                                                              *)
(***************************************************************************)

\* Types of the cart and checkout state; no draft ever has more than one Ttl left,
\* however often it is prolonged.
CheckoutTypeOK ==
  /\ rows \in [Rows -> Quantities]
  /\ cart \in [Shoppers -> CartStates]
  /\ checkout \in [Keys -> CheckoutStates]
  /\ held \in [Keys -> Holdings]
  /\ left \in [Keys -> 0..Ttl] /\ life \in [Keys -> 0..Lifetime]
  /\ inventory \in [Products -> 0..MaxQuantity]
  /\ scanned \subseteq Keys

\* A customer's cart is locked exactly while one of his drafts is open; that
\* draft holds what all rows of the cart still ask for, and a checkout that
\* ended holds nothing.
CartFollowsCheckout ==
  \A k \in Keys :
    /\ checkout[k] = "draft" <=> cart[KeyOf[k]] = k
    /\ checkout[k] = "draft" =>
         \A p \in Products : held[k][p] = Requirement(KeyOf[k], p)
    /\ checkout[k] # "draft" => held[k] = NoLines

\* Whatever carts ask for, and however many rows of a product they have, a new
\* checkout never raises what all checkouts hold of a product above its stock.
NewHoldsFit ==
  [][\A p \in Products : HeldOf(p)' > HeldOf(p) => HeldOf(p)' <= inventory'[p]]_checkoutVars

\* No draft is prolonged for ever: it ends, by its customer or by the command.
DraftsEnd == \A k \in Keys : checkout[k] = "draft" ~> checkout[k] # "draft"

=============================================================================
