----------------------------- MODULE Shop_proofs -----------------------------
(***************************************************************************)
(* Proofs about the standard shop: the cart and its recoverable checkout   *)
(* (module ShopCheckout), then orders, their legacy payments and repair    *)
(* requests (modules ShopOrder and RepairRequest).  The two share no       *)
(* variable; each has an inductive invariant of its own.                   *)
(***************************************************************************)
EXTENDS ShopCheckout, ShopOrder, FiniteSetTheorems, TLAPS

-----------------------------------------------------------------------------
(* The cart and its checkout                                               *)

\* The inductive invariant of the checkout: CartFollowsCheckout needs no more
\* than the types of what it relates.
CheckoutIInv == CheckoutTypeOK /\ CartFollowsCheckout

\* What the rows of a cart ask for is a natural number.
LEMMA RequirementType ==
  ASSUME CheckoutTypeOK, NEW u \in Shoppers, NEW p \in Products
  PROVE  Requirement(u, p) \in Nat
<1>1. RowUnits(u, p) \subseteq Rows \X (1..MaxQuantity)
  <2> SUFFICES ASSUME NEW r \in RowsOf(u), NEW x \in {r} \X (1..rows[r])
               PROVE  x \in Rows \X (1..MaxQuantity)
    BY DEF RowUnits
  <2>1. r \in Rows /\ rows[r] \in 0..MaxQuantity
    BY DEF RowsOf, CheckoutTypeOK, Quantities
  <2>2. 1..rows[r] \subseteq 1..MaxQuantity
    BY <2>1, ShopAssumption
  <2> QED BY <2>1, <2>2
<1>2. IsFiniteSet(1..MaxQuantity)
  <2>1. MaxQuantity \in Int /\ 1 \in Int
    BY ShopAssumption
  <2> QED BY <2>1, FS_Interval
<1>3. IsFiniteSet(Rows \X (1..MaxQuantity))
  BY <1>2, ShopAssumption, FS_Product
<1>4. IsFiniteSet(RowUnits(u, p))
  BY <1>1, <1>3, FS_Subset
<1> QED BY <1>4, FS_CardinalityType DEF Requirement

\* What checkouts hold of a product is finite, each draft's part of it too.
LEMMA HeldUnitsFinite ==
  ASSUME CheckoutTypeOK, NEW p \in Products
  PROVE  IsFiniteSet(HeldUnits(p)) /\ HeldOf(p) \in Nat
<1> DEFINE F == [k \in Keys |-> {k} \X (1..held[k][p])]
<1>1. HeldUnits(p) = UNION {F[k] : k \in Keys}
  BY DEF HeldUnits
<1>2. IsFiniteSet({F[k] : k \in Keys})
  <2>1. F \in Surjection(Keys, {F[k] : k \in Keys})
    BY DEF Surjection
  <2> HIDE DEF F
  <2> QED BY <2>1, ShopAssumption, FS_Surjection
<1>3. \A T \in {F[k] : k \in Keys} : IsFiniteSet(T)
  <2> SUFFICES ASSUME NEW k \in Keys PROVE IsFiniteSet({k} \X (1..held[k][p]))
    OBVIOUS
  <2>1. held[k][p] \in Nat
    BY DEF CheckoutTypeOK, Holdings
  <2>2. IsFiniteSet(1..held[k][p])
    BY <2>1, FS_Interval
  <2> QED BY <2>2, FS_Singleton, FS_Product
<1>4. IsFiniteSet(HeldUnits(p))
  <2> HIDE DEF F
  <2> QED BY <1>1, <1>2, <1>3, FS_UNION
<1> QED BY <1>4, FS_CardinalityType DEF HeldOf

HeldIsCounted == \A p \in Products : HeldOf(p) \in Nat

LEMMA HeldType == CheckoutTypeOK => HeldIsCounted
BY HeldUnitsFinite DEF HeldIsCounted

LEMMA HeldTypeNext == CheckoutTypeOK' => HeldIsCounted'
BY HeldType, PTL

\* Rows of the other carts ask for what they asked before.
LEMMA RequirementStays ==
  ASSUME NEW u \in Shoppers, \A r \in Rows : RowOf[r][1] = u => rows'[r] = rows[r]
  PROVE  \A p \in Products : Requirement(u, p)' = Requirement(u, p)
<1>1. RowsOf(u)' = RowsOf(u) /\ \A r \in RowsOf(u) : rows'[r] = rows[r]
  BY DEF RowsOf
<1>2. \A p \in Products : RowUnits(u, p)' = RowUnits(u, p)
  BY <1>1 DEF RowUnits
<1> QED BY <1>2 DEF Requirement

\* Rows change only in an open cart, which no draft was made of.
LEMMA RowsStep ==
  ASSUME CheckoutIInv, NEW u \in Shoppers, cart[u] = Open,
         rows' \in [Rows -> Quantities],
         \A r \in Rows : RowOf[r][1] # u => rows'[r] = rows[r],
         UNCHANGED <<cart, checkout, held, left, life, inventory, scanned>>
  PROVE  CheckoutIInv'
<1>1. CheckoutTypeOK'
  BY DEF CheckoutIInv, CheckoutTypeOK
<1>2. ASSUME NEW k \in Keys, checkout[k] = "draft", NEW p \in Products
      PROVE  Requirement(KeyOf[k], p)' = Requirement(KeyOf[k], p)
  <2>1. KeyOf[k] \in Shoppers /\ KeyOf[k] # u
    BY <1>2, ShopAssumption DEF CheckoutIInv, CartFollowsCheckout, Open
  <2> QED BY <2>1, RequirementStays
<1>3. CartFollowsCheckout'
  BY <1>2 DEF CheckoutIInv, CartFollowsCheckout
<1> QED BY <1>1, <1>3 DEF CheckoutIInv

LEMMA CartStep ==
  ASSUME CheckoutIInv,
         \/ \E r \in Rows, q \in 0..MaxQuantity : AddToCart(r, q) \/ UpdateItem(r, q)
         \/ \E r \in Rows : DeleteItem(r)
         \/ \E u \in Shoppers : SubmitOrder(u)
  PROVE  CheckoutIInv'
<1>1. rows \in [Rows -> Quantities]
  BY DEF CheckoutIInv, CheckoutTypeOK
<1>2. ASSUME NEW r \in Rows, NEW q \in Quantities, rows' = [rows EXCEPT ![r] = q],
             cart[RowOf[r][1]] = Open,
             UNCHANGED <<cart, checkout, held, left, life, inventory, scanned>>
      PROVE  CheckoutIInv'
  <2>1. RowOf[r][1] \in Shoppers
    BY ShopAssumption
  <2>2. rows' \in [Rows -> Quantities] /\ \A x \in Rows : x # r => rows'[x] = rows[x]
    BY <1>1, <1>2
  <2> QED BY <1>2, <2>1, <2>2, RowsStep
<1>3. ASSUME NEW r \in Rows, NEW q \in 0..MaxQuantity, AddToCart(r, q) \/ UpdateItem(r, q)
      PROVE  CheckoutIInv'
  BY <1>2, <1>3 DEF AddToCart, UpdateItem, Mutable, Quantities
<1>4. ASSUME NEW r \in Rows, DeleteItem(r) PROVE CheckoutIInv'
  BY <1>2, <1>4 DEF DeleteItem, Mutable, Quantities
<1>5. ASSUME NEW u \in Shoppers, SubmitOrder(u) PROVE CheckoutIInv'
  <2>1. rows' = [r \in Rows |-> IF RowOf[r][1] = u THEN Absent ELSE rows[r]]
    BY <1>5 DEF SubmitOrder
  <2>2. rows' \in [Rows -> Quantities]
        /\ \A r \in Rows : RowOf[r][1] # u => rows'[r] = rows[r]
    BY <1>1, <2>1 DEF Quantities
  <2> QED BY <1>5, <2>2, RowsStep DEF SubmitOrder, Mutable
<1> QED BY <1>3, <1>4, <1>5

\* A draft is made of an open cart; its lines are what the cart asks for.
LEMMA CreateStep ==
  ASSUME CheckoutIInv, NEW k \in Keys, CreateCheckout(k)
  PROVE  CheckoutIInv'
<1> DEFINE u == KeyOf[k]
<1>1. /\ checkout[k] = "none" /\ cart[u] = Open /\ u \in Shoppers
      /\ checkout' = [checkout EXCEPT ![k] = "draft"]
      /\ held' = [held EXCEPT ![k] = Lines(u)]
      /\ left' = [left EXCEPT ![k] = Smaller(Ttl, Lifetime)]
      /\ life' = [life EXCEPT ![k] = Lifetime]
      /\ cart' = [cart EXCEPT ![u] = k]
      /\ UNCHANGED <<rows, inventory, scanned>>
  BY ShopAssumption DEF CreateCheckout
<1>2. Lines(u) \in Holdings
  BY <1>1, RequirementType DEF Lines, Holdings, CheckoutIInv
<1>3. Smaller(Ttl, Lifetime) \in 0..Ttl /\ Lifetime \in 0..Lifetime
  BY ShopAssumption DEF Smaller
<1>4. CheckoutTypeOK'
  BY <1>1, <1>2, <1>3 DEF CheckoutIInv, CheckoutTypeOK, CheckoutStates, CartStates
<1>5. \A p \in Products, v \in Shoppers : Requirement(v, p)' = Requirement(v, p)
  BY <1>1, RequirementStays
<1>6. CartFollowsCheckout'
  <2> SUFFICES ASSUME NEW j \in Keys
      PROVE  /\ checkout'[j] = "draft" <=> cart'[KeyOf[j]] = j
             /\ checkout'[j] = "draft" =>
                  \A p \in Products : held'[j][p] = Requirement(KeyOf[j], p)'
             /\ checkout'[j] # "draft" => held'[j] = NoLines
    BY DEF CartFollowsCheckout
  <2>1. CASE j = k
    <3>1. checkout'[k] = "draft" /\ cart'[u] = k /\ held'[k] = Lines(u)
      BY <1>1 DEF CheckoutIInv, CheckoutTypeOK
    <3>2. \A p \in Products : Lines(u)[p] = Requirement(u, p)'
      BY <1>1, <1>5 DEF Lines
    <3> QED BY <2>1, <3>1, <3>2
  <2>2. CASE j # k
    <3>1. checkout'[j] = checkout[j] /\ held'[j] = held[j] /\ KeyOf[j] \in Shoppers
      BY <1>1, <2>2, ShopAssumption DEF CheckoutIInv, CheckoutTypeOK
    <3>2. cart[KeyOf[j]] = j <=> cart'[KeyOf[j]] = j
      BY <1>1, <2>2, <3>1, ShopAssumption DEF CheckoutIInv, CheckoutTypeOK, Open
    <3> QED BY <1>5, <3>1, <3>2 DEF CheckoutIInv, CartFollowsCheckout
  <2> QED BY <2>1, <2>2
<1> QED BY <1>4, <1>6 DEF CheckoutIInv

\* A draft that ends opens the cart that it locked, and no other.
LEMMA EndStep ==
  ASSUME CheckoutIInv, NEW k \in Keys, NEW as \in {"canceled", "expired"},
         checkout[k] = "draft", End(k, as), scanned' \subseteq scanned
  PROVE  CheckoutIInv'
<1> DEFINE u == KeyOf[k]
<1>1. /\ checkout' = [checkout EXCEPT ![k] = as] /\ held' = [held EXCEPT ![k] = NoLines]
      /\ left' = [left EXCEPT ![k] = 0] /\ life' = [life EXCEPT ![k] = 0]
      /\ cart' = [cart EXCEPT ![u] = Open] /\ u \in Shoppers /\ cart[u] = k
      /\ UNCHANGED <<rows, inventory>>
  BY ShopAssumption DEF End, CheckoutIInv, CartFollowsCheckout
<1>2. NoLines \in Holdings /\ 0 \in 0..Ttl /\ 0 \in 0..Lifetime
  BY ShopAssumption DEF NoLines, Holdings
<1>3. CheckoutTypeOK'
  BY <1>1, <1>2 DEF CheckoutIInv, CheckoutTypeOK, CheckoutStates, CartStates
<1>4. \A p \in Products, v \in Shoppers : Requirement(v, p)' = Requirement(v, p)
  BY <1>1, RequirementStays
<1>5. CartFollowsCheckout'
  <2> SUFFICES ASSUME NEW j \in Keys
      PROVE  /\ checkout'[j] = "draft" <=> cart'[KeyOf[j]] = j
             /\ checkout'[j] = "draft" =>
                  \A p \in Products : held'[j][p] = Requirement(KeyOf[j], p)'
             /\ checkout'[j] # "draft" => held'[j] = NoLines
    BY DEF CartFollowsCheckout
  <2>1. CASE j = k
    <3>1. checkout'[k] = as /\ cart'[u] = Open /\ held'[k] = NoLines
      BY <1>1 DEF CheckoutIInv, CheckoutTypeOK
    <3> QED BY <2>1, <3>1, ShopAssumption DEF Open
  <2>2. CASE j # k
    <3>1. checkout'[j] = checkout[j] /\ held'[j] = held[j] /\ KeyOf[j] \in Shoppers
      BY <1>1, <2>2, ShopAssumption DEF CheckoutIInv, CheckoutTypeOK
    <3>2. cart[KeyOf[j]] = j <=> cart'[KeyOf[j]] = j
      BY <1>1, <2>2, <3>1, ShopAssumption DEF CheckoutIInv, CheckoutTypeOK, Open
    <3> QED BY <1>4, <3>1, <3>2 DEF CheckoutIInv, CartFollowsCheckout
  <2> QED BY <2>1, <2>2
<1> QED BY <1>3, <1>5 DEF CheckoutIInv

\* Steps that only move time, stock or what the command has read.
LEMMA OtherStep ==
  ASSUME CheckoutIInv, UNCHANGED <<rows, cart, checkout, held>>,
         left' \in [Keys -> 0..Ttl], life' \in [Keys -> 0..Lifetime],
         inventory' \in [Products -> 0..MaxQuantity], scanned' \subseteq Keys
  PROVE  CheckoutIInv'
<1>1. CheckoutTypeOK'
  BY DEF CheckoutIInv, CheckoutTypeOK
<1>2. \A p \in Products, u \in Shoppers : Requirement(u, p)' = Requirement(u, p)
  BY RequirementStays
<1>3. CartFollowsCheckout'
  BY <1>2, ShopAssumption DEF CheckoutIInv, CartFollowsCheckout
<1> QED BY <1>1, <1>3 DEF CheckoutIInv

LEMMA CheckoutInitIInv == CheckoutInit => CheckoutIInv
<1> SUFFICES ASSUME CheckoutInit PROVE CheckoutIInv
  OBVIOUS
<1>1. CheckoutTypeOK
  BY ShopAssumption DEF CheckoutInit, CheckoutTypeOK, Quantities, CartStates, CheckoutStates,
                        NoLines, Holdings
<1>2. CartFollowsCheckout
  BY ShopAssumption DEF CheckoutInit, CartFollowsCheckout, Open
<1> QED BY <1>1, <1>2 DEF CheckoutIInv

LEMMA CheckoutNextIInv == CheckoutIInv /\ [CheckoutNext]_checkoutVars => CheckoutIInv'
<1> SUFFICES ASSUME CheckoutIInv, [CheckoutNext]_checkoutVars PROVE CheckoutIInv'
  OBVIOUS
<1>1. /\ left \in [Keys -> 0..Ttl] /\ life \in [Keys -> 0..Lifetime]
      /\ inventory \in [Products -> 0..MaxQuantity] /\ scanned \subseteq Keys
  BY DEF CheckoutIInv, CheckoutTypeOK
<1>2. ASSUME NEW k \in Keys, CreateCheckout(k) \/ Touch(k) \/ Cancel(k) PROVE CheckoutIInv'
  <2>1. CASE CreateCheckout(k)
    BY <2>1, CreateStep
  <2>2. CASE Touch(k)
    <3>1. life[k] \in 0..Lifetime /\ Smaller(Ttl, life[k]) \in 0..Ttl
      BY <1>1, ShopAssumption DEF Smaller
    <3>2. left' \in [Keys -> 0..Ttl]
      BY <1>1, <2>2, <3>1 DEF Touch
    <3> QED BY <1>1, <2>2, <3>2, OtherStep DEF Touch
  <2>3. CASE Cancel(k)
    BY <2>3, EndStep DEF Cancel
  <2> QED BY <1>2, <2>1, <2>2, <2>3
<1>3. ASSUME NEW p \in Products, NEW n \in 0..MaxQuantity, EditStock(p, n) PROVE CheckoutIInv'
  BY <1>1, <1>3, OtherStep DEF EditStock
<1>4. CASE Scan \/ Interrupt
  BY <1>1, <1>4, OtherStep DEF Scan, Interrupt
<1>5. CASE Tick
  <2>1. \A k \in Keys : Less(left[k]) \in 0..Ttl /\ Less(life[k]) \in 0..Lifetime
    <3>1. ASSUME NEW m \in Nat, NEW x \in 0..m PROVE Less(x) \in 0..m
      BY DEF Less
    <3>2. Ttl \in Nat /\ Lifetime \in Nat
      BY ShopAssumption
    <3> HIDE DEF Less
    <3> QED BY <1>1, <3>1, <3>2
  <2>2. left' \in [Keys -> 0..Ttl] /\ life' \in [Keys -> 0..Lifetime]
    BY <1>5, <2>1 DEF Tick
  <2> QED BY <1>1, <1>5, <2>2, OtherStep DEF Tick
<1>6. ASSUME NEW k \in Keys, Expire(k) PROVE CheckoutIInv'
  <2>1. scanned' \subseteq scanned
    BY <1>6 DEF Expire
  <2>2. CASE checkout[k] = "draft"
    BY <1>6, <2>1, <2>2, EndStep DEF Expire
  <2>3. CASE checkout[k] # "draft"
    BY <1>1, <1>6, <2>1, <2>3, OtherStep DEF Expire
  <2> QED BY <2>2, <2>3
<1>7. CASE UNCHANGED checkoutVars
  BY <1>1, <1>7, OtherStep DEF checkoutVars
<1>8. CASE Shop
  BY <1>2, <1>3, <1>8, CartStep DEF Shop
<1> QED BY <1>4, <1>5, <1>6, <1>7, <1>8 DEF CheckoutNext

\* The inductive invariant of the checkout holds in every reachable state.
THEOREM CheckoutInvariant == CheckoutSpec => []CheckoutIInv
BY CheckoutInitIInv, CheckoutNextIInv, PTL DEF CheckoutSpec

\* Rows, checkouts, times and stock keep their types.
THEOREM CheckoutTypeCorrect == CheckoutSpec => []CheckoutTypeOK
BY CheckoutInvariant, PTL DEF CheckoutIInv

\* A cart is locked exactly while its draft is open, the draft holds what the
\* rows still ask for, and what ended holds nothing, whenever the expiry command
\* read it.
THEOREM CartLockedByItsDraft == CheckoutSpec => []CartFollowsCheckout
BY CheckoutInvariant, PTL DEF CheckoutIInv

\* Steps that make no checkout hold more of nothing.
LEMMA HeldDoesNotGrow ==
  ASSUME CheckoutTypeOK, NEW p \in Products,
         \A k \in Keys : held'[k] = held[k] \/ held'[k] = NoLines
  PROVE  HeldOf(p)' <= HeldOf(p)
<1>1. \A k \in Keys : held'[k] = held[k] \/ 1..held'[k][p] = {}
  BY DEF NoLines
<1>2. HeldUnits(p)' \subseteq HeldUnits(p)
  BY <1>1 DEF HeldUnits
<1>3. Cardinality(HeldUnits(p)') <= Cardinality(HeldUnits(p))
  BY <1>2, HeldUnitsFinite, FS_Subset
<1> QED BY <1>3 DEF HeldOf, HeldUnits

LEMMA CreateFits ==
  ASSUME CheckoutIInv, NEW k \in Keys, CreateCheckout(k), NEW p \in Products
  PROVE  HeldOf(p)' > HeldOf(p) => HeldOf(p)' <= inventory'[p]
<1> DEFINE u == KeyOf[k]
<1>1. /\ held' = [held EXCEPT ![k] = Lines(u)] /\ u \in Shoppers /\ inventory' = inventory
      /\ held[k] = NoLines
      /\ p \in {RowOf[r][2] : r \in RowsOf(u)} => HeldOf(p) + Lines(u)[p] <= inventory[p]
  BY ShopAssumption DEF CreateCheckout, Sellable, CheckoutIInv, CartFollowsCheckout
<1>2. PICK n \in Nat : n = Lines(u)[p]
  BY <1>1, RequirementType DEF Lines, CheckoutIInv
<1>3. PICK S : S = HeldUnits(p)
  OBVIOUS
<1>4. IsFiniteSet(S) /\ Cardinality(S) = HeldOf(p) /\ HeldOf(p) \in Nat
  BY <1>3, HeldUnitsFinite DEF CheckoutIInv, HeldOf
<1>5. /\ held'[k] = Lines(u) /\ \A j \in Keys \ {k} : held'[j] = held[j]
  BY <1>1 DEF CheckoutIInv, CheckoutTypeOK
<1>6. \A x \in S : x[1] # k
  BY <1>1, <1>3 DEF HeldUnits, NoLines
<1>7. HeldUnits(p)' = S \cup ({k} \X (1..n))
  BY <1>1, <1>2, <1>3, <1>5 DEF HeldUnits, NoLines
<1>8. IsFiniteSet({k} \X (1..n)) /\ Cardinality({k} \X (1..n)) = n
  <2>1. IsFiniteSet(1..n) /\ Cardinality(1..n) = n
    BY FS_Interval
  <2>2. IsFiniteSet({k}) /\ Cardinality({k}) = 1
    BY FS_Singleton
  <2> QED BY <2>1, <2>2, FS_Product
<1>9. S \cap ({k} \X (1..n)) = {}
  BY <1>6
<1>10. Cardinality(S \cup ({k} \X (1..n))) = Cardinality(S) + n - Cardinality({})
  BY <1>4, <1>8, <1>9, FS_Union
<1>11. HeldOf(p)' = HeldOf(p) + n
  BY <1>4, <1>7, <1>10, FS_EmptySet DEF HeldOf
<1>12. CASE p \in {RowOf[r][2] : r \in RowsOf(u)}
  BY <1>1, <1>2, <1>11, <1>12
<1>13. CASE p \notin {RowOf[r][2] : r \in RowsOf(u)}
  <2>1. RowUnits(u, p) = {}
    BY <1>13 DEF RowUnits
  <2>2. Requirement(u, p) = 0
    BY <2>1, FS_EmptySet DEF Requirement
  <2>3. n = 0
    BY <1>2, <2>2 DEF Lines
  <2> QED BY <1>4, <1>11, <2>3
<1> QED BY <1>12, <1>13

\* A new checkout never raises what is held of a product above its stock.
THEOREM HoldsFitStock == CheckoutSpec => NewHoldsFit
<1> DEFINE Fits == \A p \in Products : HeldOf(p)' > HeldOf(p) => HeldOf(p)' <= inventory'[p]
<1>1. CheckoutIInv /\ CheckoutIInv' /\ [CheckoutNext]_checkoutVars => [Fits]_checkoutVars
  <2> SUFFICES ASSUME CheckoutIInv, CheckoutIInv', CheckoutNext, NEW p \in Products,
                      HeldOf(p)' > HeldOf(p)
               PROVE  HeldOf(p)' <= inventory'[p]
    OBVIOUS
  <2>1. ASSUME \A k \in Keys : held'[k] = held[k] \/ held'[k] = NoLines
        PROVE  FALSE
    <3>1. HeldOf(p) \in Nat /\ HeldOf(p)' <= HeldOf(p)
      BY <2>1, HeldDoesNotGrow, HeldUnitsFinite DEF CheckoutIInv
    <3>2. HeldOf(p)' \in Nat
      BY HeldTypeNext DEF CheckoutIInv, HeldIsCounted
    <3> QED BY <3>1, <3>2
  <2>2. \E k \in Keys : CreateCheckout(k)
    <3> SUFFICES ASSUME \A k \in Keys : ~CreateCheckout(k) PROVE FALSE
      OBVIOUS
    <3>1. ASSUME NEW k \in Keys, NEW as, End(k, as)
          PROVE  \A j \in Keys : held'[j] = held[j] \/ held'[j] = NoLines
      BY <3>1 DEF End, CheckoutIInv, CheckoutTypeOK
    <3>2. \/ held' = held \/ \E k \in Keys : \E as \in {"canceled", "expired"} : End(k, as)
      BY DEF CheckoutNext, Shop, AddToCart, UpdateItem, DeleteItem, SubmitOrder, Touch, Cancel,
             EditStock, Scan, Interrupt, Tick, Expire
    <3> QED BY <2>1, <3>1, <3>2
  <2> QED BY <2>2, CreateFits
<1> HIDE DEF Fits
<1>2. CheckoutSpec => [][Fits]_checkoutVars
  BY <1>1, CheckoutInvariant, PTL DEF CheckoutSpec
<1> QED BY <1>2 DEF Fits, NewHoldsFit

-----------------------------------------------------------------------------
(* Repair requests                                                         *)

Made == {r \in Repairs : code[r] > 0}

\* A code was computed for a request that is being made, from the codes there
\* were: by now there are as many or more.
CreationInv ==
  \A r \in Repairs :
    /\ form[r] # {} => code[r] = 0
    /\ number[r] # 0 => form[r] # {} /\ number[r] <= Cardinality(Made) + 1

DeskInv == DeskTypeOK /\ CreationInv /\ RecordsHold

LEMMA MadeFinite ==
  /\ IsFiniteSet(Made) /\ Cardinality(Made) \in Nat
  /\ Cardinality(Made) <= Cardinality(Repairs) /\ Cardinality(Repairs) \in Nat
BY RepairAssumption, FS_Subset, FS_CardinalityType DEF Made

\* A request that is not made leaves room for its code.
LEMMA MadeRoom ==
  ASSUME NEW r \in Repairs \ Made
  PROVE  /\ Cardinality(Made \cup {r}) = Cardinality(Made) + 1
         /\ Cardinality(Made) + 1 <= Cardinality(Repairs)
<1>1. PICK S : S = Made
  OBVIOUS
<1>2. S \cup {r} \subseteq Repairs /\ r \notin S
  BY <1>1 DEF Made
<1>3. Cardinality(S \cup {r}) = Cardinality(S) + 1
  BY <1>1, <1>2, MadeFinite, FS_AddElement
<1>4. Cardinality(S \cup {r}) <= Cardinality(Repairs)
  BY <1>2, RepairAssumption, FS_Subset
<1> QED BY <1>1, <1>3, <1>4

\* While a request is not made, the highest code is the number of those that are.
LEMMA HighestCode ==
  ASSUME DeskInv, NEW r \in Repairs, code[r] = 0
  PROVE  Max({code[q] : q \in Repairs}) = Cardinality(Made)
<1> DEFINE C == {code[q] : q \in Repairs}
<1>1. PICK n \in Nat : n = Cardinality(Made)
  BY MadeFinite
<1>2. {code[q] : q \in Made} = 1..n
  BY <1>1 DEF DeskInv, RecordsHold, Made
<1>3. \A q \in Repairs : code[q] \in Nat
  BY MadeFinite DEF DeskInv, DeskTypeOK
<1>4. C = 0..n
  <2>1. C \subseteq 0..n
    <3> SUFFICES ASSUME NEW q \in Repairs PROVE code[q] \in 0..n
      OBVIOUS
    <3>1. CASE q \in Made
      BY <1>2, <3>1
    <3>2. CASE q \notin Made
      BY <1>3, <3>2 DEF Made
    <3> QED BY <3>1, <3>2
  <2>2. ASSUME NEW i \in 0..n PROVE i \in C
    <3>1. CASE i = 0
      BY <3>1
    <3>2. CASE i # 0
      <4>1. i \in {code[q] : q \in Made}
        BY <1>2, <3>2
      <4> QED BY <4>1 DEF Made
    <3> QED BY <3>1, <3>2
  <2> QED BY <2>1, <2>2
<1> HIDE DEF C
<1>5. \A x \in C : (\A y \in C : x >= y) <=> x = n
  BY <1>4
<1>6. n \in C
  BY <1>4
<1>7. Max(C) = n
  <2>1. Max(C) \in C /\ \A y \in C : Max(C) >= y
    BY <1>5, <1>6 DEF Max
  <2> QED BY <1>5, <2>1
<1> QED BY <1>1, <1>7 DEF C

LEMMA FillStep ==
  ASSUME DeskInv, NEW r \in Repairs, Fill(r) PROVE DeskInv'
<1>1. PICK x \in Forms(offered) : form' = [form EXCEPT ![r] = x]
  BY DEF Fill
<1>2. UNCHANGED <<repair, asked, number, code, items, mirror, stage, newest, offered, deleting>>
      /\ code[r] = 0 /\ form[r] = {}
  BY DEF Fill, places, content, progress, catalogue
<1>3. x \in Forms(Issues) /\ x # {}
  <2>1. offered \subseteq Issues
    BY DEF DeskInv, DeskTypeOK
  <2> QED BY <2>1 DEF Forms
<1>4. DeskTypeOK'
  BY <1>1, <1>2, <1>3 DEF DeskInv, DeskTypeOK
<1>5. CreationInv'
  BY <1>1, <1>2, <1>3 DEF DeskInv, DeskTypeOK, CreationInv, Made
<1>6. RecordsHold'
  BY <1>2 DEF DeskInv, RecordsHold
<1> QED BY <1>4, <1>5, <1>6 DEF DeskInv

LEMMA NumberStep ==
  ASSUME DeskInv, NEW r \in Repairs, Number(r) PROVE DeskInv'
<1>1. /\ form[r] # {} /\ number[r] = 0 /\ code[r] = 0
      /\ number' = [number EXCEPT ![r] = Max({code[q] : q \in Repairs}) + 1]
      /\ UNCHANGED <<repair, asked, form, code, items, mirror, stage, newest, offered, deleting>>
  BY DEF Number, places, content, progress, catalogue, DeskInv, CreationInv
<1>2. number' = [number EXCEPT ![r] = Cardinality(Made) + 1]
  BY <1>1, HighestCode
<1>3. Cardinality(Made) + 1 \in 0..Cardinality(Repairs)
  <2>1. r \notin Made
    BY <1>1 DEF Made
  <2>2. Cardinality(Made) + 1 <= Cardinality(Repairs)
    BY <2>1, MadeRoom
  <2>3. Cardinality(Made) \in Nat /\ Cardinality(Repairs) \in Nat
    BY MadeFinite
  <2> QED BY <2>2, <2>3
<1>4. Cardinality(Made)' = Cardinality(Made)
  BY <1>1 DEF Made
<1>5. DeskTypeOK'
  BY <1>1, <1>2, <1>3 DEF DeskInv, DeskTypeOK
<1>6. CreationInv'
  <2>1. number \in [Repairs -> 0..Cardinality(Repairs)]
    BY DEF DeskInv, DeskTypeOK
  <2> QED BY <1>1, <1>2, <1>4, <2>1, MadeFinite DEF DeskInv, CreationInv
<1>7. RecordsHold'
  BY <1>1 DEF DeskInv, RecordsHold
<1> QED BY <1>5, <1>6, <1>7 DEF DeskInv

\* The code of a new request is the next one, or another request has it already.
LEMMA CreateRepairStep ==
  ASSUME DeskInv, NEW r \in Repairs, Create(r) PROVE DeskInv'
<1>1. /\ number[r] # 0 /\ form[r] # {} /\ code[r] = 0 /\ number[r] <= Cardinality(Made) + 1
      /\ form' = [form EXCEPT ![r] = {}] /\ number' = [number EXCEPT ![r] = 0]
      /\ UNCHANGED <<repair, asked, stage, newest, offered, deleting>>
  BY DEF Create, places, progress, catalogue, DeskInv, CreationInv
<1>2. DeskTypeOK
  BY DEF DeskInv
<1>3. PICK n \in Nat : n = Cardinality(Made)
  BY MadeFinite
<1>4. {code[q] : q \in Made} = 1..n
  BY <1>3 DEF DeskInv, RecordsHold, Made
<1>5. form' \in [Repairs -> Forms(Issues) \cup {{}}] /\ number' \in [Repairs -> 0..Cardinality(Repairs)]
  BY <1>1, <1>2, MadeFinite DEF DeskTypeOK
<1>6. CASE ~Creatable(r)
  <2>1. UNCHANGED <<code, items, mirror>>
    BY <1>6 DEF Create, content
  <2>2. DeskTypeOK' /\ RecordsHold'
    BY <1>1, <1>5, <2>1 DEF DeskInv, DeskTypeOK, RecordsHold
  <2>3. CreationInv'
    BY <1>1, <1>2, <2>1 DEF DeskInv, DeskTypeOK, CreationInv, Made
  <2> QED BY <2>2, <2>3 DEF DeskInv
<1>7. CASE Creatable(r)
  <2>1. /\ code' = [code EXCEPT ![r] = number[r]]
        /\ items' = [items EXCEPT ![r] = form[r]]
        /\ mirror' = [mirror EXCEPT ![r] = Troubles(form[r])]
        /\ number[r] \notin {code[q] : q \in Repairs} /\ Troubles(form[r]) \subseteq offered
    BY <1>7 DEF Create, Creatable
  <2>2. number[r] = n + 1
    <3>1. number[r] \in Nat \ {0} /\ number[r] <= n + 1
      BY <1>1, <1>2, <1>3, MadeFinite DEF DeskTypeOK
    <3>2. number[r] \notin 1..n
      BY <1>4, <2>1 DEF Made
    <3> QED BY <3>1, <3>2
  <2>3. Made' = Made \cup {r} /\ r \notin Made
    BY <1>1, <1>2, <2>1, <2>2 DEF Made, DeskTypeOK
  <2>4. Cardinality(Made') = n + 1
    BY <1>3, <2>3, MadeRoom
  <2>5. code'[r] = n + 1 /\ \A q \in Repairs \ {r} : code'[q] = code[q]
    BY <1>2, <2>1, <2>2 DEF DeskTypeOK
  <2>6. {code'[q] : q \in Made'} = 1..(n + 1)
    <3>1. {code'[q] : q \in Made'} = {code[q] : q \in Made} \cup {n + 1}
      BY <2>3, <2>5 DEF Made
    <3>2. 1..(n + 1) = (1..n) \cup {n + 1}
      OBVIOUS
    <3> QED BY <1>4, <3>1, <3>2
  <2>7. form[r] \in SUBSET RepairItems /\ Troubles(form[r]) \in SUBSET Issues
    <3>1. form[r] \in Forms(Issues) /\ offered \subseteq Issues
      BY <1>1, <1>2 DEF DeskTypeOK
    <3> QED BY <2>1, <3>1 DEF Forms, RepairItems
  <2>8. DeskTypeOK'
    BY <1>1, <1>2, <1>5, <2>1, <2>7 DEF DeskTypeOK
  <2>9. CreationInv'
    <3>1. \A q \in Repairs \ {r} : number'[q] = number[q] /\ form'[q] = form[q] /\ number[q] \in Nat
      BY <1>1, <1>2, MadeFinite DEF DeskTypeOK
    <3>2. number'[r] = 0 /\ form'[r] = {}
      BY <1>1, <1>2 DEF DeskTypeOK
    <3> QED BY <1>3, <2>4, <2>5, <3>1, <3>2 DEF DeskInv, CreationInv
  <2>10. RecordsHold'
    <3>1. \A q \in Repairs : mirror'[q] = Troubles(items'[q]) /\ mirror'[q] \subseteq offered'
      <4>1. items'[r] = form[r] /\ mirror'[r] = Troubles(form[r])
        BY <1>2, <2>1 DEF DeskTypeOK
      <4>2. \A q \in Repairs \ {r} : items'[q] = items[q] /\ mirror'[q] = mirror[q]
        BY <1>2, <2>1 DEF DeskTypeOK
      <4> QED BY <1>1, <2>1, <4>1, <4>2 DEF DeskInv, RecordsHold
    <3>2. \A q \in Repairs : stage'[q] # "submitted" => newest'[q] = stage'[q]
      BY <1>1 DEF DeskInv, RecordsHold
    <3> QED BY <2>4, <2>6, <3>1, <3>2 DEF RecordsHold, Made
  <2> QED BY <2>8, <2>9, <2>10 DEF DeskInv
<1> QED BY <1>6, <1>7

LEMMA SlotStep ==
  ASSUME DeskInv, NEW r \in Repairs, NEW s \in Slots, AskSlot(r, s) \/ ReserveSlot(r, s)
  PROVE  DeskInv'
<1>1. UNCHANGED <<form, number, code, items, mirror, newest, offered, deleting>>
      /\ \/ stage' = stage \/ stage' = [stage EXCEPT ![r] = "submitted"]
  BY DEF AskSlot, ReserveSlot, creation, content, progress, catalogue
<1>2. /\ repair' \in [Repairs -> Slots \cup {None}] /\ asked' \in [Repairs -> SUBSET Slots]
      /\ stage' \in [Repairs -> Stages]
  BY DEF AskSlot, ReserveSlot, DeskInv, DeskTypeOK, Stages, creation, content, progress, catalogue
<1>3. DeskTypeOK' /\ CreationInv'
  BY <1>1, <1>2 DEF DeskInv, DeskTypeOK, CreationInv, Made
<1>4. RecordsHold'
  <2>1. \A q \in Repairs : stage'[q] # "submitted" => newest'[q] = stage'[q]
    BY <1>1 DEF DeskInv, DeskTypeOK, RecordsHold
  <2> QED BY <1>1, <2>1 DEF DeskInv, RecordsHold
<1> QED BY <1>3, <1>4 DEF DeskInv

LEMMA StaffStep ==
  ASSUME DeskInv, Staff(Repairs \cap cast) PROVE DeskInv'
<1>1. ASSUME NEW r \in Repairs, NEW to \in Stages, MoveOn(r, to) PROVE DeskInv'
  <2>1. /\ UNCHANGED <<repair, asked, form, number, code, items, mirror, offered, deleting>>
        /\ stage' = [stage EXCEPT ![r] = to] /\ newest' = [newest EXCEPT ![r] = to]
    BY <1>1 DEF MoveOn, places, creation, content, catalogue
  <2>2. DeskTypeOK' /\ CreationInv'
    BY <2>1 DEF DeskInv, DeskTypeOK, CreationInv, Made, Newest
  <2>3. \A q \in Repairs : stage'[q] # "submitted" => newest'[q] = stage'[q]
    BY <2>1 DEF DeskInv, DeskTypeOK, RecordsHold
  <2>4. RecordsHold'
    BY <2>1, <2>3 DEF DeskInv, RecordsHold
  <2> QED BY <2>2, <2>4 DEF DeskInv
<1>2. ASSUME NEW i \in Issues, FindUnused(i) PROVE DeskInv'
  <2>1. UNCHANGED <<repair, asked, form, number, code, items, mirror, stage, newest, offered>>
        /\ deleting' = deleting \cup {i}
    BY <1>2 DEF FindUnused, places, creation, content, progress
  <2> QED BY <2>1 DEF DeskInv, DeskTypeOK, CreationInv, Made, RecordsHold
<1>3. ASSUME NEW i \in Issues, DeleteIssue(i) PROVE DeskInv'
  <2>1. /\ UNCHANGED <<repair, asked, form, number, code, stage, newest>>
        /\ deleting' = deleting \ {i} /\ offered' = offered \ {i}
        /\ items' = [r \in Repairs |-> {row \in items[r] : row[2] # i}]
        /\ mirror' = [r \in Repairs |-> mirror[r] \ {i}]
    BY <1>3 DEF DeleteIssue, Cascade, places, creation, progress
  <2>2. DeskTypeOK' /\ CreationInv'
    BY <2>1 DEF DeskInv, DeskTypeOK, CreationInv, Made
  <2>3. \A q \in Repairs : mirror'[q] = Troubles(items'[q]) /\ mirror'[q] \subseteq offered'
    BY <2>1 DEF DeskInv, RecordsHold, Troubles
  <2>4. UNCHANGED <<code, stage, newest>>
    BY <2>1
  <2>5. RecordsHold'
    BY <2>3, <2>4 DEF DeskInv, RecordsHold
  <2> QED BY <2>2, <2>5 DEF DeskInv
<1> QED BY <1>1, <1>2, <1>3 DEF Staff

\* Requests that exist already have the first codes, each its own.
LEMMA DeskInitInv == DeskInit => DeskInv
<1> SUFFICES ASSUME DeskInit PROVE DeskInv
  OBVIOUS
<1>1. PICK n \in Nat : n = Cardinality(Existing)
  BY RepairAssumption, FS_Subset, FS_CardinalityType
<1>2. /\ code \in [Repairs -> 0..n] /\ \A r \in Repairs : code[r] > 0 <=> r \in Existing
      /\ \A r, q \in Existing : code[r] = code[q] => r = q
  BY <1>1 DEF DeskInit
<1>3. Made = Existing /\ IsFiniteSet(Existing) /\ n <= Cardinality(Repairs)
      /\ Cardinality(Repairs) \in Nat
  BY <1>1, <1>2, RepairAssumption, MadeFinite DEF Made
<1>4. {code[r] : r \in Existing} = 1..n
  <2> DEFINE f == [r \in Existing |-> code[r]]
             C == {code[r] : r \in Existing}
  <2>1. C \subseteq 1..n
    BY <1>2, RepairAssumption
  <2>2. ExistsBijection(Existing, C)
    <3>1. f \in [Existing -> C] /\ \A x \in C : \E r \in Existing : f[r] = x
      OBVIOUS
    <3>2. \A r, q \in Existing : f[r] = f[q] => r = q
      BY <1>2
    <3> HIDE DEF f, C
    <3>3. f \in Bijection(Existing, C)
      BY <3>1, <3>2 DEF Bijection, Injection, Surjection, IsInjective
    <3> QED BY <3>3 DEF ExistsBijection
  <2>3. IsFiniteSet(1..n) /\ Cardinality(1..n) = n
    BY FS_Interval
  <2> HIDE DEF f, C
  <2>4. Cardinality(C) = n /\ IsFiniteSet(C)
    BY <1>1, <1>3, <2>2, FS_Bijection
  <2>5. C = 1..n
    BY <2>1, <2>3, <2>4, FS_Subset
  <2> QED BY <2>5 DEF C
<1>5. DeskTypeOK
  BY <1>2, <1>3, RepairAssumption DEF DeskInit, DeskTypeOK, Stages, Newest, Forms
<1>6. CreationInv
  BY DEF DeskInit, CreationInv
<1>7. RecordsHold
  BY <1>1, <1>3, <1>4 DEF DeskInit, RecordsHold, Made, Troubles
<1> QED BY <1>5, <1>6, <1>7 DEF DeskInv

-----------------------------------------------------------------------------
(* Orders and their transactions                                           *)

RequestCalls == [kind : {"request"}, tx : Transactions, answer : {None, "url", "error"}]
VerifyCalls ==
  [kind : {"verify"}, tx : Transactions, answer : {None, "error", "paid", "unpaid"}]

\* Values of the variables, and of what a call remembers.
OrderValues ==
  /\ payment \in [Orders -> PaymentStates]
  /\ status \in [Transactions -> TransactionStates]
  /\ evidence \subseteq Transactions /\ denied \subseteq Transactions
  /\ page \in [Transactions -> {None, "open", "paid"}]
  /\ call \in [Calls -> {Idle} \cup RequestCalls \cup VerifyCalls]

Others(t) == {u \in Transactions \ {t} : OrderOf[u] = OrderOf[t]}

\* One transaction of an order is live, and none when the order is paid: then
\* one is paid.
TransactionInv ==
  \A t \in Transactions :
    /\ status[t] \in Live =>
         payment[OrderOf[t]] # "paid" /\ \A u \in Others(t) : status[u] \notin Live
    /\ status[t] = "paid" =>
         payment[OrderOf[t]] = "paid" /\ \A u \in Others(t) : status[u] # "paid"
    /\ status[t] = "paid" \/ t \in evidence => page[t] = "paid"
    /\ status[t] = None => page[t] = None

PaidInv ==
  \A o \in Orders : payment[o] = "paid" =>
    \E t \in Transactions : OrderOf[t] = o /\ status[t] = "paid"

\* What a call has found stays so while the order is locked: nothing live beside
\* the transaction it will create, or the one it verifies not final yet; an
\* answer "paid" is true; and no other call is at the same order.
CallInv ==
  \A c \in Calls :
    /\ call[c] \in RequestCalls =>
         /\ status[call[c].tx] = None /\ payment[OrderOf[call[c].tx]] # "paid"
         /\ \A u \in Others(call[c].tx) : status[u] \notin Live
    /\ call[c] \in VerifyCalls =>
         /\ status[call[c].tx] \in {"pending", "callback"}
         /\ call[c].answer = "paid" => page[call[c].tx] = "paid"
    /\ \A b \in Calls \ {c} :
         call[c] # Idle /\ call[b] # Idle => OrderOf[call[b].tx] # OrderOf[call[c].tx]

PaymentInv == OrderValues /\ TransactionInv /\ PaidInv /\ CallInv

\* The states of a transaction, and what a call is, are told apart.
LEMMA Kinds ==
  /\ None \notin {"pending", "callback", "review", "paid", "failed", "open", "error", "url",
                  "unpaid"}
  /\ \A x \in RequestCalls : x.kind = "request" /\ x.tx \in Transactions
  /\ \A x \in VerifyCalls : x.kind = "verify" /\ x.tx \in Transactions
  /\ Idle.kind = "idle" /\ Idle \notin RequestCalls \cup VerifyCalls
BY OrderAssumption DEF RequestCalls, VerifyCalls, Idle, Live

\* A call that is not idle: what it is about.
LEMMA BusyCall ==
  ASSUME PaymentInv, NEW c \in Calls, call[c] # Idle
  PROVE  /\ call[c] \in RequestCalls \cup VerifyCalls
         /\ call[c].tx \in Transactions /\ OrderOf[call[c].tx] \in Orders
<1>1. call[c] \in RequestCalls \cup VerifyCalls
  BY DEF PaymentInv, OrderValues
<1>2. call[c].tx \in Transactions
  BY <1>1, Kinds
<1> QED BY <1>1, <1>2, OrderAssumption

\* An order that no call is at.
LEMMA Unlocked ==
  ASSUME PaymentInv, NEW o \in Orders, o \notin Locked, NEW c \in Calls, call[c] # Idle
  PROVE  OrderOf[call[c].tx] # o
<1>1. call[c].kind = "request" \/ call[c].kind = "verify"
  BY BusyCall, Kinds
<1>2. c \in Asking("request") \cup Asking("verify")
  BY <1>1 DEF Asking
<1> QED BY <1>2 DEF Locked, OrdersOf

\* An order is submitted: it was nothing before, and has no payment.
LEMMA SubmitStep ==
  ASSUME PaymentInv, NEW o \in Orders, Submit(o) PROVE PaymentInv'
<1>1. /\ payment' = [payment EXCEPT ![o] = "pending"] /\ payment[o] = None
      /\ UNCHANGED <<page, status, evidence, denied, call>>
  BY DEF Submit, ledger
<1>2. \A x \in Orders : payment'[x] = "paid" <=> payment[x] = "paid"
  BY <1>1, Kinds DEF PaymentInv, OrderValues
<1>3. OrderValues'
  BY <1>1 DEF PaymentInv, OrderValues, PaymentStates
<1>4. TransactionInv' /\ PaidInv'
  BY <1>1, <1>2, OrderAssumption DEF PaymentInv, TransactionInv, PaidInv, Others
<1>5. CallInv'
  <2>1. \A c \in Calls : call[c] \in RequestCalls => OrderOf[call[c].tx] \in Orders
    BY Kinds, OrderAssumption
  <2> QED BY <1>1, <1>2, <2>1 DEF PaymentInv, CallInv, Others
<1> QED BY <1>3, <1>4, <1>5 DEF PaymentInv

\* The customer pays a page that is open.
LEMMA PayStep ==
  ASSUME PaymentInv, NEW t \in Transactions, Pay(t) PROVE PaymentInv'
<1>1. /\ page[t] = "open" /\ page' = [page EXCEPT ![t] = "paid"]
      /\ UNCHANGED <<payment, status, evidence, denied, call>>
  BY DEF Pay, ledger
<1>2. OrderValues'
  BY <1>1 DEF PaymentInv, OrderValues
<1>3. page'[t] = "paid" /\ page[t] # None /\ \A u \in Transactions \ {t} : page'[u] = page[u]
  BY <1>1, Kinds DEF PaymentInv, OrderValues
<1>4. TransactionInv' /\ PaidInv'
  BY <1>1, <1>3 DEF PaymentInv, TransactionInv, PaidInv, Others
<1>5. CallInv'
  <2>1. \A u \in Transactions : page[u] = "paid" => page'[u] = "paid"
    BY <1>3
  <2> QED BY <1>1, <2>1, Kinds DEF PaymentInv, CallInv, Others
<1> QED BY <1>2, <1>4, <1>5 DEF PaymentInv

\* A browser comes back: what it says of a transaction changes no live one into
\* another, and none that a call verifies.
LEMMA CallbackStep ==
  ASSUME PaymentInv, NEW t \in Transactions, Callback(t) PROVE PaymentInv'
<1>1. /\ denied' \subseteq Transactions
      /\ status' = [status EXCEPT ![t] = IF @ = "pending" THEN "callback" ELSE @]
      /\ UNCHANGED <<payment, page, evidence, call>>
  BY DEF Callback, PaymentInv, OrderValues
<1>2. page[t] # None /\ status[t] # None
  BY DEF Callback, PaymentInv, TransactionInv
<1>3. OrderValues'
  BY <1>1 DEF PaymentInv, OrderValues, TransactionStates, Live
<1>4. /\ \A u \in Transactions : status'[u] \in Live <=> status[u] \in Live
      /\ \A u \in Transactions : status'[u] = "paid" <=> status[u] = "paid"
      /\ \A u \in Transactions : status'[u] = None <=> status[u] = None
      /\ \A u \in Transactions : status[u] \in {"pending", "callback"} =>
           status'[u] \in {"pending", "callback"}
  BY <1>1, <1>2, Kinds DEF PaymentInv, OrderValues, Live
<1>5. TransactionInv'
  BY <1>1, <1>4 DEF PaymentInv, TransactionInv, Others
<1>6. PaidInv'
  BY <1>1, <1>4 DEF PaymentInv, PaidInv
<1>7. CallInv'
  <2>1. \A c \in Calls : call[c] \in RequestCalls \cup VerifyCalls => call[c].tx \in Transactions
    BY Kinds
  <2> QED BY <1>1, <1>4, <2>1 DEF PaymentInv, CallInv, Others
<1> QED BY <1>3, <1>5, <1>6, <1>7 DEF PaymentInv

\* A call that only changes what it remembers.
LEMMA CallStep ==
  ASSUME PaymentInv, UNCHANGED <<payment, page, status, evidence, denied>>, NEW c \in Calls,
         NEW x \in {Idle} \cup RequestCalls \cup VerifyCalls, call' = [call EXCEPT ![c] = x],
         x \in RequestCalls =>
           /\ status[x.tx] = None /\ payment[OrderOf[x.tx]] # "paid"
           /\ \A u \in Others(x.tx) : status[u] \notin Live,
         x \in VerifyCalls =>
           /\ status[x.tx] \in {"pending", "callback"}
           /\ x.answer = "paid" => page[x.tx] = "paid",
         \A b \in Calls \ {c} :
           x # Idle /\ call[b] # Idle => OrderOf[call[b].tx] # OrderOf[x.tx]
  PROVE  PaymentInv'
<1>1. OrderValues'
  BY DEF PaymentInv, OrderValues
<1>2. TransactionInv' /\ PaidInv'
  BY DEF PaymentInv, TransactionInv, PaidInv, Others
<1>3. call'[c] = x /\ \A b \in Calls \ {c} : call'[b] = call[b]
  BY DEF PaymentInv, OrderValues
<1>4. CallInv'
  <2> SUFFICES ASSUME NEW b \in Calls
      PROVE  /\ call'[b] \in RequestCalls =>
                  /\ status[call'[b].tx] = None /\ payment[OrderOf[call'[b].tx]] # "paid"
                  /\ \A u \in Others(call'[b].tx) : status[u] \notin Live
             /\ call'[b] \in VerifyCalls =>
                  /\ status[call'[b].tx] \in {"pending", "callback"}
                  /\ call'[b].answer = "paid" => page[call'[b].tx] = "paid"
             /\ \A a \in Calls \ {b} : call'[b] # Idle /\ call'[a] # Idle =>
                  OrderOf[call'[a].tx] # OrderOf[call'[b].tx]
    BY DEF CallInv, Others
  <2>1. CASE b = c
    BY <1>3, <2>1
  <2>2. CASE b # c
    BY <1>3, <2>2 DEF PaymentInv, CallInv
  <2> QED BY <2>1, <2>2
<1> QED BY <1>1, <1>2, <1>4 DEF PaymentInv

\* Payment is requested when no transaction of the order is live, and a
\* verification begins on one that is not final; no call is at the order.
LEMMA BeginStep ==
  ASSUME PaymentInv, NEW c \in Calls, NEW t \in Transactions,
         RequestPayment(c, t) \/ Verify(c, t)
  PROVE  PaymentInv'
<1>1. OrderOf[t] \in Orders /\ OrderOf[t] \notin Locked
  BY OrderAssumption DEF RequestPayment, Verify
<1>2. \A b \in Calls : call[b] # Idle => OrderOf[call[b].tx] # OrderOf[t]
  BY <1>1, Unlocked
<1>3. CASE RequestPayment(c, t)
  <2>1. PICK x : x = [kind |-> "request", tx |-> t, answer |-> None]
    OBVIOUS
  <2>2. x \in RequestCalls /\ x.tx = t /\ x \notin VerifyCalls
    BY <2>1 DEF RequestCalls, VerifyCalls
  <2>3. /\ call' = [call EXCEPT ![c] = x] /\ UNCHANGED <<payment, page, status, evidence, denied>>
        /\ status[t] = None /\ payment[OrderOf[t]] # "paid"
        /\ \A u \in Others(t) : status[u] \notin Live
    BY <1>3, <2>1 DEF RequestPayment, Requestable, TransactionsOf, Others
  <2> QED BY <1>2, <2>2, <2>3, CallStep
<1>4. CASE Verify(c, t)
  <2>1. PICK x : x = [kind |-> "verify", tx |-> t, answer |-> None]
    OBVIOUS
  <2>2. x \in VerifyCalls /\ x.tx = t /\ x \notin RequestCalls /\ x.answer # "paid"
    BY <2>1, Kinds DEF RequestCalls, VerifyCalls
  <2>3. /\ call' = [call EXCEPT ![c] = x] /\ UNCHANGED <<payment, page, status, evidence, denied>>
        /\ status[t] \in {"pending", "callback"}
    BY <1>4, <2>1 DEF Verify, Verifiable
  <2> QED BY <1>2, <2>2, <2>3, CallStep
<1> QED BY <1>3, <1>4

\* What the provider answers: "paid" only of a page that is paid.
LEMMA AnswerStep ==
  ASSUME PaymentInv, NEW c \in Calls, AnswerRequest(c) \/ AnswerVerify(c)
  PROVE  PaymentInv'
<1>1. PICK answers, answer :
        /\ answer \in answers /\ call' = [call EXCEPT ![c].answer = answer]
        /\ \/ call[c].kind = "request" /\ answers = {"url", "error"}
           \/ /\ call[c].kind = "verify"
              /\ answers = {"error", "unpaid"} \cup
                   IF page[call[c].tx] = "paid" /\ call[c].tx \notin denied THEN {"paid"} ELSE {}
        /\ UNCHANGED <<payment, page, status, evidence, denied>>
  BY DEF AnswerRequest, AnswerVerify, Answer
<1>2. call[c] # Idle
  BY <1>1, Kinds
<1>3. PICK t \in Transactions : t = call[c].tx
  BY <1>2, BusyCall
<1>4. PICK x : x = [call[c] EXCEPT !.answer = answer]
  OBVIOUS
<1>5. \A b \in Calls \ {c} : call[b] # Idle => OrderOf[call[b].tx] # OrderOf[t]
  BY <1>2, <1>3 DEF PaymentInv, CallInv
<1>6. CASE call[c] \in RequestCalls
  <2>1. answers = {"url", "error"}
    BY <1>1, <1>6, Kinds
  <2>2. x \in RequestCalls /\ x.tx = t /\ x \notin VerifyCalls
    BY <1>1, <1>3, <1>4, <1>6, <2>1 DEF RequestCalls, VerifyCalls
  <2>3. /\ status[t] = None /\ payment[OrderOf[t]] # "paid"
        /\ \A u \in Others(t) : status[u] \notin Live
    BY <1>3, <1>6 DEF PaymentInv, CallInv
  <2> QED BY <1>1, <1>4, <1>5, <2>2, <2>3, CallStep
<1>7. CASE call[c] \in VerifyCalls
  <2>1. answer \in {"error", "unpaid", "paid"} /\ (answer = "paid" => page[t] = "paid")
    BY <1>1, <1>3, <1>7, Kinds
  <2>2. x \in VerifyCalls /\ x.tx = t /\ x \notin RequestCalls /\ x.answer = answer
    BY <1>3, <1>4, <1>7, <2>1 DEF RequestCalls, VerifyCalls
  <2>3. status[t] \in {"pending", "callback"}
    BY <1>3, <1>7 DEF PaymentInv, CallInv
  <2>4. /\ call' = [call EXCEPT ![c] = x]
        /\ UNCHANGED <<payment, page, status, evidence, denied>>
    BY <1>1, <1>4
  <2>5. x.answer = "paid" => page[x.tx] = "paid"
    BY <2>1, <2>2
  <2> QED BY <1>5, <2>2, <2>3, <2>4, <2>5, CallStep
<1> QED BY <1>2, <1>6, <1>7, BusyCall

\* A call that dies leaves the payments as it found them.
LEMMA DieStep ==
  ASSUME PaymentInv, NEW c \in Calls, Die(c) PROVE PaymentInv'
<1>1. call' = [call EXCEPT ![c] = Idle] /\ UNCHANGED <<payment, page, status, evidence, denied>>
  BY DEF Die
<1> QED BY <1>1, Kinds, CallStep

\* What a call knows about its transaction when it records its answer.
LEMMA CallKnows ==
  ASSUME PaymentInv, NEW c \in Calls, call[c].kind \in {"request", "verify"}
  PROVE  /\ call[c] # Idle
         /\ call[c].tx \in Transactions /\ OrderOf[call[c].tx] \in Orders
         /\ payment[OrderOf[call[c].tx]] # "paid"
         /\ payment[OrderOf[call[c].tx]] \in PaymentStates
         /\ status[call[c].tx] \in {None, "pending", "callback"}
         /\ \A u \in Others(call[c].tx) : status[u] \notin Live /\ status[u] # "paid"
         /\ call[c].kind = "request" => status[call[c].tx] = None
         /\ call[c].answer = "paid" => page[call[c].tx] = "paid"
<1>1. call[c] # Idle
  BY Kinds
<1>2. PICK t \in Transactions : t = call[c].tx /\ OrderOf[t] \in Orders
  BY <1>1, BusyCall
<1>3. payment[OrderOf[t]] # "paid" /\ \A u \in Others(t) : status[u] \notin Live
  BY <1>1, <1>2, BusyCall DEF PaymentInv, CallInv, TransactionInv, Live
<1>4. \A u \in Others(t) : status[u] # "paid"
  BY <1>3 DEF PaymentInv, TransactionInv, Others
<1>5. status[t] \in {None, "pending", "callback"}
  BY <1>1, <1>2, BusyCall DEF PaymentInv, CallInv
<1>6. call[c].answer = "paid" => page[t] = "paid"
  <2>1. call[c] \in RequestCalls => call[c].answer # "paid"
    BY Kinds DEF RequestCalls
  <2> QED BY <1>1, <1>2, <2>1, BusyCall DEF PaymentInv, CallInv
<1>7. call[c].kind = "request" => status[t] = None
  BY <1>1, <1>2, BusyCall, Kinds DEF PaymentInv, CallInv
<1> QED BY <1>1, <1>2, <1>3, <1>4, <1>5, <1>6, <1>7 DEF PaymentInv, OrderValues

\* A call that recorded its answer: its transaction is the order's only live
\* one, and is paid exactly when the order is.
LEMMA RecordStep ==
  ASSUME PaymentInv, NEW c \in Calls, call[c].kind \in {"request", "verify"},
         NEW t \in Transactions, t = call[c].tx,
         NEW s \in {"pending", "review", "paid", "failed"}, NEW p \in PaymentStates,
         s = "paid" <=> p = "paid", s = "paid" => page[t] = "paid",
         status' = [status EXCEPT ![t] = s],
         payment' = [payment EXCEPT ![OrderOf[t]] = p],
         evidence' \subseteq evidence \cup {t}, t \in evidence' => page'[t] = "paid",
         call' = [call EXCEPT ![c] = Idle], denied' = denied,
         page' = page \/ (page' = [page EXCEPT ![t] = "open"] /\ s # "paid")
  PROVE  PaymentInv'
<1>1. /\ call[c] # Idle /\ OrderOf[t] \in Orders /\ payment[OrderOf[t]] # "paid"
      /\ \A u \in Others(t) : status[u] \notin Live /\ status[u] # "paid"
  BY CallKnows
<1>2. OrderValues'
  <2>1. s \in TransactionStates
    BY DEF TransactionStates, Live
  <2> QED BY <2>1 DEF PaymentInv, OrderValues
<1>3. /\ status'[t] = s /\ call'[c] = Idle /\ payment'[OrderOf[t]] = p
      /\ \A u \in Transactions \ {t} : status'[u] = status[u] /\ page'[u] = page[u]
      /\ \A b \in Calls \ {c} : call'[b] = call[b]
      /\ \A o \in Orders \ {OrderOf[t]} : payment'[o] = payment[o]
      /\ s = "paid" => page'[t] = "paid"
  BY <1>1 DEF PaymentInv, OrderValues
<1>4. TransactionInv'
  <2> SUFFICES ASSUME NEW u \in Transactions
      PROVE  /\ status'[u] \in Live =>
                  payment'[OrderOf[u]] # "paid" /\ \A v \in Others(u) : status'[v] \notin Live
             /\ status'[u] = "paid" =>
                  payment'[OrderOf[u]] = "paid" /\ \A v \in Others(u) : status'[v] # "paid"
             /\ status'[u] = "paid" \/ u \in evidence' => page'[u] = "paid"
             /\ status'[u] = None => page'[u] = None
    BY DEF TransactionInv, Others
  <2>1. CASE u = t
    BY <1>1, <1>3, <2>1, Kinds DEF Live, Others
  <2>2. CASE u # t /\ OrderOf[u] # OrderOf[t]
    BY <1>3, <2>2, OrderAssumption DEF PaymentInv, TransactionInv, Others
  <2>3. CASE u # t /\ OrderOf[u] = OrderOf[t]
    BY <1>1, <1>3, <2>3 DEF PaymentInv, TransactionInv, Others
  <2> QED BY <2>1, <2>2, <2>3
<1>5. PaidInv'
  BY <1>1, <1>3 DEF PaymentInv, PaidInv, Others
<1>6. CallInv'
  <2>1. ASSUME NEW b \in Calls \ {c}, call[b] # Idle
        PROVE  /\ call[b].tx \in Transactions \ {t} /\ OrderOf[call[b].tx] \in Orders \ {OrderOf[t]}
               /\ \A u \in Others(call[b].tx) : u # t
    BY <1>1, <2>1, BusyCall DEF PaymentInv, CallInv, Others
  <2> SUFFICES ASSUME NEW b \in Calls
      PROVE  /\ call'[b] \in RequestCalls =>
                  /\ status'[call'[b].tx] = None /\ payment'[OrderOf[call'[b].tx]] # "paid"
                  /\ \A u \in Others(call'[b].tx) : status'[u] \notin Live
             /\ call'[b] \in VerifyCalls =>
                  /\ status'[call'[b].tx] \in {"pending", "callback"}
                  /\ call'[b].answer = "paid" => page'[call'[b].tx] = "paid"
             /\ \A a \in Calls \ {b} : call'[b] # Idle /\ call'[a] # Idle =>
                  OrderOf[call'[a].tx] # OrderOf[call'[b].tx]
    BY DEF CallInv, Others
  <2>2. CASE b = c
    BY <1>3, <2>2, Kinds
  <2>3. CASE b # c
    <3>1. call'[b] = call[b] /\ \A a \in Calls \ {b} : call'[a] # Idle => call'[a] = call[a]
      BY <1>3, <2>3
    <3>2. call[b] \in RequestCalls \cup VerifyCalls => call[b] # Idle
      BY Kinds
    <3> QED BY <1>3, <2>1, <2>3, <3>1, <3>2 DEF PaymentInv, CallInv, Others
  <2> QED BY <2>2, <2>3
<1> QED BY <1>2, <1>4, <1>5, <1>6 DEF PaymentInv

LEMMA ReviewStep ==
  ASSUME PaymentInv, NEW c \in Calls, call[c].kind \in {"request", "verify"}, Review(c),
         call' = [call EXCEPT ![c] = Idle], page' = page, denied' = denied
  PROVE  PaymentInv' /\ Paid' = Paid
<1>1. PICK t \in Transactions : t = call[c].tx
  BY CallKnows
<1>2. /\ status' = [status EXCEPT ![t] = "review"]
      /\ payment' = [payment EXCEPT ![OrderOf[t]] = "pending"]
      /\ evidence' = IF call[c].answer = "paid" THEN evidence \cup {t} ELSE evidence
  BY <1>1, CallKnows DEF Review
<1>3. t \in evidence' => page'[t] = "paid"
  BY <1>1, <1>2, CallKnows DEF PaymentInv, TransactionInv
<1>4. PaymentInv'
  BY <1>1, <1>2, <1>3, RecordStep DEF PaymentStates
<1>5. Paid' = Paid
  BY <1>1, <1>2, CallKnows DEF Paid, PaymentInv, OrderValues
<1> QED BY <1>4, <1>5

LEMMA RecordRequestStep ==
  ASSUME PaymentInv, NEW c \in Calls, RecordRequest(c) PROVE PaymentInv' /\ Paid' = Paid
<1>1. /\ call[c].kind = "request" /\ call' = [call EXCEPT ![c] = Idle] /\ denied' = denied
      /\ \/ Review(c) /\ page' = page
         \/ /\ status' = [status EXCEPT ![call[c].tx] = "pending"]
            /\ page' = [page EXCEPT ![call[c].tx] = "open"] /\ UNCHANGED <<payment, evidence>>
  BY DEF RecordRequest
<1>2. CASE Review(c) /\ page' = page
  BY <1>1, <1>2, ReviewStep
<1>3. CASE ~(Review(c) /\ page' = page)
  <2>1. PICK t \in Transactions : t = call[c].tx /\ status[t] = None
    BY <1>1, CallKnows
  <2>2. PICK p \in PaymentStates : p = payment[OrderOf[t]] /\ p # "paid"
    BY <1>1, <2>1, CallKnows
  <2>3. payment' = [payment EXCEPT ![OrderOf[t]] = p]
    BY <1>1, <1>3, <2>2 DEF PaymentInv, OrderValues
  <2>4. t \notin evidence
    BY <2>1, Kinds DEF PaymentInv, TransactionInv
  <2>5. /\ status' = [status EXCEPT ![t] = "pending"] /\ page' = [page EXCEPT ![t] = "open"]
        /\ evidence' = evidence
    BY <1>1, <1>3, <2>1
  <2>6. PaymentInv'
    BY <1>1, <2>1, <2>2, <2>3, <2>4, <2>5, RecordStep
  <2> QED BY <1>1, <1>3, <2>6 DEF Paid
<1> QED BY <1>2, <1>3

-----------------------------------------------------------------------------
(* Stock, slots and discounts                                              *)

ChoiceValues ==
  /\ slot \in [Orders -> Slots \cup {None}] /\ choosing \in [Orders -> Slots \cup {None}]
  /\ discount \in [Orders -> Discounts \cup {None}] /\ shipping \in [Orders -> BOOLEAN]

UsedOf(h) == {s \in Slots : ScheduleOf[s] = h /\ used[s]}

\* What was taken was there, and was taken for a PAID order.
ResourceInv ==
  /\ quantity \in 0..Stock /\ used \in [Slots -> BOOLEAN]
  /\ remaining \in [Accounts -> Nat] /\ active \subseteq Discounts
  /\ quantity + Cardinality(UnitsOf(Paid)) = Stock
  /\ \A h \in Schedules : Cardinality(UsedOf(h)) <= Capacity[h]

SlotOwnersInv ==
  \A r \in Repairs : repair[r] # None =>
    used[repair[r]] /\ \A q \in Repairs \ {r} : repair[q] # repair[r]

\* The inductive invariant of orders, their payments, and repair requests.
OrderIInv ==
  PaymentInv /\ ChoiceValues /\ ResourceInv /\ SlotOwnersInv /\ DeskInv

LEMMA UnitsFinite ==
  ASSUME NEW S \in SUBSET Orders
  PROVE  IsFiniteSet(UnitsOf(S)) /\ Cardinality(UnitsOf(S)) \in Nat
<1> DEFINE F == [o \in S |-> {o} \X (1..Need[o])]
           T == {F[o] : o \in S}
<1>1. UnitsOf(S) = UNION T
  BY DEF UnitsOf
<1>2. IsFiniteSet(T)
  <2>1. F \in Surjection(S, T)
    BY DEF Surjection
  <2>2. IsFiniteSet(S)
    BY OrderAssumption, FS_Subset
  <2> HIDE DEF F, T
  <2> QED BY <2>1, <2>2, FS_Surjection
<1>3. \A x \in T : IsFiniteSet(x)
  <2> SUFFICES ASSUME NEW o \in S PROVE IsFiniteSet({o} \X (1..Need[o]))
    OBVIOUS
  <2>1. IsFiniteSet(1..Need[o])
    BY OrderAssumption, FS_Interval
  <2> QED BY <2>1, FS_Singleton, FS_Product
<1>4. IsFiniteSet(UnitsOf(S))
  <2> HIDE DEF T
  <2> QED BY <1>1, <1>2, <1>3, FS_UNION
<1> QED BY <1>4, FS_CardinalityType

\* One more paid order, and the units it asks for.
LEMMA UnitsAdded ==
  ASSUME NEW S \in SUBSET Orders, NEW o \in Orders, o \notin S
  PROVE  Cardinality(UnitsOf(S \cup {o})) = Cardinality(UnitsOf(S)) + Need[o]
<1>1. PICK U : U = UnitsOf(S)
  OBVIOUS
<1>2. UnitsOf(S \cup {o}) = U \cup ({o} \X (1..Need[o]))
  BY <1>1 DEF UnitsOf
<1>3. PICK n \in Nat : n = Need[o]
  BY OrderAssumption
<1>4. IsFiniteSet({o} \X (1..n)) /\ Cardinality({o} \X (1..n)) = n
  <2>1. IsFiniteSet(1..n) /\ Cardinality(1..n) = n
    BY FS_Interval
  <2>2. IsFiniteSet({o}) /\ Cardinality({o}) = 1
    BY FS_Singleton
  <2> QED BY <2>1, <2>2, FS_Product
<1>5. U \cap ({o} \X (1..n)) = {}
  BY <1>1 DEF UnitsOf
<1>6. IsFiniteSet(U) /\ Cardinality(U) \in Nat
  BY <1>1, UnitsFinite
<1>7. Cardinality(U \cup ({o} \X (1..n))) = Cardinality(U) + n - Cardinality({})
  BY <1>4, <1>5, <1>6, FS_Union
<1>8. Cardinality(UnitsOf(S \cup {o})) = Cardinality(U) + n
  <2>1. UnitsOf(S \cup {o}) = U \cup ({o} \X (1..n))
    BY <1>2, <1>3
  <2>2. Cardinality(U) + n - Cardinality({}) = Cardinality(U) + n
    BY <1>6, FS_EmptySet
  <2> QED BY <1>7, <2>1, <2>2
<1> QED BY <1>1, <1>3, <1>8

\* A slot that is marked used was used, or its schedule was not full.
LEMMA SlotMarked ==
  ASSUME ResourceInv, NEW s \in Slots, used[s] \/ ~Full(ScheduleOf[s]),
         used' = [used EXCEPT ![s] = TRUE]
  PROVE  /\ used' \in [Slots -> BOOLEAN] /\ used'[s]
         /\ \A x \in Slots : used[x] => used'[x]
         /\ \A h \in Schedules : Cardinality(UsedOf(h)') <= Capacity[h]
<1>1. /\ used' \in [Slots -> BOOLEAN] /\ used'[s]
      /\ \A x \in Slots \ {s} : used'[x] = used[x]
  BY DEF ResourceInv
<1>2. ASSUME NEW h \in Schedules PROVE Cardinality(UsedOf(h)') <= Capacity[h]
  <2>1. PICK S : S = UsedOf(h)
    OBVIOUS
  <2>2. S \in SUBSET Slots /\ Cardinality(S) <= Capacity[h]
    BY <2>1 DEF ResourceInv, UsedOf
  <2>3. CASE used[s] \/ ScheduleOf[s] # h
    <3>1. UsedOf(h)' = S
      BY <1>1, <2>1, <2>3 DEF UsedOf
    <3> QED BY <2>2, <3>1
  <2>4. CASE ~used[s] /\ ScheduleOf[s] = h
    <3>1. UsedOf(h)' = S \cup {s} /\ s \notin S
      BY <1>1, <2>1, <2>4 DEF UsedOf
    <3>2. IsFiniteSet(S)
      BY <2>2, OrderAssumption, FS_Subset
    <3>3. Cardinality(S) \in Nat /\ Cardinality(S \cup {s}) = Cardinality(S) + 1
      BY <3>1, <3>2, FS_AddElement, FS_CardinalityType
    <3>4. ~(Cardinality(S) >= Capacity[h]) /\ Capacity[h] \in Nat
      BY <2>1, <2>4, OrderAssumption DEF Full, UsedOf
    <3> QED BY <3>1, <3>3, <3>4
  <2> QED BY <2>3, <2>4
<1> QED BY <1>1, <1>2

\* Steps that take nothing for a new paid order.
LEMMA ResourcesStay ==
  ASSUME OrderIInv, Paid' = Paid, UNCHANGED <<quantity, used, remaining, repair>>,
         active' \subseteq active
  PROVE  ResourceInv' /\ SlotOwnersInv'
<1>1. UnitsOf(Paid)' = UnitsOf(Paid)
  BY DEF UnitsOf
<1>2. \A x \in Schedules : UsedOf(x)' = UsedOf(x)
  BY DEF UsedOf
<1>3. ResourceInv'
  BY <1>1, <1>2 DEF OrderIInv, ResourceInv
<1>4. SlotOwnersInv'
  BY DEF OrderIInv, SlotOwnersInv
<1> QED BY <1>3, <1>4

\* Everything an order asked for is taken with its payment.
LEMMA TakeStep ==
  ASSUME OrderIInv, NEW o \in Orders, payment[o] # "paid",
         payment' = [payment EXCEPT ![o] = "paid"], Available(o), Take(o), repair' = repair
  PROVE  ResourceInv' /\ SlotOwnersInv'
<1>1. Paid' = Paid \cup {o} /\ o \notin Paid /\ Paid \in SUBSET Orders
  BY DEF Paid, OrderIInv, PaymentInv, OrderValues
<1>2. quantity' \in 0..Stock /\ quantity' + Cardinality(UnitsOf(Paid')) = Stock
  <2>1. Need[o] \in Nat /\ Need[o] <= quantity /\ quantity' = quantity - Need[o]
        /\ quantity \in 0..Stock /\ Stock \in Nat
    BY OrderAssumption DEF Available, StockAvailable, Take, OrderIInv, ResourceInv
  <2>2. PICK n \in Nat : n = Cardinality(UnitsOf(Paid))
    BY <1>1, UnitsFinite
  <2>3. quantity + n = Stock
    BY <2>2 DEF OrderIInv, ResourceInv
  <2>4. Cardinality(UnitsOf(Paid \cup {o})) = n + Need[o]
    BY <1>1, <2>2, UnitsAdded
  <2>5. Cardinality(UnitsOf(Paid')) = n + Need[o]
    BY <1>1, <2>4
  <2> QED BY <2>1, <2>3, <2>5
<1>3. remaining' \in [Accounts -> Nat]
  <2>1. remaining \in [Accounts -> Nat]
    BY DEF OrderIInv, ResourceInv
  <2>2. CASE discount[o] = None
    BY <2>1, <2>2 DEF Take
  <2>3. CASE discount[o] # None
    <3>1. PICK a : a = Account(discount[o], CustomerOf[o])
      OBVIOUS
    <3>2. a \in Accounts
      <4>1. discount[o] \in Discounts
        BY <2>3 DEF OrderIInv, ChoiceValues
      <4> QED BY <3>1, <4>1 DEF Accounts, Customers
    <3>3. remaining[a] > 0 /\ remaining' = [remaining EXCEPT ![a] = @ - 1]
      BY <2>3, <3>1 DEF Available, DiscountAvailable, Valid, Take
    <3> QED BY <2>1, <3>2, <3>3
  <2> QED BY <2>2, <2>3
<1>4. /\ used' \in [Slots -> BOOLEAN] /\ \A x \in Slots : used[x] => used'[x]
      /\ \A x \in Schedules : Cardinality(UsedOf(x)') <= Capacity[x]
  <2>1. CASE slot[o] = None
    <3>1. used' = used /\ \A x \in Schedules : UsedOf(x)' = UsedOf(x)
      BY <2>1 DEF Take, UsedOf
    <3> QED BY <3>1 DEF OrderIInv, ResourceInv
  <2>2. CASE slot[o] # None
    <3>1. PICK s \in Slots : s = slot[o]
      BY <2>2 DEF OrderIInv, ChoiceValues
    <3>2. /\ used[s] \/ ~Full(ScheduleOf[s])
          /\ used' = [used EXCEPT ![s] = TRUE]
      BY <2>2, <3>1 DEF Available, SlotAvailable, Take
    <3> QED BY <3>2, SlotMarked DEF OrderIInv
  <2> QED BY <2>1, <2>2
<1>5. ResourceInv'
  <2>1. active' = active
    BY DEF Take
  <2> QED BY <1>2, <1>3, <1>4, <2>1 DEF OrderIInv, ResourceInv
<1>6. SlotOwnersInv'
  BY <1>4 DEF OrderIInv, SlotOwnersInv, DeskInv, DeskTypeOK
<1> QED BY <1>5, <1>6

LEMMA RecordVerifyStep ==
  ASSUME OrderIInv, NEW c \in Calls, RecordVerify(c), repair' = repair
  PROVE  PaymentInv' /\ ResourceInv' /\ SlotOwnersInv'
<1>1. /\ call[c].kind = "verify" /\ call' = [call EXCEPT ![c] = Idle]
      /\ page' = page /\ denied' = denied
  BY DEF RecordVerify
<1>2. PaymentInv
  BY DEF OrderIInv
<1>3. PICK t \in Transactions : t = call[c].tx
  BY <1>1, <1>2, CallKnows
<1>4. PICK o \in Orders : o = OrderOf[t] /\ payment[o] # "paid"
  BY <1>1, <1>2, <1>3, CallKnows
<1>5. call[c].answer = "paid" => page[t] = "paid"
  BY <1>1, <1>2, <1>3, CallKnows
<1>6. t \in evidence => page[t] = "paid"
  BY <1>2 DEF PaymentInv, TransactionInv
<1>7. \/ Review(c) /\ UNCHANGED resources
      \/ call[c].answer = "paid" /\ Available(o) /\ Take(o) /\ Settle(c, "paid", "paid")
      \/ call[c].answer = "unpaid" /\ Settle(c, "failed", "failed") /\ UNCHANGED resources
  BY <1>3, <1>4, <1>5 DEF RecordVerify, ApplyPaid, ApplyUnpaid
<1>8. CASE Review(c) /\ UNCHANGED resources
  <2>1. PaymentInv' /\ Paid' = Paid
    BY <1>1, <1>2, <1>8, ReviewStep
  <2>2. UNCHANGED <<quantity, used, remaining, active>>
    BY <1>8 DEF resources
  <2> QED BY <2>1, <2>2, ResourcesStay
<1>9. CASE call[c].answer = "paid" /\ Available(o) /\ Take(o) /\ Settle(c, "paid", "paid")
  <2>1. /\ status' = [status EXCEPT ![t] = "paid"]
        /\ payment' = [payment EXCEPT ![o] = "paid"] /\ evidence' = evidence
    BY <1>3, <1>4, <1>9 DEF Settle
  <2>2. PaymentInv'
    BY <1>1, <1>2, <1>3, <1>4, <1>5, <1>6, <1>9, <2>1, RecordStep DEF PaymentStates
  <2> QED BY <1>4, <1>9, <2>1, <2>2, TakeStep
<1>10. CASE call[c].answer = "unpaid" /\ Settle(c, "failed", "failed") /\ UNCHANGED resources
  <2>1. /\ status' = [status EXCEPT ![t] = "failed"]
        /\ payment' = [payment EXCEPT ![o] = "failed"] /\ evidence' = evidence
    BY <1>3, <1>4, <1>10 DEF Settle
  <2>2. PaymentInv'
    BY <1>1, <1>2, <1>3, <1>4, <1>5, <1>6, <2>1, RecordStep DEF PaymentStates
  <2>3. Paid' = Paid
    BY <1>2, <1>4, <2>1 DEF Paid, PaymentInv, OrderValues
  <2>4. UNCHANGED <<quantity, used, remaining, active>>
    BY <1>10 DEF resources
  <2> QED BY <2>2, <2>3, <2>4, ResourcesStay
<1> QED BY <1>7, <1>8, <1>9, <1>10

\* A repair request reserves a slot that nobody uses, or the one it has.
LEMMA ReserveStep ==
  ASSUME OrderIInv, NEW r \in Repairs, NEW s \in Slots, ReserveSlot(r, s),
         UNCHANGED orders
  PROVE  ResourceInv' /\ SlotOwnersInv'
<1>1. /\ repair' = [repair EXCEPT ![r] = s] /\ used' = [used EXCEPT ![s] = TRUE]
      /\ \/ repair[r] = None /\ ~used[s] /\ ~Full(ScheduleOf[s])
         \/ repair[r] = s
      /\ UNCHANGED <<quantity, remaining, active, payment>>
  BY DEF ReserveSlot, orders
<1>2. used[s] \/ ~Full(ScheduleOf[s])
  BY <1>1, OrderAssumption DEF OrderIInv, SlotOwnersInv
<1>3. /\ used' \in [Slots -> BOOLEAN] /\ used'[s] /\ \A x \in Slots : used[x] => used'[x]
      /\ \A x \in Schedules : Cardinality(UsedOf(x)') <= Capacity[x]
  BY <1>1, <1>2, SlotMarked DEF OrderIInv
<1>4. ResourceInv'
  <2>1. UnitsOf(Paid)' = UnitsOf(Paid)
    BY <1>1 DEF UnitsOf, Paid
  <2> QED BY <1>1, <1>3, <2>1 DEF OrderIInv, ResourceInv
<1>5. SlotOwnersInv'
  <2>1. repair'[r] = s /\ \A q \in Repairs \ {r} : repair'[q] = repair[q]
    BY <1>1 DEF OrderIInv, DeskInv, DeskTypeOK
  <2>2. \A q \in Repairs \ {r} : repair[q] # s
    BY <1>1, OrderAssumption DEF OrderIInv, SlotOwnersInv
  <2>3. \A q \in Repairs : repair[q] \in Slots \cup {None}
    BY DEF OrderIInv, DeskInv, DeskTypeOK
  <2> QED BY <1>3, <2>1, <2>2, <2>3 DEF OrderIInv, SlotOwnersInv
<1> QED BY <1>4, <1>5

-----------------------------------------------------------------------------
(* The specification                                                       *)

\* What the desk keeps when it does nothing.
LEMMA DeskStays == DeskInv /\ UNCHANGED desk => DeskInv'
<1> SUFFICES ASSUME DeskInv, UNCHANGED desk PROVE DeskInv'
  OBVIOUS
<1>1. UNCHANGED <<repair, asked, form, number, code, items, mirror, stage, newest, offered, deleting>>
  BY DEF desk, creation, content, progress, catalogue
<1>2. DeskTypeOK' /\ CreationInv'
  BY <1>1 DEF DeskInv, DeskTypeOK, CreationInv, Made
<1>3. RecordsHold'
  BY <1>1 DEF DeskInv, RecordsHold
<1> QED BY <1>2, <1>3 DEF DeskInv

LEMMA PaymentStays ==
  PaymentInv /\ UNCHANGED <<payment, page, status, evidence, denied, call>> => PaymentInv'
BY DEF PaymentInv, OrderValues, TransactionInv, PaidInv, CallInv

LEMMA OrderInitIInv == Init => OrderIInv
<1> SUFFICES ASSUME Init PROVE OrderIInv
  OBVIOUS
<1>1. OrderValues /\ ChoiceValues
  BY OrderAssumption DEF Init, OrderValues, ChoiceValues, PaymentStates, TransactionStates
<1>2. TransactionInv /\ PaidInv /\ CallInv
  BY Kinds DEF Init, TransactionInv, PaidInv, CallInv, Live
<1>3. Paid = {} /\ UnitsOf({}) = {}
  BY Kinds DEF Init, Paid, UnitsOf
<1>4. \A x \in Schedules : UsedOf(x) = {} /\ Capacity[x] \in Nat
  BY OrderAssumption DEF Init, UsedOf
<1>5. ResourceInv
  <2>1. Cardinality({}) = 0
    BY FS_EmptySet
  <2>2. quantity = Stock /\ Stock \in Nat
    BY OrderAssumption DEF Init
  <2>3. quantity \in 0..Stock /\ quantity + Cardinality(UnitsOf(Paid)) = Stock
    <3>1. Cardinality(UnitsOf(Paid)) = 0
      BY <1>3, <2>1
    <3> QED BY <2>2, <3>1
  <2>4. \A x \in Schedules : Cardinality(UsedOf(x)) <= Capacity[x]
    BY <1>4, <2>1
  <2>5. /\ used \in [Slots -> BOOLEAN] /\ remaining \in [Accounts -> Nat]
        /\ active \subseteq Discounts
    BY OrderAssumption DEF Init
  <2> QED BY <2>3, <2>4, <2>5 DEF ResourceInv
<1>6. SlotOwnersInv /\ DeskInv
  BY DeskInitInv DEF Init, DeskInit, SlotOwnersInv
<1> QED BY <1>1, <1>2, <1>5, <1>6 DEF OrderIInv, PaymentInv

\* What customers choose takes nothing.
LEMMA ChooseStep ==
  ASSUME OrderIInv, Choose, UNCHANGED desk PROVE OrderIInv'
<1>1. repair' = repair /\ DeskInv'
  BY DeskStays DEF OrderIInv, desk
<1>2. ASSUME NEW o \in Orders, Submit(o) PROVE OrderIInv'
  <2>1. /\ PaymentInv' /\ payment' = [payment EXCEPT ![o] = "pending"] /\ payment[o] = None
        /\ UNCHANGED <<slot, discount, shipping, choosing, quantity, used, remaining, active>>
    BY <1>2, SubmitStep DEF OrderIInv, Submit, choices, resources
  <2>2. Paid' = Paid
    BY <2>1, Kinds DEF Paid, OrderIInv, PaymentInv, OrderValues
  <2>3. ResourceInv' /\ SlotOwnersInv'
    BY <1>1, <2>1, <2>2, ResourcesStay
  <2> QED BY <1>1, <2>1, <2>3 DEF OrderIInv, ChoiceValues
<1>3. ASSUME UNCHANGED <<payment, page, status, evidence, denied, call, quantity, used, remaining>>,
             active' \subseteq active, ChoiceValues'
      PROVE  OrderIInv'
  <2>1. PaymentInv' /\ Paid' = Paid
    BY <1>3, PaymentStays DEF OrderIInv, Paid
  <2>2. ResourceInv' /\ SlotOwnersInv'
    BY <1>1, <1>3, <2>1, ResourcesStay
  <2> QED BY <1>1, <1>3, <2>1, <2>2 DEF OrderIInv
<1>4. ASSUME NEW o \in Orders, ChooseSlot(o) \/ ChooseShipping(o) \/ (\E s \in Slots : CheckSlot(o, s))
      PROVE  OrderIInv'
  <2>1. ChoiceValues'
    BY <1>4 DEF ChooseSlot, ChooseShipping, CheckSlot, OrderIInv, ChoiceValues
  <2> QED BY <1>3, <1>4, <2>1 DEF ChooseSlot, ChooseShipping, CheckSlot, resources, ledger
<1>5. ASSUME NEW o \in Orders, NEW d \in Discounts, ChooseDiscount(o, d) PROVE OrderIInv'
  <2>1. ChoiceValues'
    BY <1>5 DEF ChooseDiscount, OrderIInv, ChoiceValues
  <2> QED BY <1>3, <1>5, <2>1 DEF ChooseDiscount, resources, ledger
<1>6. ASSUME NEW d \in Discounts, Withdraw(d) PROVE OrderIInv'
  <2>1. ChoiceValues'
    BY <1>6 DEF Withdraw, choices, OrderIInv, ChoiceValues
  <2> QED BY <1>3, <1>6, <2>1 DEF Withdraw, ledger
<1> QED BY <1>2, <1>4, <1>5, <1>6 DEF Choose, Present

\* Steps of a payment; only a recorded verification takes anything.
LEMMA PayOrderStep ==
  ASSUME OrderIInv, PayOrder, UNCHANGED desk PROVE OrderIInv'
<1>1. repair' = repair /\ DeskInv' /\ PaymentInv
  BY DeskStays DEF OrderIInv, desk
<1>2. ASSUME PaymentInv', Paid' = Paid, UNCHANGED <<choices, resources>> PROVE OrderIInv'
  <2>1. UNCHANGED <<slot, discount, shipping, choosing, quantity, used, remaining, active>>
    BY <1>2 DEF choices, resources
  <2>2. ResourceInv' /\ SlotOwnersInv'
    BY <1>1, <1>2, <2>1, ResourcesStay
  <2> QED BY <1>1, <1>2, <2>1, <2>2 DEF OrderIInv, ChoiceValues
<1>3. ASSUME NEW c \in Calls, NEW t \in Transactions, RequestPayment(c, t) \/ Verify(c, t)
      PROVE  OrderIInv'
  <2>1. PaymentInv'
    BY <1>1, <1>3, BeginStep
  <2> QED BY <1>2, <1>3, <2>1 DEF RequestPayment, Verify, Paid
<1>4. ASSUME NEW c \in Calls, AnswerRequest(c) \/ AnswerVerify(c) \/ Die(c) PROVE OrderIInv'
  <2>1. PaymentInv'
    BY <1>1, <1>4, AnswerStep, DieStep
  <2> QED BY <1>2, <1>4, <2>1 DEF AnswerRequest, AnswerVerify, Answer, Die, Paid
<1>5. ASSUME NEW c \in Calls, RecordRequest(c) PROVE OrderIInv'
  BY <1>1, <1>2, <1>5, RecordRequestStep DEF RecordRequest
<1>6. ASSUME NEW c \in Calls, RecordVerify(c) PROVE OrderIInv'
  <2>1. UNCHANGED <<slot, discount, shipping, choosing>>
    BY <1>6 DEF RecordVerify, choices
  <2> QED BY <1>1, <1>6, <2>1, RecordVerifyStep DEF OrderIInv, ChoiceValues
<1>7. ASSUME NEW t \in Transactions, Pay(t) \/ Callback(t) PROVE OrderIInv'
  <2>1. PaymentInv'
    BY <1>1, <1>7, PayStep, CallbackStep
  <2> QED BY <1>2, <1>7, <2>1 DEF Pay, Callback, Paid
<1> QED BY <1>3, <1>4, <1>5, <1>6, <1>7 DEF PayOrder

\* Steps of repair requests, which share nothing with orders but the slots.
LEMMA RepairStep ==
  ASSUME OrderIInv, Repair, UNCHANGED <<orders, cast>> PROVE OrderIInv'
<1>1. UNCHANGED <<payment, page, status, evidence, denied, call, slot, discount, shipping, choosing,
                  quantity, remaining, active>>
  BY DEF orders, choices, ledger
<1>2. PaymentInv' /\ ChoiceValues' /\ Paid' = Paid
  BY <1>1, PaymentStays DEF OrderIInv, ChoiceValues, Paid
<1>3. DeskInv
  BY DEF OrderIInv
<1>4. ASSUME NEW r \in Repairs, Customer(r) PROVE DeskInv'
  BY <1>3, <1>4, FillStep, NumberStep, CreateRepairStep, SlotStep DEF Customer
<1>5. DeskInv'
  BY <1>3, <1>4, StaffStep DEF Repair
<1>6. CASE \E r \in Repairs, s \in Slots : ReserveSlot(r, s)
  BY <1>2, <1>5, <1>6, ReserveStep DEF OrderIInv
<1>7. CASE ~\E r \in Repairs, s \in Slots : ReserveSlot(r, s)
  <2>1. UNCHANGED <<used, repair>>
    BY <1>7 DEF Repair, Customer, Staff, Fill, Number, Create, AskSlot, MoveOn, FindUnused,
                DeleteIssue, places
  <2>2. ResourceInv' /\ SlotOwnersInv'
    BY <1>1, <1>2, <2>1, ResourcesStay
  <2> QED BY <1>2, <1>5, <2>2 DEF OrderIInv
<1> QED BY <1>6, <1>7

LEMMA OrderNextIInv == OrderIInv /\ [Next]_vars => OrderIInv'
<1> SUFFICES ASSUME OrderIInv, [Next]_vars PROVE OrderIInv'
  OBVIOUS
<1>1. CASE UNCHANGED vars
  <2>1. UNCHANGED <<payment, page, status, evidence, denied, call, slot, discount, shipping,
                    choosing, quantity, used, remaining, active, repair, desk>>
    BY <1>1 DEF vars, choices, resources, ledger, desk
  <2>2. PaymentInv' /\ DeskInv' /\ ChoiceValues' /\ Paid' = Paid
    BY <2>1, PaymentStays, DeskStays DEF OrderIInv, ChoiceValues, Paid
  <2>3. ResourceInv' /\ SlotOwnersInv'
    BY <2>1, <2>2, ResourcesStay
  <2> QED BY <2>2, <2>3 DEF OrderIInv
<1>2. CASE Next
  BY <1>2, ChooseStep, PayOrderStep, RepairStep DEF Next
<1> QED BY <1>1, <1>2

\* The inductive invariant of standard orders holds in every reachable state.
THEOREM OrderInvariant == Spec => []OrderIInv
BY OrderInitIInv, OrderNextIInv, PTL DEF Spec

\* Orders, transactions and repair requests keep their types, and neither the
\* stock nor the uses of a discount fall below zero.
THEOREM OrderTypeCorrect == Spec => []TypeOK
<1>1. OrderIInv => TypeOK
  BY DEF OrderIInv, PaymentInv, OrderValues, ChoiceValues, ResourceInv, DeskInv, TypeOK
<1> QED BY <1>1, OrderInvariant, PTL

\* However often a payment is requested, verified and answered, whatever browsers
\* say and whoever dies: no order has two transactions that are live or PAID, a
\* PAID one was truly paid, and each PAID order took its stock once.
THEOREM OrderPaidOnce == Spec => []PaidOnce
<1>1. OrderIInv => PaidOnce
  <2> SUFFICES ASSUME OrderIInv PROVE PaidOnce
    OBVIOUS
  <2>1. ASSUME NEW o \in Orders, NEW t \in TransactionsOf(o), NEW x \in TransactionsOf(o),
               status[t] \in Live \cup {"paid"}, status[x] \in Live \cup {"paid"}
        PROVE  t = x
    <3>1. t \in Transactions /\ x \in Transactions /\ OrderOf[t] = o /\ OrderOf[x] = o
      BY DEF TransactionsOf
    <3>2. t # x => x \in Others(t)
      BY <3>1 DEF Others
    <3> QED BY <2>1, <3>1, <3>2 DEF OrderIInv, PaymentInv, TransactionInv
  <2>4. ASSUME NEW o \in Orders
        PROVE  o \in Paid <=> \E t \in TransactionsOf(o) : status[t] = "paid"
    BY DEF TransactionsOf, Paid, OrderIInv, PaymentInv, PaidInv, TransactionInv
  <2>2. \A t \in Transactions : status[t] = "paid" \/ t \in evidence => page[t] = "paid"
    BY DEF OrderIInv, PaymentInv, TransactionInv
  <2>3. quantity + Cardinality(UnitsOf(Paid)) = Stock
    BY DEF OrderIInv, ResourceInv
  <2> QED BY <2>1, <2>2, <2>3, <2>4 DEF PaidOnce
<1> QED BY <1>1, OrderInvariant, PTL

\* Paid orders and repair requests never overfill a schedule, no slot is
\* reserved twice, and the records of repair requests agree with each other.
THEOREM OrderSlotsHold == Spec => []SlotsHold
<1>1. OrderIInv => SlotsHold
  BY DEF OrderIInv, ResourceInv, SlotOwnersInv, DeskInv, UsedOf, SlotsHold
<1> QED BY <1>1, OrderInvariant, PTL

=============================================================================
