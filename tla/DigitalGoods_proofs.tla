------------------------ MODULE DigitalGoods_proofs -------------------------
(***************************************************************************)
(* The Digital catalogue and the delivery of what it sold, for every set   *)
(* of offers, pools, carts, orders, lines and staff: stock, ledger and     *)
(* holds agree with the views of them; delivery rests on its evidence, and *)
(* its commands implement DeliveryContract within what FulfillmentGuards   *)
(* accepts.                                                                *)
(***************************************************************************)
EXTENDS DigitalCatalog, DigitalFulfillment, FiniteSetTheorems, TLAPS

-----------------------------------------------------------------------------
(* The catalogue                                                           *)

\* Values of the variables; a cart names what it holds.
CatalogValues ==
  /\ product \in Product
  /\ version \in [Versions -> VersionStates]
  /\ offer \in [Offers -> Offer]
  /\ pool \in [Pools -> {"none", "paused", "enabled"}]
  /\ stock \in [Pools -> 0..MaxStock]
  /\ ledger \in [Keys -> Adjustments \cup {Unused}]
  /\ cart \in [Carts -> [state : Selection, offer : Offers \cup {Unused},
                         pool : Pools \cup {Unused}]]
  /\ \A c \in Carts :
       /\ cart[c].state \in {"chosen", "stale", "held", "sold"} => cart[c].offer \in Offers
       /\ cart[c].state \in {"held", "sold"} => cart[c].pool \in Pools

\* An offer has a configuration that was valid, and a pool that exists.
OfferInv ==
  \A o \in Offers :
    /\ Exists(o) \/ offer[o].state = "checked" =>
         /\ offer[o].config \in Configs
         /\ offer[o].config[2] = "PS4" => NativeOf[VersionOf(o)] = "PS4"
    /\ Exists(o) => offer[o].pool \in Pools /\ pool[offer[o].pool] # "none"

\* Only a game is under digital authority, and a pool that does not exist is empty.
AuthorityInv == product.digital => product.game
PoolInv == \A p \in Pools : pool[p] = "none" => stock[p] = 0

\* The inductive invariant of the catalogue.
CatalogIInv ==
  /\ CatalogValues /\ OfferInv /\ AuthorityInv /\ PoolInv
  /\ ActiveIsSellable /\ SharedAlike /\ StockIsAccounted

-----------------------------------------------------------------------------
(* Counting stock                                                          *)

HeldBy(p) == {c \in Carts : cart[c].state = "held" /\ cart[c].pool = p}

LEMMA CatalogCounts ==
  \A p \in Pools :
    /\ IsFiniteSet(HeldBy(p)) /\ IsFiniteSet(Sold(p))
    /\ IsFiniteSet(Added(p)) /\ IsFiniteSet(Removed(p))
    /\ Held(p) = Cardinality(HeldBy(p))
    /\ Held(p) \in Nat /\ Cardinality(Sold(p)) \in Nat
    /\ Cardinality(Added(p)) \in Nat /\ Cardinality(Removed(p)) \in Nat
<1> SUFFICES ASSUME NEW p \in Pools
    PROVE  /\ IsFiniteSet(HeldBy(p)) /\ IsFiniteSet(Sold(p))
           /\ IsFiniteSet(Added(p)) /\ IsFiniteSet(Removed(p))
           /\ Held(p) = Cardinality(HeldBy(p))
           /\ Held(p) \in Nat /\ Cardinality(Sold(p)) \in Nat
           /\ Cardinality(Added(p)) \in Nat /\ Cardinality(Removed(p)) \in Nat
  OBVIOUS
<1>1. HeldBy(p) \in SUBSET Carts /\ Sold(p) \in SUBSET Carts
  BY DEF HeldBy, Sold
<1>2. Added(p) \in SUBSET (Keys \X (1..MaxStock)) /\ Removed(p) \in SUBSET (Keys \X (1..MaxStock))
  BY DEF Added, Removed
<1>3. IsFiniteSet(Keys \X (1..MaxStock))
  <2>1. IsFiniteSet(1..MaxStock)
    BY CatalogAssumption, FS_Interval
  <2> QED BY <2>1, FiniteAssumption, FS_Product
<1>4. /\ IsFiniteSet(HeldBy(p)) /\ IsFiniteSet(Sold(p))
      /\ IsFiniteSet(Added(p)) /\ IsFiniteSet(Removed(p))
  BY <1>1, <1>2, <1>3, FiniteAssumption, FS_Subset
<1>5. Held(p) = Cardinality(HeldBy(p))
  BY DEF Held, HeldBy
<1> QED BY <1>4, <1>5, FS_CardinalityType

AdjustmentsAreCounted ==
  \A p \in Pools : Cardinality(Added(p)) \in Nat /\ Cardinality(Removed(p)) \in Nat

LEMMA AdjustmentCardinality == AdjustmentsAreCounted
BY CatalogCounts DEF AdjustmentsAreCounted

\* The units of an interval, under one key.
LEMMA UnitsUnderKey ==
  ASSUME NEW k \in Keys, NEW d \in Nat, NEW S, IsFiniteSet(S), \A u \in S : u[1] # k
  PROVE  /\ IsFiniteSet(S \cup ({k} \X (1..d)))
         /\ Cardinality(S \cup ({k} \X (1..d))) = Cardinality(S) + d
<1>1. IsFiniteSet(1..d) /\ Cardinality(1..d) = d
  BY FS_Interval
<1>2. IsFiniteSet({k}) /\ Cardinality({k}) = 1
  BY FS_Singleton
<1>3. IsFiniteSet({k} \X (1..d)) /\ Cardinality({k} \X (1..d)) = d
  BY <1>1, <1>2, FS_Product
<1>4. S \cap ({k} \X (1..d)) = {}
  OBVIOUS
<1>5. /\ IsFiniteSet(S \cup ({k} \X (1..d)))
      /\ Cardinality(S \cup ({k} \X (1..d))) = Cardinality(S) + d - Cardinality({})
  BY <1>3, <1>4, FS_Union
<1> QED BY <1>5, FS_EmptySet, FS_CardinalityType

\* What an adjustment does to the units of every pool: its key was unused.
LEMMA AdjustmentCounts ==
  ASSUME CatalogIInv, NEW k \in Keys, NEW p \in Pools, NEW d \in -1..MaxStock, d # 0,
         ledger[k] = Unused, ledger' = [ledger EXCEPT ![k] = <<p, d>>]
  PROVE  /\ ledger' \in [Keys -> Adjustments \cup {Unused}]
         /\ \A q \in Pools \ {p} : Added(q)' = Added(q) /\ Removed(q)' = Removed(q)
         /\ Cardinality(Added(p)') - Cardinality(Removed(p)')
              = Cardinality(Added(p)) - Cardinality(Removed(p)) + d
<1>1. /\ ledger \in [Keys -> Adjustments \cup {Unused}]
      /\ MaxStock \in Nat \ {0} /\ <<p, d>> # Unused /\ <<p, d>> \in Adjustments
  BY CatalogAssumption DEF CatalogIInv, CatalogValues, Unused, Adjustments
<1>2. /\ ledger'[k] = <<p, d>> /\ \A j \in Keys \ {k} : ledger'[j] = ledger[j]
      /\ ledger' \in [Keys -> Adjustments \cup {Unused}]
  BY <1>1
<1>3. ASSUME NEW q \in Pools \ {p}
      PROVE  Added(q)' = Added(q) /\ Removed(q)' = Removed(q)
  BY <1>1, <1>2 DEF Added, Removed
<1>4. /\ \A u \in Added(p) : u[1] # k
      /\ \A u \in Removed(p) : u[1] # k
  BY DEF Added, Removed
<1>5. IsFiniteSet(Added(p)) /\ IsFiniteSet(Removed(p))
      /\ Cardinality(Added(p)) \in Nat /\ Cardinality(Removed(p)) \in Nat
  BY CatalogCounts
<1>6. CASE d > 0
  <2>1. Added(p)' = Added(p) \cup ({k} \X (1..d))
    BY <1>1, <1>2, <1>6 DEF Added
  <2>2. Removed(p)' = Removed(p)
    BY <1>1, <1>2, <1>6 DEF Removed
  <2>3. d \in Nat
    BY <1>6
  <2>4. Cardinality(Added(p)') = Cardinality(Added(p)) + d
    <3> DEFINE S == Added(p)
    <3>1. IsFiniteSet(S) /\ \A u \in S : u[1] # k
      BY <1>4, <1>5
    <3> HIDE DEF S
    <3>2. Cardinality(S \cup ({k} \X (1..d))) = Cardinality(S) + d
      BY <2>3, <3>1, UnitsUnderKey
    <3> QED BY <2>1, <3>2 DEF S
  <2> QED BY <1>2, <1>3, <1>5, <2>2, <2>4
<1>7. CASE d = -1
  <2>1. Removed(p)' = Removed(p) \cup ({k} \X (1..1))
    BY <1>1, <1>2, <1>7 DEF Removed
  <2>2. Added(p)' = Added(p)
    BY <1>1, <1>2, <1>7 DEF Added
  <2>3. Cardinality(Removed(p)') = Cardinality(Removed(p)) + 1
    <3> DEFINE S == Removed(p)
    <3>1. IsFiniteSet(S) /\ \A u \in S : u[1] # k
      BY <1>4, <1>5
    <3> HIDE DEF S
    <3>2. Cardinality(S \cup ({k} \X (1..1))) = Cardinality(S) + 1
      BY <3>1, UnitsUnderKey
    <3> QED BY <2>1, <3>2 DEF S
  <2> QED BY <1>2, <1>3, <1>5, <1>7, <2>2, <2>3
<1> QED BY <1>1, <1>6, <1>7

\* Steps that neither hold, sell nor adjust keep the accounts.
LEMMA AccountsStay ==
  ASSUME CatalogIInv, UNCHANGED <<stock, ledger>>,
         \A c \in Carts : cart[c].state \in {"held", "sold"} \/ cart'[c].state \in {"held", "sold"} =>
           cart'[c] = cart[c]
  PROVE  StockIsAccounted' /\ \A p \in Pools : Held(p)' = Held(p)
<1>1. \A p \in Pools : HeldBy(p)' = HeldBy(p) /\ Sold(p)' = Sold(p)
  BY DEF HeldBy, Sold
<1>2. \A p \in Pools : Added(p)' = Added(p) /\ Removed(p)' = Removed(p)
  BY DEF Added, Removed
<1>3. \A p \in Pools : Held(p)' = Held(p)
  BY <1>1 DEF Held, HeldBy
<1> QED BY <1>1, <1>2, <1>3 DEF CatalogIInv, StockIsAccounted

-----------------------------------------------------------------------------
(* Products and versions                                                   *)

LEMMA OffersStay ==
  ASSUME CatalogIInv, UNCHANGED offer,
         \A p \in Pools : pool[p] # "none" => pool'[p] # "none"
  PROVE  OfferInv' /\ SharedAlike'
BY DEF CatalogIInv, OfferInv, SharedAlike, Sharing, Exists, VersionOf

\* A game with an active offer neither loses its authority nor is announced.
LEMMA ProductStep ==
  ASSUME CatalogIInv,
         \/ ActivateProduct \/ DeactivateProduct
         \/ \E s \in {"published", "hidden"} :
              \/ \E g \in BOOLEAN : UpdateProduct(g, s)
              \/ \E r \in Releases : UpdateMetadata(r, s)
  PROVE  CatalogIInv'
<1>1. UNCHANGED <<version, offer, pool, stock, ledger, cart>>
  BY DEF ActivateProduct, DeactivateProduct, UpdateProduct, UpdateMetadata
<1>2. OfferInv' /\ SharedAlike'
  BY <1>1, OffersStay
<1>3. StockIsAccounted'
  BY <1>1, AccountsStay
<1>4. product \in Product /\ (product.digital => product.game) /\ ActiveIsSellable
  BY DEF CatalogIInv, CatalogValues, AuthorityInv
<1>5. product' \in Product /\ AuthorityInv' /\ ActiveIsSellable'
  <2>1. CASE ActivateProduct
    <3>1. product' = [product EXCEPT !.digital = TRUE] /\ product.game
      BY <2>1 DEF ActivateProduct, ReadyForSale, ReadyForDisplay
    <3> QED BY <1>1, <1>4, <3>1 DEF Product, AuthorityInv, ActiveIsSellable, VersionOf
  <2>2. CASE DeactivateProduct
    <3>1. product' = [product EXCEPT !.digital = FALSE] /\ NoActiveOffer
      BY <2>2 DEF DeactivateProduct
    <3> QED BY <1>1, <1>4, <3>1 DEF Product, AuthorityInv, ActiveIsSellable, NoActiveOffer
  <2>3. ASSUME NEW s \in {"published", "hidden"}, NEW g \in BOOLEAN, UpdateProduct(g, s)
        PROVE  product' \in Product /\ AuthorityInv' /\ ActiveIsSellable'
    <3>1. product' = [product EXCEPT !.game = g, !.status = s] /\ (product.digital => g)
      BY <2>3 DEF UpdateProduct
    <3> QED BY <1>1, <1>4, <3>1 DEF Product, AuthorityInv, ActiveIsSellable, VersionOf
  <2>4. ASSUME NEW s \in {"published", "hidden"}, NEW r \in Releases, UpdateMetadata(r, s)
        PROVE  product' \in Product /\ AuthorityInv' /\ ActiveIsSellable'
    <3>1. /\ product' = [product EXCEPT !.release = r, !.status = s]
          /\ r = "upcoming" => NoActiveOffer
      BY <2>4 DEF UpdateMetadata
    <3> QED BY <1>1, <1>4, <3>1
        DEF Product, AuthorityInv, ActiveIsSellable, NoActiveOffer, VersionOf
  <2> QED BY <2>1, <2>2, <2>3, <2>4
<1>6. CatalogValues' /\ PoolInv'
  BY <1>1, <1>5 DEF CatalogIInv, CatalogValues, PoolInv
<1> QED BY <1>2, <1>3, <1>5, <1>6 DEF CatalogIInv

\* A version with an active offer is not archived.
LEMMA VersionStep ==
  ASSUME CatalogIInv, NEW v \in Versions, CreateVersion(v) \/ ArchiveVersion(v)
  PROVE  CatalogIInv'
<1>1. UNCHANGED <<product, offer, pool, stock, ledger, cart>>
  BY DEF CreateVersion, ArchiveVersion
<1>2. OfferInv' /\ SharedAlike'
  BY <1>1, OffersStay
<1>3. StockIsAccounted'
  BY <1>1, AccountsStay
<1>4. /\ version' \in [Versions -> VersionStates]
      /\ \A w \in Versions : w # v => version'[w] = version[w]
      /\ version'[v] = "active" \/ \A o \in Live : VersionOf(o) # v
  BY DEF CreateVersion, ArchiveVersion, CatalogIInv, CatalogValues, VersionStates
<1>5. ActiveIsSellable'
  <2> SUFFICES ASSUME NEW o \in Offers, offer[o].state = "active"
      PROVE  version'[VersionOf(o)] = "active"
    BY <1>1 DEF CatalogIInv, ActiveIsSellable, VersionOf
  <2>1. o \in Live
    BY DEF Live, Exists, SaleStates
  <2>2. version[VersionOf(o)] = "active" /\ VersionOf(o) \in Versions
    BY <2>1, CatalogAssumption DEF CatalogIInv, ActiveIsSellable, OfferInv, Live, VersionOf
  <2> QED BY <1>4, <2>1, <2>2
<1>6. CatalogValues' /\ PoolInv' /\ AuthorityInv'
  BY <1>1, <1>4 DEF CatalogIInv, CatalogValues, PoolInv, AuthorityInv
<1> QED BY <1>2, <1>3, <1>5, <1>6 DEF CatalogIInv

-----------------------------------------------------------------------------
(* Offers                                                                  *)

LEMMA StaleKeeps ==
  ASSUME CatalogIInv, NEW o \in Offers
  PROVE  /\ Stale(o) \in [Carts -> [state : Selection, offer : Offers \cup {Unused},
                                    pool : Pools \cup {Unused}]]
         /\ \A c \in Carts :
              /\ Stale(o)[c].offer = cart[c].offer /\ Stale(o)[c].pool = cart[c].pool
              /\ \/ Stale(o)[c] = cart[c]
                 \/ cart[c].state = "chosen" /\ Stale(o)[c].state = "stale"
<1>1. ASSUME NEW c \in Carts
      PROVE  /\ Stale(o)[c] \in [state : Selection, offer : Offers \cup {Unused},
                                 pool : Pools \cup {Unused}]
             /\ Stale(o)[c].offer = cart[c].offer /\ Stale(o)[c].pool = cart[c].pool
             /\ \/ Stale(o)[c] = cart[c]
                \/ cart[c].state = "chosen" /\ Stale(o)[c].state = "stale"
  <2>1. cart[c] \in [state : Selection, offer : Offers \cup {Unused}, pool : Pools \cup {Unused}]
    BY DEF CatalogIInv, CatalogValues
  <2>2. Stale(o)[c] = IF cart[c].state = "chosen" /\ cart[c].offer = o
                        THEN [cart[c] EXCEPT !.state = "stale"] ELSE cart[c]
    BY DEF Stale
  <2> QED BY <2>1, <2>2 DEF Selection
<1>2. Stale(o) = [c \in Carts |-> Stale(o)[c]]
  BY DEF Stale
<1> QED BY <1>1, <1>2

\* A step on one offer that leaves the stock alone: what the offer becomes is
\* clean, and goes to a pool that exists.
LEMMA OneOfferStep ==
  ASSUME CatalogIInv, NEW o \in Offers, NEW s \in SaleStates, NEW p \in Pools,
         Exists(o), Clean(o, s, p),
         offer' = [offer EXCEPT ![o].state = s, ![o].pool = p],
         pool' \in [Pools -> {"none", "paused", "enabled"}], pool'[p] # "none",
         \A q \in Pools : pool[q] # "none" => pool'[q] # "none",
         cart' = Stale(o), UNCHANGED <<product, version, stock, ledger>>
  PROVE  CatalogIInv'
<1>1. /\ offer' \in [Offers -> Offer]
      /\ offer'[o].state = s /\ offer'[o].pool = p /\ offer'[o].config = offer[o].config
      /\ \A a \in Offers \ {o} : offer'[a] = offer[a]
  <2>1. offer \in [Offers -> Offer]
    BY DEF CatalogIInv, CatalogValues
  <2>2. [offer[o] EXCEPT !.state = s, !.pool = p] \in Offer
    BY <2>1 DEF Offer
  <2> QED BY <2>1, <2>2 DEF Offer
<1>2. \A a \in Offers : VersionOf(a)' = VersionOf(a) /\ offer'[a].config = offer[a].config
  BY <1>1 DEF VersionOf
<1>3. \A a \in Offers : Exists(a)' <=> Exists(a)
  BY <1>1 DEF Exists
<1>4. OfferInv'
  <2>1. \A a \in Offers \ {o} : offer'[a].state = "checked" <=> offer[a].state = "checked"
    BY <1>1
  <2> QED BY <1>1, <1>2, <1>3, <2>1 DEF CatalogIInv, OfferInv, Exists, SaleStates
<1>5. SharedAlike'
  <2> SUFFICES ASSUME NEW q \in Pools, NEW a \in Sharing(q)', NEW b \in Sharing(q)'
      PROVE  Compatible(offer[a].config, offer[b].config)
    BY <1>2 DEF SharedAlike, Sharing
  <2>1. a \in Offers /\ b \in Offers
    BY DEF Sharing
  <2>2. ASSUME NEW x \in Sharing(q)', x # o PROVE x \in Sharing(q)
    BY <1>1, <1>3, <2>2 DEF Sharing
  <2>3. o \in Sharing(q)' => q = p
    BY <1>1 DEF Sharing
  <2>4. CASE a # o /\ b # o
    BY <2>2, <2>4 DEF CatalogIInv, SharedAlike
  <2>5. CASE a = o /\ b # o
    BY <2>2, <2>3, <2>5 DEF Clean, Compatible
  <2>6. CASE a # o /\ b = o
    BY <2>2, <2>3, <2>6 DEF Clean, Compatible
  <2>7. CASE a = o /\ b = o
    BY <2>7 DEF Compatible
  <2> QED BY <2>4, <2>5, <2>6, <2>7
<1>6. ActiveIsSellable'
  <2>1. ASSUME s = "active"
        PROVE  /\ product.digital /\ product.game /\ version[VersionOf(o)] = "active"
               /\ product.release # "upcoming"
    BY <2>1 DEF Clean, Purchasable, CatalogIInv, AuthorityInv
  <2> QED BY <1>1, <1>2, <2>1 DEF CatalogIInv, ActiveIsSellable
<1>7. StockIsAccounted'
  <2>1. \A c \in Carts : cart[c].state \in {"held", "sold"} \/ cart'[c].state \in {"held", "sold"} =>
           cart'[c] = cart[c]
    BY StaleKeeps
  <2> QED BY <2>1, AccountsStay
<1>8. CatalogValues'
  <2>1. cart' \in [Carts -> [state : Selection, offer : Offers \cup {Unused},
                             pool : Pools \cup {Unused}]]
    BY StaleKeeps
  <2>2. \A c \in Carts :
          /\ cart'[c].state \in {"chosen", "stale", "held", "sold"} => cart'[c].offer \in Offers
          /\ cart'[c].state \in {"held", "sold"} => cart'[c].pool \in Pools
    BY StaleKeeps DEF CatalogIInv, CatalogValues
  <2> QED BY <1>1, <2>1, <2>2 DEF CatalogIInv, CatalogValues
<1>9. PoolInv' /\ AuthorityInv'
  BY DEF CatalogIInv, CatalogValues, PoolInv, AuthorityInv
<1> QED BY <1>4, <1>5, <1>6, <1>7, <1>8, <1>9 DEF CatalogIInv

LEMMA TransitionStep ==
  ASSUME CatalogIInv, NEW o \in Offers, NEW s \in SaleStates, Transition(o, s)
  PROVE  CatalogIInv'
<1>1. offer[o] \in Offer /\ offer[o].pool \in Pools /\ pool[offer[o].pool] # "none"
  BY DEF CatalogIInv, CatalogValues, OfferInv, Transition
<1>2. offer' = [offer EXCEPT ![o].state = s, ![o].pool = offer[o].pool]
  <2>1. [offer[o] EXCEPT !.state = s] = [offer[o] EXCEPT !.state = s, !.pool = offer[o].pool]
    BY <1>1 DEF Offer
  <2> QED BY <2>1 DEF Transition
<1>3. pool' \in [Pools -> {"none", "paused", "enabled"}]
  BY DEF Transition, CatalogIInv, CatalogValues
<1> QED BY <1>1, <1>2, <1>3, OneOfferStep DEF Transition

LEMMA PoolMoveStep ==
  ASSUME CatalogIInv, NEW o \in Offers, NEW p \in Pools, LinkOffer(o, p) \/ MoveOffer(o, p)
  PROVE  CatalogIInv'
<1>1. offer[o] \in Offer /\ Exists(o) /\ offer[o].state \in SaleStates
  BY DEF CatalogIInv, CatalogValues, LinkOffer, MoveOffer, Live, Exists
<1>2. offer' = [offer EXCEPT ![o].state = offer[o].state, ![o].pool = p]
  <2>1. [offer[o] EXCEPT !.pool = p] = [offer[o] EXCEPT !.state = offer[o].state, !.pool = p]
    BY <1>1 DEF Offer
  <2> QED BY <2>1 DEF LinkOffer, MoveOffer
<1>3. /\ pool' \in [Pools -> {"none", "paused", "enabled"}] /\ pool'[p] # "none"
      /\ \A q \in Pools : pool[q] # "none" => pool'[q] # "none"
  BY DEF LinkOffer, MoveOffer, CatalogIInv, CatalogValues
<1> QED BY <1>1, <1>2, <1>3, OneOfferStep DEF LinkOffer, MoveOffer

LEMMA CheckOfferStep ==
  ASSUME CatalogIInv, NEW o \in Offers, NEW c \in Configs, CheckOffer(o, c)
  PROVE  CatalogIInv'
<1>1. /\ offer' = [offer EXCEPT ![o] = [NoOffer EXCEPT !.state = "checked", !.config = c]]
      /\ offer[o] = NoOffer /\ ValidConfig(c)
      /\ UNCHANGED <<product, version, pool, stock, ledger, cart>>
  BY DEF CheckOffer
<1>2. /\ offer' \in [Offers -> Offer] /\ offer'[o].state = "checked" /\ offer'[o].config = c
      /\ \A a \in Offers \ {o} : offer'[a] = offer[a]
  BY <1>1 DEF CatalogIInv, CatalogValues, Offer, NoOffer
<1>3. /\ ~Exists(o) /\ ~Exists(o)'
      /\ \A a \in Offers \ {o} : Exists(a)' <=> Exists(a)
  BY <1>1, <1>2 DEF Exists, NoOffer, SaleStates
<1>4. OfferInv'
  <2>1. offer'[o].config \in Configs /\ (c[2] = "PS4" => NativeOf[VersionOf(o)'] = "PS4")
    BY <1>1, <1>2 DEF ValidConfig, VersionOf
  <2>2. \A a \in Offers \ {o} : VersionOf(a)' = VersionOf(a)
    BY <1>2 DEF VersionOf
  <2> QED BY <1>1, <1>2, <1>3, <2>1, <2>2 DEF CatalogIInv, OfferInv
<1>5. SharedAlike'
  <2>1. \A q \in Pools : \A x \in Sharing(q)' : x \in Sharing(q) /\ offer'[x] = offer[x]
    BY <1>2, <1>3 DEF Sharing
  <2> QED BY <2>1 DEF CatalogIInv, SharedAlike
<1>6. ActiveIsSellable'
  BY <1>1, <1>2 DEF CatalogIInv, ActiveIsSellable, VersionOf
<1>7. StockIsAccounted'
  BY <1>1, AccountsStay
<1>8. CatalogValues' /\ PoolInv' /\ AuthorityInv'
  BY <1>1, <1>2 DEF CatalogIInv, CatalogValues, PoolInv, AuthorityInv
<1> QED BY <1>4, <1>5, <1>6, <1>7, <1>8 DEF CatalogIInv

\* A new offer comes with a pool of its own, and with stock that was booked.
LEMMA CreateOfferStep ==
  ASSUME CatalogIInv, NEW o \in Offers, NEW p \in Pools, NEW k \in Keys, NEW n \in 0..MaxStock,
         CreateOffer(o, p, k, n)
  PROVE  CatalogIInv'
<1>1. /\ offer' = [offer EXCEPT ![o].state = "draft", ![o].pool = p]
      /\ pool' = [pool EXCEPT ![p] = "paused"]
      /\ offer[o].state = "checked" /\ pool[p] = "none"
      /\ UNCHANGED <<product, version, cart>>
  BY DEF CreateOffer
<1>2. /\ offer' \in [Offers -> Offer]
      /\ offer'[o].state = "draft" /\ offer'[o].pool = p /\ offer'[o].config = offer[o].config
      /\ \A a \in Offers \ {o} : offer'[a] = offer[a]
  BY <1>1 DEF CatalogIInv, CatalogValues, Offer, SaleStates
<1>3. /\ \A a \in Offers : VersionOf(a)' = VersionOf(a) /\ offer'[a].config = offer[a].config
      /\ Exists(o)' /\ \A a \in Offers \ {o} : Exists(a)' <=> Exists(a)
  BY <1>1, <1>2 DEF VersionOf, Exists, SaleStates
<1>4. /\ pool' \in [Pools -> {"none", "paused", "enabled"}] /\ pool'[p] = "paused"
      /\ \A q \in Pools \ {p} : pool'[q] = pool[q]
  BY <1>1 DEF CatalogIInv, CatalogValues
<1>5. OfferInv'
  <2>1. \A a \in Offers \ {o} : offer'[a].state = "checked" <=> offer[a].state = "checked"
    BY <1>2
  <2> QED BY <1>1, <1>2, <1>3, <1>4, <2>1 DEF CatalogIInv, OfferInv
<1>6. SharedAlike'
  <2> SUFFICES ASSUME NEW q \in Pools, NEW a \in Sharing(q)', NEW b \in Sharing(q)'
      PROVE  Compatible(offer[a].config, offer[b].config)
    BY <1>3 DEF SharedAlike, Sharing
  <2>1. a \in Offers /\ b \in Offers
    BY DEF Sharing
  <2>2. CASE q = p
    <3>1. \A x \in Offers \ {o} : Exists(x) => offer[x].pool # p
      BY <1>1 DEF CatalogIInv, OfferInv
    <3>2. a = o /\ b = o
      BY <1>2, <1>3, <2>2, <3>1 DEF Sharing
    <3> QED BY <3>2 DEF Compatible
  <2>3. CASE q # p
    <3>1. a \in Sharing(q) /\ b \in Sharing(q)
      BY <1>2, <1>3, <2>3 DEF Sharing
    <3> QED BY <3>1 DEF CatalogIInv, SharedAlike
  <2> QED BY <2>2, <2>3
<1>7. ActiveIsSellable'
  BY <1>1, <1>2, <1>3 DEF CatalogIInv, ActiveIsSellable
<1>8. /\ StockIsAccounted' /\ stock' \in [Pools -> 0..MaxStock]
      /\ ledger' \in [Keys -> Adjustments \cup {Unused}]
      /\ \A q \in Pools \ {p} : stock'[q] = stock[q]
  <2>1. CASE n = 0
    <3>1. UNCHANGED <<stock, ledger>>
      BY <2>1 DEF CreateOffer
    <3> QED BY <1>1, <3>1, AccountsStay DEF CatalogIInv, CatalogValues
  <2>2. CASE n # 0
    <3>1. /\ ledger[k] = Unused /\ stock' = [stock EXCEPT ![p] = n]
          /\ ledger' = [ledger EXCEPT ![k] = <<p, n>>]
      BY <2>2 DEF CreateOffer
    <3>2. stock[p] = 0 /\ stock \in [Pools -> 0..MaxStock]
      BY <1>1 DEF CatalogIInv, PoolInv, CatalogValues
    <3>3. /\ ledger' \in [Keys -> Adjustments \cup {Unused}]
          /\ \A q \in Pools \ {p} : Added(q)' = Added(q) /\ Removed(q)' = Removed(q)
          /\ Cardinality(Added(p)') - Cardinality(Removed(p)')
               = Cardinality(Added(p)) - Cardinality(Removed(p)) + n
      <4>1. n \in -1..MaxStock
        BY CatalogAssumption
      <4> QED BY <2>2, <3>1, <4>1, AdjustmentCounts
    <3>4. \A q \in Pools : Held(q)' = Held(q) /\ Sold(q)' = Sold(q)
      BY <1>1 DEF Held, Sold
    <3>5. /\ Cardinality(Added(p)') \in Nat /\ Cardinality(Removed(p)') \in Nat
      <4>1. AdjustmentsAreCounted'
        BY AdjustmentCardinality, PTL
      <4> QED BY <4>1 DEF AdjustmentsAreCounted
    <3>6. StockIsAccounted'
      <4>1. ASSUME NEW q \in Pools \ {p}
            PROVE  /\ stock'[q] + Cardinality(Sold(q)') + Cardinality(Removed(q)') = Cardinality(Added(q)')
                   /\ Held(q)' <= stock'[q]
        BY <3>1, <3>2, <3>3, <3>4 DEF CatalogIInv, StockIsAccounted
      <4>2. /\ stock'[p] + Cardinality(Sold(p)') + Cardinality(Removed(p)') = Cardinality(Added(p)')
            /\ Held(p)' <= stock'[p]
        <5>1. /\ stock[p] + Cardinality(Sold(p)) + Cardinality(Removed(p)) = Cardinality(Added(p))
              /\ Held(p) <= stock[p] /\ stock'[p] = n
          BY <3>1, <3>2 DEF CatalogIInv, StockIsAccounted
        <5>2. /\ Held(p) \in Nat /\ Cardinality(Sold(p)) \in Nat
              /\ Cardinality(Added(p)) \in Nat /\ Cardinality(Removed(p)) \in Nat
          BY CatalogCounts
        <5> QED BY <3>2, <3>3, <3>4, <3>5, <5>1, <5>2
      <4> QED BY <4>1, <4>2 DEF StockIsAccounted
    <3> QED BY <3>1, <3>2, <3>3, <3>6
  <2> QED BY <2>1, <2>2
<1>9. CatalogValues' /\ PoolInv' /\ AuthorityInv'
  BY <1>1, <1>2, <1>4, <1>8 DEF CatalogIInv, CatalogValues, PoolInv, AuthorityInv
<1> QED BY <1>5, <1>6, <1>7, <1>8, <1>9 DEF CatalogIInv

-----------------------------------------------------------------------------
(* Pools                                                                   *)

LEMMA PoolStep ==
  ASSUME CatalogIInv, NEW o \in Offers, EnablePool(o) \/ PausePool(o)
  PROVE  CatalogIInv'
<1>1. /\ UNCHANGED <<product, version, offer, stock, ledger, cart>>
      /\ pool' \in [Pools -> {"none", "paused", "enabled"}]
      /\ \A p \in Pools : pool'[p] = "none" <=> pool[p] = "none"
  BY DEF EnablePool, PausePool, CatalogIInv, CatalogValues
<1>2. OfferInv' /\ SharedAlike'
  BY <1>1, OffersStay
<1>3. StockIsAccounted'
  BY <1>1, AccountsStay
<1>4. ActiveIsSellable' /\ CatalogValues' /\ PoolInv' /\ AuthorityInv'
  BY <1>1 DEF CatalogIInv, CatalogValues, PoolInv, AuthorityInv, ActiveIsSellable, VersionOf
<1> QED BY <1>2, <1>3, <1>4 DEF CatalogIInv

\* An adjustment takes nothing that a checkout holds.
LEMMA AdjustStep ==
  ASSUME CatalogIInv, NEW k \in Keys, NEW p \in Pools, NEW d \in {-1, 1}, AdjustStock(k, p, d)
  PROVE  CatalogIInv'
<1>1. /\ ledger[k] = Unused /\ ledger' = [ledger EXCEPT ![k] = <<p, d>>]
      /\ stock' = [stock EXCEPT ![p] = @ + d]
      /\ stock[p] + d \in 0..MaxStock /\ stock[p] + d >= Held(p) /\ pool[p] # "none"
      /\ UNCHANGED <<product, version, offer, pool, cart>>
  BY DEF AdjustStock, catalogue
<1>2. /\ stock \in [Pools -> 0..MaxStock] /\ stock' \in [Pools -> 0..MaxStock]
      /\ stock'[p] = stock[p] + d /\ \A q \in Pools \ {p} : stock'[q] = stock[q]
  BY <1>1 DEF CatalogIInv, CatalogValues
<1>3. /\ ledger' \in [Keys -> Adjustments \cup {Unused}]
      /\ \A q \in Pools \ {p} : Added(q)' = Added(q) /\ Removed(q)' = Removed(q)
      /\ Cardinality(Added(p)') - Cardinality(Removed(p)')
           = Cardinality(Added(p)) - Cardinality(Removed(p)) + d
  <2>1. d \in -1..MaxStock /\ d # 0
    BY CatalogAssumption
  <2> QED BY <1>1, <2>1, AdjustmentCounts
<1>4. \A q \in Pools : Held(q)' = Held(q) /\ Sold(q)' = Sold(q)
  BY <1>1 DEF Held, Sold
<1>5. /\ Cardinality(Added(p)') \in Nat /\ Cardinality(Removed(p)') \in Nat
  <2>1. AdjustmentsAreCounted'
    BY AdjustmentCardinality, PTL
  <2> QED BY <2>1 DEF AdjustmentsAreCounted
<1>6. StockIsAccounted'
  <2>1. ASSUME NEW q \in Pools \ {p}
        PROVE  /\ stock'[q] + Cardinality(Sold(q)') + Cardinality(Removed(q)') = Cardinality(Added(q)')
               /\ Held(q)' <= stock'[q]
    BY <1>2, <1>3, <1>4 DEF CatalogIInv, StockIsAccounted
  <2>2. /\ stock'[p] + Cardinality(Sold(p)') + Cardinality(Removed(p)') = Cardinality(Added(p)')
        /\ Held(p)' <= stock'[p]
    <3>1. stock[p] + Cardinality(Sold(p)) + Cardinality(Removed(p)) = Cardinality(Added(p))
      BY DEF CatalogIInv, StockIsAccounted
    <3>2. /\ Held(p) \in Nat /\ Cardinality(Sold(p)) \in Nat
          /\ Cardinality(Added(p)) \in Nat /\ Cardinality(Removed(p)) \in Nat
      BY CatalogCounts
    <3> QED BY <1>1, <1>2, <1>3, <1>4, <1>5, <3>1, <3>2
  <2> QED BY <2>1, <2>2 DEF StockIsAccounted
<1>7. OfferInv' /\ SharedAlike'
  BY <1>1, OffersStay
<1>8. ActiveIsSellable' /\ CatalogValues' /\ PoolInv' /\ AuthorityInv'
  BY <1>1, <1>2, <1>3
     DEF CatalogIInv, CatalogValues, PoolInv, AuthorityInv, ActiveIsSellable, VersionOf
<1> QED BY <1>6, <1>7, <1>8 DEF CatalogIInv

-----------------------------------------------------------------------------
(* Customers                                                               *)

\* What a cart becomes, everything else but the stock being left alone.
LEMMA CartValues ==
  ASSUME CatalogIInv, NEW c \in Carts, UNCHANGED <<product, version, offer, pool, ledger>>,
         stock' \in [Pools -> 0..MaxStock], \A p \in Pools : stock[p] = 0 => stock'[p] = 0,
         NEW row \in [state : Selection, offer : Offers \cup {Unused}, pool : Pools \cup {Unused}],
         row.state \in {"chosen", "stale", "held", "sold"} => row.offer \in Offers,
         row.state \in {"held", "sold"} => row.pool \in Pools,
         cart' = [cart EXCEPT ![c] = row], StockIsAccounted'
  PROVE  CatalogIInv'
<1>1. OfferInv' /\ SharedAlike'
  BY OffersStay
<1>2. /\ cart' \in [Carts -> [state : Selection, offer : Offers \cup {Unused},
                              pool : Pools \cup {Unused}]]
      /\ cart'[c] = row /\ \A b \in Carts \ {c} : cart'[b] = cart[b]
  BY DEF CatalogIInv, CatalogValues
<1>3. CatalogValues'
  <2>1. \A b \in Carts :
          /\ cart'[b].state \in {"chosen", "stale", "held", "sold"} => cart'[b].offer \in Offers
          /\ cart'[b].state \in {"held", "sold"} => cart'[b].pool \in Pools
    BY <1>2 DEF CatalogIInv, CatalogValues
  <2> QED BY <1>2, <2>1 DEF CatalogIInv, CatalogValues
<1>4. ActiveIsSellable' /\ PoolInv' /\ AuthorityInv'
  BY DEF CatalogIInv, CatalogValues, PoolInv, AuthorityInv, ActiveIsSellable, VersionOf
<1> QED BY <1>1, <1>3, <1>4 DEF CatalogIInv

LEMMA ChooseStep ==
  ASSUME CatalogIInv, NEW c \in Carts,
         RemoveItem(c) \/ \E o \in Offers : AddToCart(c, o)
  PROVE  CatalogIInv'
<1>1. UNCHANGED <<product, version, offer, pool, stock, ledger>>
      /\ stock' \in [Pools -> 0..MaxStock]
  BY DEF RemoveItem, AddToCart, catalogue, CatalogIInv, CatalogValues
<1>2. \E row \in [state : Selection, offer : Offers \cup {Unused}, pool : Pools \cup {Unused}] :
        /\ row.state \in {"empty", "chosen"} /\ (row.state = "chosen" => row.offer \in Offers)
        /\ cart' = [cart EXCEPT ![c] = row] /\ cart[c].state \in {"empty", "chosen", "stale"}
  <2>1. CASE RemoveItem(c)
    <3>1. Empty \in [state : Selection, offer : Offers \cup {Unused}, pool : Pools \cup {Unused}]
          /\ Empty.state = "empty"
      BY DEF Empty, Selection
    <3> QED BY <2>1, <3>1 DEF RemoveItem
  <2>2. ASSUME NEW o \in Offers, AddToCart(c, o)
        PROVE  \E row \in [state : Selection, offer : Offers \cup {Unused},
                            pool : Pools \cup {Unused}] :
                 /\ row.state \in {"empty", "chosen"} /\ (row.state = "chosen" => row.offer \in Offers)
                 /\ cart' = [cart EXCEPT ![c] = row] /\ cart[c].state \in {"empty", "chosen", "stale"}
    <3> DEFINE row == [Empty EXCEPT !.state = "chosen", !.offer = o]
    <3>1. /\ row \in [state : Selection, offer : Offers \cup {Unused}, pool : Pools \cup {Unused}]
          /\ row.state = "chosen" /\ row.offer = o
      BY DEF Empty, Selection
    <3>2. cart[c].state = "empty" /\ cart' = [cart EXCEPT ![c] = row]
      <4>1. Empty.state = "empty"
        BY DEF Empty
      <4> QED BY <2>2, <4>1 DEF AddToCart
    <3> HIDE DEF row
    <3> QED BY <3>1, <3>2
  <2> QED BY <2>1, <2>2
<1>3. PICK row \in [state : Selection, offer : Offers \cup {Unused}, pool : Pools \cup {Unused}] :
        /\ row.state \in {"empty", "chosen"} /\ (row.state = "chosen" => row.offer \in Offers)
        /\ cart' = [cart EXCEPT ![c] = row] /\ cart[c].state \in {"empty", "chosen", "stale"}
  BY <1>2
<1>4. StockIsAccounted'
  <2>1. cart'[c] = row /\ \A b \in Carts \ {c} : cart'[b] = cart[b]
    BY <1>3 DEF CatalogIInv, CatalogValues
  <2>2. \A b \in Carts : cart[b].state \in {"held", "sold"} \/ cart'[b].state \in {"held", "sold"} =>
          cart'[b] = cart[b]
    BY <1>3, <2>1
  <2> QED BY <1>1, <2>2, AccountsStay
<1> QED BY <1>1, <1>3, <1>4, CartValues

\* A price update makes a choice stale.
LEMMA PriceStep ==
  ASSUME CatalogIInv, NEW o \in Offers, UpdatePrice(o)
  PROVE  CatalogIInv'
<1>1. UNCHANGED <<product, version, offer, pool, stock, ledger>> /\ cart' = Stale(o)
  BY DEF UpdatePrice, catalogue
<1>2. OfferInv' /\ SharedAlike'
  BY <1>1, OffersStay
<1>3. StockIsAccounted'
  BY <1>1, StaleKeeps, AccountsStay
<1>4. CatalogValues'
  <2>1. cart' \in [Carts -> [state : Selection, offer : Offers \cup {Unused},
                             pool : Pools \cup {Unused}]]
    BY <1>1, StaleKeeps
  <2>2. \A c \in Carts :
          /\ cart'[c].state \in {"chosen", "stale", "held", "sold"} => cart'[c].offer \in Offers
          /\ cart'[c].state \in {"held", "sold"} => cart'[c].pool \in Pools
    BY <1>1, StaleKeeps DEF CatalogIInv, CatalogValues
  <2> QED BY <1>1, <2>1, <2>2 DEF CatalogIInv, CatalogValues
<1>5. ActiveIsSellable' /\ PoolInv' /\ AuthorityInv'
  BY <1>1 DEF CatalogIInv, PoolInv, AuthorityInv, ActiveIsSellable, VersionOf
<1> QED BY <1>2, <1>3, <1>4, <1>5 DEF CatalogIInv

\* A checkout holds a unit that nobody else holds.
LEMMA PrepareStep ==
  ASSUME CatalogIInv, NEW c \in Carts, Prepare(c)
  PROVE  CatalogIInv'
<1> DEFINE o == cart[c].offer
<1>1. /\ cart[c].state = "chosen" /\ OnSale(o) /\ InStock(offer[o].pool)
      /\ cart' = [cart EXCEPT ![c] = Snapshot(c)]
      /\ UNCHANGED <<product, version, offer, pool, stock, ledger>>
  BY DEF Prepare, catalogue
<1>2. o \in Offers
  BY <1>1 DEF CatalogIInv, CatalogValues
<1>3. PICK p \in Pools : p = offer[o].pool /\ Held(p) < stock[p]
  BY <1>1, <1>2 DEF OnSale, InStock, CatalogIInv, OfferInv, Exists, SaleStates
<1>4. /\ cart[c] \in [state : Selection, offer : Offers \cup {Unused}, pool : Pools \cup {Unused}]
      /\ Snapshot(c) \in [state : Selection, offer : Offers \cup {Unused}, pool : Pools \cup {Unused}]
      /\ Snapshot(c).state = "held" /\ Snapshot(c).offer = o /\ Snapshot(c).pool = p
  <2>1. cart[c] \in [state : Selection, offer : Offers \cup {Unused}, pool : Pools \cup {Unused}]
    BY DEF CatalogIInv, CatalogValues
  <2> QED BY <1>3, <2>1 DEF Snapshot, Selection
<1> HIDE DEF o
<1>5. cart'[c] = Snapshot(c) /\ \A b \in Carts \ {c} : cart'[b] = cart[b]
  BY <1>1 DEF CatalogIInv, CatalogValues
<1>6. /\ HeldBy(p)' = HeldBy(p) \cup {c} /\ c \notin HeldBy(p)
      /\ \A q \in Pools \ {p} : HeldBy(q)' = HeldBy(q)
      /\ \A q \in Pools : Sold(q)' = Sold(q)
      /\ \A q \in Pools : Added(q)' = Added(q) /\ Removed(q)' = Removed(q)
  <2>1. HeldBy(p)' = HeldBy(p) \cup {c} /\ c \notin HeldBy(p)
    BY <1>1, <1>4, <1>5 DEF HeldBy
  <2>2. \A q \in Pools \ {p} : HeldBy(q)' = HeldBy(q)
    BY <1>1, <1>4, <1>5 DEF HeldBy
  <2>3. \A q \in Pools : Sold(q)' = Sold(q)
    BY <1>1, <1>4, <1>5 DEF Sold
  <2>4. \A q \in Pools : Added(q)' = Added(q) /\ Removed(q)' = Removed(q)
    BY <1>1 DEF Added, Removed
  <2> QED BY <2>1, <2>2, <2>3, <2>4
<1>7. Held(p)' = Held(p) + 1 /\ Held(p) \in Nat
  <2>1. Cardinality(HeldBy(p) \cup {c}) = Cardinality(HeldBy(p)) + 1
    BY <1>3, <1>6, CatalogCounts, FS_AddElement
  <2>2. Held(p)' = Cardinality(HeldBy(p)')
    BY DEF Held, HeldBy
  <2> QED BY <1>3, <1>6, <2>1, <2>2, CatalogCounts
<1>8. \A q \in Pools \ {p} : Held(q)' = Held(q)
  BY <1>6 DEF Held, HeldBy
<1>9. StockIsAccounted'
  <2>1. \A q \in Pools : stock[q] \in 0..MaxStock
    BY DEF CatalogIInv, CatalogValues
  <2>2. Held(p)' <= stock'[p]
    <3>1. stock[p] \in Int /\ stock'[p] = stock[p]
      BY <1>1, <2>1
    <3> QED BY <1>3, <1>7, <3>1
  <2>3. \A q \in Pools \ {p} : Held(q)' <= stock'[q]
    BY <1>1, <1>8 DEF CatalogIInv, StockIsAccounted
  <2> QED BY <1>1, <1>6, <2>2, <2>3 DEF CatalogIInv, StockIsAccounted
<1>10. stock' \in [Pools -> 0..MaxStock] /\ \A q \in Pools : stock[q] = 0 => stock'[q] = 0
  BY <1>1 DEF CatalogIInv, CatalogValues
<1> QED BY <1>1, <1>2, <1>3, <1>4, <1>9, <1>10, CartValues

\* The end of a checkout frees what it held, or takes it from the stock.
LEMMA EndOfCheckoutStep ==
  ASSUME CatalogIInv, NEW c \in Carts, ReleaseCheckout(c) \/ FinalizeCheckout(c)
  PROVE  CatalogIInv'
<1>0. PICK p \in Pools : p = cart[c].pool
  BY DEF ReleaseCheckout, FinalizeCheckout, CatalogIInv, CatalogValues
<1>1. cart[c].state = "held" /\ UNCHANGED <<product, version, offer, pool, ledger>>
  BY DEF ReleaseCheckout, FinalizeCheckout, catalogue
<1>2. /\ HeldBy(p) \ {c} \subseteq Carts /\ c \in HeldBy(p)
      /\ Cardinality(HeldBy(p) \ {c}) = Held(p) - 1 /\ Held(p) \in Nat
  BY <1>0, <1>1, CatalogCounts, FS_RemoveElement DEF HeldBy
<1>3. \A q \in Pools : Added(q)' = Added(q) /\ Removed(q)' = Removed(q)
  BY <1>1 DEF Added, Removed
<1>4. CASE ReleaseCheckout(c)
  <2>1. cart' = [cart EXCEPT ![c] = Empty] /\ stock' = stock
    BY <1>4 DEF ReleaseCheckout
  <2>2. cart'[c] = Empty /\ \A b \in Carts \ {c} : cart'[b] = cart[b]
    BY <2>1 DEF CatalogIInv, CatalogValues
  <2>3. Empty \in [state : Selection, offer : Offers \cup {Unused}, pool : Pools \cup {Unused}]
        /\ Empty.state = "empty"
    BY DEF Empty, Selection
  <2>4. /\ HeldBy(p)' = HeldBy(p) \ {c}
        /\ \A q \in Pools \ {p} : HeldBy(q)' = HeldBy(q)
        /\ \A q \in Pools : Sold(q)' = Sold(q)
    <3>1. HeldBy(p)' = HeldBy(p) \ {c}
      BY <1>0, <1>1, <2>2, <2>3 DEF HeldBy
    <3>2. \A q \in Pools \ {p} : HeldBy(q)' = HeldBy(q)
      BY <1>0, <1>1, <2>2, <2>3 DEF HeldBy
    <3>3. \A q \in Pools : Sold(q)' = Sold(q)
      BY <1>1, <2>2, <2>3 DEF Sold
    <3> QED BY <3>1, <3>2, <3>3
  <2>5. Held(p)' = Held(p) - 1 /\ \A q \in Pools \ {p} : Held(q)' = Held(q)
    BY <1>2, <2>4 DEF Held, HeldBy
  <2>6. StockIsAccounted'
    <3>1. \A q \in Pools : stock[q] \in Int
      BY DEF CatalogIInv, CatalogValues
    <3>2. Held(p)' <= stock'[p]
      <4>1. Held(p) <= stock[p] /\ stock[p] \in Int
        BY <1>1, <3>1 DEF CatalogIInv, StockIsAccounted
      <4> QED BY <1>2, <2>1, <2>5, <4>1
    <3>3. \A q \in Pools \ {p} : Held(q)' <= stock'[q]
      BY <2>1, <2>5 DEF CatalogIInv, StockIsAccounted
    <3> QED BY <1>3, <2>1, <2>4, <3>2, <3>3 DEF CatalogIInv, StockIsAccounted
  <2>7. stock' \in [Pools -> 0..MaxStock] /\ \A q \in Pools : stock[q] = 0 => stock'[q] = 0
    BY <2>1 DEF CatalogIInv, CatalogValues
  <2> QED BY <1>1, <2>1, <2>3, <2>6, <2>7, CartValues
<1>5. CASE FinalizeCheckout(c)
  <2>1. /\ cart' = [cart EXCEPT ![c].state = "sold"] /\ stock' = [stock EXCEPT ![p] = @ - 1]
        /\ stock[p] > 0
    BY <1>0, <1>5 DEF FinalizeCheckout
  <2> DEFINE row == [cart[c] EXCEPT !.state = "sold"]
  <2>2. cart[c] \in [state : Selection, offer : Offers \cup {Unused}, pool : Pools \cup {Unused}]
    BY DEF CatalogIInv, CatalogValues
  <2>3. /\ row \in [state : Selection, offer : Offers \cup {Unused}, pool : Pools \cup {Unused}]
        /\ row.state = "sold" /\ row.pool = p /\ row.offer = cart[c].offer
    BY <1>0, <2>2 DEF Selection
  <2>4. cart' = [cart EXCEPT ![c] = row]
    BY <2>1
  <2> HIDE DEF row
  <2>5. cart'[c] = row /\ \A b \in Carts \ {c} : cart'[b] = cart[b]
    BY <2>4 DEF CatalogIInv, CatalogValues
  <2>6. /\ HeldBy(p)' = HeldBy(p) \ {c} /\ Sold(p)' = Sold(p) \cup {c} /\ c \notin Sold(p)
        /\ \A q \in Pools \ {p} : HeldBy(q)' = HeldBy(q) /\ Sold(q)' = Sold(q)
    BY <1>0, <1>1, <2>3, <2>5 DEF HeldBy, Sold
  <2>7. Held(p)' = Held(p) - 1 /\ \A q \in Pools \ {p} : Held(q)' = Held(q)
    BY <1>2, <2>6 DEF Held, HeldBy
  <2>8. Cardinality(Sold(p)') = Cardinality(Sold(p)) + 1 /\ Cardinality(Sold(p)) \in Nat
    BY <1>1, <2>6, CatalogCounts, FS_AddElement
  <2>9. /\ stock \in [Pools -> 0..MaxStock] /\ stock' \in [Pools -> 0..MaxStock]
        /\ stock'[p] = stock[p] - 1 /\ \A q \in Pools \ {p} : stock'[q] = stock[q]
    <3>1. stock \in [Pools -> 0..MaxStock]
      BY DEF CatalogIInv, CatalogValues
    <3> QED BY <1>1, <2>1, <3>1, CatalogAssumption
  <2>10. StockIsAccounted'
    <3>1. \A q \in Pools \ {p} :
            /\ stock'[q] + Cardinality(Sold(q)') + Cardinality(Removed(q)') = Cardinality(Added(q)')
            /\ Held(q)' <= stock'[q]
      BY <1>3, <2>6, <2>7, <2>9 DEF CatalogIInv, StockIsAccounted
    <3>2. /\ stock'[p] + Cardinality(Sold(p)') + Cardinality(Removed(p)') = Cardinality(Added(p)')
          /\ Held(p)' <= stock'[p]
      <4>1. /\ stock[p] + Cardinality(Sold(p)) + Cardinality(Removed(p)) = Cardinality(Added(p))
            /\ Held(p) <= stock[p]
        BY <1>1 DEF CatalogIInv, StockIsAccounted
      <4>2. Cardinality(Removed(p)) \in Nat /\ stock[p] \in Int
        BY <1>1, <2>9, CatalogCounts
      <4>3. Added(p)' = Added(p) /\ Removed(p)' = Removed(p)
        BY <1>1, <1>3
      <4> QED BY <1>2, <2>7, <2>8, <2>9, <4>1, <4>2, <4>3
    <3> QED BY <1>1, <3>1, <3>2 DEF StockIsAccounted
  <2>11. \A q \in Pools : stock[q] = 0 => stock'[q] = 0
    BY <2>1, <2>9
  <2>12. row.offer \in Offers
    BY <1>1, <2>3 DEF CatalogIInv, CatalogValues
  <2> QED BY <1>1, <2>3, <2>4, <2>9, <2>10, <2>11, <2>12, CartValues
<1> QED BY <1>4, <1>5

-----------------------------------------------------------------------------
(* What is shown                                                           *)

\* The views judge as the services do, in every state the invariant describes:
\* configurations stay valid, and offers that share a pool agree.
LEMMA ViewsAgree ==
  ASSUME CatalogIInv
  PROVE  ViewsAreTrue
<1>1. ASSUME NEW o \in Live
      PROVE  /\ o \in Offers /\ Exists(o) /\ offer[o].pool \in Pools
             /\ offer[o].config[2] = "PS4" => NativeOf[VersionOf(o)] = "PS4"
             /\ \A a \in Sharing(offer[o].pool) : Compatible(offer[a].config, offer[o].config)
  BY <1>1 DEF CatalogIInv, OfferInv, SharedAlike, Live, Sharing
<1>2. ASSUME NEW o \in Offers
      PROVE  ShownAvailable(o) <=> offer[o].state = "active" /\ OnSale(o) /\ InStock(offer[o].pool)
  <2>1. CASE offer[o].state = "active"
    <3>1. o \in Live
      BY <2>1 DEF Live, Exists, SaleStates
    <3>2. Listed(o) <=> OnSale(o)
      BY <1>1, <2>1, <3>1 DEF Listed, OnSale, Clean
    <3>3. stock[offer[o].pool] \in Int /\ Held(offer[o].pool) \in Int
      BY <1>1, <3>1, CatalogCounts DEF CatalogIInv, CatalogValues
    <3> QED BY <2>1, <3>2, <3>3 DEF ShownAvailable, InStock
  <2> QED BY <2>1 DEF ShownAvailable, Listed
<1>3. ASSUME NEW o \in Offers, ShownPurchasable(o)
      PROVE  ShownAvailable(o)
  BY <1>1, <1>3 DEF ShownPurchasable, ShownReady, ShownAvailable, Listed
<1>4. ShownReady <=> ReadyForSale
  <2>1. ASSUME NEW o \in Live
        PROVE  Coherent(o) /\ version[VersionOf(o)] = "active" <=>
                 version[VersionOf(o)] = "active" /\ Clean(o, offer[o].state, offer[o].pool)
    BY <1>1, <2>1 DEF Coherent, Clean
  <2>2. \A a, b \in Live : offer[a].pool = offer[b].pool =>
          Compatible(offer[a].config, offer[b].config)
    BY <1>1 DEF Sharing
  <2> QED BY <2>1, <2>2 DEF ShownReady, ReadyForSale
<1>5. product.game => (FilteredReady <=> ReadyForSale)
  <2>1. ASSUME NEW o \in Live
        PROVE  /\ ~\E a \in Live : /\ offer[a].pool = offer[o].pool
                                   /\ ~Compatible(offer[a].config, offer[o].config)
               /\ version[VersionOf(o)] = "active" =>
                    ((offer[o].state = "active" => product.digital /\ Purchasable)
                       <=> Clean(o, offer[o].state, offer[o].pool))
    <3>1. \A a \in Live : offer[a].pool = offer[o].pool =>
            Compatible(offer[a].config, offer[o].config)
      BY <1>1, <2>1 DEF Sharing
    <3> QED BY <1>1, <2>1, <3>1 DEF Clean
  <2> QED BY <2>1 DEF FilteredReady, ReadyForSale
<1> QED BY <1>2, <1>3, <1>4, <1>5 DEF ViewsAreTrue

-----------------------------------------------------------------------------
(* The specification                                                       *)

LEMMA CatalogInitIInv == CatalogInit => CatalogIInv
<1> SUFFICES ASSUME CatalogInit PROVE CatalogIInv
  OBVIOUS
<1>1. /\ product \in Product /\ ~product.digital
      /\ version = [v \in Versions |-> "none"] /\ offer = [o \in Offers |-> NoOffer]
      /\ pool = [p \in Pools |-> "none"] /\ stock = [p \in Pools |-> 0]
      /\ ledger = [k \in Keys |-> Unused] /\ cart = [c \in Carts |-> Empty]
  BY DEF CatalogInit, Product
<1>2. NoOffer \in Offer /\ NoOffer.state = "none"
  BY DEF NoOffer, Offer
<1>3. /\ Empty \in [state : Selection, offer : Offers \cup {Unused}, pool : Pools \cup {Unused}]
      /\ Empty.state = "empty"
  BY DEF Empty, Selection
<1>4. CatalogValues
  <2>1. offer \in [Offers -> Offer]
    BY <1>1, <1>2
  <2>2. cart \in [Carts -> [state : Selection, offer : Offers \cup {Unused},
                            pool : Pools \cup {Unused}]]
    BY <1>1, <1>3
  <2>3. /\ version \in [Versions -> VersionStates] /\ pool \in [Pools -> {"none", "paused", "enabled"}]
        /\ stock \in [Pools -> 0..MaxStock] /\ ledger \in [Keys -> Adjustments \cup {Unused}]
    BY <1>1, CatalogAssumption DEF VersionStates
  <2> QED BY <1>1, <1>3, <2>1, <2>2, <2>3 DEF CatalogValues
<1>5. \A o \in Offers : ~Exists(o) /\ offer[o].state # "checked" /\ offer[o].state # "active"
  BY <1>1, <1>2 DEF Exists, SaleStates
<1>6. OfferInv /\ AuthorityInv /\ PoolInv /\ ActiveIsSellable /\ SharedAlike
  BY <1>1, <1>5 DEF OfferInv, AuthorityInv, PoolInv, ActiveIsSellable, SharedAlike, Sharing
<1>7. StockIsAccounted
  <2>1. ASSUME NEW p \in Pools
        PROVE  Added(p) = {} /\ Removed(p) = {} /\ Sold(p) = {} /\ HeldBy(p) = {}
    BY <1>1, <1>3 DEF Added, Removed, Sold, HeldBy
  <2>2. \A p \in Pools : Held(p) = 0
    BY <2>1, CatalogCounts, FS_EmptySet
  <2>3. Cardinality({}) = 0
    BY FS_EmptySet
  <2>4. \A p \in Pools : stock[p] = 0
    BY <1>1
  <2>5. ASSUME NEW p \in Pools
        PROVE  stock[p] + Cardinality(Sold(p)) + Cardinality(Removed(p)) = Cardinality(Added(p))
    BY <2>1, <2>3, <2>4
  <2> QED BY <2>2, <2>4, <2>5 DEF StockIsAccounted
<1> QED BY <1>4, <1>6, <1>7 DEF CatalogIInv

LEMMA CatalogStutter == CatalogIInv /\ UNCHANGED catalogVars => CatalogIInv'
<1> SUFFICES ASSUME CatalogIInv, UNCHANGED catalogVars PROVE CatalogIInv'
  OBVIOUS
<1>1. UNCHANGED <<product, version, offer, pool, stock, ledger, cart>>
  BY DEF catalogVars
<1>2. OfferInv' /\ SharedAlike'
  BY <1>1, OffersStay
<1>3. StockIsAccounted'
  BY <1>1, AccountsStay
<1>4. CatalogValues' /\ AuthorityInv' /\ PoolInv' /\ ActiveIsSellable'
  BY <1>1 DEF CatalogIInv, CatalogValues, AuthorityInv, PoolInv, ActiveIsSellable, VersionOf
<1> QED BY <1>2, <1>3, <1>4 DEF CatalogIInv

LEMMA CatalogNextIInv == CatalogIInv /\ [CatalogNext]_catalogVars => CatalogIInv'
<1> SUFFICES ASSUME CatalogIInv, CatalogNext PROVE CatalogIInv'
  BY CatalogStutter
<1>1. CASE Manage
  BY <1>1, ProductStep, VersionStep DEF Manage
<1>2. CASE Sell
  <2>1. PICK o \in Offers :
          \/ \E c \in Configs : CheckOffer(o, c)
          \/ \E p \in Pools : \E k \in Keys, n \in 0..MaxStock : CreateOffer(o, p, k, n)
          \/ \E p \in Pools : LinkOffer(o, p) \/ MoveOffer(o, p)
          \/ \E s \in SaleStates : Transition(o, s)
          \/ UpdatePrice(o) \/ EnablePool(o) \/ PausePool(o)
    BY <1>2 DEF Sell
  <2> QED BY <2>1, CheckOfferStep, CreateOfferStep, PoolMoveStep, TransitionStep, PriceStep, PoolStep
<1>3. CASE Stocking
  BY <1>3, AdjustStep DEF Stocking
<1>4. CASE Buy
  BY <1>4, ChooseStep, PrepareStep, EndOfCheckoutStep DEF Buy
<1> QED BY <1>1, <1>2, <1>3, <1>4 DEF CatalogNext

\* The inductive invariant of the catalogue holds in every reachable state.
THEOREM CatalogInvariant == CatalogSpec => []CatalogIInv
BY CatalogInitIInv, CatalogNextIInv, PTL DEF CatalogSpec

\* The catalogue's variables keep their types; stock never leaves its bounds.
THEOREM CatalogTypeCorrect == CatalogSpec => []CatalogTypeOK
<1>1. CatalogIInv => CatalogTypeOK
  BY DEF CatalogIInv, CatalogValues, CatalogTypeOK
<1> QED BY <1>1, CatalogInvariant, PTL

\* A step that takes no snapshot leaves every checkout as it was, or ends it.
LEMMA SnapshotStep ==
  ASSUME CatalogIInv, CatalogNext, NEW c \in Carts
  PROVE  SnapshotCoherent(c) /\ SnapshotKept(c)
<1>1. cart[c] \in [state : Selection, offer : Offers \cup {Unused}, pool : Pools \cup {Unused}]
      /\ cart \in [Carts -> [state : Selection, offer : Offers \cup {Unused},
                             pool : Pools \cup {Unused}]]
  BY DEF CatalogIInv, CatalogValues
<1>2. CASE cart'[c] = cart[c]
  BY <1>2 DEF SnapshotCoherent, SnapshotKept
<1>3. ASSUME NEW o \in Offers, cart' = Stale(o)
      PROVE  SnapshotCoherent(c) /\ SnapshotKept(c)
  <2>1. \/ cart'[c] = cart[c]
        \/ cart[c].state = "chosen" /\ cart'[c].state = "stale"
    BY <1>3, StaleKeeps
  <2> QED BY <1>2, <2>1 DEF SnapshotCoherent, SnapshotKept
<1>4. CASE Manage
  BY <1>2, <1>4 DEF Manage, ActivateProduct, DeactivateProduct, UpdateProduct, UpdateMetadata,
                    CreateVersion, ArchiveVersion
<1>5. CASE Sell
  <2>1. \/ cart' = cart \/ \E o \in Offers : cart' = Stale(o)
    BY <1>5 DEF Sell, CheckOffer, CreateOffer, LinkOffer, MoveOffer, Transition, UpdatePrice,
                EnablePool, PausePool
  <2> QED BY <1>2, <1>3, <2>1
<1>6. CASE Stocking
  BY <1>2, <1>6 DEF Stocking, AdjustStock
<1>7. CASE Buy
  <2>1. PICK b \in Carts :
          \/ RemoveItem(b) \/ Prepare(b) \/ ReleaseCheckout(b) \/ FinalizeCheckout(b)
          \/ \E o \in Offers : AddToCart(b, o)
    BY <1>7 DEF Buy
  <2>2. CASE b # c
    <3>1. cart'[c] = cart[c]
      BY <1>1, <2>1, <2>2 DEF RemoveItem, Prepare, ReleaseCheckout, FinalizeCheckout, AddToCart
    <3> QED BY <1>2, <3>1
  <2>3. CASE b = c /\ RemoveItem(c)
    <3>1. cart[c].state \in {"chosen", "stale"} /\ cart'[c] = Empty /\ Empty.state = "empty"
      BY <1>1, <2>3 DEF RemoveItem, Empty
    <3> QED BY <3>1 DEF SnapshotCoherent, SnapshotKept
  <2>4. CASE b = c /\ Prepare(c)
    <3>1. /\ cart[c].state = "chosen" /\ OnSale(cart[c].offer)
          /\ cart'[c] = Snapshot(c) /\ UNCHANGED <<offer, version>>
      BY <1>1, <2>4 DEF Prepare, catalogue
    <3>2. Snapshot(c).offer = cart[c].offer /\ Snapshot(c).pool = offer[cart[c].offer].pool
      BY <1>1 DEF Snapshot
    <3> QED BY <3>1, <3>2 DEF SnapshotCoherent, SnapshotKept, OnSale, VersionOf
  <2>5. CASE b = c /\ ReleaseCheckout(c)
    <3>1. cart[c].state = "held" /\ cart'[c] = Empty /\ Empty.state = "empty"
      BY <1>1, <2>5 DEF ReleaseCheckout, Empty
    <3> QED BY <3>1 DEF SnapshotCoherent, SnapshotKept
  <2>6. CASE b = c /\ FinalizeCheckout(c)
    <3>1. /\ cart[c].state = "held" /\ cart'[c].state = "sold"
          /\ cart'[c].offer = cart[c].offer /\ cart'[c].pool = cart[c].pool
      BY <1>1, <2>6 DEF FinalizeCheckout
    <3> QED BY <3>1 DEF SnapshotCoherent, SnapshotKept
  <2>7. ASSUME b = c, NEW o \in Offers, AddToCart(c, o)
        PROVE  SnapshotCoherent(c) /\ SnapshotKept(c)
    <3>1. cart[c] = Empty /\ cart'[c] = [Empty EXCEPT !.state = "chosen", !.offer = o]
      BY <1>1, <2>7 DEF AddToCart
    <3>2. cart[c].state = "empty" /\ cart'[c].state = "chosen"
      BY <3>1 DEF Empty
    <3> QED BY <3>2 DEF SnapshotCoherent, SnapshotKept
  <2> QED BY <2>1, <2>2, <2>3, <2>4, <2>5, <2>6, <2>7
<1> QED BY <1>4, <1>5, <1>6, <1>7 DEF CatalogNext

\* Whatever staff changed last, what is offered can be sold, offers that share
\* stock agree, the stock is accounted and covers what checkouts hold, the
\* views show what the services do, and a checkout keeps its snapshot.
THEOREM CatalogAgreement == CatalogSpec => CatalogAgrees
<1> DEFINE Agreed == ActiveIsSellable /\ SharedAlike /\ StockIsAccounted /\ ViewsAreTrue
           Kept == \A c \in Carts : SnapshotCoherent(c) /\ SnapshotKept(c)
<1>1. CatalogIInv => Agreed
  BY ViewsAgree DEF CatalogIInv
<1>2. CatalogIInv /\ [CatalogNext]_catalogVars => [Kept]_catalogVars
  BY SnapshotStep
<1> HIDE DEF Agreed, Kept
<1>3. CatalogSpec => []Agreed
  BY <1>1, CatalogInvariant, PTL
<1>4. CatalogSpec => [][Kept]_catalogVars
  BY <1>2, CatalogInvariant, PTL DEF CatalogSpec
<1> QED BY <1>3, <1>4 DEF Agreed, Kept, CatalogAgrees

-----------------------------------------------------------------------------
(* Fulfillment                                                             *)

\* What holds of an execution by itself, whatever line it is of: work comes before
\* all other evidence of the method, and evidence is of the current method.
RowInv(e) ==
  /\ e.status \in {"in_progress", "waiting_confirmation", "completed"} => "work" \in e.done
  /\ "console" \in e.done => e.method = "in_store"
  /\ "remote" \in e.done => "work" \in e.done /\ e.method = "remote"
  /\ e.installed # NotInstalled => "work" \in e.done /\ e.installed.source = e.method
  /\ e.status = "waiting_customer" => e.reason = WaitsFor(e.method)

\* What the evidence of a completion is, in an execution by itself.
Complete(e) ==
  /\ e.installed # NotInstalled /\ e.installed.source = e.method /\ "work" \in e.done
  /\ (IF e.method = "in_store" THEN "console" ELSE "remote") \in e.done

RowsInv == \A l \in Line : Provisioned(l) => item[l] \in Execution /\ RowInv(item[l])

CompletionInv ==
  \A l \in Line : Is(l, {"completed"}) => Complete(item[l])

EntitlementInv == \A l \in Line : Is(l, {"completed"}) <=> l \in entitled

\* Every ordinary line of a paid order has its obligation.
ObligedInv == \A l \in Line \ Preorder : OrderOf[l] \in paid => l \in due

\* Nothing enters the row of a completion before its commit, so what it saw of its
\* own row still holds; and what it saw completed in the others stays completed.
EndingInv ==
  \A l \in Line : ending[l] # "none" =>
    /\ l \in due /\ Is(l, {"in_progress", "waiting_confirmation"}) /\ Complete(item[l])
    /\ ending[l] = "order" =>
         \A k \in Line \ (Preorder \cup {l}) : OrderOf[k] = OrderOf[l] => Is(k, {"completed"})

IInv ==
  /\ TypeOK /\ RowsInv /\ CompletionInv /\ EntitlementInv /\ ObligedInv /\ EndingInv
  /\ DeliveredCoversOrdinaryLines

-----------------------------------------------------------------------------
(* What the commands of staff have in common.                              *)

\* What a command of s may leave of the row of a line.
Kept(l, s, e) ==
  /\ item[l].status # "completed" /\ e.status # "completed"
  /\ e.status # item[l].status => <<item[l].status, e.status>> \in Guards!ExecutionMoves
  /\ item[l].done \subseteq e.done
  /\ e.method # item[l].method =>
       /\ e.status = item[l].status /\ item[l].status \in {"queued", "waiting_customer"}
       /\ item[l].done \cap {"console", "work", "remote"} = {}
       /\ item[l].installed = NotInstalled
       /\ l \in InStoreOnly => e.method = "in_store"
  /\ e.installed # item[l].installed =>
       /\ item[l].status \in {"in_progress", "waiting_confirmation"}
       /\ e.installed # NotInstalled => e.installed.operator = s

\* A step that changes one locked row and nothing else.
RowStep(l) ==
  \E s \in Staff, e \in Execution :
    Locked(l, s) /\ Update(l, e) /\ UNCHANGED Others /\ RowInv(e) /\ Kept(l, s, e)

USE DEF Staff, Method, Statuses, Reasons, Activities, Installed, NotInstalled, Execution,
        Unprovisioned, Is, Done, WaitsFor

\* Every command of staff but the verification is such a step.
LEMMA CommandsChangeOneRow ==
  ASSUME NEW l \in Line, NEW s \in Staff, IInv, StaffCommand(l, s), ~StaffVerify(l, s)
  PROVE  RowStep(l)
<1> USE OrderAssumption, StaffAssumption DEF Guards!ExecutionMoves
<1>0. Provisioned(l) => item[l] \in Execution /\ RowInv(item[l])
  BY DEF IInv, RowsInv
<1>1. ASSUME NEW t \in Staff, Assign(l, s, t) PROVE RowStep(l)
  <2> DEFINE e == [item[l] EXCEPT !.operator = t]
  <2>1. Locked(l, s) /\ Update(l, e) /\ UNCHANGED Others
    BY <1>1 DEF Assign
  <2>2. item[l] \in Execution /\ RowInv(item[l])
    BY <2>1, <1>0 DEF Locked
  <2>3. e \in Execution
    BY <1>1, <2>2 DEF Assign, Assignable, IInv, TypeOK
  <2>4. RowInv(e)
    BY <1>1, <2>2 DEF Assign, Assignable, RowInv
  <2>5. Kept(l, s, e)
    BY <1>1, <2>2 DEF Assign, Assignable, RowInv, Kept
  <2>6. QED BY <2>1, <2>3, <2>4, <2>5 DEF RowStep, Update
<1>2. CASE Contact(l, s)
  <2> DEFINE e == [item[l] EXCEPT !.status = "waiting_customer", !.reason = WaitsFor(item[l].method),
                              !.done = @ \cup {"contact"}]
  <2>1. Locked(l, s) /\ Update(l, e) /\ UNCHANGED Others
    BY <1>2 DEF Contact
  <2>2. item[l] \in Execution /\ RowInv(item[l])
    BY <2>1, <1>0 DEF Locked
  <2>3. e \in Execution
    BY <1>2, <2>2 DEF Contact, IInv, TypeOK
  <2>4. RowInv(e)
    BY <1>2, <2>2 DEF Contact, RowInv
  <2>5. Kept(l, s, e)
    BY <1>2, <2>2 DEF Contact, RowInv, Kept
  <2>6. QED BY <2>1, <2>3, <2>4, <2>5 DEF RowStep, Update
<1>3. ASSUME NEW m \in Method, ChangeMethod(l, s, m) PROVE RowStep(l)
  <2> DEFINE e == [item[l] EXCEPT !.method = m, !.reason = ReasonUnder(l, m)]
  <2>1. Locked(l, s) /\ Update(l, e) /\ UNCHANGED Others
    BY <1>3 DEF ChangeMethod
  <2>2. item[l] \in Execution /\ RowInv(item[l])
    BY <2>1, <1>0 DEF Locked
  <2>3. e \in Execution
    BY <1>3, <2>2 DEF ChangeMethod, OpenMethod, ReasonUnder, IInv, TypeOK
  <2>4. RowInv(e)
    BY <1>3, <2>2 DEF ChangeMethod, OpenMethod, ReasonUnder, RowInv
  <2>5. Kept(l, s, e)
    BY <1>3, <2>2 DEF ChangeMethod, OpenMethod, ReasonUnder, RowInv, Kept
  <2>6. QED BY <2>1, <2>3, <2>4, <2>5 DEF RowStep, Update
<1>4. CASE ReceiveConsole(l, s)
  <2> DEFINE e == [item[l] EXCEPT !.status = "ready_for_staff", !.reason = "none",
                              !.done = @ \cup {"console"}]
  <2>1. Locked(l, s) /\ Update(l, e) /\ UNCHANGED Others
    BY <1>4 DEF ReceiveConsole
  <2>2. item[l] \in Execution /\ RowInv(item[l])
    BY <2>1, <1>0 DEF Locked
  <2>3. e \in Execution
    BY <1>4, <2>2 DEF ReceiveConsole, IInv, TypeOK
  <2>4. RowInv(e)
    BY <1>4, <2>2 DEF ReceiveConsole, RowInv
  <2>5. Kept(l, s, e)
    BY <1>4, <2>2 DEF ReceiveConsole, RowInv, Kept
  <2>6. QED BY <2>1, <2>3, <2>4, <2>5 DEF RowStep, Update
<1>5. CASE StartWork(l, s)
  <2> DEFINE e == [item[l] EXCEPT !.status = "in_progress", !.reason = "none",
                              !.done = @ \cup {"work"}]
  <2>1. Locked(l, s) /\ Update(l, e) /\ UNCHANGED Others
    BY <1>5 DEF StartWork
  <2>2. item[l] \in Execution /\ RowInv(item[l])
    BY <2>1, <1>0 DEF Locked
  <2>3. e \in Execution
    BY <1>5, <2>2 DEF StartWork, IInv, TypeOK
  <2>4. RowInv(e)
    BY <1>5, <2>2 DEF StartWork, RowInv
  <2>5. Kept(l, s, e)
    BY <1>5, <2>2 DEF StartWork, RowInv, Kept
  <2>6. QED BY <2>1, <2>3, <2>4, <2>5 DEF RowStep, Update
<1>6. CASE Install(l, s)
  <2> DEFINE e == [item[l] EXCEPT !.installed = [source |-> item[l].method, operator |-> s]]
  <2>1. Locked(l, s) /\ Update(l, e) /\ UNCHANGED Others
    BY <1>6 DEF Install
  <2>2. item[l] \in Execution /\ RowInv(item[l])
    BY <2>1, <1>0 DEF Locked
  <2>3. e \in Execution
    BY <1>6, <2>2 DEF Install, IInv, TypeOK
  <2>4. RowInv(e)
    BY <1>6, <2>2 DEF Install, RowInv
  <2>5. Kept(l, s, e)
    BY <1>6, <2>2 DEF Install, RowInv, Kept
  <2>6. QED BY <2>1, <2>3, <2>4, <2>5 DEF RowStep, Update
<1>7. CASE Correct(l, s)
  <2> DEFINE e == [item[l] EXCEPT !.installed = [source |-> item[l].method, operator |-> s]]
  <2>1. Locked(l, s) /\ Update(l, e) /\ UNCHANGED Others
    BY <1>7 DEF Correct
  <2>2. item[l] \in Execution /\ RowInv(item[l])
    BY <2>1, <1>0 DEF Locked
  <2>3. e \in Execution
    BY <1>7, <2>2 DEF Correct, Correctable, IInv, TypeOK
  <2>4. RowInv(e)
    BY <1>7, <2>2 DEF Correct, Correctable, RowInv
  <2>5. Kept(l, s, e)
    BY <1>7, <2>2 DEF Correct, Correctable, RowInv, Kept
  <2>6. QED BY <2>1, <2>3, <2>4, <2>5 DEF RowStep, Update
<1>8. CASE Remove(l, s)
  <2> DEFINE e == [item[l] EXCEPT !.installed = NotInstalled]
  <2>1. Locked(l, s) /\ Update(l, e) /\ UNCHANGED Others
    BY <1>8 DEF Remove
  <2>2. item[l] \in Execution /\ RowInv(item[l])
    BY <2>1, <1>0 DEF Locked
  <2>3. e \in Execution
    BY <1>8, <2>2 DEF Remove, IInv, TypeOK
  <2>4. RowInv(e)
    BY <1>8, <2>2 DEF Remove, RowInv
  <2>5. Kept(l, s, e)
    BY <1>8, <2>2 DEF Remove, RowInv, Kept
  <2>6. QED BY <2>1, <2>3, <2>4, <2>5 DEF RowStep, Update
<1>9. CASE HandleRemotely(l, s, TRUE)
  <2> DEFINE e == [item[l] EXCEPT !.status = "waiting_confirmation",
                              !.reason = "customer_confirmation_required",
                              !.done = @ \cup {"remote"}]
  <2>1. Locked(l, s) /\ Update(l, e) /\ UNCHANGED Others
    BY <1>9 DEF HandleRemotely
  <2>2. item[l] \in Execution /\ RowInv(item[l])
    BY <2>1, <1>0 DEF Locked
  <2>3. e \in Execution
    BY <1>9, <2>2 DEF HandleRemotely, IInv, TypeOK
  <2>4. RowInv(e)
    BY <1>9, <2>2 DEF HandleRemotely, RowInv
  <2>5. Kept(l, s, e)
    BY <1>9, <2>2 DEF HandleRemotely, RowInv, Kept
  <2>6. QED BY <2>1, <2>3, <2>4, <2>5 DEF RowStep, Update
<1>10. CASE HandleRemotely(l, s, FALSE)
  <2> DEFINE e == [item[l] EXCEPT !.done = @ \cup {"remote"}]
  <2>1. Locked(l, s) /\ Update(l, e) /\ UNCHANGED Others
    BY <1>10 DEF HandleRemotely
  <2>2. item[l] \in Execution /\ RowInv(item[l])
    BY <2>1, <1>0 DEF Locked
  <2>3. e \in Execution
    BY <1>10, <2>2 DEF HandleRemotely, IInv, TypeOK
  <2>4. RowInv(e)
    BY <1>10, <2>2 DEF HandleRemotely, RowInv
  <2>5. Kept(l, s, e)
    BY <1>10, <2>2 DEF HandleRemotely, RowInv, Kept
  <2>6. QED BY <2>1, <2>3, <2>4, <2>5 DEF RowStep, Update
<1>11. CASE OpenException(l, s)
  <2> DEFINE e == [item[l] EXCEPT !.status = "exception",
                              !.reason = "additional_information_required"]
  <2>1. Locked(l, s) /\ Update(l, e) /\ UNCHANGED Others
    BY <1>11 DEF OpenException
  <2>2. item[l] \in Execution /\ RowInv(item[l])
    BY <2>1, <1>0 DEF Locked
  <2>3. e \in Execution
    BY <1>11, <2>2 DEF OpenException, Exceptional, IInv, TypeOK
  <2>4. RowInv(e)
    BY <1>11, <2>2 DEF OpenException, Exceptional, RowInv
  <2>5. Kept(l, s, e)
    BY <1>11, <2>2 DEF OpenException, Exceptional, RowInv, Kept
  <2>6. QED BY <2>1, <2>3, <2>4, <2>5 DEF RowStep, Update
<1>12. CASE Retry(l, s) /\ Done(l, {"console"})
  <2> DEFINE e == [item[l] EXCEPT !.status = "ready_for_staff", !.reason = "none"]
  <2>1. Locked(l, s) /\ Update(l, e) /\ UNCHANGED Others
    BY <1>12 DEF Retry
  <2>2. item[l] \in Execution /\ RowInv(item[l])
    BY <2>1, <1>0 DEF Locked
  <2>3. e \in Execution
    BY <1>12, <2>2 DEF Retry, IInv, TypeOK
  <2>4. RowInv(e)
    BY <1>12, <2>2 DEF Retry, RowInv
  <2>5. Kept(l, s, e)
    BY <1>12, <2>2 DEF Retry, RowInv, Kept
  <2>6. QED BY <2>1, <2>3, <2>4, <2>5 DEF RowStep, Update
<1>13. CASE Retry(l, s) /\ ~Done(l, {"console"}) /\ Done(l, {"contact"})
  <2> DEFINE e == [item[l] EXCEPT !.status = "waiting_customer",
                              !.reason = WaitsFor(item[l].method)]
  <2>1. Locked(l, s) /\ Update(l, e) /\ UNCHANGED Others
    BY <1>13 DEF Retry
  <2>2. item[l] \in Execution /\ RowInv(item[l])
    BY <2>1, <1>0 DEF Locked
  <2>3. e \in Execution
    BY <1>13, <2>2 DEF Retry, IInv, TypeOK
  <2>4. RowInv(e)
    BY <1>13, <2>2 DEF Retry, RowInv
  <2>5. Kept(l, s, e)
    BY <1>13, <2>2 DEF Retry, RowInv, Kept
  <2>6. QED BY <2>1, <2>3, <2>4, <2>5 DEF RowStep, Update
<1>14. CASE Retry(l, s) /\ ~Done(l, {"console", "contact"})
  <2> DEFINE e == [item[l] EXCEPT !.status = "queued", !.reason = "contact_required"]
  <2>1. Locked(l, s) /\ Update(l, e) /\ UNCHANGED Others
    BY <1>14 DEF Retry
  <2>2. item[l] \in Execution /\ RowInv(item[l])
    BY <2>1, <1>0 DEF Locked
  <2>3. e \in Execution
    BY <1>14, <2>2 DEF Retry, IInv, TypeOK
  <2>4. RowInv(e)
    BY <1>14, <2>2 DEF Retry, RowInv
  <2>5. Kept(l, s, e)
    BY <1>14, <2>2 DEF Retry, RowInv, Kept
  <2>6. QED BY <2>1, <2>3, <2>4, <2>5 DEF RowStep, Update
<1>15. Retry(l, s) => RowStep(l)
  BY <1>12, <1>13, <1>14 DEF Retry
<1>16. QED
  BY <1>1, <1>2, <1>3, <1>4, <1>5, <1>6, <1>7, <1>8, <1>9, <1>10, <1>11, <1>15 DEF StaffCommand

\* The reads of a completion, by staff or by the customer.
Ending(l) ==
  /\ Provisioned(l) /\ ending[l] = "none" /\ Is(l, {"in_progress", "waiting_confirmation"})
  /\ BeginCompletion(l)

\* The steps of the system, with the commands taken together.
Step ==
  \/ \E o \in Order : Finalize(o)
  \/ Release \/ Reopen
  \/ \E s \in Staff : Deactivate(s)
  \/ \E l \in Line :
       Activate(l) \/ RowStep(l) \/ Ending(l) \/ CommitCompletion(l) \/ RollBack(l)

LEMMA NextIsStep == IInv /\ Next => Step
<1> SUFFICES ASSUME IInv, Next PROVE Step
  OBVIOUS
<1>1. ASSUME NEW l \in Line, NEW s \in Staff, StaffCommand(l, s), ~StaffVerify(l, s)
      PROVE RowStep(l)
  BY <1>1, CommandsChangeOneRow
<1>2. ASSUME NEW l \in Line, NEW s \in Staff, StaffVerify(l, s) PROVE Ending(l)
  BY <1>2 DEF StaffVerify, Locked, Ending
<1>3. ASSUME NEW l \in Line, CustomerConfirm(l) PROVE Ending(l)
  BY <1>3 DEF CustomerConfirm, Ending
<1>4. QED BY <1>1, <1>2, <1>3 DEF Next, Step

LEMMA InitIInv == Init => IInv
<1> SUFFICES ASSUME Init PROVE IInv
  OBVIOUS
<1> USE OrderAssumption, StaffAssumption DEF Init, Provisioned
<1>1. TypeOK
  BY DEF TypeOK, Owed
<1>2. RowsInv /\ CompletionInv /\ EntitlementInv /\ ObligedInv /\ EndingInv
  BY DEF RowsInv, CompletionInv, EntitlementInv, ObligedInv, EndingInv
<1>3. DeliveredCoversOrdinaryLines
  BY DEF DeliveredCoversOrdinaryLines
<1>4. QED BY <1>1, <1>2, <1>3 DEF IInv

LEMMA NextType == IInv /\ [Next]_vars => TypeOK'
<1> SUFFICES ASSUME IInv, [Next]_vars PROVE TypeOK'
  OBVIOUS
<1> USE OrderAssumption, StaffAssumption
     DEF IInv, TypeOK, orders, catalog, Provisioned, EndingInv, Owed
<1>1. ASSUME NEW o \in Order, Finalize(o) PROVE TypeOK'
  BY <1>1 DEF Finalize, Obliged, Owed
<1>2. CASE Release
  BY <1>2 DEF Release, Gaining, Owed
<1>3. CASE Reopen
  BY <1>3 DEF Reopen, Owed
<1>4. ASSUME NEW s \in Staff, Deactivate(s) PROVE TypeOK'
  BY <1>4 DEF Deactivate, Owed
<1>5. ASSUME NEW l \in Line, Activate(l) PROVE TypeOK'
  BY <1>5 DEF Activate, Update, Owed
<1>6. ASSUME NEW l \in Line, RowStep(l) PROVE TypeOK'
  <2>1. PICK s \in Staff, e \in Execution : Locked(l, s) /\ Update(l, e) /\ UNCHANGED Others
    BY <1>6 DEF RowStep
  <2>2. item' = [item EXCEPT ![l] = e] /\ e # Unprovisioned /\ item[l] # Unprovisioned
    BY <2>1 DEF Update, Locked
  <2>3. item' \in [Line -> Execution \cup {Unprovisioned}]
    BY <2>2
  <2>4. \A k \in Line : item'[k] # Unprovisioned => k \in due
    BY <2>2
  <2>5. QED BY <2>1, <2>3, <2>4 DEF Others
<1>7. ASSUME NEW l \in Line, Ending(l) PROVE TypeOK'
  BY <1>7 DEF Ending, BeginCompletion, Evidenced, Purchased, Owed
<1>8. ASSUME NEW l \in Line, CommitCompletion(l) PROVE TypeOK'
  <2> DEFINE e == [item[l] EXCEPT !.status = "completed", !.reason = "none"]
  <2>1. l \in due /\ item[l] \in Execution
    BY <1>8 DEF CommitCompletion
  <2>2. e \in Execution
    BY <2>1
  <2>3. item' = [item EXCEPT ![l] = e]
    BY <1>8 DEF CommitCompletion, Update
  <2>4. item' \in [Line -> Execution \cup {Unprovisioned}]
    BY <2>2, <2>3
  <2>5. \A k \in Line : item'[k] # Unprovisioned => k \in due
    BY <2>1, <2>3
  <2>6. delivered' \subseteq paid' /\ ending' \in [Line -> {"none", "line", "order"}]
    BY <1>8, <2>1 DEF CommitCompletion
  <2>7. QED BY <1>8, <2>4, <2>5, <2>6 DEF CommitCompletion
<1>9. ASSUME NEW l \in Line, RollBack(l) PROVE TypeOK'
  BY <1>9 DEF RollBack, Owed
<1>10. CASE UNCHANGED vars
  BY <1>10 DEF vars
<1>11. QED
  BY NextIsStep, <1>1, <1>2, <1>3, <1>4, <1>5, <1>6, <1>7, <1>8, <1>9, <1>10 DEF Step

LEMMA NextRows == IInv /\ [Next]_vars => RowsInv'
<1> SUFFICES ASSUME IInv, [Next]_vars PROVE RowsInv'
  OBVIOUS
<1> USE OrderAssumption, StaffAssumption DEF IInv, TypeOK, orders, catalog, Provisioned, RowsInv
<1>1. ASSUME NEW o \in Order, Finalize(o) PROVE RowsInv'
  BY <1>1 DEF Finalize, Obliged, Owed
<1>2. CASE Release
  BY <1>2 DEF Release, Gaining, Owed
<1>3. CASE Reopen
  BY <1>3 DEF Reopen, Owed
<1>4. ASSUME NEW s \in Staff, Deactivate(s) PROVE RowsInv'
  BY <1>4 DEF Deactivate, Owed
<1>5. ASSUME NEW l \in Line, Activate(l) PROVE RowsInv'
  BY <1>5 DEF Activate, Update, Owed, RowInv
<1>6. ASSUME NEW l \in Line, RowStep(l) PROVE RowsInv'
  <2>1. PICK s \in Staff, e \in Execution : Update(l, e) /\ RowInv(e)
    BY <1>6 DEF RowStep
  <2>2. item' = [item EXCEPT ![l] = e]
    BY <2>1 DEF Update
  <2>3. QED BY <2>1, <2>2
<1>7. ASSUME NEW l \in Line, Ending(l) PROVE RowsInv'
  BY <1>7 DEF Ending, BeginCompletion, Evidenced, Purchased, Owed, RowInv
<1>8. ASSUME NEW l \in Line, CommitCompletion(l) PROVE RowsInv'
  <2> DEFINE e == [item[l] EXCEPT !.status = "completed", !.reason = "none"]
  <2>1. item[l] \in Execution /\ RowInv(item[l])
    BY <1>8 DEF CommitCompletion, EndingInv
  <2>2. "work" \in item[l].done
    BY <1>8 DEF CommitCompletion, EndingInv, Complete
  <2>3. e \in Execution /\ RowInv(e)
    BY <2>1, <2>2 DEF RowInv
  <2>4. item' = [item EXCEPT ![l] = e]
    BY <1>8 DEF CommitCompletion, Update
  <2> HIDE DEF e
  <2>5. QED BY <2>3, <2>4
<1>9. ASSUME NEW l \in Line, RollBack(l) PROVE RowsInv'
  BY <1>9 DEF RollBack, Owed
<1>10. CASE UNCHANGED vars
  BY <1>10 DEF vars
<1>11. QED
  BY NextIsStep, <1>1, <1>2, <1>3, <1>4, <1>5, <1>6, <1>7, <1>8, <1>9, <1>10 DEF Step

LEMMA NextCompletion == IInv /\ [Next]_vars => CompletionInv'
<1> SUFFICES ASSUME IInv, [Next]_vars PROVE CompletionInv'
  OBVIOUS
<1> USE OrderAssumption, StaffAssumption
     DEF IInv, TypeOK, orders, catalog, Provisioned, CompletionInv
<1>1. ASSUME NEW o \in Order, Finalize(o) PROVE CompletionInv'
  BY <1>1 DEF Finalize, Obliged, Owed
<1>2. CASE Release
  BY <1>2 DEF Release, Gaining, Owed
<1>3. CASE Reopen
  BY <1>3 DEF Reopen, Owed
<1>4. ASSUME NEW s \in Staff, Deactivate(s) PROVE CompletionInv'
  BY <1>4 DEF Deactivate, Owed
<1>5. ASSUME NEW l \in Line, Activate(l) PROVE CompletionInv'
  BY <1>5 DEF Activate, Update, Owed
<1>6. ASSUME NEW l \in Line, RowStep(l) PROVE CompletionInv'
  BY <1>6 DEF RowStep, Update, Others, Kept, Locked, Owed
<1>7. ASSUME NEW l \in Line, Ending(l) PROVE CompletionInv'
  BY <1>7 DEF Ending, BeginCompletion, Evidenced, Purchased, Owed
<1>8. ASSUME NEW l \in Line, CommitCompletion(l) PROVE CompletionInv'
  BY <1>8 DEF CommitCompletion, Update, Owed, EndingInv, Complete
<1>9. ASSUME NEW l \in Line, RollBack(l) PROVE CompletionInv'
  BY <1>9 DEF RollBack, Owed
<1>10. CASE UNCHANGED vars
  BY <1>10 DEF vars
<1>11. QED
  BY NextIsStep, <1>1, <1>2, <1>3, <1>4, <1>5, <1>6, <1>7, <1>8, <1>9, <1>10 DEF Step

LEMMA NextEntitlement == IInv /\ [Next]_vars => EntitlementInv'
<1> SUFFICES ASSUME IInv, [Next]_vars PROVE EntitlementInv'
  OBVIOUS
<1> USE OrderAssumption, StaffAssumption
     DEF IInv, TypeOK, orders, catalog, Provisioned, EntitlementInv
<1>1. ASSUME NEW o \in Order, Finalize(o) PROVE EntitlementInv'
  BY <1>1 DEF Finalize, Obliged, Owed
<1>2. CASE Release
  BY <1>2 DEF Release, Gaining, Owed
<1>3. CASE Reopen
  BY <1>3 DEF Reopen, Owed
<1>4. ASSUME NEW s \in Staff, Deactivate(s) PROVE EntitlementInv'
  BY <1>4 DEF Deactivate, Owed
<1>5. ASSUME NEW l \in Line, Activate(l) PROVE EntitlementInv'
  BY <1>5 DEF Activate, Update, Owed
<1>6. ASSUME NEW l \in Line, RowStep(l) PROVE EntitlementInv'
  BY <1>6 DEF RowStep, Update, Others, Kept, Locked, Owed
<1>7. ASSUME NEW l \in Line, Ending(l) PROVE EntitlementInv'
  BY <1>7 DEF Ending, BeginCompletion, Evidenced, Purchased, Owed
<1>8. ASSUME NEW l \in Line, CommitCompletion(l) PROVE EntitlementInv'
  BY <1>8 DEF CommitCompletion, Update, Owed
<1>9. ASSUME NEW l \in Line, RollBack(l) PROVE EntitlementInv'
  BY <1>9 DEF RollBack, Owed
<1>10. CASE UNCHANGED vars
  BY <1>10 DEF vars
<1>11. QED
  BY NextIsStep, <1>1, <1>2, <1>3, <1>4, <1>5, <1>6, <1>7, <1>8, <1>9, <1>10 DEF Step

LEMMA NextObliged == IInv /\ [Next]_vars => ObligedInv'
<1> SUFFICES ASSUME IInv, [Next]_vars PROVE ObligedInv'
  OBVIOUS
<1> USE OrderAssumption, StaffAssumption
     DEF IInv, TypeOK, orders, catalog, Provisioned, ObligedInv
<1>1. ASSUME NEW o \in Order, Finalize(o) PROVE ObligedInv'
  BY <1>1 DEF Finalize, Obliged, Owed
<1>2. CASE Release
  BY <1>2 DEF Release, Gaining, Owed
<1>3. CASE Reopen
  BY <1>3 DEF Reopen, Owed
<1>4. ASSUME NEW s \in Staff, Deactivate(s) PROVE ObligedInv'
  BY <1>4 DEF Deactivate, Owed
<1>5. ASSUME NEW l \in Line, Activate(l) PROVE ObligedInv'
  BY <1>5 DEF Activate, Update, Owed
<1>6. ASSUME NEW l \in Line, RowStep(l) PROVE ObligedInv'
  BY <1>6 DEF RowStep, Update, Others, Kept, Locked, Owed
<1>7. ASSUME NEW l \in Line, Ending(l) PROVE ObligedInv'
  BY <1>7 DEF Ending, BeginCompletion, Evidenced, Purchased, Owed
<1>8. ASSUME NEW l \in Line, CommitCompletion(l) PROVE ObligedInv'
  BY <1>8 DEF CommitCompletion, Update, Owed
<1>9. ASSUME NEW l \in Line, RollBack(l) PROVE ObligedInv'
  BY <1>9 DEF RollBack, Owed
<1>10. CASE UNCHANGED vars
  BY <1>10 DEF vars
<1>11. QED
  BY NextIsStep, <1>1, <1>2, <1>3, <1>4, <1>5, <1>6, <1>7, <1>8, <1>9, <1>10 DEF Step

LEMMA NextEnding == IInv /\ [Next]_vars => EndingInv'
<1> SUFFICES ASSUME IInv, [Next]_vars PROVE EndingInv'
  OBVIOUS
<1> USE OrderAssumption, StaffAssumption DEF IInv, TypeOK, orders, catalog, Provisioned, EndingInv
<1>1. ASSUME NEW o \in Order, Finalize(o) PROVE EndingInv'
  BY <1>1 DEF Finalize, Obliged, Owed
<1>2. CASE Release
  BY <1>2 DEF Release, Gaining, Owed
<1>3. CASE Reopen
  BY <1>3 DEF Reopen, Owed
<1>4. ASSUME NEW s \in Staff, Deactivate(s) PROVE EndingInv'
  BY <1>4 DEF Deactivate, Owed
<1>5. ASSUME NEW l \in Line, Activate(l) PROVE EndingInv'
  BY <1>5 DEF Activate, Update, Owed
<1>6. ASSUME NEW l \in Line, RowStep(l) PROVE EndingInv'
  BY <1>6 DEF RowStep, Update, Others, Kept, Locked, Owed
<1>7. ASSUME NEW l \in Line, Ending(l) PROVE EndingInv'
  BY <1>7 DEF Ending, BeginCompletion, Evidenced, Purchased, Owed, Complete, SeesAll, ObligedInv
<1>8. ASSUME NEW l \in Line, CommitCompletion(l) PROVE EndingInv'
  BY <1>8 DEF CommitCompletion, Update, Owed
<1>9. ASSUME NEW l \in Line, RollBack(l) PROVE EndingInv'
  BY <1>9 DEF RollBack, Owed
<1>10. CASE UNCHANGED vars
  BY <1>10 DEF vars
<1>11. QED
  BY NextIsStep, <1>1, <1>2, <1>3, <1>4, <1>5, <1>6, <1>7, <1>8, <1>9, <1>10 DEF Step

LEMMA NextCovers == IInv /\ [Next]_vars => DeliveredCoversOrdinaryLines'
<1> SUFFICES ASSUME IInv, [Next]_vars PROVE DeliveredCoversOrdinaryLines'
  OBVIOUS
<1> USE OrderAssumption, StaffAssumption
     DEF IInv, TypeOK, orders, catalog, Provisioned, EndingInv, DeliveredCoversOrdinaryLines
<1>1. ASSUME NEW o \in Order, Finalize(o) PROVE DeliveredCoversOrdinaryLines'
  BY <1>1 DEF Finalize, Obliged, Owed
<1>2. CASE Release
  BY <1>2 DEF Release, Gaining, Owed
<1>3. CASE Reopen
  BY <1>3 DEF Reopen, Owed
<1>4. ASSUME NEW s \in Staff, Deactivate(s) PROVE DeliveredCoversOrdinaryLines'
  BY <1>4 DEF Deactivate, Owed
<1>5. ASSUME NEW l \in Line, Activate(l) PROVE DeliveredCoversOrdinaryLines'
  BY <1>5 DEF Activate, Update, Owed
<1>6. ASSUME NEW l \in Line, RowStep(l) PROVE DeliveredCoversOrdinaryLines'
  BY <1>6 DEF RowStep, Update, Others, Kept, Locked, Owed
<1>7. ASSUME NEW l \in Line, Ending(l) PROVE DeliveredCoversOrdinaryLines'
  BY <1>7 DEF Ending, BeginCompletion, Evidenced, Purchased, Owed
<1>8. ASSUME NEW l \in Line, CommitCompletion(l) PROVE DeliveredCoversOrdinaryLines'
  BY <1>8 DEF CommitCompletion, Update, Owed
<1>9. ASSUME NEW l \in Line, RollBack(l) PROVE DeliveredCoversOrdinaryLines'
  BY <1>9 DEF RollBack, Owed
<1>10. CASE UNCHANGED vars
  BY <1>10 DEF vars
<1>11. QED
  BY NextIsStep, <1>1, <1>2, <1>3, <1>4, <1>5, <1>6, <1>7, <1>8, <1>9, <1>10 DEF Step

LEMMA NextIInv == IInv /\ [Next]_vars => IInv'
<1>1. QED
  BY NextType, NextRows, NextCompletion, NextEntitlement, NextObliged, NextEnding, NextCovers
     DEF IInv

\* Every reachable state satisfies the inductive invariant.
THEOREM Invariant == Spec => []IInv
<1>1. QED BY InitIInv, NextIInv, PTL DEF Spec

\* Executions, obligations and entitlements have their types, and an execution has an
\* obligation of a paid order behind it.
THEOREM TypeCorrect == Spec => []TypeOK
<1>1. IInv => TypeOK
  BY DEF IInv
<1>2. QED BY Invariant, <1>1, PTL

LEMMA EvidenceOfInvariant == IInv => DeliveryIsEvidenced
<1> SUFFICES ASSUME IInv PROVE DeliveryIsEvidenced
  OBVIOUS
<1> USE DEF IInv, TypeOK, RowsInv, Provisioned
<1>1. CompletedOnEvidence
  BY DEF CompletedOnEvidence, CompletionInv, EntitlementInv, Complete
<1>2. EvidenceOfOneMethod
  BY DEF EvidenceOfOneMethod, RowInv
<1>3. ReasonFollowsMethod
  BY DEF ReasonFollowsMethod, RowInv
<1>4. QED BY <1>1, <1>2, <1>3 DEF DeliveryIsEvidenced

\* For any number of orders, lines and staff, and commands in any order: what is
\* completed is evidenced by the one method that was used in the end, and an order is
\* delivered only with its ordinary lines.
THEOREM EvidencedDelivery == Spec => []DeliveryIsEvidenced
<1>1. QED BY Invariant, EvidenceOfInvariant, PTL

-----------------------------------------------------------------------------
(* What the database accepts.                                              *)

LEMMA GraphIsValid == IInv => \A l \in Line : Guards!GraphValid(l)
<1> SUFFICES ASSUME IInv, NEW l \in Line PROVE Guards!GraphValid(l)
  OBVIOUS
<1>1. item[l].status = "completed" => item[l] \in Execution
  BY DEF IInv, TypeOK
<1>2. QED
  BY <1>1 DEF IInv, CompletionInv, EntitlementInv, Complete, Guards!GraphValid,
     Guards!Installed, Guards!MethodEvidenced

\* What the guards ask of the orders and lines at once.
OrdersForward == Guards!ProjectionForward /\ Guards!EntitlementPermanent
OrdersOblige == \A o \in Order : Guards!FinalizationObliges(o)
LinesJoin == \A k \in Line : Guards!ObligationJoins(k)
LinesKept == \A k \in Line : Guards!ObligationKept(k)

LEMMA OrdersMoveForward == IInv /\ [Next]_vars => OrdersForward
<1> SUFFICES ASSUME IInv, [Next]_vars PROVE OrdersForward
  OBVIOUS
<1> USE OrderAssumption, StaffAssumption
     DEF IInv, TypeOK, orders, catalog, Provisioned, EndingInv, Guards!ProjectionForward,
         Guards!EntitlementPermanent, OrdersForward
<1>1. ASSUME NEW o \in Order, Finalize(o) PROVE OrdersForward
  BY <1>1 DEF Finalize, Obliged, Owed
<1>2. CASE Release
  BY <1>2 DEF Release, Gaining, Owed
<1>3. CASE Reopen
  BY <1>3 DEF Reopen, Owed
<1>4. ASSUME NEW s \in Staff, Deactivate(s) PROVE OrdersForward
  BY <1>4 DEF Deactivate, Owed
<1>5. ASSUME NEW l \in Line, Activate(l) PROVE OrdersForward
  BY <1>5 DEF Activate, Update, Owed
<1>6. ASSUME NEW l \in Line, RowStep(l) PROVE OrdersForward
  BY <1>6 DEF RowStep, Update, Others, Kept, Locked, Owed
<1>7. ASSUME NEW l \in Line, Ending(l) PROVE OrdersForward
  BY <1>7 DEF Ending, BeginCompletion, Evidenced, Purchased, Owed
<1>8. ASSUME NEW l \in Line, CommitCompletion(l) PROVE OrdersForward
  BY <1>8 DEF CommitCompletion, Update, Owed
<1>9. ASSUME NEW l \in Line, RollBack(l) PROVE OrdersForward
  BY <1>9 DEF RollBack, Owed
<1>10. CASE UNCHANGED vars
  BY <1>10 DEF vars
<1>11. QED
  BY NextIsStep, <1>1, <1>2, <1>3, <1>4, <1>5, <1>6, <1>7, <1>8, <1>9, <1>10 DEF Step

LEMMA FinalizationsOblige == IInv /\ [Next]_vars => OrdersOblige
<1> SUFFICES ASSUME IInv, [Next]_vars PROVE OrdersOblige
  OBVIOUS
<1> USE OrderAssumption, StaffAssumption
     DEF IInv, TypeOK, orders, catalog, Provisioned, Guards!FinalizationObliges, OrdersOblige
<1>1. ASSUME NEW o \in Order, Finalize(o) PROVE OrdersOblige
  BY <1>1 DEF Finalize, Obliged, Owed
<1>2. CASE Release
  BY <1>2 DEF Release, Gaining, Owed
<1>3. CASE Reopen
  BY <1>3 DEF Reopen, Owed
<1>4. ASSUME NEW s \in Staff, Deactivate(s) PROVE OrdersOblige
  BY <1>4 DEF Deactivate, Owed
<1>5. ASSUME NEW l \in Line, Activate(l) PROVE OrdersOblige
  BY <1>5 DEF Activate, Update, Owed
<1>6. ASSUME NEW l \in Line, RowStep(l) PROVE OrdersOblige
  BY <1>6 DEF RowStep, Update, Others, Kept, Locked, Owed
<1>7. ASSUME NEW l \in Line, Ending(l) PROVE OrdersOblige
  BY <1>7 DEF Ending, BeginCompletion, Evidenced, Purchased, Owed
<1>8. ASSUME NEW l \in Line, CommitCompletion(l) PROVE OrdersOblige
  BY <1>8 DEF CommitCompletion, Update, Owed
<1>9. ASSUME NEW l \in Line, RollBack(l) PROVE OrdersOblige
  BY <1>9 DEF RollBack, Owed
<1>10. CASE UNCHANGED vars
  BY <1>10 DEF vars
<1>11. QED
  BY NextIsStep, <1>1, <1>2, <1>3, <1>4, <1>5, <1>6, <1>7, <1>8, <1>9, <1>10 DEF Step

LEMMA ObligationsJoin == IInv /\ [Next]_vars => LinesJoin
<1> SUFFICES ASSUME IInv, [Next]_vars PROVE LinesJoin
  OBVIOUS
<1> USE OrderAssumption, StaffAssumption
     DEF IInv, TypeOK, orders, catalog, Provisioned, Guards!ObligationJoins, LinesJoin
<1>1. ASSUME NEW o \in Order, Finalize(o) PROVE LinesJoin
  BY <1>1 DEF Finalize, Obliged, Owed
<1>2. CASE Release
  BY <1>2 DEF Release, Gaining, Owed, Processing
<1>3. CASE Reopen
  BY <1>3 DEF Reopen, Owed
<1>4. ASSUME NEW s \in Staff, Deactivate(s) PROVE LinesJoin
  BY <1>4 DEF Deactivate, Owed
<1>5. ASSUME NEW l \in Line, Activate(l) PROVE LinesJoin
  BY <1>5 DEF Activate, Update, Owed
<1>6. ASSUME NEW l \in Line, RowStep(l) PROVE LinesJoin
  BY <1>6 DEF RowStep, Update, Others, Kept, Locked, Owed
<1>7. ASSUME NEW l \in Line, Ending(l) PROVE LinesJoin
  BY <1>7 DEF Ending, BeginCompletion, Evidenced, Purchased, Owed
<1>8. ASSUME NEW l \in Line, CommitCompletion(l) PROVE LinesJoin
  BY <1>8 DEF CommitCompletion, Update, Owed
<1>9. ASSUME NEW l \in Line, RollBack(l) PROVE LinesJoin
  BY <1>9 DEF RollBack, Owed
<1>10. CASE UNCHANGED vars
  BY <1>10 DEF vars
<1>11. QED
  BY NextIsStep, <1>1, <1>2, <1>3, <1>4, <1>5, <1>6, <1>7, <1>8, <1>9, <1>10 DEF Step

LEMMA ObligationsAreKept == IInv /\ [Next]_vars => LinesKept
<1> SUFFICES ASSUME IInv, [Next]_vars PROVE LinesKept
  OBVIOUS
<1> USE OrderAssumption, StaffAssumption
     DEF IInv, TypeOK, orders, catalog, Provisioned, Guards!ObligationKept, EndingInv,
         Guards!Absent, LinesKept
<1>1. ASSUME NEW o \in Order, Finalize(o) PROVE LinesKept
  BY <1>1 DEF Finalize, Obliged, Owed
<1>2. CASE Release
  BY <1>2 DEF Release, Gaining, Owed
<1>3. CASE Reopen
  BY <1>3 DEF Reopen, Owed
<1>4. ASSUME NEW s \in Staff, Deactivate(s) PROVE LinesKept
  BY <1>4 DEF Deactivate, Owed
<1>5. ASSUME NEW l \in Line, Activate(l) PROVE LinesKept
  BY <1>5 DEF Activate, Update, Owed
<1>6. ASSUME NEW l \in Line, RowStep(l) PROVE LinesKept
  BY <1>6 DEF RowStep, Update, Others, Kept, Locked, Owed
<1>7. ASSUME NEW l \in Line, Ending(l) PROVE LinesKept
  BY <1>7 DEF Ending, BeginCompletion, Evidenced, Purchased, Owed
<1>8. ASSUME NEW l \in Line, CommitCompletion(l) PROVE LinesKept
  BY <1>8 DEF CommitCompletion, Update, Owed
<1>9. ASSUME NEW l \in Line, RollBack(l) PROVE LinesKept
  BY <1>9 DEF RollBack, Owed
<1>10. CASE UNCHANGED vars
  BY <1>10 DEF vars
<1>11. QED
  BY NextIsStep, <1>1, <1>2, <1>3, <1>4, <1>5, <1>6, <1>7, <1>8, <1>9, <1>10 DEF Step

\* The guards that compare a row with what a command leaves of it.
RowGuarded(k) ==
  /\ Guards!TransitionLegal(k) /\ Guards!CompletionPermanent(k) /\ Guards!MethodGuarded(k)
  /\ Guards!EvidenceAppended(k) /\ Guards!ActorAuthorized(k)
  /\ Guards!InstallationAuthorized(k) /\ Guards!SupersessionGuarded(k)

LEMMA UnchangedRow == ASSUME NEW k \in Line, item'[k] = item[k] PROVE RowGuarded(k)
<1>1. QED
  BY DEF RowGuarded, Guards!TransitionLegal, Guards!CompletionPermanent, Guards!MethodGuarded,
     Guards!EvidenceAppended, Guards!ActorAuthorized, Guards!InstallationAuthorized,
     Guards!SupersessionGuarded

LEMMA RowsAreGuarded == IInv /\ [Next]_vars => (\A k \in Line : RowGuarded(k))
<1> SUFFICES ASSUME IInv, [Next]_vars PROVE (\A k \in Line : RowGuarded(k))
  OBVIOUS
<1> USE OrderAssumption, StaffAssumption DEF IInv, TypeOK, orders, catalog, Provisioned
<1>1. ASSUME NEW o \in Order, Finalize(o) PROVE (\A k \in Line : RowGuarded(k))
  BY <1>1, UnchangedRow DEF Finalize
<1>2. CASE Release
  BY <1>2, UnchangedRow DEF Release
<1>3. CASE Reopen
  BY <1>3, UnchangedRow DEF Reopen
<1>4. ASSUME NEW s \in Staff, Deactivate(s) PROVE (\A k \in Line : RowGuarded(k))
  BY <1>4, UnchangedRow DEF Deactivate
<1>5. ASSUME NEW l \in Line, Activate(l) PROVE (\A k \in Line : RowGuarded(k))
  <2>1. \A k \in Line \ {l} : item'[k] = item[k]
    BY <1>5 DEF Activate, Update
  <2>2. item[l] = Unprovisioned /\ item'[l].status = "queued" /\ item'[l].installed = NotInstalled
    BY <1>5 DEF Activate, Update
  <2>3. RowGuarded(l)
    BY <2>2
       DEF RowGuarded, Guards!Absent, Guards!Installed, Guards!TransitionLegal,
           Guards!ExecutionMoves,
       Guards!CompletionPermanent, Guards!MethodGuarded, Guards!EvidenceAppended,
       Guards!ActorAuthorized, Guards!InstallationAuthorized, Guards!SupersessionGuarded
  <2>4. QED BY <2>1, <2>3, UnchangedRow
<1>6. ASSUME NEW l \in Line, RowStep(l) PROVE (\A k \in Line : RowGuarded(k))
  <2>1. PICK s \in Staff, e \in Execution : Locked(l, s) /\ Update(l, e) /\ Kept(l, s, e)
    BY <1>6 DEF RowStep
  <2>2. item'[l] = e /\ \A k \in Line \ {l} : item'[k] = item[k]
    BY <2>1 DEF Update
  <2>3. item[l] \in Execution /\ Guards!Authorized(l, s)
    BY <2>1 DEF Locked, MayCommand, Guards!Authorized
  <2>4. Guards!TransitionLegal(l) /\ Guards!CompletionPermanent(l) /\ Guards!EvidenceAppended(l)
    BY <2>1, <2>2
       DEF Kept, Guards!TransitionLegal, Guards!CompletionPermanent, Guards!EvidenceAppended
  <2>5. Guards!MethodGuarded(l)
    BY <2>1, <2>2 DEF Kept, Guards!MethodGuarded, Guards!Installed
  <2>6. Guards!ActorAuthorized(l)
    BY <2>1, <2>3 DEF Guards!ActorAuthorized, Locked, MayCommand
  <2>7. Guards!InstallationAuthorized(l) /\ Guards!SupersessionGuarded(l)
    BY <2>1, <2>2, <2>3 DEF Kept, Guards!InstallationAuthorized, Guards!SupersessionGuarded
  <2>8. RowGuarded(l)
    BY <2>4, <2>5, <2>6, <2>7 DEF RowGuarded
  <2>9. QED BY <2>2, <2>8, UnchangedRow
<1>7. ASSUME NEW l \in Line, Ending(l) PROVE (\A k \in Line : RowGuarded(k))
  BY <1>7, UnchangedRow DEF Ending, BeginCompletion
<1>8. ASSUME NEW l \in Line, CommitCompletion(l) PROVE (\A k \in Line : RowGuarded(k))
  <2>1. \A k \in Line \ {l} : item'[k] = item[k]
    BY <1>8 DEF CommitCompletion, Update
  <2>2. item[l] \in Execution /\ item[l].status \in {"in_progress", "waiting_confirmation"}
    BY <1>8 DEF CommitCompletion, EndingInv
  <2>3. item'[l] = [item[l] EXCEPT !.status = "completed", !.reason = "none"]
    BY <1>8 DEF CommitCompletion, Update
  <2>4. RowGuarded(l)
    BY <2>2, <2>3
       DEF RowGuarded, Guards!Absent, Guards!Installed, Guards!TransitionLegal,
           Guards!ExecutionMoves,
       Guards!CompletionPermanent, Guards!MethodGuarded, Guards!EvidenceAppended,
       Guards!ActorAuthorized, Guards!InstallationAuthorized, Guards!SupersessionGuarded
  <2>5. QED BY <2>1, <2>4, UnchangedRow
<1>9. ASSUME NEW l \in Line, RollBack(l) PROVE (\A k \in Line : RowGuarded(k))
  BY <1>9, UnchangedRow DEF RollBack
<1>10. CASE UNCHANGED vars
  BY <1>10, UnchangedRow DEF vars
<1>11. QED
  BY NextIsStep, <1>1, <1>2, <1>3, <1>4, <1>5, <1>6, <1>7, <1>8, <1>9, <1>10 DEF Step

-----------------------------------------------------------------------------
(* What fulfillment promises.                                              *)

\* Who delivered each line, as the executions tell it.
DeliveredBy ==
  [l \in Line |-> IF Is(l, {"completed"}) THEN item[l].installed.operator ELSE NoOne]

\* A step that completes nothing delivers nothing.
LEMMA NothingDelivered ==
  (\A k \in Line : \/ item'[k] = item[k]
                   \/ item[k].status # "completed" /\ item'[k].status # "completed")
    => DeliveredBy' = DeliveredBy
<1> SUFFICES ASSUME \A k \in Line : \/ item'[k] = item[k]
                                    \/ item[k].status # "completed" /\ item'[k].status # "completed"
             PROVE  DeliveredBy' = DeliveredBy
  OBVIOUS
<1>1. \A k \in Line :
        (IF Is(k, {"completed"})' THEN item'[k].installed.operator ELSE NoOne)
          = (IF Is(k, {"completed"}) THEN item[k].installed.operator ELSE NoOne)
  OBVIOUS
<1>2. QED BY <1>1, Zenon DEF DeliveredBy

LEMMA ContractStep == IInv /\ [Next]_vars => [Contract!Next]_(Contract!vars)
<1> SUFFICES ASSUME IInv, [Next]_vars
             PROVE  Contract!Next \/ UNCHANGED <<paid, DeliveredBy>>
  BY DEF Contract!vars, DeliveredBy
<1> USE OrderAssumption, StaffAssumption DEF IInv, TypeOK, orders, catalog
<1>1. ASSUME NEW o \in Order, Finalize(o) PROVE Contract!Next
  <2>1. DeliveredBy' = DeliveredBy
    BY <1>1, NothingDelivered DEF Finalize
  <2>2. Contract!Pay(o)
    BY <1>1, <2>1 DEF Finalize, Contract!Pay, DeliveredBy
  <2>3. QED BY <2>2 DEF Contract!Next
<1>2. ASSUME item' = item, paid' = paid PROVE UNCHANGED <<paid, DeliveredBy>>
  BY <1>2, NothingDelivered
<1>3. ASSUME NEW l \in Line, Activate(l) PROVE UNCHANGED <<paid, DeliveredBy>>
  BY <1>3, NothingDelivered DEF Activate, Update, Provisioned
<1>4. ASSUME NEW l \in Line, RowStep(l) PROVE UNCHANGED <<paid, DeliveredBy>>
  BY <1>4, NothingDelivered DEF RowStep, Update, Others, Kept
<1>5. ASSUME NEW l \in Line, CommitCompletion(l) PROVE Contract!Next
  <2>1. /\ item[l] \in Execution /\ ~Is(l, {"completed"}) /\ OrderOf[l] \in paid
        /\ item[l].installed # NotInstalled
    BY <1>5 DEF CommitCompletion, EndingInv, Complete, Owed
  <2>2. PICK s \in Staff : s = item[l].installed.operator
    BY <2>1
  <2>3. item' = [item EXCEPT ![l] = [item[l] EXCEPT !.status = "completed", !.reason = "none"]]
    BY <1>5 DEF CommitCompletion, Update
  <2>4. Is(l, {"completed"})' /\ item'[l].installed.operator = s
    BY <2>1, <2>2, <2>3
  <2>5. DeliveredBy' = [DeliveredBy EXCEPT ![l] = s]
    <3>1. \A k \in Line \ {l} : item'[k] = item[k]
      BY <2>3
    <3>2. QED BY <2>4, <3>1 DEF DeliveredBy
  <2>6. DeliveredBy[l] = NoOne
    BY <2>1 DEF DeliveredBy
  <2>7. Contract!Deliver(l, s)
    BY <1>5, <2>1, <2>5, <2>6 DEF CommitCompletion, Contract!Deliver, DeliveredBy
  <2>8. QED BY <2>7 DEF Contract!Next
<1>6. QED
  BY NextIsStep, <1>1, <1>2, <1>3, <1>4, <1>5
     DEF Step, vars, Release, Reopen, Deactivate, Ending, BeginCompletion, RollBack

\* Every step maps to a step of the contract, or leaves it alone, and is one that the
\* constraints and triggers of the database accept.
THEOREM Implementation == Spec => ImplementsDelivery
<1>1. Init => Contract!Init /\ Guards!Init
  BY DEF Init, Contract!Init, Guards!Init, Guards!Absent
<1>2. IInv /\ [Next]_vars => [Contract!Next]_(Contract!vars)
  BY ContractStep
<1>3. IInv /\ IInv' /\ [Next]_vars => [Guards!Accepted]_(Guards!vars)
  <2>1. IInv' => (\A l \in Line : Guards!GraphValid(l))'
    BY GraphIsValid, PTL
  <2>2. QED
    BY <2>1, OrdersMoveForward, FinalizationsOblige, ObligationsJoin, ObligationsAreKept,
       RowsAreGuarded
       DEF Guards!Accepted, OrdersForward, OrdersOblige, LinesJoin, LinesKept, RowGuarded
<1>4. QED
  BY Invariant, <1>1, <1>2, <1>3, PTL DEF Spec, ImplementsDelivery, Contract!Spec, Guards!Spec

=============================================================================
