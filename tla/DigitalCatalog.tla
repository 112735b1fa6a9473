--------------------------- MODULE DigitalCatalog ---------------------------
(***************************************************************************)
(* The digital catalogue of one game: its delivered versions, its offers,  *)
(* the inventory pools the offers share, the authority and the release     *)
(* state of the product, and the customers who put an offer in a cart and  *)
(* have it frozen into a checkout while staff changes all of these.        *)
(*                                                                         *)
(* Sources: digital_products/services/offers.py, inventory.py,             *)
(* catalog_admin.py, upcoming_games.py, cart.py and checkout_preparation.py*)
(* and product/services/product.py.  Each action is one transaction; the   *)
(* statement that locks an offer locks its version, its product and its    *)
(* pool with it.  Only the creation of an offer reads before it locks.     *)
(***************************************************************************)
EXTENDS Integers, FiniteSets

CONSTANTS
  Versions, NativeOf,  \* DeliveredVersion rows, and the console of each
  Offers, Configs,     \* offers, and their <<version, console, capacity>>
  Pools,
  Keys,                \* idempotency keys of stock adjustments
  Carts,               \* customers' carts, each with room for one offer
  MaxStock             \* bound on a pool's quantity

Consoles == {"PS4", "PS5"}

ASSUME CatalogAssumption ==
  /\ NativeOf \in [Versions -> Consoles]
  /\ \A c \in Configs : c[1] \in Versions /\ c[2] \in Consoles
  /\ MaxStock \in Nat \ {0}
ASSUME FiniteAssumption == IsFiniteSet(Keys) /\ IsFiniteSet(Carts)

VARIABLES
  product,  \* commerce authority, type, status and release state
  version,  \* of each version: none, active or archived
  offer,    \* sale state, configuration and pool of each offer
  pool,     \* status of each pool
  stock,    \* InventoryPool.sellable_quantity
  ledger,   \* <<pool, delta>> of the adjustment made under each key
  cart      \* what each cart holds, and the pool its checkout took it from

catalogVars == <<product, version, offer, pool, stock, ledger, cart>>
catalogue == <<product, version, offer, pool>>

Unused == <<>>
NoOffer == [state |-> "none", config |-> Unused, pool |-> Unused]
Empty == [state |-> "empty", offer |-> Unused, pool |-> Unused]

SaleStates == {"draft", "active", "paused", "hidden", "archived"}

\* DigitalGameUpcomingStatus by what it allows: "upcoming" for the display
\* states ANNOUNCED, COMING_SOON and DELAYED, "open" for PREORDER_OPEN and
\* RELEASED.  "none", no metadata at all, leaves a game purchasable.
Releases == {"upcoming", "open", "CANCELLED"}

Product == [digital : BOOLEAN, game : BOOLEAN,
            status : {"published", "hidden"}, release : Releases \cup {"none"}]
VersionStates == {"none", "active", "archived"}
Offer == [state : SaleStates \cup {"none", "checked"}, config : Configs \cup {Unused},
          pool : Pools \cup {Unused}]
Adjustments == Pools \X (-1..MaxStock)     \* PoolStockAdjustment
Selection == {"empty", "chosen", "stale", "held", "sold"}
Purchasable == product.release \in {"none", "open"}

Exists(o) == offer[o].state \in SaleStates
Live == {o \in Offers : Exists(o) /\ offer[o].state # "archived"}
Sharing(p) == {o \in Offers : Exists(o) /\ offer[o].pool = p}
VersionOf(o) == offer[o].config[1]

Compatible(c, d) == c[1] = d[1] /\ c[3] = d[3]

\* DigitalOffer.clean, which every save of an offer runs.
Clean(o, state, p) ==
  /\ state = "active" =>
       version[VersionOf(o)] = "active" /\ product.digital /\ Purchasable
  /\ \A other \in Sharing(p) \ {o} :
       Compatible(offer[other].config, offer[o].config)

\* Quantity that checkouts hold from a pool.
Held(p) == Cardinality({c \in Carts : cart[c].state = "held" /\ cart[c].pool = p})

CatalogInit ==
  /\ product \in [digital : {FALSE}, game : BOOLEAN,
                  status : {"published", "hidden"}, release : {"none"}]
  /\ version = [v \in Versions |-> "none"]
  /\ offer = [o \in Offers |-> NoOffer]
  /\ pool = [p \in Pools |-> "none"] /\ stock = [p \in Pools |-> 0]
  /\ ledger = [k \in Keys |-> Unused]
  /\ cart = [c \in Carts |-> Empty]

(***************************************************************************)
(* The product.  Digital authority needs a game (a check constraint), and  *)
(* is given to a product that is ready for sale or for its announcement.   *)
(***************************************************************************)

UpdateProduct(game, status) ==
  /\ product.digital => game
  /\ product' = [product EXCEPT !.game = game, !.status = status]
  /\ UNCHANGED <<version, offer, pool, stock, ledger, cart>>

SomeActiveVersion == \E v \in Versions : version[v] = "active"

ReadyForSale ==
  /\ product.game /\ SomeActiveVersion /\ Live # {}
  /\ \A o \in Live : /\ version[VersionOf(o)] = "active"
                     /\ Clean(o, offer[o].state, offer[o].pool)

ReadyForDisplay ==
  /\ product.game /\ product.status = "published"
  /\ product.release = "upcoming" /\ SomeActiveVersion

ActivateProduct ==
  /\ ~product.digital /\ (ReadyForSale \/ ReadyForDisplay)
  /\ product' = [product EXCEPT !.digital = TRUE]
  /\ UNCHANGED <<version, offer, pool, stock, ledger, cart>>


NoActiveSale == \A o \in Offers : ~(offer[o].state = "active" /\ pool[offer[o].pool] = "enabled")
NoActiveOffer == \A o \in Offers : offer[o].state # "active"

DeactivateProduct ==
  /\ product.digital /\ product.game /\ NoActiveOffer
  /\ product' = [product EXCEPT !.digital = FALSE]
  /\ UNCHANGED <<version, offer, pool, stock, ledger, cart>>

\* DigitalGameReleaseMetadata.clean.
Describable == product.game

\* Only the display states refuse a game with an active offer; a game with
\* one can be CANCELLED.
UpdateMetadata(release, status) ==
  /\ Describable
  /\ release = "upcoming" => NoActiveOffer
  /\ product' = [product EXCEPT !.release = release, !.status = status]
  /\ UNCHANGED <<version, offer, pool, stock, ledger, cart>>

(***************************************************************************)
(* Delivered versions.  Saving one validates that its product is a game.   *)
(***************************************************************************)

CreateVersion(v) ==
  /\ version[v] = "none" /\ product.game
  /\ ~\E w \in Versions : version[w] = "active" /\ NativeOf[w] = NativeOf[v]
  /\ version' = [version EXCEPT ![v] = "active"]
  /\ UNCHANGED <<product, offer, pool, stock, ledger, cart>>

\* What a cart holds becomes stale when its offer or its version is saved.
Stale(o) ==
  [c \in Carts |-> IF cart[c].state = "chosen" /\ cart[c].offer = o
                     THEN [cart[c] EXCEPT !.state = "stale"] ELSE cart[c]]

ArchiveVersion(v) ==
  /\ version[v] = "active" /\ product.game
  /\ \A o \in Live : VersionOf(o) # v
  /\ version' = [version EXCEPT ![v] = "archived"]
  /\ UNCHANGED <<product, offer, pool, stock, ledger, cart>>

(***************************************************************************)
(* Offers.  The configuration is validated on an unlocked read; the        *)
(* transaction that inserts the offer looks only for a live duplicate.     *)
(***************************************************************************)

ValidConfig(c) ==
  /\ product.game /\ version[c[1]] = "active"
  /\ c[2] = "PS4" => NativeOf[c[1]] = "PS4"

CheckOffer(o, c) ==
  /\ offer[o] = NoOffer /\ ValidConfig(c)
  /\ offer' = [offer EXCEPT ![o] = [NoOffer EXCEPT !.state = "checked", !.config = c]]
  /\ UNCHANGED <<product, version, pool, stock, ledger, cart>>

\* Initial stock is an adjustment under a key of its own.
CreateOffer(o, p, k, n) ==
  /\ offer[o].state = "checked" /\ pool[p] = "none"
  /\ \A other \in Live : offer[other].config # offer[o].config
  /\ offer' = [offer EXCEPT ![o].state = "draft", ![o].pool = p]
  /\ pool' = [pool EXCEPT ![p] = "paused"]
  /\ IF n = 0 THEN UNCHANGED <<stock, ledger>>
     ELSE /\ ledger[k] = Unused
          /\ stock' = [stock EXCEPT ![p] = n]
          /\ ledger' = [ledger EXCEPT ![k] = <<p, n>>]
  /\ UNCHANGED <<product, version, cart>>

\* A new price, the same or another one, marks the offer as changed.
UpdatePrice(o) ==
  /\ Exists(o) /\ Clean(o, offer[o].state, offer[o].pool)
  /\ cart' = Stale(o)
  /\ UNCHANGED <<catalogue, stock, ledger>>

Allowed ==
  [draft    |-> {"active", "hidden", "archived"},
   active   |-> {"paused", "hidden", "archived"},
   paused   |-> {"active", "hidden", "archived"},
   hidden   |-> {"draft", "active", "paused", "archived"},
   archived |-> {}]

Transition(o, state) ==
  /\ Exists(o) /\ state \in Allowed[offer[o].state]
  /\ Clean(o, state, offer[o].pool)
  /\ offer' = [offer EXCEPT ![o].state = state]
  /\ cart' = Stale(o)
  /\ UNCHANGED <<product, version, pool, stock, ledger>>

LinkOffer(o, p) ==
  /\ o \in Live /\ pool[p] # "none" /\ p # offer[o].pool
  /\ Clean(o, offer[o].state, p)
  /\ offer' = [offer EXCEPT ![o].pool = p]
  /\ cart' = Stale(o)
  /\ UNCHANGED <<product, version, pool, stock, ledger>>

MoveOffer(o, p) ==
  /\ o \in Live /\ pool[p] = "none"
  /\ Clean(o, offer[o].state, p)
  /\ offer' = [offer EXCEPT ![o].pool = p]
  /\ pool' = [pool EXCEPT ![p] = "paused"]
  /\ cart' = Stale(o)
  /\ UNCHANGED <<product, version, stock, ledger>>

(***************************************************************************)
(* Inventory pools.                                                        *)
(***************************************************************************)

\* Through an active offer of a published game, whatever its other offers.
EnablePool(o) ==
  /\ offer[o].state = "active" /\ pool[offer[o].pool] = "paused"
  /\ product.game /\ product.status = "published"
  /\ Clean(o, "active", offer[o].pool)
  /\ pool' = [pool EXCEPT ![offer[o].pool] = "enabled"]
  /\ UNCHANGED <<product, version, offer, stock, ledger, cart>>

PausePool(o) ==
  /\ Exists(o) /\ pool[offer[o].pool] = "enabled"
  /\ pool' = [pool EXCEPT ![offer[o].pool] = "paused"]
  /\ UNCHANGED <<product, version, offer, stock, ledger, cart>>

\* The endpoint names the pool an offer had when it was read.  The key is read
\* again under the lock of the pool, and is unique in the database for
\* adjustments of different pools.
AdjustFreely(k, p, delta) ==
  /\ pool[p] # "none" /\ ledger[k] = Unused
  /\ stock[p] + delta <= MaxStock /\ stock[p] + delta >= -1
  /\ stock' = [stock EXCEPT ![p] = @ + delta]
  /\ ledger' = [ledger EXCEPT ![k] = <<p, delta>>]
  /\ UNCHANGED <<catalogue, cart>>
AdjustStock(k, p, delta) ==
  /\ pool[p] # "none" /\ ledger[k] = Unused
  /\ stock[p] + delta \in 0..MaxStock
  /\ stock[p] + delta >= Held(p)
  /\ stock' = [stock EXCEPT ![p] = @ + delta]
  /\ ledger' = [ledger EXCEPT ![k] = <<p, delta>>]
  /\ UNCHANGED <<catalogue, cart>>

(***************************************************************************)
(* Customers.                                                              *)
(***************************************************************************)

OnSale(o) ==
  /\ product.status = "published" /\ product.game /\ product.digital
  /\ offer[o].state = "active" /\ version[VersionOf(o)] = "active"
  /\ pool[offer[o].pool] = "enabled"
  /\ Clean(o, "active", offer[o].pool)

InStock(p) == Held(p) < stock[p]

AddToCart(c, o) ==
  /\ cart[c] = Empty /\ OnSale(o) /\ InStock(offer[o].pool)
  /\ cart' = [cart EXCEPT ![c] = [Empty EXCEPT !.state = "chosen", !.offer = o]]
  /\ UNCHANGED <<catalogue, stock, ledger>>

RemoveItem(c) ==
  /\ cart[c].state \in {"chosen", "stale"}
  /\ cart' = [cart EXCEPT ![c] = Empty]
  /\ UNCHANGED <<catalogue, stock, ledger>>

\* The line of a checkout names the pool its offer has now.
Snapshot(c) == [cart[c] EXCEPT !.state = "held", !.pool = offer[cart[c].offer].pool]

\* The terms are judged again under the locks of everything they name.
Prepare(c) ==
  LET o == cart[c].offer IN
  /\ cart[c].state = "chosen" /\ OnSale(o) /\ InStock(offer[o].pool)
  /\ cart' = [cart EXCEPT ![c] = Snapshot(c)]
  /\ UNCHANGED <<catalogue, stock, ledger>>

\* The checkout expires or is canceled, or its payment is released.
ReleaseCheckout(c) ==
  /\ cart[c].state = "held"
  /\ cart' = [cart EXCEPT ![c] = Empty]
  /\ UNCHANGED <<catalogue, stock, ledger>>

\* The paid checkout takes the stock it held for good.  The customer's next
\* purchase is left to another cart.
FinalizeCheckout(c) ==
  LET p == cart[c].pool IN
  /\ cart[c].state = "held" /\ stock[p] > 0
  /\ cart' = [cart EXCEPT ![c].state = "sold"]
  /\ stock' = [stock EXCEPT ![p] = @ - 1]
  /\ UNCHANGED <<catalogue, ledger>>

(***************************************************************************)
(* What the catalogue shows.  Customers' lists, the cart, and the staff's  *)
(* views each judge again, in their own way, what the services will allow. *)
(***************************************************************************)

\* An offer on the customers' list, and whether it is shown as available.
Listed(o) ==
  /\ offer[o].state = "active" /\ pool[offer[o].pool] = "enabled"
  /\ version[VersionOf(o)] = "active"
  /\ product.game /\ product.status = "published" /\ product.digital
  /\ Purchasable
  /\ offer[o].config[2] = "PS4" => NativeOf[VersionOf(o)] = "PS4"

ShownAvailable(o) == Listed(o) /\ stock[offer[o].pool] - Held(offer[o].pool) > 0

\* The staff's copy of DigitalOffer.clean leaves out the sharing of pools.
Coherent(o) ==
  /\ offer[o].config[2] = "PS4" => NativeOf[VersionOf(o)] = "PS4"
  /\ offer[o].state = "active" =>
       version[VersionOf(o)] = "active" /\ product.digital /\ Purchasable

ShownReady ==
  /\ product.game /\ SomeActiveVersion /\ Live # {}
  /\ \A o \in Live : version[VersionOf(o)] = "active" /\ Coherent(o)
  /\ \A a, b \in Live : offer[a].pool = offer[b].pool =>
       Compatible(offer[a].config, offer[b].config)

\* The filter of the games' list, of games that are not upcoming.
FilteredReady ==
  /\ SomeActiveVersion /\ Live # {}
  /\ \A o \in Live :
       /\ version[VersionOf(o)] = "active"
       /\ offer[o].state = "active" => product.digital /\ Purchasable
       /\ ~\E a \in Live : /\ offer[a].pool = offer[o].pool
                           /\ ~Compatible(offer[a].config, offer[o].config)

ShownPurchasable(o) ==
  /\ ShownReady /\ product.digital /\ product.status = "published" /\ Purchasable
  /\ o \in Live /\ offer[o].state = "active"
  /\ pool[offer[o].pool] = "enabled"
  /\ stock[offer[o].pool] - Held(offer[o].pool) > 0

Manage ==
  \/ ActivateProduct \/ DeactivateProduct
  \/ \E s \in {"published", "hidden"} :
       \/ \E g \in BOOLEAN : UpdateProduct(g, s)
       \/ \E r \in Releases : UpdateMetadata(r, s)
  \/ \E v \in Versions : CreateVersion(v) \/ ArchiveVersion(v)

Sell ==
  \E o \in Offers :
    \/ \E c \in Configs : CheckOffer(o, c)
    \/ \E p \in Pools : \E k \in Keys, n \in 0..MaxStock : CreateOffer(o, p, k, n)
    \/ \E p \in Pools : LinkOffer(o, p) \/ MoveOffer(o, p)
    \/ \E s \in SaleStates : Transition(o, s)
    \/ UpdatePrice(o) \/ EnablePool(o) \/ PausePool(o)

Stocking == \E k \in Keys, p \in Pools, d \in {-1, 1} : AdjustStock(k, p, d)

Buy ==
  \E c \in Carts :
    \/ RemoveItem(c) \/ Prepare(c) \/ ReleaseCheckout(c) \/ FinalizeCheckout(c)
    \/ \E o \in Offers : AddToCart(c, o)

CatalogNext == Manage \/ Sell \/ Stocking \/ Buy

CatalogSpec == CatalogInit /\ [][CatalogNext]_catalogVars

(***************************************************************************)
(* Properties.                                                             *)
(***************************************************************************)

\* The types of the variables.
CatalogTypeOK ==
  /\ product \in Product
  /\ version \in [Versions -> VersionStates]
  /\ offer \in [Offers -> Offer]
  /\ pool \in [Pools -> {"none", "paused", "enabled"}]
  /\ stock \in [Pools -> 0..MaxStock]
  /\ ledger \in [Keys -> Adjustments \cup {Unused}]
  /\ \A c \in Carts : cart[c].state \in Selection

\* What is offered can be sold: an active offer has a game under digital
\* authority, an active version, and no announcement in place of a release.
ActiveIsSellable ==
  \A o \in Offers : offer[o].state = "active" =>
    /\ product.digital /\ product.game /\ version[VersionOf(o)] = "active"
    /\ product.release # "upcoming"

\* Offers that share stock share what the stock is: one version, one capacity.
SharedAlike ==
  \A p \in Pools : \A a, b \in Sharing(p) :
    Compatible(offer[a].config, offer[b].config)

\* The units that the adjustments of a pool put into it and took from it.
Added(p) ==
  {u \in Keys \X (1..MaxStock) :
     ledger[u[1]] # Unused /\ ledger[u[1]][1] = p /\ u[2] <= ledger[u[1]][2]}
Removed(p) ==
  {u \in Keys \X (1..MaxStock) :
     ledger[u[1]] # Unused /\ ledger[u[1]][1] = p /\ u[2] <= -ledger[u[1]][2]}
Sold(p) == {c \in Carts : cart[c].state = "sold" /\ cart[c].pool = p}

\* The stock of a pool is what its adjustments add up to, each key counted
\* once, less what was sold from it, and covers what checkouts hold from it,
\* though the offer they chose has been moved to another pool since.
StockIsAccounted ==
  \A p \in Pools :
    /\ stock[p] + Cardinality(Sold(p)) + Cardinality(Removed(p)) = Cardinality(Added(p))
    /\ Held(p) <= stock[p]

\* What is shown is what the services do: an offer is shown available when it
\* can be put into a cart, and staff sees the readiness that is enforced.
ViewsAreTrue ==
  /\ \A o \in Offers :
       /\ ShownAvailable(o) <=> offer[o].state = "active" /\ OnSale(o) /\ InStock(offer[o].pool)
       /\ ShownPurchasable(o) => ShownAvailable(o)
  /\ ShownReady <=> ReadyForSale
  /\ product.game /\ product.release # "upcoming" => (FilteredReady <=> ReadyForSale)

\* PostgreSQL takes a snapshot that names the offer its cart chose and the
\* pool and version that offer has then, and does not let it change:
\* whatever becomes of the offer, the stock is sold from the pool it names.
SnapshotCoherent(c) ==
  cart[c].state # "held" /\ cart'[c].state = "held" =>
    LET o == cart[c].offer IN
    /\ cart[c].state = "chosen" /\ cart'[c].offer = o
    /\ cart'[c].pool = offer'[o].pool /\ version'[VersionOf(o)] = "active"
SnapshotKept(c) ==
  cart[c].state \in {"held", "sold"} =>
    \/ cart'[c] = Empty /\ cart[c].state = "held"
    \/ cart'[c].offer = cart[c].offer /\ cart'[c].pool = cart[c].pool

\* Product, versions, offers, pools, stock, checkouts and views agree,
\* whichever of them staff changed last (catalog_admin.py, upcoming_games.py,
\* offers.py and inventory.py each guard one side of these relations), and a
\* checkout in progress keeps what it was prepared with.
CatalogAgrees ==
  /\ [](ActiveIsSellable /\ SharedAlike /\ StockIsAccounted /\ ViewsAreTrue)
  /\ [][\A c \in Carts : SnapshotCoherent(c) /\ SnapshotKept(c)]_catalogVars

=============================================================================
