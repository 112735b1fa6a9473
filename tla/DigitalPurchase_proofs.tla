----------------------- MODULE DigitalPurchase_proofs -----------------------
(***************************************************************************)
(* Proofs about DigitalPurchase for every set of customers, pools,         *)
(* checkouts and lines, and every quantity of stock.  They come in four    *)
(* parts, each resting on the ones before it: the pools (IInv), the cart   *)
(* and its reservations (CartInv), how a payment settles (SettleInv), and  *)
(* what the database accepts of all that (GuardInv).                       *)
(***************************************************************************)
EXTENDS DigitalPurchase, FiniteSetTheorems, TLAPS

USE DEF Collection, ReviewStatus, Authorization

\* TypeOK in two parts: what the shop keeps and what the payment keeps.
ShopType ==
  /\ active \in [Customers -> Checkouts \cup {NoCheckout}]
  /\ reason \in [Customers -> {"none", "checkout", "payment", "review"}]
  /\ status \in [Checkouts -> {"none", "draft", "pending", "paid", "canceled", "expired"}]
  /\ lapsed \in [Checkouts -> BOOLEAN]
  /\ res \in [Reservations -> ReservationStates]
MoneyType ==
  /\ payment \in [Checkouts -> Collection]
  /\ tx \in [Checkouts -> {"none", "attempted", "created", "terminal", "succeeded"} \cup LiveTx]
  /\ evidence \in [Checkouts -> SUBSET {"success", "unpaid", "waiting", "malformed", "doubt"}]
  /\ answer \in [Checkouts -> {"pending", "unpaid", "paid"}]
  /\ reviews \in [Checkouts -> [Cases -> ReviewStatus]]
  /\ auth \in [Checkouts -> Authorization]
SellableType == sellable \in [Pools -> 0..MaxStock]

LEMMA TypeParts == TypeOK <=> SellableType /\ ShopType /\ MoneyType
BY DEF TypeOK, SellableType, ShopType, MoneyType, ReservationStates

\* A step after which no reservation holds stock that did not before.
NothingNew == \A r \in Reservations : res'[r] \in Current => res[r] \in Current

-----------------------------------------------------------------------------
(* The helpers                                                             *)

LEMMA MoveFrame ==
  ASSUME ShopType, NEW k, NEW from, NEW to \in ReservationStates, Move(k, from, to),
         from \subseteq Current \/ to \notin Current
  PROVE  res' \in [Reservations -> ReservationStates] /\ NothingNew
<1>1. res' \in [Reservations -> ReservationStates]
  BY DEF Move, ShopType
<1>2. NothingNew
  BY DEF Move, ShopType, NothingNew
<1> QED BY <1>1, <1>2

LEMMA LockFrame ==
  ASSUME ShopType, NEW k \in Checkouts, NEW why \in {"none", "checkout", "payment", "review"},
         Lock(k, why) \/ Unlock(k)
  PROVE  /\ active' \in [Customers -> Checkouts \cup {NoCheckout}]
         /\ reason' \in [Customers -> {"none", "checkout", "payment", "review"}]
BY DEF Lock, Unlock, ShopType

LEMMA RetainFrame ==
  ASSUME ShopType, NEW k \in Checkouts, NEW to \in {"payment_hold", "held_for_review"},
         Retain(k, to)
  PROVE  ShopType' /\ NothingNew
<1>1. Move(k, {"payment_hold", "held_for_review"}, to) /\ to \in ReservationStates
  BY DEF Retain, ReservationStates, Current
<1>2. res' \in [Reservations -> ReservationStates] /\ NothingNew
  BY <1>1, MoveFrame DEF Current
<1>3. /\ active' \in [Customers -> Checkouts \cup {NoCheckout}]
      /\ reason' \in [Customers -> {"none", "checkout", "payment", "review"}]
  BY LockFrame DEF Retain
<1> QED BY <1>2, <1>3 DEF Retain, ShopType

LEMMA TerminateFrame ==
  ASSUME ShopType, NEW k \in Checkouts, NEW expected \in {"payment_hold", "held_for_review"},
         Terminate(k, expected)
  PROVE  ShopType' /\ NothingNew
<1>1. CASE UNCHANGED <<cart, checkout, res>>
  BY <1>1 DEF ShopType, NothingNew, cart, checkout
<1>2. CASE Move(k, {expected}, "released") /\ Unlock(k) /\ UNCHANGED lapsed
           /\ status' = [status EXCEPT ![k] = "canceled"]
  <2>1. res' \in [Reservations -> ReservationStates] /\ NothingNew
    BY <1>2, MoveFrame DEF Current, History, ReservationStates
  <2>2. /\ active' \in [Customers -> Checkouts \cup {NoCheckout}]
        /\ reason' \in [Customers -> {"none", "checkout", "payment", "review"}]
    BY <1>2, LockFrame
  <2> QED BY <1>2, <2>1, <2>2 DEF ShopType
<1> QED BY <1>1, <1>2 DEF Terminate

LEMMA AbandonFrame ==
  ASSUME ShopType, NEW k \in Checkouts, NEW to \in {"expired", "canceled"},
         NEW released \in {"expired", "released"}, Abandon(k, to, released)
  PROVE  ShopType' /\ NothingNew
<1>1. res' \in [Reservations -> ReservationStates] /\ NothingNew
  BY MoveFrame DEF Abandon, Current, History, ReservationStates
<1>2. /\ active' \in [Customers -> Checkouts \cup {NoCheckout}]
      /\ reason' \in [Customers -> {"none", "checkout", "payment", "review"}]
  BY LockFrame DEF Abandon, ShopType, cart
<1> QED BY <1>1, <1>2 DEF Abandon, ShopType

LEMMA PayFrame ==
  ASSUME MoneyType, NEW k \in Checkouts, NEW p, NEW t, Pay(k, p, t),
         p \in {"none", "open", "processing", "review", "pending_finalization", "paid"},
         t \in {"none", "attempted", "created", "terminal", "succeeded"} \cup LiveTx
  PROVE  /\ payment' \in [Checkouts -> {"none", "open", "processing", "review",
                                         "pending_finalization", "paid"}]
         /\ tx' \in [Checkouts -> {"none", "attempted", "created", "terminal", "succeeded"}
                                    \cup LiveTx]
BY DEF Pay, MoneyType

LEMMA RecordFrame ==
  ASSUME MoneyType, NEW k \in Checkouts,
         NEW what \in {"success", "unpaid", "waiting", "malformed", "doubt"},
         Record(k, what)
  PROVE  evidence' \in [Checkouts -> SUBSET {"success", "unpaid", "waiting", "malformed", "doubt"}]
BY DEF Record, MoneyType

LEMMA ReviewFrame ==
  ASSUME MoneyType, NEW k \in Checkouts, NEW c \in Cases
  PROVE  /\ Opening(k, c) \in [Checkouts -> [Cases -> ReviewStatus]]
         /\ [reviews EXCEPT ![k][c] = "resolved"]
              \in [Checkouts -> [Cases -> ReviewStatus]]
         /\ Settled(k) \in [Checkouts -> [Cases -> ReviewStatus]]
BY DEF Opening, Settled, MoneyType

-----------------------------------------------------------------------------
(* What is held, counted                                                   *)

\* The reservations of a finite set of lines, one per line, are as many.
LEMMA OnePerLine ==
  ASSUME NEW S, IsFiniteSet(S), NEW g
  PROVE  IsFiniteSet(S \X {g}) /\ Cardinality(S \X {g}) = Cardinality(S)
<1> DEFINE f == [l \in S |-> <<l, g>>]
<1>1. f \in [S -> S \X {g}]
  OBVIOUS
<1>2. \A a, b \in DOMAIN f : f[a] = f[b] => a = b
  OBVIOUS
<1>3. \A t \in S \X {g} : \E l \in S : f[l] = t
  OBVIOUS
<1>4. f \in Bijection(S, S \X {g})
  BY <1>1, <1>2, <1>3, Zenon DEF Bijection, Injection, Surjection, IsInjective
<1> QED BY <1>4, FS_Bijection DEF ExistsBijection

LEMMA SomeLinesFinite ==
  ASSUME NEW S, S \subseteq Lines
  PROVE  IsFiniteSet(S) /\ Cardinality(S) \in Nat
<1>1. IsFiniteSet(S)
  BY StockAssumption, FS_Subset
<1> QED BY <1>1, FS_CardinalityType

LEMMA HeldFinite ==
  ASSUME NEW p
  PROVE  IsFiniteSet(Held(p)) /\ Cardinality(Held(p)) \in Nat
<1>1. IsFiniteSet((Lines \X {"original"}) \cup (Lines \X {"replacement"}))
  BY StockAssumption, OnePerLine, FS_Union
<1>2. Held(p) \subseteq (Lines \X {"original"}) \cup (Lines \X {"replacement"})
  BY DEF Held, Reservations
<1>3. IsFiniteSet(Held(p))
  BY <1>1, <1>2, FS_Subset
<1> QED BY <1>3, FS_CardinalityType

\* A step that leaves the pools alone and holds nothing new oversells nothing.
LEMMA NothingNewKeeps ==
  ASSUME SellableType, NoOversell, NothingNew, UNCHANGED sellable
  PROVE  NoOversell'
<1> SUFFICES ASSUME NEW p \in Pools PROVE Cardinality(Held(p)') <= sellable[p]
  BY DEF NoOversell
<1>1. Held(p)' \subseteq Held(p)
  BY DEF NothingNew, Held
<1>2. Cardinality(Held(p)') <= Cardinality(Held(p)) /\ IsFiniteSet(Held(p)')
  BY <1>1, HeldFinite, FS_Subset
<1>3. Cardinality(Held(p)') \in Nat
  BY <1>2, FS_CardinalityType
<1> QED BY <1>2, <1>3, HeldFinite, StockAssumption DEF NoOversell, SellableType

\* New holds, one for each of some lines that what remains is enough for.
LEMMA AvailableKeeps ==
  ASSUME SellableType, NoOversell, UNCHANGED sellable,
         NEW S, S \subseteq Lines, Available(S), NEW g,
         \A r \in Reservations :
           res'[r] \in Current => res[r] \in Current \/ r \in S \X {g}
  PROVE  NoOversell'
<1> SUFFICES ASSUME NEW p \in Pools PROVE Cardinality(Held(p)') <= sellable[p]
  BY DEF NoOversell
<1> DEFINE T == {l \in S : PoolOf[l] = p}
           D == Cardinality(T)
           H == Cardinality(Held(p))
<1>1. IsFiniteSet(T) /\ D \in Nat
  BY SomeLinesFinite
<1>2. IsFiniteSet(T \X {g}) /\ Cardinality(T \X {g}) = D
  BY <1>1, OnePerLine
<1>3. Held(p)' \subseteq Held(p) \cup (T \X {g})
  BY DEF Held
<1>4. H \in Nat /\ IsFiniteSet(Held(p)) /\ sellable[p] \in Nat /\ H <= sellable[p]
  BY HeldFinite, StockAssumption DEF NoOversell, SellableType
<1>5. IsFiniteSet(Held(p) \cup (T \X {g}))
      /\ Cardinality(Held(p) \cup (T \X {g})) <= H + D
  <2>1. Cardinality(Held(p) \cup (T \X {g})) = H + D - Cardinality(Held(p) \cap (T \X {g}))
        /\ IsFiniteSet(Held(p) \cup (T \X {g}))
    BY <1>2, <1>4, FS_Union
  <2>2. Cardinality(Held(p) \cap (T \X {g})) \in Nat
    BY <1>4, FS_Subset, FS_CardinalityType
  <2> QED BY <1>1, <1>4, <2>1, <2>2
<1>6. IsFiniteSet(Held(p)') /\ Cardinality(Held(p)') <= Cardinality(Held(p) \cup (T \X {g}))
  BY <1>3, <1>5, FS_Subset
<1>7. Cardinality(Held(p)') \in Nat /\ Cardinality(Held(p) \cup (T \X {g})) \in Nat
  BY <1>5, <1>6, FS_CardinalityType
<1>8. CASE D > 0
  <2>1. D <= sellable[p] - H
    BY <1>8 DEF Available, Remaining, Demand
  <2> QED BY <1>1, <1>4, <1>5, <1>6, <1>7, <2>1
<1>9. CASE D = 0
  BY <1>4, <1>5, <1>6, <1>7, <1>9
<1> QED BY <1>1, <1>8, <1>9

\* A sale takes from each pool what the checkout held of it, and its holds.
LEMMA SaleKeeps ==
  ASSUME SellableType, ShopType, NoOversell, NEW k \in Checkouts, Finalize(k)
  PROVE  SellableType' /\ NoOversell'
<1> DEFINE D(p) == Demand(p, LinesOf(k))
<1>1. \A p \in Pools : D(p) \in Nat /\ D(p) <= sellable[p]
  BY SomeLinesFinite DEF Finalize, Demand, LinesOf
<1>2. sellable' = [p \in Pools |-> sellable[p] - D(p)]
  BY DEF Finalize
<1>3. SellableType'
  <2> SUFFICES ASSUME NEW p \in Pools PROVE sellable[p] - D(p) \in 0..MaxStock
    BY <1>2 DEF SellableType
  <2> QED BY <1>1, StockAssumption DEF SellableType
<1>4. NoOversell'
  <2> SUFFICES ASSUME NEW p \in Pools PROVE Cardinality(Held(p)') <= sellable[p] - D(p)
    BY <1>2 DEF NoOversell
  <2> DEFINE T == {l \in LinesOf(k) : PoolOf[l] = p}
             Gone == Held(p) \ Held(p)'
             f == [l \in T |-> CHOOSE r \in Reservations : r[1] = l /\ res[r] = "payment_hold"]
  <2>1. \A l \in T : f[l] \in Reservations /\ f[l][1] = l /\ res[f[l]] = "payment_hold"
    <3> SUFFICES ASSUME NEW l \in T
                 PROVE  \E r \in Reservations : r[1] = l /\ res[r] = "payment_hold"
      OBVIOUS
    <3> QED BY DEF Finalize, Deliverable, EveryLine, Holds
  <2>2. \A l \in T : f[l] \in Gone
    <3> SUFFICES ASSUME NEW l \in T PROVE f[l] \in Held(p) /\ res'[f[l]] = "consumed"
      BY DEF Held, Current
    <3>1. f[l] \in Held(p)
      BY <2>1 DEF Held, Current
    <3>2. CheckoutOf[f[l][1]] = k
      BY <2>1 DEF LinesOf
    <3> QED BY <2>1, <3>1, <3>2 DEF Finalize, Move
  <2>3. f \in [T -> Gone]
    BY <2>2
  <2>4. \A a, b \in DOMAIN f : f[a] = f[b] => a = b
    BY <2>1
  <2>5. f \in Injection(T, Gone)
    BY <2>3, <2>4, Zenon DEF Injection, IsInjective
  <2>6. IsFiniteSet(Gone) /\ D(p) <= Cardinality(Gone) /\ Cardinality(Gone) \in Nat
    <3>1. IsFiniteSet(Gone) /\ Cardinality(Gone) \in Nat
      BY HeldFinite, FS_Subset, FS_CardinalityType
    <3> QED BY <2>5, <3>1, FS_Injection DEF Demand
  <2>7. Held(p)' \subseteq Held(p)
    BY MoveFrame DEF Finalize, NothingNew, Held, Current, History, ReservationStates
  <2>8. IsFiniteSet(Held(p)') /\ Cardinality(Held(p)') \in Nat
    BY <2>7, HeldFinite, FS_Subset, FS_CardinalityType
  <2>9. Cardinality(Held(p)) = Cardinality(Held(p)') + Cardinality(Gone)
    <3>1. Held(p) = Held(p)' \cup Gone /\ Held(p)' \cap Gone = {}
      BY <2>7
    <3>2. Cardinality(Held(p)' \cup Gone)
            = Cardinality(Held(p)') + Cardinality(Gone) - Cardinality(Held(p)' \cap Gone)
      BY <2>6, <2>8, FS_Union
    <3>3. Cardinality(Held(p)' \cap Gone) = 0
      BY <3>1, FS_EmptySet
    <3> HIDE DEF Gone
    <3>4. Cardinality(Held(p)) = Cardinality(Held(p)' \cup Gone)
      BY <3>1
    <3> QED BY <2>6, <2>8, <3>2, <3>3, <3>4
  <2>10. Cardinality(Held(p)) <= sellable[p] /\ sellable[p] \in Nat
    BY StockAssumption DEF NoOversell, SellableType
  <2> HIDE DEF Gone, D
  <2>11. D(p) \in Nat
    BY <1>1
  <2> QED BY <2>6, <2>8, <2>9, <2>10, <2>11
<1> QED BY <1>3, <1>4

-----------------------------------------------------------------------------
(* The steps                                                               *)

\* Both are inductive together: every action that holds or sells stock checks
\* the pools it needs in the same transaction.
IInv == TypeOK /\ NoOversell

LEMMA InitIInv == Init => IInv
<1> SUFFICES ASSUME Init PROVE IInv
  OBVIOUS
<1>1. TypeOK
  BY StockAssumption DEF Init, TypeOK, Reservations, ReservationStates
<1>2. NoOversell
  <2> SUFFICES ASSUME NEW p \in Pools PROVE Cardinality(Held(p)) <= sellable[p]
    BY DEF NoOversell
  <2>1. Held(p) = {}
    BY DEF Held, Init, Current
  <2> QED BY <2>1, FS_EmptySet, StockAssumption DEF Init
<1> QED BY <1>1, <1>2 DEF IInv

\* The pools stay as they are and nothing new is held.
Quiet == SellableType' /\ ShopType' /\ MoneyType' /\ NothingNew /\ UNCHANGED sellable

LEMMA QuietKeeps ==
  ASSUME IInv, Quiet
  PROVE  IInv'
BY TypeParts, NothingNewKeeps, PTL DEF Quiet, IInv

LEMMA ShopStep ==
  ASSUME IInv, NEW k \in Checkouts, Shop(k)
  PROVE  IInv'
<1> SellableType /\ ShopType /\ MoneyType /\ NoOversell
  BY TypeParts DEF IInv
<1>1. CASE Prepare(k)
  <2>1. IsFiniteSet(LinesOf(k)) /\ LinesOf(k) \subseteq Lines /\ Available(LinesOf(k))
    BY <1>1, SomeLinesFinite DEF LinesOf, Prepare
  <2>2. \A r \in Reservations :
          res'[r] \in Current => res[r] \in Current \/ r \in LinesOf(k) \X {"original"}
    BY <1>1 DEF Prepare, Reservations, LinesOf, ShopType
  <2>3. NoOversell'
    BY <1>1, <2>1, <2>2, AvailableKeeps DEF Prepare
  <2>4. res' \in [Reservations -> ReservationStates]
    BY <1>1 DEF Prepare, ShopType, ReservationStates, Current
  <2>5. /\ active' \in [Customers -> Checkouts \cup {NoCheckout}]
        /\ reason' \in [Customers -> {"none", "checkout", "payment", "review"}]
    BY <1>1, LockFrame DEF Prepare
  <2>6. ShopType'
    BY <1>1, <2>4, <2>5 DEF Prepare, ShopType
  <2>7. SellableType' /\ MoneyType'
    BY <1>1 DEF Prepare, SellableType, MoneyType, money
  <2> QED BY <2>3, <2>6, <2>7, TypeParts, PTL DEF IInv
<1>2. CASE Lapse(k)
  <2>1. ShopType' /\ NothingNew
    BY <1>2 DEF Lapse, ShopType, NothingNew, cart
  <2>2. SellableType' /\ MoneyType' /\ UNCHANGED sellable
    BY <1>2 DEF Lapse, SellableType, MoneyType, money
  <2> QED BY <2>1, <2>2, QuietKeeps DEF Quiet
<1>3. CASE Expire(k) \/ CancelCheckout(k)
  <2>1. PICK to \in {"expired", "canceled"}, released \in {"expired", "released"} :
          Abandon(k, to, released)
    BY <1>3 DEF Expire, CancelCheckout
  <2>2. ShopType' /\ NothingNew
    BY <2>1, AbandonFrame
  <2>3. SellableType' /\ MoneyType' /\ UNCHANGED sellable
    BY <2>1 DEF Abandon, SellableType, MoneyType, money
  <2> QED BY <2>2, <2>3, QuietKeeps DEF Quiet
<1>4. CASE Place(k)
  <2>1. res' \in [Reservations -> ReservationStates] /\ NothingNew
    BY <1>4, MoveFrame
       DEF Place, Current, ReservationStates, Placeable, HoldForOrder, OpenObligation
  <2>2. /\ active' \in [Customers -> Checkouts \cup {NoCheckout}]
        /\ reason' \in [Customers -> {"none", "checkout", "payment", "review"}]
    BY <1>4, LockFrame DEF Place, Placeable, HoldForOrder, OpenObligation
  <2>3. ShopType'
    BY <1>4, <2>1, <2>2 DEF Place, ShopType, Placeable, HoldForOrder, OpenObligation
  <2>4. SellableType' /\ MoneyType' /\ UNCHANGED sellable
    BY <1>4 DEF Place, SellableType, MoneyType, Placeable, HoldForOrder, OpenObligation
  <2> QED BY <2>1, <2>3, <2>4, QuietKeeps DEF Quiet
<1> QED BY <1>1, <1>2, <1>3, <1>4 DEF Shop

LEMMA CollectStep ==
  ASSUME IInv, NEW k \in Checkouts, Collect(k)
  PROVE  IInv'
<1> SellableType /\ ShopType /\ MoneyType /\ NoOversell
  BY TypeParts DEF IInv
<1>1. CASE CreateAttempt(k) \/ CreateTransaction(k) \/ ClaimRequest(k)
  <2>1. ShopType' /\ NothingNew /\ SellableType' /\ UNCHANGED sellable
    BY <1>1 DEF CreateAttempt, CreateTransaction, ClaimRequest, ShopType, SellableType,
       NothingNew, cart, checkout
  <2>2. /\ payment' \in [Checkouts -> {"none", "open", "processing", "review",
                                         "pending_finalization", "paid"}]
        /\ tx' \in [Checkouts -> {"none", "attempted", "created", "terminal", "succeeded"}
                                    \cup LiveTx]
    BY <1>1 DEF CreateAttempt, CreateTransaction, ClaimRequest, MoneyType, Pay, LiveTx
  <2>3. MoneyType'
    BY <1>1, <2>2 DEF CreateAttempt, CreateTransaction, ClaimRequest, MoneyType
  <2> QED BY <2>1, <2>3, QuietKeeps DEF Quiet
<1>2. CASE ResultAccepted(k)
  <2>1. ShopType' /\ NothingNew
    BY <1>2, RetainFrame DEF ResultAccepted, Keep, HoldIn
  <2>2. SellableType' /\ MoneyType' /\ UNCHANGED sellable
    BY <1>2 DEF ResultAccepted, SellableType, MoneyType, Pay, LiveTx
  <2> QED BY <2>1, <2>2, QuietKeeps DEF Quiet
<1>3. CASE ResultUnpaid(k)
  <2>1. ShopType' /\ NothingNew
    BY <1>3, TerminateFrame DEF ResultUnpaid
  <2>2. SellableType' /\ MoneyType' /\ UNCHANGED sellable
    BY <1>3 DEF ResultUnpaid, SellableType, MoneyType, Pay
  <2> QED BY <2>1, <2>2, QuietKeeps DEF Quiet
<1>4. CASE ResultUnclear(k)
  <2>1. ShopType' /\ NothingNew
    BY <1>4, RetainFrame DEF ResultUnclear, Keep, HoldIn
  <2>2. reviews' \in [Checkouts -> [Cases -> ReviewStatus]]
    BY <1>4, ReviewFrame DEF ResultUnclear, Cases
  <2>3. SellableType' /\ MoneyType' /\ UNCHANGED sellable
    BY <1>4, <2>2 DEF ResultUnclear, SellableType, MoneyType, Pay, LiveTx
  <2> QED BY <2>1, <2>3, QuietKeeps DEF Quiet
<1>5. CASE (\E a \in {"paid", "unpaid"} : Decide(k, a)) \/ CaptureLate(k)
  <2>1. ShopType' /\ NothingNew /\ SellableType' /\ UNCHANGED sellable
    BY <1>5 DEF Decide, CaptureLate, ShopType, SellableType, NothingNew, cart, checkout
  <2>2. MoneyType'
    BY <1>5 DEF Decide, CaptureLate, MoneyType, money
  <2> QED BY <2>1, <2>2, QuietKeeps DEF Quiet
<1> QED BY <1>1, <1>2, <1>3, <1>4, <1>5 DEF Collect

LEMMA VerifyStep ==
  ASSUME IInv, NEW k \in Checkouts, Verify(k)
  PROVE  IInv'
<1> SellableType /\ ShopType /\ MoneyType /\ NoOversell
  BY TypeParts DEF IInv
<1>1. CASE VerifySuccess(k) \/ VerifyPending(k)
  <2>1. ShopType' /\ NothingNew
    BY <1>1, RetainFrame DEF VerifySuccess, VerifyPending, Keep, HoldIn, HoldAfter
  <2>2. evidence' \in [Checkouts -> SUBSET {"success", "unpaid", "waiting", "malformed", "doubt"}]
    BY <1>1, RecordFrame DEF VerifySuccess, VerifyPending
  <2>4. SellableType' /\ MoneyType' /\ UNCHANGED sellable
    BY <1>1, <2>2 DEF VerifySuccess, VerifyPending, SellableType, MoneyType, Pay, LiveTx
  <2> QED BY <2>1, <2>4, QuietKeeps DEF Quiet
<1>2. CASE VerifyLateSuccess(k)
  <2>1. ShopType' /\ NothingNew
    BY <1>2 DEF VerifyLateSuccess, ShopType, NothingNew, cart, checkout
  <2>2. evidence' \in [Checkouts -> SUBSET {"success", "unpaid", "waiting", "malformed", "doubt"}]
    BY <1>2, RecordFrame DEF VerifyLateSuccess
  <2>3. reviews' \in [Checkouts -> [Cases -> ReviewStatus]]
    BY <1>2, ReviewFrame DEF VerifyLateSuccess, Cases
  <2>4. SellableType' /\ MoneyType' /\ UNCHANGED sellable
    BY <1>2, <2>2, <2>3 DEF VerifyLateSuccess, SellableType, MoneyType, Pay
  <2> QED BY <2>1, <2>4, QuietKeeps DEF Quiet
<1>3. CASE VerifyUnpaid(k)
  <2>1. ShopType' /\ NothingNew
    BY <1>3, TerminateFrame DEF VerifyUnpaid
  <2>2. evidence' \in [Checkouts -> SUBSET {"success", "unpaid", "waiting", "malformed", "doubt"}]
    BY <1>3, RecordFrame DEF VerifyUnpaid
  <2>4. SellableType' /\ MoneyType' /\ UNCHANGED sellable
    BY <1>3, <2>2 DEF VerifyUnpaid, SellableType, MoneyType, Pay, LiveTx
  <2> QED BY <2>1, <2>4, QuietKeeps DEF Quiet
<1>4. CASE VerifyUnknown(k) \/ VerifyMalformed(k) \/ VerifyConflict(k)
  <2>1. ShopType' /\ NothingNew
    BY <1>4, RetainFrame DEF VerifyUnknown, VerifyMalformed, VerifyConflict, Keep, HoldIn, HoldAfter
  <2>2. evidence' \in [Checkouts -> SUBSET {"success", "unpaid", "waiting", "malformed", "doubt"}]
    BY <1>4, RecordFrame DEF VerifyUnknown, VerifyMalformed, VerifyConflict
  <2>3. reviews' \in [Checkouts -> [Cases -> ReviewStatus]]
    BY <1>4, ReviewFrame DEF VerifyUnknown, VerifyMalformed, VerifyConflict, Cases, MoneyType
  <2>4. SellableType' /\ MoneyType' /\ UNCHANGED sellable
    <3>1. /\ payment' \in [Checkouts -> {"none", "open", "processing", "review",
                                           "pending_finalization", "paid"}]
          /\ tx' \in [Checkouts -> {"none", "attempted", "created", "terminal", "succeeded"}
                                      \cup LiveTx]
      BY <1>4, PayFrame DEF VerifyUnknown, VerifyMalformed, VerifyConflict, LiveTx
    <3> QED BY <1>4, <2>2, <2>3, <3>1 DEF VerifyUnknown,
               VerifyMalformed, VerifyConflict, SellableType, MoneyType
  <2> QED BY <2>1, <2>4, QuietKeeps DEF Quiet
<1> QED BY <1>1, <1>2, <1>3, <1>4 DEF Verify

LEMMA ControlStep ==
  ASSUME IInv, NEW k \in Checkouts, Control(k)
  PROVE  IInv'
<1> SellableType /\ ShopType /\ MoneyType /\ NoOversell
  BY TypeParts DEF IInv
<1>1. CASE EscalateOverdue(k) \/ RenewPaid(k)
  <2>1. ShopType' /\ NothingNew
    BY <1>1, RetainFrame DEF EscalateOverdue, RenewPaid, Keep, HoldIn
  <2>3. reviews' \in [Checkouts -> [Cases -> ReviewStatus]]
    <3>1. CASE EscalateOverdue(k)
      BY <3>1, ReviewFrame DEF EscalateOverdue, Cases
    <3>2. CASE RenewPaid(k)
      BY <3>2 DEF RenewPaid, MoneyType
    <3> QED BY <1>1, <3>1, <3>2
  <2>4. SellableType' /\ MoneyType' /\ UNCHANGED sellable
    BY <1>1, <2>3 DEF EscalateOverdue, RenewPaid, SellableType, MoneyType, money
  <2> QED BY <2>1, <2>4, QuietKeeps DEF Quiet
<1>2. CASE EscalateFinalization(k)
  <2>1. ShopType' /\ NothingNew
    <3>1. CASE Retain(k, "held_for_review")
      BY <3>1, RetainFrame
    <3>2. CASE UNCHANGED <<cart, checkout, res>>
      BY <3>2 DEF ShopType, NothingNew, cart, checkout
    <3> QED BY <1>2, <3>1, <3>2 DEF EscalateFinalization, Keep, HoldIn
  <2>2. reviews' \in [Checkouts -> [Cases -> ReviewStatus]]
    BY <1>2, ReviewFrame DEF EscalateFinalization, Cases
  <2>3. SellableType' /\ MoneyType' /\ UNCHANGED sellable
    BY <1>2, <2>2 DEF EscalateFinalization, SellableType, MoneyType, money
  <2> QED BY <2>1, <2>3, QuietKeeps DEF Quiet
<1>3. CASE Reconcile(k)
  <2>1. ShopType' /\ NothingNew
    BY <1>3, TerminateFrame DEF Reconcile
  <2>3. reviews' \in [Checkouts -> [Cases -> ReviewStatus]]
    BY <1>3, ReviewFrame DEF Reconcile, Cases, MoneyType
  <2>4. SellableType' /\ MoneyType' /\ UNCHANGED sellable
    BY <1>3, <2>3 DEF Reconcile, SellableType, MoneyType, Pay, LiveTx
  <2> QED BY <2>1, <2>4, QuietKeeps DEF Quiet
<1>4. CASE ResolveReview(k)
  <2>1. ShopType' /\ NothingNew
    BY <1>4 DEF ResolveReview, ShopType, NothingNew, cart, checkout
  <2>2. reviews' \in [Checkouts -> [Cases -> ReviewStatus]]
    BY <1>4, ReviewFrame DEF ResolveReview
  <2>3. SellableType' /\ MoneyType' /\ UNCHANGED sellable
    BY <1>4, <2>2 DEF ResolveReview, SellableType, MoneyType, money
  <2> QED BY <2>1, <2>3, QuietKeeps DEF Quiet
<1> QED BY <1>1, <1>2, <1>3, <1>4 DEF Control

LEMMA SettleStep ==
  ASSUME IInv, NEW k \in Checkouts, Settle(k)
  PROVE  IInv'
<1> SellableType /\ ShopType /\ MoneyType /\ NoOversell
  BY TypeParts DEF IInv
<1>1. CASE Recognize(k)
  <2>1. ShopType' /\ NothingNew
    BY <1>1, RetainFrame DEF Recognize, Keep, HoldIn
  <2>3. reviews' \in [Checkouts -> [Cases -> ReviewStatus]]
    BY <1>1, ReviewFrame DEF Recognize, Cases, MoneyType
  <2>4. SellableType' /\ MoneyType' /\ UNCHANGED sellable
    BY <1>1, <2>3 DEF Recognize, SellableType, MoneyType, Pay, LiveTx
  <2> QED BY <2>1, <2>4, QuietKeeps DEF Quiet
<1>2. CASE RecognizeLate(k)
  <2>1. ShopType' /\ NothingNew
    BY <1>2 DEF RecognizeLate, ShopType, NothingNew, cart, checkout
  <2>2. reviews' \in [Checkouts -> [Cases -> ReviewStatus]]
    BY <1>2, ReviewFrame DEF RecognizeLate, Cases
  <2>3. SellableType' /\ MoneyType' /\ UNCHANGED sellable
    BY <1>2, <2>2 DEF RecognizeLate, SellableType, MoneyType, Pay
  <2> QED BY <2>1, <2>3, QuietKeeps DEF Quiet
<1>3. CASE Finalize(k)
  <2>1. SellableType' /\ NoOversell'
    BY <1>3, SaleKeeps
  <2>2. res' \in [Reservations -> ReservationStates]
    BY <1>3, MoveFrame DEF Finalize, Current, History, ReservationStates
  <2>3. /\ active' \in [Customers -> Checkouts \cup {NoCheckout}]
        /\ reason' \in [Customers -> {"none", "checkout", "payment", "review"}]
    BY <1>3, LockFrame DEF Finalize
  <2>4. ShopType'
    BY <1>3, <2>2, <2>3 DEF Finalize, ShopType
  <2>5. MoneyType'
    BY <1>3 DEF Finalize, MoneyType
  <2> QED BY <2>1, <2>4, <2>5, TypeParts, PTL DEF IInv
<1> QED BY <1>1, <1>2, <1>3 DEF Settle

LEMMA AdjudicationStep ==
  ASSUME IInv, NEW k \in Checkouts, Adjudication(k)
  PROVE  IInv'
<1> "late" \in Cases /\ "inventory" \in Cases
  BY DEF Cases
<1> SellableType /\ ShopType /\ MoneyType /\ NoOversell
  BY TypeParts DEF IInv
<1>1. CASE Propose(k) \/ Check(k) \/ BarLate(k) \/ ResolveInventory(k)
  <2>1. ShopType' /\ NothingNew
    BY <1>1
       DEF Propose, Check, BarLate, ResolveInventory, ShopType, NothingNew, cart, checkout
  <2>2. reviews' \in [Checkouts -> [Cases -> ReviewStatus]]
    <3>1. CASE Propose(k)
      BY <3>1 DEF Propose, MoneyType
    <3>2. CASE Check(k)
      BY <3>2, ReviewFrame DEF Check
    <3>3. CASE BarLate(k)
      BY <3>3, ReviewFrame DEF BarLate
    <3>4. CASE ResolveInventory(k)
      BY <3>4, ReviewFrame DEF ResolveInventory
    <3> QED BY <1>1, <3>1, <3>2, <3>3, <3>4
  <2>3. auth' \in [Checkouts -> Authorization]
    BY <1>1 DEF Propose, Check, BarLate, ResolveInventory, Adjudicate, MoneyType
  <2>4. SellableType' /\ MoneyType' /\ UNCHANGED sellable
    BY <1>1, <2>2, <2>3
       DEF Propose, Check, BarLate, ResolveInventory, SellableType, MoneyType,
       money
  <2> QED BY <2>1, <2>4, QuietKeeps DEF Quiet
<1>2. CASE RecoverLate(k)
  <2>1. Missing(k) \subseteq Lines /\ Available(Missing(k))
    BY <1>2 DEF RecoverLate, Missing, LinesOf
  <2>2. \A r \in Reservations :
          res'[r] \in Current => res[r] \in Current \/ r \in Missing(k) \X {"replacement"}
    BY <1>2 DEF RecoverLate, Replacements
  <2>3. NoOversell'
    BY <1>2, <2>1, <2>2, AvailableKeeps DEF RecoverLate
  <2>4. ShopType'
    BY <1>2 DEF RecoverLate, ShopType, ReservationStates, Current, cart
  <2>5. SellableType' /\ MoneyType'
    BY <1>2 DEF RecoverLate, SellableType, MoneyType, money
  <2> QED BY <2>3, <2>4, <2>5, TypeParts, PTL DEF IInv
<1> QED BY <1>1, <1>2 DEF Adjudication

LEMMA AdjustStep ==
  ASSUME IInv, NEW p \in Pools, Adjust(p)
  PROVE  IInv'
<1> SellableType /\ ShopType /\ MoneyType /\ NoOversell
  BY TypeParts DEF IInv
<1>1. PICK d \in {-1, 1} :
        /\ Covers(p, sellable[p] + d) /\ sellable[p] + d <= MaxStock
        /\ sellable' = [sellable EXCEPT ![p] = @ + d]
  BY DEF Adjust
<1>2. UNCHANGED <<cart, checkout, res, money, answer, reviews, auth>>
  BY DEF Adjust
<1>3. SellableType'
  BY <1>1, StockAssumption DEF Covers, SellableType
<1>4. ShopType' /\ MoneyType'
  BY <1>2 DEF ShopType, MoneyType, cart, checkout, money
<1>5. NoOversell'
  <2> SUFFICES ASSUME NEW q \in Pools PROVE Cardinality(Held(q)') <= sellable'[q]
    BY DEF NoOversell
  <2>1. Held(q)' = Held(q)
    BY <1>2 DEF Held
  <2>2. CASE q = p
    BY <1>1, <2>1, <2>2 DEF Covers, SellableType
  <2>3. CASE q # p
    BY <1>1, <2>1, <2>3 DEF NoOversell, SellableType
  <2> QED BY <2>2, <2>3
<1> QED BY <1>3, <1>4, <1>5, TypeParts, PTL DEF IInv

LEMMA NextIInv == IInv /\ [Next]_vars => IInv'
<1> SUFFICES ASSUME IInv, [Next]_vars PROVE IInv'
  OBVIOUS
<1>1. ASSUME NEW p \in Pools, Adjust(p) PROVE IInv'
  BY <1>1, AdjustStep
<1>2. ASSUME NEW k \in Checkouts,
             Shop(k) \/ Collect(k) \/ Verify(k) \/ Control(k) \/ Settle(k) \/ Adjudication(k)
      PROVE  IInv'
  BY <1>2, ShopStep, CollectStep, VerifyStep, ControlStep, SettleStep, AdjudicationStep
<1>3. CASE UNCHANGED vars
  <2>1. Quiet
    BY <1>3, TypeParts DEF IInv, Quiet, SellableType, ShopType, MoneyType, NothingNew,
       vars, cart, checkout, money
  <2> QED BY <2>1, QuietKeeps
<1> QED BY <1>1, <1>2, <1>3 DEF Next

\* The inductive invariant holds in every behavior.
THEOREM InductiveInvariant == Spec => []IInv
BY InitIInv, NextIInv, PTL DEF Spec

\* Type correctness for every set of customers, checkouts, lines and pools.
THEOREM TypeCorrect == Spec => []TypeOK
<1>1. IInv => TypeOK
  BY DEF IInv
<1> QED BY <1>1, InductiveInvariant, PTL

\* No pool is ever oversold: preparation and late recovery count what remains
\* under the pool's lock, staff cannot take stock that is held, and a sale
\* gives up at least as many holds as it takes copies.
THEOREM NeverOversold == Spec => []NoOversell
<1>1. IInv => NoOversell
  BY DEF IInv
<1> QED BY <1>1, InductiveInvariant, PTL

-----------------------------------------------------------------------------
(***************************************************************************)
(* The cart, the checkout and the reservations agree.                      *)
(***************************************************************************)

Reason(k) == reason[Owner[k]]

\* The original reservations of a checkout say what its cart says.
OriginalsAgree(k) ==
  \A l \in LinesOf(k) :
    IF Owns(k)
    THEN res[<<l, "original">>] = CASE Reason(k) = "checkout" -> "active"
                                    [] Reason(k) = "payment"  -> "payment_hold"
                                    [] OTHER -> "held_for_review"
    ELSE res[<<l, "original">>] \notin Current

\* A cart is locked for the reason its checkout's status allows.
ReasonAgrees(k) ==
  /\ status[k] = "draft" => Reason(k) = "checkout"
  /\ status[k] = "pending" => Reason(k) \in {"payment", "review"}

\* Only a placed checkout is pending.
PendingIsPlaced(k) == status[k] = "pending" => payment[k] # "none"

\* While a checkout owns the cart it has no replacement; recovery makes them
\* only for lines that hold nothing.
NoReplacement(k) ==
  Owns(k) => \A l \in LinesOf(k) : res[<<l, "replacement">>] \notin Current

\* Before its preparation nothing has happened to a checkout.
Unprepared(k) ==
  status[k] = "none" =>
    /\ payment[k] = "none" /\ tx[k] = "none" /\ auth[k] = "none"
    /\ \A l \in LinesOf(k) : res[<<l, "replacement">>] \notin Current

Agrees(k) ==
  /\ (status[k] \in {"draft", "pending"}) <=> Owns(k)
  /\ OriginalsAgree(k) /\ ReasonAgrees(k) /\ PendingIsPlaced(k)
  /\ NoReplacement(k) /\ Unprepared(k)

\* The strengthening of CartOwnsItsHolds that every step preserves.
CartInv == IInv /\ \A k \in Checkouts : Agrees(k)

-----------------------------------------------------------------------------
(* Steps on one checkout leave the others as they are                      *)

\* A step on a checkout touches its own rows, and its customer's cart only
\* when that cart is free or its own.
MoneyTouches(k) ==
  \A j \in Checkouts \ {k} :
    payment'[j] = payment[j] /\ tx'[j] = tx[j] /\ auth'[j] = auth[j]
ShopTouches(k) ==
  /\ \A j \in Checkouts \ {k} : status'[j] = status[j]
  /\ \A r \in Reservations : CheckoutOf[r[1]] # k => res'[r] = res[r]
  /\ \/ UNCHANGED cart
     \/ /\ active[Owner[k]] \in {k, NoCheckout}
        /\ \E a \in {k, NoCheckout} : active' = [active EXCEPT ![Owner[k]] = a]
        /\ \E why : reason' = [reason EXCEPT ![Owner[k]] = why]
Touches(k) == MoneyTouches(k) /\ ShopTouches(k)

LEMMA OthersAgree ==
  ASSUME CartInv, NEW k \in Checkouts, Touches(k), NEW j \in Checkouts, j # k
  PROVE  Agrees(j)'
<1> Agrees(j) /\ ShopType
  BY TypeParts DEF CartInv, IInv
<1> Owner[k] \in Customers /\ Owner[j] \in Customers /\ NoCheckout \notin Checkouts
  BY GraphAssumption
<1>1. \A l \in LinesOf(j) : /\ res'[<<l, "original">>] = res[<<l, "original">>]
                            /\ res'[<<l, "replacement">>] = res[<<l, "replacement">>]
  BY DEF Touches, ShopTouches, LinesOf, Reservations
<1>2. /\ status'[j] = status[j] /\ payment'[j] = payment[j]
      /\ tx'[j] = tx[j] /\ auth'[j] = auth[j]
  BY DEF Touches, ShopTouches, MoneyTouches
<1>3. Owns(j)' <=> Owns(j)
  BY DEF Touches, ShopTouches, Owns, ShopType, cart
<1>4. Owns(j) => Reason(j)' = Reason(j)
  BY DEF Touches, ShopTouches, Owns, Reason, ShopType, cart
<1>5. OriginalsAgree(j)' /\ NoReplacement(j)'
  BY <1>1, <1>3, <1>4 DEF Agrees, OriginalsAgree, NoReplacement, LinesOf
<1>6. ReasonAgrees(j)' /\ PendingIsPlaced(j)' /\ Unprepared(j)'
  BY <1>1, <1>2, <1>4 DEF Agrees, ReasonAgrees, PendingIsPlaced, Unprepared, LinesOf
<1> QED BY <1>2, <1>3, <1>5, <1>6 DEF Agrees

\* So it is enough that the checkout itself agrees after the step.
LEMMA StepAgrees ==
  ASSUME CartInv, NEW k \in Checkouts, Touches(k), Agrees(k)'
  PROVE  \A j \in Checkouts : Agrees(j)'
BY OthersAgree

\* Whatever has a payment, a transaction or an adjudication was prepared.
LEMMA Prepared ==
  ASSUME NEW k \in Checkouts, Agrees(k),
         payment[k] # "none" \/ tx[k] # "none" \/ auth[k] # "none"
  PROVE  status[k] # "none"
BY DEF Agrees, Unprepared

\* A step that leaves cart, status and stock alone, on a prepared checkout.
LEMMA AloneAgrees ==
  ASSUME NEW k \in Checkouts, Agrees(k), UNCHANGED <<active, reason, res>>,
         status'[k] = status[k], status[k] # "none",
         payment[k] # "none" => payment'[k] # "none"
  PROVE  Agrees(k)'
BY DEF Agrees, OriginalsAgree, ReasonAgrees, PendingIsPlaced, NoReplacement, Unprepared,
   Owns, Reason, LinesOf

LEMMA MoveTouches ==
  ASSUME ShopType, NEW k, NEW from, NEW to, Move(k, from, to)
  PROVE  \A r \in Reservations : CheckoutOf[r[1]] # k => res'[r] = res[r]
BY DEF Move, ShopType

LEMMA RetainAgrees ==
  ASSUME ShopType, NEW k \in Checkouts, Agrees(k),
         NEW to \in {"payment_hold", "held_for_review"}, Retain(k, to),
         payment[k] # "none" => payment'[k] # "none"
  PROVE  Agrees(k)'
<1> Owner[k] \in Customers
  BY GraphAssumption
<1>1. Owns(k) /\ status[k] = "pending" /\ status'[k] = "pending"
  BY DEF Retain, Extendable
<1>2. Reason(k) \in {"payment", "review"} /\ payment[k] # "none"
  BY <1>1 DEF Agrees, ReasonAgrees, PendingIsPlaced
<1>3. \A l \in LinesOf(k) : res[<<l, "original">>] \in {"payment_hold", "held_for_review"}
  BY <1>1, <1>2 DEF Agrees, OriginalsAgree
<1>4. \A l \in LinesOf(k) : res[<<l, "replacement">>] \notin Current
  BY <1>1 DEF Agrees, NoReplacement
<1>5. \A l \in LinesOf(k) : res'[<<l, "original">>] = to
                            /\ res'[<<l, "replacement">>] \notin Current
  BY <1>3, <1>4 DEF Retain, Move, Current, ShopType, LinesOf, Reservations
<1>6. Owns(k)' /\ Reason(k)' = IF to = "payment_hold" THEN "payment" ELSE "review"
  BY DEF Retain, Lock, Owns, Reason, ShopType
<1>7. OriginalsAgree(k)' /\ NoReplacement(k)'
  BY <1>5, <1>6 DEF OriginalsAgree, NoReplacement, LinesOf
<1>8. ReasonAgrees(k)' /\ PendingIsPlaced(k)' /\ Unprepared(k)'
  BY <1>1, <1>2, <1>6 DEF ReasonAgrees, PendingIsPlaced, Unprepared
<1> QED BY <1>1, <1>6, <1>7, <1>8 DEF Agrees

\* An ended checkout that released its stock and its cart agrees.
LEMMA EndedAgrees ==
  ASSUME ShopType, NEW k \in Checkouts, ~Owns(k)',
         status'[k] \in {"paid", "canceled", "expired"},
         \A l \in LinesOf(k) : res'[<<l, "original">>] \notin Current
  PROVE  Agrees(k)'
BY
   DEF Agrees, OriginalsAgree, ReasonAgrees, PendingIsPlaced, NoReplacement, Unprepared, LinesOf

LEMMA TerminateAgrees ==
  ASSUME ShopType, NEW k \in Checkouts, Agrees(k),
         NEW expected \in {"payment_hold", "held_for_review"}, Terminate(k, expected),
         payment[k] # "none" => payment'[k] # "none"
  PROVE  Agrees(k)'
<1> Owner[k] \in Customers /\ NoCheckout \notin Checkouts
  BY GraphAssumption
<1>1. CASE status[k] = "canceled" /\ UNCHANGED <<cart, checkout, res>>
  BY <1>1, AloneAgrees DEF cart, checkout
<1>2. CASE /\ Owns(k) /\ EveryLine(k, {expected})
           /\ Move(k, {expected}, "released") /\ Unlock(k)
           /\ status' = [status EXCEPT ![k] = "canceled"]
  <2>1. ~Owns(k)'
    BY <1>2 DEF Unlock, Owns, ShopType
  <2>2. \A l \in LinesOf(k) : res[<<l, "original">>] = expected
    <3> SUFFICES ASSUME NEW l \in LinesOf(k) PROVE res[<<l, "original">>] = expected
      OBVIOUS
    <3>1. res[<<l, "replacement">>] # expected
      BY <1>2 DEF Agrees, NoReplacement, Current
    <3>2. PICK r \in Reservations : r[1] = l /\ res[r] = expected
      BY <1>2 DEF EveryLine, Holds
    <3> QED BY <3>1, <3>2 DEF Reservations
  <2>3. \A l \in LinesOf(k) : res'[<<l, "original">>] \notin Current
    BY <1>2, <2>2 DEF Move, Current, ShopType, LinesOf, Reservations
  <2> QED BY <1>2, <2>1, <2>3, EndedAgrees DEF ShopType
<1> QED BY <1>1, <1>2 DEF Terminate

LEMMA AbandonAgrees ==
  ASSUME ShopType, NEW k \in Checkouts, Agrees(k), Unplaced(k),
         NEW to \in {"expired", "canceled"}, NEW released \in {"expired", "released"},
         Abandon(k, to, released)
  PROVE  Agrees(k)' /\ Owns(k)
<1> Owner[k] \in Customers /\ NoCheckout \notin Checkouts
  BY GraphAssumption
<1>1. status[k] = "draft" /\ Owns(k) /\ Reason(k) = "checkout"
  BY DEF Unplaced, Agrees, PendingIsPlaced, ReasonAgrees
<1>2. \A l \in LinesOf(k) : res[<<l, "original">>] = "active"
  BY <1>1 DEF Agrees, OriginalsAgree
<1>3. \A l \in LinesOf(k) : res'[<<l, "original">>] \notin Current
  BY <1>2 DEF Abandon, Move, Current, ShopType, LinesOf, Reservations
<1>4. ~Owns(k)'
  BY <1>1 DEF Abandon, Unlock, Owns, ShopType
<1> QED BY <1>1, <1>3, <1>4, EndedAgrees DEF Abandon, ShopType

LEMMA ShopTouched ==
  ASSUME ShopType, NEW k \in Checkouts, Agrees(k),
         \/ \E to \in {"payment_hold", "held_for_review"} : Retain(k, to)
         \/ \E expected \in {"payment_hold", "held_for_review"} : Terminate(k, expected)
         \/ Place(k) \/ Finalize(k)
         \/ Owns(k) /\ \E to \in {"expired", "canceled"}, released \in {"expired", "released"} :
                         Abandon(k, to, released)
         \/ UNCHANGED <<cart, status, res>>
  PROVE  ShopTouches(k)
<1>1. ASSUME NEW to \in {"payment_hold", "held_for_review"}, Retain(k, to)
      PROVE  ShopTouches(k)
  BY <1>1, MoveTouches DEF Retain, Extendable, Owns, Lock, ShopTouches
<1>2. ASSUME NEW expected \in {"payment_hold", "held_for_review"}, Terminate(k, expected)
      PROVE  ShopTouches(k)
  <2>1. CASE UNCHANGED <<cart, checkout, res>>
    BY <2>1 DEF ShopTouches, checkout
  <2>2. CASE /\ Owns(k) /\ Move(k, {expected}, "released") /\ Unlock(k)
             /\ status' = [status EXCEPT ![k] = "canceled"]
    BY <2>2, MoveTouches DEF Owns, Unlock, ShopTouches, ShopType
  <2> QED BY <1>2, <2>1, <2>2 DEF Terminate
<1>3. CASE Place(k)
  BY <1>3, MoveTouches
     DEF Place, Owns, Lock, ShopTouches, ShopType, Placeable, HoldForOrder, OpenObligation
<1>4. CASE Finalize(k)
  BY <1>4, MoveTouches DEF Finalize, Owns, Unlock, ShopTouches, ShopType
<1>5. ASSUME Owns(k), NEW to, NEW released, Abandon(k, to, released)
      PROVE  ShopTouches(k)
  BY <1>5, MoveTouches DEF Abandon, Owns, Unlock, ShopTouches, ShopType
<1>6. CASE UNCHANGED <<cart, status, res>>
  BY <1>6 DEF ShopTouches
<1> QED BY <1>1, <1>2, <1>3, <1>4, <1>5, <1>6

-----------------------------------------------------------------------------
(* The cart after each step                                                *)

LEMMA ShopAgrees ==
  ASSUME CartInv, NEW k \in Checkouts, Shop(k)
  PROVE  Touches(k) /\ Agrees(k)'
<1> ShopType /\ MoneyType /\ Agrees(k)
  BY TypeParts DEF CartInv, IInv
<1> Owner[k] \in Customers /\ NoCheckout \notin Checkouts
  BY GraphAssumption
<1>1. CASE Prepare(k)
  <2>1. Touches(k)
    BY <1>1
       DEF Prepare, Touches, ShopTouches, MoneyTouches, Lock, Reservations, ShopType, money
  <2>2. Owns(k)' /\ Reason(k)' = "checkout" /\ status'[k] = "draft"
    BY <1>1 DEF Prepare, Lock, Owns, Reason, ShopType
  <2>3. \A l \in LinesOf(k) : /\ res'[<<l, "original">>] = "active"
                              /\ res'[<<l, "replacement">>] \notin Current
    BY <1>1 DEF Prepare, Agrees, Unprepared, LinesOf, Reservations
  <2>4. OriginalsAgree(k)' /\ NoReplacement(k)'
    BY <2>2, <2>3 DEF OriginalsAgree, NoReplacement, LinesOf
  <2>5. ReasonAgrees(k)' /\ PendingIsPlaced(k)' /\ Unprepared(k)'
    BY <2>2 DEF ReasonAgrees, PendingIsPlaced, Unprepared
  <2> QED BY <2>1, <2>2, <2>4, <2>5 DEF Agrees
<1>2. CASE Lapse(k)
  <2>1. UNCHANGED <<active, reason, status, res, payment, tx, auth>>
    BY <1>2 DEF Lapse, cart, money
  <2>2. Agrees(k)'
    BY <2>1 DEF Agrees, OriginalsAgree, ReasonAgrees, PendingIsPlaced, NoReplacement,
       Unprepared, Owns, Reason, LinesOf
  <2> QED BY <2>1, <2>2 DEF Touches, ShopTouches, MoneyTouches, cart
<1>3. CASE Expire(k) \/ CancelCheckout(k)
  <2>1. Unplaced(k) /\ \E to \in {"expired", "canceled"}, released \in {"expired", "released"} :
                         Abandon(k, to, released)
    BY <1>3 DEF Expire, Expirable, CancelCheckout
  <2>2. Agrees(k)' /\ Owns(k)
    BY <2>1, AbandonAgrees
  <2>3. ShopTouches(k)
    BY <2>1, <2>2, ShopTouched
  <2>4. MoneyTouches(k)
    BY <2>1 DEF Abandon, MoneyTouches, money
  <2> QED BY <2>2, <2>3, <2>4 DEF Touches
<1>4. CASE Place(k)
  <2>1. Touches(k)
    BY <1>4, ShopTouched
       DEF Touches, MoneyTouches, Place, MoneyType, Placeable, HoldForOrder, OpenObligation
  <2>2. \A l \in LinesOf(k) : /\ res[<<l, "original">>] = "active"
                              /\ res[<<l, "replacement">>] \notin Current
    BY <1>4
       DEF Place, Agrees, OriginalsAgree, ReasonAgrees, NoReplacement, Placeable, HoldForOrder,
           OpenObligation
  <2>3. \A l \in LinesOf(k) : /\ res'[<<l, "original">>] = "payment_hold"
                              /\ res'[<<l, "replacement">>] \notin Current
    BY <1>4, <2>2
       DEF Place, Move, Current, ShopType, LinesOf, Reservations, Placeable, HoldForOrder,
           OpenObligation
  <2>4. Owns(k)' /\ Reason(k)' = "payment" /\ status'[k] = "pending" /\ payment'[k] = "open"
    BY <1>4
       DEF Place, Lock, Owns, Reason, ShopType, MoneyType, Placeable, HoldForOrder, OpenObligation
  <2>5. OriginalsAgree(k)' /\ NoReplacement(k)'
    BY <2>3, <2>4 DEF OriginalsAgree, NoReplacement, LinesOf
  <2>6. ReasonAgrees(k)' /\ PendingIsPlaced(k)' /\ Unprepared(k)'
    BY <2>4 DEF ReasonAgrees, PendingIsPlaced, Unprepared
  <2> QED BY <2>1, <2>4, <2>5, <2>6 DEF Agrees
<1> QED BY <1>1, <1>2, <1>3, <1>4 DEF Shop

LEMMA CollectAgrees ==
  ASSUME CartInv, NEW k \in Checkouts, Collect(k)
  PROVE  Touches(k) /\ Agrees(k)'
<1> ShopType /\ MoneyType /\ Agrees(k)
  BY TypeParts DEF CartInv, IInv
<1>1. CASE CreateAttempt(k) \/ CreateTransaction(k) \/ ClaimRequest(k)
  <2>1. UNCHANGED <<active, reason, status, res, auth>>
    BY <1>1 DEF CreateAttempt, CreateTransaction, ClaimRequest, cart, checkout
  <2>2. MoneyTouches(k) /\ (payment[k] # "none" => payment'[k] # "none")
    BY <1>1
       DEF CreateAttempt, CreateTransaction, ClaimRequest, Pay, MoneyTouches, MoneyType
  <2>3. status[k] # "none"
    BY <1>1, Prepared DEF CreateAttempt, CreateTransaction, ClaimRequest
  <2> QED BY <2>1, <2>2, <2>3, ShopTouched, AloneAgrees DEF Touches, cart
<1>2. CASE ResultAccepted(k) \/ ResultUnclear(k)
  <2>1. PICK to \in {"payment_hold", "held_for_review"} : Retain(k, to)
    BY <1>2 DEF ResultAccepted, ResultUnclear, Keep, HoldIn
  <2>2. MoneyTouches(k) /\ payment'[k] # "none"
    BY <1>2 DEF ResultAccepted, ResultUnclear, Pay, MoneyTouches, MoneyType
  <2> QED BY <2>1, <2>2, ShopTouched, RetainAgrees DEF Touches
<1>3. CASE ResultUnpaid(k)
  <2>1. Terminate(k, "payment_hold")
    BY <1>3 DEF ResultUnpaid
  <2>2. MoneyTouches(k) /\ payment'[k] # "none"
    BY <1>3 DEF ResultUnpaid, Pay, MoneyTouches, MoneyType
  <2> QED BY <2>1, <2>2, ShopTouched, TerminateAgrees DEF Touches
<1>4. CASE (\E a \in {"paid", "unpaid"} : Decide(k, a)) \/ CaptureLate(k)
  <2>1. UNCHANGED <<active, reason, status, res, payment, tx, auth>>
    BY <1>4 DEF Decide, CaptureLate, cart, checkout, money
  <2>2. Agrees(k)'
    BY <2>1 DEF Agrees, OriginalsAgree, ReasonAgrees, PendingIsPlaced, NoReplacement,
       Unprepared, Owns, Reason, LinesOf
  <2> QED BY <2>1, <2>2 DEF Touches, ShopTouches, MoneyTouches, cart
<1> QED BY <1>1, <1>2, <1>3, <1>4 DEF Collect

LEMMA VerifyAgrees ==
  ASSUME CartInv, NEW k \in Checkouts, Verify(k)
  PROVE  Touches(k) /\ Agrees(k)'
<1> ShopType /\ MoneyType /\ Agrees(k)
  BY TypeParts DEF CartInv, IInv
<1>1. CASE VerifySuccess(k) \/ VerifyPending(k) \/ VerifyUnknown(k)
           \/ VerifyMalformed(k) \/ VerifyConflict(k)
  <2>1. PICK to \in {"payment_hold", "held_for_review"} : Retain(k, to)
    BY <1>1
       DEF VerifySuccess, VerifyPending, VerifyUnknown,
           VerifyMalformed, VerifyConflict, HoldAfter, Keep, HoldIn
  <2>2. MoneyTouches(k) /\ payment'[k] # "none"
    BY <1>1 DEF VerifySuccess, VerifyPending, VerifyUnknown, VerifyMalformed, VerifyConflict, Pay,
       MoneyTouches, MoneyType
  <2> QED BY <2>1, <2>2, ShopTouched, RetainAgrees DEF Touches
<1>2. CASE VerifyLateSuccess(k)
  <2>1. UNCHANGED <<active, reason, status, res>> /\ MoneyTouches(k) /\ payment'[k] # "none"
    BY <1>2 DEF VerifyLateSuccess, Pay, MoneyTouches, MoneyType, cart, checkout
  <2>2. status[k] # "none"
    BY <1>2, Prepared DEF VerifyLateSuccess
  <2> QED BY <2>1, <2>2, ShopTouched, AloneAgrees DEF Touches, cart
<1>3. CASE VerifyUnpaid(k)
  <2>1. Terminate(k, "payment_hold")
    BY <1>3 DEF VerifyUnpaid
  <2>2. MoneyTouches(k) /\ payment'[k] # "none"
    BY <1>3 DEF VerifyUnpaid, Pay, MoneyTouches, MoneyType
  <2> QED BY <2>1, <2>2, ShopTouched, TerminateAgrees DEF Touches
<1> QED BY <1>1, <1>2, <1>3 DEF Verify

LEMMA ControlAgrees ==
  ASSUME CartInv, NEW k \in Checkouts, Control(k)
  PROVE  Touches(k) /\ Agrees(k)'
<1> ShopType /\ MoneyType /\ Agrees(k)
  BY TypeParts DEF CartInv, IInv
<1>1. CASE /\ \E to \in {"payment_hold", "held_for_review"} : Retain(k, to)
           /\ UNCHANGED money /\ UNCHANGED auth
  BY <1>1, ShopTouched, RetainAgrees DEF Touches, MoneyTouches, money
<1>2. CASE /\ UNCHANGED <<cart, checkout, res, money, auth>>
           /\ EscalateFinalization(k) \/ ResolveReview(k)
  <2>1. UNCHANGED <<active, reason, status, res, payment, tx, auth>>
    BY <1>2 DEF cart, checkout, money
  <2>2. Agrees(k)'
    BY <2>1 DEF Agrees, OriginalsAgree, ReasonAgrees, PendingIsPlaced, NoReplacement,
       Unprepared, Owns, Reason, LinesOf
  <2> QED BY <2>1, <2>2 DEF Touches, ShopTouches, MoneyTouches, cart
<1>3. CASE Reconcile(k)
  <2>1. Terminate(k, "held_for_review")
    BY <1>3 DEF Reconcile
  <2>2. MoneyTouches(k) /\ payment'[k] # "none"
    BY <1>3 DEF Reconcile, Pay, MoneyTouches, MoneyType
  <2> QED BY <2>1, <2>2, ShopTouched, TerminateAgrees DEF Touches
<1>4. CASE EscalateOverdue(k) \/ RenewPaid(k) \/ EscalateFinalization(k) \/ ResolveReview(k)
  BY <1>1, <1>2, <1>4
     DEF EscalateOverdue, RenewPaid, EscalateFinalization, ResolveReview, Keep, HoldIn
<1> QED BY <1>3, <1>4 DEF Control

LEMMA SettleAgrees ==
  ASSUME CartInv, NEW k \in Checkouts, Settle(k)
  PROVE  Touches(k) /\ Agrees(k)'
<1> ShopType /\ MoneyType /\ Agrees(k)
  BY TypeParts DEF CartInv, IInv
<1> Owner[k] \in Customers /\ NoCheckout \notin Checkouts
  BY GraphAssumption
<1>1. CASE Recognize(k)
  <2>1. Retain(k, "payment_hold") /\ MoneyTouches(k) /\ payment'[k] # "none"
    BY <1>1 DEF Recognize, Keep, HoldIn, Pay, MoneyTouches, MoneyType
  <2> QED BY <2>1, ShopTouched, RetainAgrees DEF Touches
<1>2. CASE RecognizeLate(k)
  <2>1. UNCHANGED <<active, reason, status, res>> /\ MoneyTouches(k) /\ payment'[k] # "none"
    BY <1>2 DEF RecognizeLate, Pay, MoneyTouches, MoneyType, cart, checkout
  <2>2. status[k] # "none"
    BY <1>2, Prepared DEF RecognizeLate
  <2> QED BY <2>1, <2>2, ShopTouched, AloneAgrees DEF Touches, cart
<1>3. CASE Finalize(k)
  <2>1. Touches(k)
    BY <1>3, ShopTouched DEF Touches, MoneyTouches, Finalize, MoneyType
  <2>2. \A l \in LinesOf(k) : res[<<l, "original">>] = "payment_hold"
    <3> SUFFICES ASSUME NEW l \in LinesOf(k) PROVE res[<<l, "original">>] = "payment_hold"
      OBVIOUS
    <3>1. res[<<l, "replacement">>] # "payment_hold"
      BY <1>3 DEF Finalize, Agrees, NoReplacement, Current
    <3>2. PICK r \in Reservations : r[1] = l /\ res[r] = "payment_hold"
      BY <1>3 DEF Finalize, Deliverable, EveryLine, Holds
    <3> QED BY <3>1, <3>2 DEF Reservations
  <2>3. \A l \in LinesOf(k) : res'[<<l, "original">>] \notin Current
    BY <1>3, <2>2 DEF Finalize, Move, Current, ShopType, LinesOf, Reservations
  <2>4. ~Owns(k)' /\ status'[k] = "paid"
    BY <1>3 DEF Finalize, Unlock, Owns, ShopType
  <2> QED BY <2>1, <2>3, <2>4, EndedAgrees
<1> QED BY <1>1, <1>2, <1>3 DEF Settle

LEMMA AdjudicationAgrees ==
  ASSUME CartInv, NEW k \in Checkouts, Adjudication(k)
  PROVE  Touches(k) /\ Agrees(k)'
<1> ShopType /\ MoneyType /\ Agrees(k)
  BY TypeParts DEF CartInv, IInv
<1>1. status[k] # "none"
  BY Prepared
     DEF Adjudication, Propose, Check, BarLate, RecoverLate, ResolveInventory, Adjudicate
<1>2. MoneyTouches(k) /\ payment'[k] = payment[k] /\ UNCHANGED <<cart, status>>
  BY
     DEF Adjudication, Propose, Check, BarLate, RecoverLate, ResolveInventory, Adjudicate,
     MoneyTouches, MoneyType, money, checkout
<1>3. CASE UNCHANGED res
  BY <1>1, <1>2, <1>3, ShopTouched, AloneAgrees DEF Touches, cart
<1>4. CASE RecoverLate(k)
  <2>1. ShopTouches(k)
    BY <1>2, <1>4 DEF RecoverLate, ShopTouches, Replacements, Missing, LinesOf
  <2>2. \A l \in LinesOf(k) : res'[<<l, "original">>] = res[<<l, "original">>]
    BY <1>4 DEF RecoverLate, Replacements, LinesOf, Reservations
  <2>3. Owns(k)' <=> Owns(k)
    BY <1>2 DEF Owns, cart
  <2>4. Reason(k)' = Reason(k)
    BY <1>2 DEF Reason, cart
  <2>5. OriginalsAgree(k)'
    BY <2>2, <2>3, <2>4 DEF Agrees, OriginalsAgree, LinesOf
  <2>6. NoReplacement(k)'
    <3> SUFFICES ASSUME Owns(k), NEW l \in LinesOf(k)
                 PROVE  res'[<<l, "replacement">>] \notin Current
      BY <2>3 DEF NoReplacement, LinesOf
    <3>1. res[<<l, "original">>] \in Current
      BY DEF Agrees, OriginalsAgree, Current
    <3>2. l \notin Missing(k)
      BY <3>1 DEF Missing, Holds, Reservations, LinesOf
    <3>3. res'[<<l, "replacement">>] = res[<<l, "replacement">>]
      BY <1>4, <3>2 DEF RecoverLate, Replacements, Reservations, LinesOf
    <3> QED BY <3>3 DEF Agrees, NoReplacement
  <2>7. ReasonAgrees(k)' /\ PendingIsPlaced(k)' /\ Unprepared(k)'
    BY <1>1, <1>2, <2>4 DEF Agrees, ReasonAgrees, PendingIsPlaced, Unprepared
  <2> QED BY <1>2, <2>1, <2>3, <2>5, <2>6, <2>7 DEF Agrees, Touches
<1> QED
  BY <1>3, <1>4 DEF Adjudication, Propose, Check, BarLate, ResolveInventory

LEMMA InitCartInv == Init => CartInv
<1> SUFFICES ASSUME Init, NEW k \in Checkouts PROVE Agrees(k)
  BY InitIInv DEF CartInv
<1> Owner[k] \in Customers /\ NoCheckout \notin Checkouts
  BY GraphAssumption
<1>1. ~Owns(k) /\ status[k] = "none"
  BY DEF Init, Owns
<1>2. \A l \in LinesOf(k) : /\ res[<<l, "original">>] \notin Current
                            /\ res[<<l, "replacement">>] \notin Current
  BY DEF Init, LinesOf, Reservations, Current
<1> QED BY <1>1, <1>2 DEF Init, Agrees, OriginalsAgree, ReasonAgrees, PendingIsPlaced,
        NoReplacement, Unprepared

LEMMA NextCartInv == CartInv /\ [Next]_vars => CartInv'
<1> SUFFICES ASSUME CartInv, [Next]_vars PROVE CartInv'
  OBVIOUS
<1>1. IInv'
  BY NextIInv DEF CartInv
<1>2. ASSUME NEW k \in Checkouts,
             Shop(k) \/ Collect(k) \/ Verify(k) \/ Control(k) \/ Settle(k) \/ Adjudication(k)
      PROVE  \A j \in Checkouts : Agrees(j)'
  <2>1. Touches(k) /\ Agrees(k)'
    BY <1>2, ShopAgrees, CollectAgrees, VerifyAgrees, ControlAgrees, SettleAgrees,
       AdjudicationAgrees
  <2> QED BY <2>1, StepAgrees
<1>3. ASSUME UNCHANGED vars \/ \E p \in Pools : Adjust(p)
      PROVE  \A j \in Checkouts : Agrees(j)'
  <2>1. UNCHANGED <<active, reason, status, res, payment, tx, auth>>
    BY <1>3 DEF Adjust, vars, cart, checkout, money
  <2> QED BY <2>1 DEF CartInv, Agrees, OriginalsAgree, ReasonAgrees, PendingIsPlaced,
          NoReplacement, Unprepared, Owns, Reason, LinesOf
<1>4. \A j \in Checkouts : Agrees(j)'
  BY <1>2, <1>3 DEF Next
<1> QED BY <1>1, <1>4 DEF CartInv

\* The cart, the checkout and the original reservations always agree: the
\* transactions that move stock lock and unlock the cart with it, and late
\* recovery makes new reservations only where nothing is held.
THEOREM CartAgrees == Spec => []CartOwnsItsHolds
<1>1. CartInv => CartOwnsItsHolds
  BY DEF CartInv, Agrees, OriginalsAgree, CartOwnsItsHolds, Reason
<1> QED BY <1>1, InitCartInv, NextCartInv, PTL DEF Spec

-----------------------------------------------------------------------------
(***************************************************************************)
(* How a payment settles.                                                  *)
(***************************************************************************)

\* A recorded success is what the provider says, an unpaid one ended the
\* operation, and what is recognized rests on a success without doubt.
EvidenceAgrees(k) ==
  /\ "success" \in evidence[k] => answer[k] = "paid"
  /\ "unpaid" \in evidence[k] => tx[k] = "terminal" /\ payment[k] = "open"
  /\ payment[k] \in {"pending_finalization", "paid"} =>
       "success" \in evidence[k] /\ "doubt" \notin evidence[k]

\* An operation that ended unpaid canceled its checkout for good; only such an
\* operation is adjudicated, once money was seen for it.
EndAgrees(k) ==
  /\ tx[k] = "terminal" =>
       status[k] = "canceled" /\ payment[k] \in {"open", "review", "pending_finalization"}
  /\ auth[k] # "none" =>
       tx[k] = "terminal" /\ payment[k] \in {"review", "pending_finalization"}

\* The checkout waits for the finalization of what was recognized in time, and
\* is paid with its payment.
ClaimAgrees(k) ==
  /\ payment[k] = "pending_finalization" /\ auth[k] = "none" => status[k] = "pending"
  /\ status[k] = "paid" <=> payment[k] = "paid"

\* Replacements exist for applied adjudications only, and only original
\* reservations are sold.
StockAgrees(k) ==
  \A l \in LinesOf(k) :
    /\ auth[k] # "applied" => res[<<l, "replacement">>] \notin Current
    /\ res[<<l, "replacement">>] # "consumed"
    /\ res[<<l, "original">>] = "consumed" <=> status[k] = "paid"

FlowAgrees(k) == EvidenceAgrees(k) /\ EndAgrees(k) /\ ClaimAgrees(k)
Settles(k) == FlowAgrees(k) /\ StockAgrees(k)

\* The strengthening of PaymentSettles that every step preserves.
SettleInv == CartInv /\ \A k \in Checkouts : Settles(k)

\* A step on a checkout records evidence about it alone.
EvidenceTouches(k) ==
  \A j \in Checkouts \ {k} : evidence'[j] = evidence[j] /\ answer'[j] = answer[j]

LEMMA OthersSettle ==
  ASSUME SettleInv, NEW k \in Checkouts, Touches(k), EvidenceTouches(k),
         NEW j \in Checkouts, j # k
  PROVE  Settles(j)'
<1>1. Settles(j)
  BY DEF SettleInv
<1>2. /\ status'[j] = status[j] /\ payment'[j] = payment[j] /\ tx'[j] = tx[j]
      /\ auth'[j] = auth[j] /\ evidence'[j] = evidence[j] /\ answer'[j] = answer[j]
  BY DEF Touches, ShopTouches, MoneyTouches, EvidenceTouches
<1>3. \A l \in LinesOf(j) : /\ res'[<<l, "original">>] = res[<<l, "original">>]
                            /\ res'[<<l, "replacement">>] = res[<<l, "replacement">>]
  BY DEF Touches, ShopTouches, LinesOf, Reservations
<1>4. FlowAgrees(j)'
  BY <1>1, <1>2 DEF Settles, FlowAgrees, EvidenceAgrees, EndAgrees, ClaimAgrees
<1>5. StockAgrees(j)'
  BY <1>1, <1>2, <1>3 DEF Settles, StockAgrees, LinesOf
<1> QED BY <1>4, <1>5 DEF Settles

LEMMA StepSettles ==
  ASSUME SettleInv, NEW k \in Checkouts, Touches(k), EvidenceTouches(k), Settles(k)'
  PROVE  \A j \in Checkouts : Settles(j)'
BY OthersSettle

\* Stock that moves without a sale keeps what is sold and what is replaced.
LEMMA MovedStock ==
  ASSUME ShopType, NEW k \in Checkouts, StockAgrees(k),
         NEW from, from \subseteq Current, NEW to, to # "consumed",
         Move(k, from, to), auth'[k] = auth[k],
         status'[k] = "paid" <=> status[k] = "paid"
  PROVE  StockAgrees(k)'
<1> SUFFICES ASSUME NEW l \in LinesOf(k)
             PROVE  /\ auth[k] # "applied" => res'[<<l, "replacement">>] \notin Current
                    /\ res'[<<l, "replacement">>] # "consumed"
                    /\ res'[<<l, "original">>] = "consumed" <=> status[k] = "paid"
  BY DEF StockAgrees, LinesOf
<1>1. \A kind \in {"original", "replacement"} :
        res'[<<l, kind>>] = IF res[<<l, kind>>] \in from THEN to ELSE res[<<l, kind>>]
  BY DEF Move, LinesOf, Reservations
<1>2. "consumed" \notin from
  BY DEF Current
<1> QED BY <1>1, <1>2 DEF StockAgrees

LEMMA SameStock ==
  ASSUME NEW k \in Checkouts, StockAgrees(k), UNCHANGED res,
         auth[k] = "applied" => auth'[k] = "applied",
         status'[k] = "paid" <=> status[k] = "paid"
  PROVE  StockAgrees(k)'
BY DEF StockAgrees, LinesOf

\* A hold is retained, and released when the operation ends, without a sale.
LEMMA RetainedStock ==
  ASSUME ShopType, NEW k \in Checkouts, StockAgrees(k), auth'[k] = auth[k],
         NEW to \in {"payment_hold", "held_for_review"}, Retain(k, to)
  PROVE  StockAgrees(k)' /\ status[k] = "pending" /\ status'[k] = "pending"
<1>1. /\ Move(k, {"payment_hold", "held_for_review"}, to)
      /\ status[k] = "pending" /\ status'[k] = "pending"
  BY DEF Retain, Extendable
<1> QED BY <1>1, MovedStock DEF Current

LEMMA TerminatedStock ==
  ASSUME ShopType, NEW k \in Checkouts, StockAgrees(k), auth'[k] = auth[k],
         NEW expected \in {"payment_hold", "held_for_review"}, Terminate(k, expected)
  PROVE  StockAgrees(k)' /\ status'[k] = "canceled" /\ status[k] # "paid"
<1>1. CASE status[k] = "canceled" /\ UNCHANGED <<cart, checkout, res>>
  BY <1>1, SameStock DEF checkout
<1>2. CASE /\ status[k] = "pending" /\ Move(k, {expected}, "released")
           /\ status' = [status EXCEPT ![k] = "canceled"]
  <2>1. status'[k] = "canceled"
    BY <1>2 DEF ShopType
  <2> QED BY <1>2, <2>1, MovedStock DEF Current
<1> QED BY <1>1, <1>2 DEF Terminate

-----------------------------------------------------------------------------
(* The payment after each step                                             *)

LEMMA ShopSettles ==
  ASSUME SettleInv, NEW k \in Checkouts, Shop(k)
  PROVE  EvidenceTouches(k) /\ Settles(k)'
<1> ShopType /\ MoneyType /\ Agrees(k) /\ FlowAgrees(k) /\ StockAgrees(k)
  BY TypeParts DEF SettleInv, CartInv, IInv, Settles
<1>1. UNCHANGED <<tx, evidence, answer, auth>>
  BY DEF Shop, Prepare, Lapse, Expire, CancelCheckout, Abandon, Place, money
<1>2. EvidenceTouches(k)
  BY <1>1 DEF EvidenceTouches
<1>3. CASE Prepare(k)
  <2>1. status[k] = "none" /\ status'[k] = "draft" /\ payment'[k] = payment[k]
    BY <1>3 DEF Prepare, ShopType, money
  <2>2. FlowAgrees(k)'
    BY <1>1, <2>1 DEF FlowAgrees, EvidenceAgrees, EndAgrees, ClaimAgrees
  <2>3. \A l \in LinesOf(k) : /\ res'[<<l, "original">>] = "active"
                              /\ res'[<<l, "replacement">>] = res[<<l, "replacement">>]
    BY <1>3 DEF Prepare, LinesOf, Reservations
  <2>4. StockAgrees(k)'
    BY <1>1, <2>1, <2>3 DEF StockAgrees, LinesOf
  <2> QED BY <1>2, <2>2, <2>4 DEF Settles
<1>4. CASE Lapse(k)
  <2>1. UNCHANGED <<status, payment, res>>
    BY <1>4 DEF Lapse, money
  <2>2. FlowAgrees(k)'
    BY <1>1, <2>1 DEF FlowAgrees, EvidenceAgrees, EndAgrees, ClaimAgrees
  <2> QED BY <1>1, <1>2, <2>1, <2>2, SameStock DEF Settles
<1>5. CASE Expire(k) \/ CancelCheckout(k)
  <2>1. /\ Unplaced(k)
        /\ \E to \in {"expired", "canceled"}, released \in {"expired", "released"} :
             Abandon(k, to, released)
    BY <1>5 DEF Expire, Expirable, CancelCheckout
  <2>2. /\ payment'[k] = "none" /\ payment[k] = "none" /\ status[k] \in {"draft", "pending"}
        /\ status'[k] \in {"expired", "canceled"}
        /\ \E released \in {"expired", "released"} : Move(k, {"active"}, released)
    BY <2>1 DEF Unplaced, Abandon, ShopType, money
  <2>3. FlowAgrees(k)'
    BY <1>1, <2>2 DEF FlowAgrees, EvidenceAgrees, EndAgrees, ClaimAgrees
  <2>4. StockAgrees(k)'
    BY <1>1, <2>2, MovedStock DEF Current
  <2> QED BY <1>2, <2>3, <2>4 DEF Settles
<1>6. CASE Place(k)
  <2>1. /\ status[k] = "draft" /\ status'[k] = "pending" /\ payment'[k] = "open"
        /\ Move(k, {"active"}, "payment_hold")
    BY <1>6
       DEF Place, Placeable, HoldForOrder, OpenObligation, ShopType, MoneyType
  <2>2. FlowAgrees(k)'
    BY <1>1, <2>1 DEF FlowAgrees, EvidenceAgrees, EndAgrees, ClaimAgrees
  <2>3. StockAgrees(k)'
    BY <1>1, <2>1, MovedStock DEF Current
  <2> QED BY <1>2, <2>2, <2>3 DEF Settles
<1> QED BY <1>3, <1>4, <1>5, <1>6 DEF Shop

LEMMA CollectSettles ==
  ASSUME SettleInv, NEW k \in Checkouts, Collect(k)
  PROVE  EvidenceTouches(k) /\ Settles(k)'
<1> ShopType /\ MoneyType /\ Agrees(k) /\ FlowAgrees(k) /\ StockAgrees(k)
  BY TypeParts DEF SettleInv, CartInv, IInv, Settles
<1>1. CASE CreateAttempt(k) \/ CreateTransaction(k) \/ ClaimRequest(k)
  <2>1. UNCHANGED <<status, res, evidence, answer, auth>>
    BY <1>1 DEF CreateAttempt, CreateTransaction, ClaimRequest, checkout
  <2>2. /\ tx[k] \in {"none", "attempted", "created"} /\ tx'[k] # "terminal"
        /\ payment'[k] = payment[k] \/ (payment[k] = "open" /\ payment'[k] = "processing")
    BY <1>1 DEF CreateAttempt, CreateTransaction, ClaimRequest, Pay, MoneyType
  <2>3. FlowAgrees(k)'
    BY <2>1, <2>2 DEF FlowAgrees, EvidenceAgrees, EndAgrees, ClaimAgrees
  <2> QED BY <2>1, <2>3, SameStock DEF EvidenceTouches, Settles
<1>2. CASE ResultAccepted(k) \/ ResultUnclear(k)
  <2>1. PICK to \in {"payment_hold", "held_for_review"} : Retain(k, to)
    BY <1>2 DEF ResultAccepted, ResultUnclear, Keep, HoldIn
  <2>2. UNCHANGED <<evidence, answer, auth>>
    BY <1>2 DEF ResultAccepted, ResultUnclear
  <2>3. StockAgrees(k)' /\ status[k] = "pending" /\ status'[k] = "pending"
    BY <2>1, <2>2, RetainedStock
  <2>4. /\ tx[k] = "requesting" /\ tx'[k] # "terminal"
        /\ payment'[k] \in {"processing", "review"}
    BY <1>2 DEF ResultAccepted, ResultUnclear, Pay, MoneyType
  <2>5. FlowAgrees(k)'
    BY <2>2, <2>3, <2>4 DEF FlowAgrees, EvidenceAgrees, EndAgrees, ClaimAgrees
  <2> QED BY <2>2, <2>3, <2>5 DEF EvidenceTouches, Settles
<1>3. CASE ResultUnpaid(k)
  <2>1. Terminate(k, "payment_hold") /\ UNCHANGED <<evidence, answer, auth>>
    BY <1>3 DEF ResultUnpaid
  <2>2. StockAgrees(k)' /\ status'[k] = "canceled"
    BY <2>1, TerminatedStock
  <2>3. tx[k] = "requesting" /\ tx'[k] = "terminal" /\ payment'[k] = "open"
    BY <1>3 DEF ResultUnpaid, Pay, MoneyType
  <2>4. FlowAgrees(k)'
    BY <2>1, <2>2, <2>3 DEF FlowAgrees, EvidenceAgrees, EndAgrees, ClaimAgrees
  <2> QED BY <2>1, <2>2, <2>4 DEF EvidenceTouches, Settles
<1>4. CASE (\E a \in {"paid", "unpaid"} : Decide(k, a)) \/ CaptureLate(k)
  <2>1. UNCHANGED <<status, res, payment, tx, evidence, auth>>
    BY <1>4 DEF Decide, CaptureLate, checkout, money
  <2>2. /\ answer[k] # "paid"
        /\ \A j \in Checkouts \ {k} : answer'[j] = answer[j]
    BY <1>4 DEF Decide, CaptureLate, MoneyType
  <2>3. FlowAgrees(k)'
    BY <2>1, <2>2 DEF FlowAgrees, EvidenceAgrees, EndAgrees, ClaimAgrees
  <2> QED BY <2>1, <2>2, <2>3, SameStock DEF EvidenceTouches, Settles
<1> QED BY <1>1, <1>2, <1>3, <1>4 DEF Collect

LEMMA VerifySettles ==
  ASSUME SettleInv, NEW k \in Checkouts, Verify(k)
  PROVE  EvidenceTouches(k) /\ Settles(k)'
<1> ShopType /\ MoneyType /\ Agrees(k) /\ FlowAgrees(k) /\ StockAgrees(k)
  BY TypeParts DEF SettleInv, CartInv, IInv, Settles
<1>1. EvidenceTouches(k) /\ UNCHANGED answer
  BY DEF Verify, VerifySuccess, VerifyLateSuccess, VerifyUnpaid, VerifyPending, VerifyUnknown,
     VerifyMalformed,
     VerifyConflict, Record, MoneyType, EvidenceTouches
<1>2. CASE VerifySuccess(k) \/ VerifyPending(k) \/ VerifyUnknown(k)
           \/ VerifyMalformed(k) \/ VerifyConflict(k)
  <2>1. PICK to \in {"payment_hold", "held_for_review"} : Retain(k, to)
    BY <1>2
       DEF VerifySuccess, VerifyPending, VerifyUnknown,
           VerifyMalformed, VerifyConflict, HoldAfter, Keep, HoldIn
  <2>2. UNCHANGED auth
    BY <1>2 DEF VerifySuccess, VerifyPending, VerifyUnknown, VerifyMalformed, VerifyConflict
  <2>3. StockAgrees(k)' /\ status[k] = "pending" /\ status'[k] = "pending"
    BY <2>1, <2>2, RetainedStock
  <2>4. tx[k] \in LiveTx /\ tx'[k] # "terminal" /\ payment'[k] \in {"processing", "review"}
    BY <1>2 DEF VerifySuccess, VerifyPending, VerifyUnknown,
       VerifyMalformed, VerifyConflict, Verifiable, Pay,
       MoneyType, LiveTx
  <2>5. \/ answer[k] = "paid" /\ evidence'[k] = evidence[k] \cup {"success"}
        \/ evidence'[k] = evidence[k] \cup {"waiting"}
        \/ \E what \in {"malformed", "doubt"} : evidence'[k] = evidence[k] \cup {what}
    BY <1>2 DEF VerifySuccess, VerifyPending, VerifyUnknown,
       VerifyMalformed, VerifyConflict, Record, MoneyType
  <2>6. FlowAgrees(k)'
    BY <1>1, <2>2, <2>3, <2>4, <2>5 DEF FlowAgrees, EvidenceAgrees, EndAgrees, ClaimAgrees, LiveTx
  <2> QED BY <1>1, <2>3, <2>6 DEF Settles
<1>3. CASE VerifyLateSuccess(k)
  <2>1. /\ UNCHANGED <<status, res>> /\ auth[k] = "none" /\ auth'[k] = "open"
        /\ tx[k] = "terminal" /\ tx'[k] = "terminal" /\ payment'[k] = "review"
        /\ answer[k] = "paid" /\ "unpaid" \notin evidence[k]
        /\ evidence'[k] = evidence[k] \cup {"success"}
    BY <1>3 DEF VerifyLateSuccess, Pay, Record, MoneyType, checkout
  <2>2. FlowAgrees(k)'
    BY <1>1, <2>1 DEF FlowAgrees, EvidenceAgrees, EndAgrees, ClaimAgrees
  <2> QED BY <1>1, <2>1, <2>2, SameStock DEF Settles
<1>4. CASE VerifyUnpaid(k)
  <2>1. Terminate(k, "payment_hold") /\ UNCHANGED auth
    BY <1>4 DEF VerifyUnpaid
  <2>2. StockAgrees(k)' /\ status'[k] = "canceled"
    BY <2>1, TerminatedStock
  <2>3. /\ tx'[k] = "terminal" /\ payment'[k] = "open"
        /\ tx[k] \in LiveTx \/ payment[k] = "open"
        /\ evidence'[k] = evidence[k] \cup {"unpaid"}
    BY <1>4 DEF VerifyUnpaid, Verifiable, Pay, Record, MoneyType
  <2>4. FlowAgrees(k)'
    BY <1>1, <2>1, <2>2, <2>3 DEF FlowAgrees, EvidenceAgrees, EndAgrees, ClaimAgrees, LiveTx
  <2> QED BY <1>1, <2>2, <2>4 DEF Settles
<1> QED BY <1>2, <1>3, <1>4 DEF Verify

LEMMA ControlSettles ==
  ASSUME SettleInv, NEW k \in Checkouts, Control(k)
  PROVE  EvidenceTouches(k) /\ Settles(k)'
<1> ShopType /\ MoneyType /\ Agrees(k) /\ FlowAgrees(k) /\ StockAgrees(k)
  BY TypeParts DEF SettleInv, CartInv, IInv, Settles
<1>1. EvidenceTouches(k) /\ UNCHANGED <<evidence, answer, auth>>
  BY DEF Control, EscalateOverdue, RenewPaid, EscalateFinalization, Reconcile, ResolveReview,
     EvidenceTouches, money
<1>2. CASE (\E to \in {"payment_hold", "held_for_review"} : Retain(k, to)) /\ UNCHANGED money
  <2>1. StockAgrees(k)' /\ status'[k] = status[k]
    BY <1>1, <1>2, RetainedStock
  <2>2. FlowAgrees(k)'
    BY <1>1, <1>2, <2>1 DEF FlowAgrees, EvidenceAgrees, EndAgrees, ClaimAgrees, money
  <2> QED BY <1>1, <2>1, <2>2 DEF Settles
<1>3. CASE UNCHANGED <<status, res, money>>
  <2>1. FlowAgrees(k)'
    BY <1>1, <1>3 DEF FlowAgrees, EvidenceAgrees, EndAgrees, ClaimAgrees, money
  <2> QED BY <1>1, <1>3, <2>1, SameStock DEF Settles
<1>4. CASE Reconcile(k)
  <2>1. Terminate(k, "held_for_review")
    BY <1>4 DEF Reconcile
  <2>2. StockAgrees(k)' /\ status'[k] = "canceled"
    BY <1>1, <2>1, TerminatedStock
  <2>3. tx[k] = "unknown" /\ tx'[k] = "terminal" /\ payment'[k] = "open"
    BY <1>4 DEF Reconcile, Pay, MoneyType
  <2>4. FlowAgrees(k)'
    BY <1>1, <2>2, <2>3 DEF FlowAgrees, EvidenceAgrees, EndAgrees, ClaimAgrees
  <2> QED BY <1>1, <2>2, <2>4 DEF Settles
<1>5. CASE EscalateOverdue(k) \/ RenewPaid(k) \/ EscalateFinalization(k) \/ ResolveReview(k)
  BY <1>2, <1>3, <1>5
     DEF EscalateOverdue, RenewPaid, EscalateFinalization, ResolveReview, Keep, HoldIn, checkout
<1> QED BY <1>4, <1>5 DEF Control

\* Recognition rests on evidence that is clean, and late recognition on an
\* operation whose checkout was canceled; a sale takes the original holds.
LEMMA SettleSettles ==
  ASSUME SettleInv, NEW k \in Checkouts, Settle(k)
  PROVE  EvidenceTouches(k) /\ Settles(k)'
<1> ShopType /\ MoneyType /\ Agrees(k) /\ FlowAgrees(k) /\ StockAgrees(k)
  BY TypeParts DEF SettleInv, CartInv, IInv, Settles
<1>1. EvidenceTouches(k) /\ UNCHANGED <<evidence, answer>>
  BY DEF Settle, Recognize, RecognizeLate, Finalize, EvidenceTouches
<1>2. CASE Recognize(k)
  <2>1. Retain(k, "payment_hold") /\ UNCHANGED auth
    BY <1>2 DEF Recognize, Keep, HoldIn
  <2>2. StockAgrees(k)' /\ status'[k] = "pending"
    BY <2>1, RetainedStock
  <2>3. /\ payment'[k] = "pending_finalization" /\ tx[k] # "terminal" /\ tx'[k] = "succeeded"
        /\ "success" \in evidence[k] /\ "doubt" \notin evidence[k]
    BY <1>2 DEF Recognize, Clean, Pay, MoneyType
  <2>4. FlowAgrees(k)'
    BY <1>1, <2>1, <2>2, <2>3 DEF FlowAgrees, EvidenceAgrees, EndAgrees, ClaimAgrees
  <2> QED BY <1>1, <2>2, <2>4 DEF Settles
<1>3. CASE RecognizeLate(k)
  <2>1. /\ UNCHANGED <<status, res>> /\ auth[k] = "approved" /\ auth'[k] = "applied"
        /\ payment[k] = "review" /\ payment'[k] = "pending_finalization"
        /\ tx[k] = "terminal" /\ tx'[k] = "terminal"
        /\ "success" \in evidence[k] /\ "doubt" \notin evidence[k]
    BY <1>3 DEF RecognizeLate, Clean, Pay, MoneyType, checkout
  <2>2. FlowAgrees(k)'
    BY <1>1, <2>1 DEF FlowAgrees, EvidenceAgrees, EndAgrees, ClaimAgrees
  <2> QED BY <1>1, <2>1, <2>2, SameStock DEF Settles
<1>4. CASE Finalize(k)
  <2>1. /\ status[k] = "pending" /\ status'[k] = "paid" /\ Owns(k)
        /\ payment[k] = "pending_finalization" /\ payment'[k] = "paid"
        /\ UNCHANGED <<tx, auth>>
    BY <1>4 DEF Finalize, ShopType, MoneyType
  <2>2. FlowAgrees(k)'
    BY <1>1, <2>1 DEF FlowAgrees, EvidenceAgrees, EndAgrees, ClaimAgrees
  <2>3. \A l \in LinesOf(k) : res[<<l, "replacement">>] \notin Current
    BY <2>1 DEF Agrees, NoReplacement
  <2>4. \A l \in LinesOf(k) : res[<<l, "original">>] = "payment_hold"
    BY <1>4, <2>3 DEF Finalize, Deliverable, EveryLine, Holds, Reservations, Current
  <2>5. \A l \in LinesOf(k) : /\ res'[<<l, "original">>] = "consumed"
                              /\ res'[<<l, "replacement">>] = res[<<l, "replacement">>]
    BY <1>4, <2>3, <2>4 DEF Finalize, Move, LinesOf, Reservations, Current
  <2>6. StockAgrees(k)'
    BY <2>1, <2>3, <2>5 DEF StockAgrees, LinesOf
  <2> QED BY <1>1, <2>2, <2>6 DEF Settles
<1> QED BY <1>2, <1>3, <1>4 DEF Settle

LEMMA AdjudicationSettles ==
  ASSUME SettleInv, NEW k \in Checkouts, Adjudication(k)
  PROVE  EvidenceTouches(k) /\ Settles(k)'
<1> ShopType /\ MoneyType /\ Agrees(k) /\ FlowAgrees(k) /\ StockAgrees(k)
  BY TypeParts DEF SettleInv, CartInv, IInv, Settles
<1>1. EvidenceTouches(k) /\ UNCHANGED <<status, payment, tx, evidence, answer>>
  BY DEF Adjudication, Propose, Check, BarLate, RecoverLate, ResolveInventory, EvidenceTouches,
     checkout, money
<1>2. auth[k] # "none" /\ auth'[k] # "none" /\ (auth[k] = "applied" => auth'[k] = "applied")
  BY DEF Adjudication, Propose, Check, BarLate, RecoverLate, ResolveInventory, Adjudicate,
     MoneyType
<1>3. FlowAgrees(k)'
  BY <1>1, <1>2 DEF FlowAgrees, EvidenceAgrees, EndAgrees, ClaimAgrees
<1>4. CASE UNCHANGED res
  BY <1>1, <1>2, <1>3, <1>4, SameStock DEF Settles
<1>5. CASE RecoverLate(k)
  <2>1. auth[k] = "applied" /\ UNCHANGED auth
    BY <1>5 DEF RecoverLate
  <2>2. \A l \in LinesOf(k) : /\ res'[<<l, "original">>] = res[<<l, "original">>]
                              /\ \/ res'[<<l, "replacement">>] = res[<<l, "replacement">>]
                                 \/ res'[<<l, "replacement">>] = "payment_hold"
    BY <1>5 DEF RecoverLate, Replacements, LinesOf, Reservations
  <2>3. StockAgrees(k)'
    BY <1>1, <2>1, <2>2 DEF StockAgrees, LinesOf
  <2> QED BY <1>1, <1>3, <2>3 DEF Settles
<1> QED BY <1>4, <1>5 DEF Adjudication, Propose, Check, BarLate, ResolveInventory

LEMMA InitSettleInv == Init => SettleInv
<1> SUFFICES ASSUME Init, NEW k \in Checkouts PROVE Settles(k)
  BY InitCartInv DEF SettleInv
<1>1. FlowAgrees(k)
  BY DEF Init, FlowAgrees, EvidenceAgrees, EndAgrees, ClaimAgrees
<1>2. StockAgrees(k)
  BY DEF Init, StockAgrees, LinesOf, Reservations, Current
<1> QED BY <1>1, <1>2 DEF Settles

LEMMA NextSettleInv == SettleInv /\ [Next]_vars => SettleInv'
<1> SUFFICES ASSUME SettleInv, [Next]_vars PROVE SettleInv'
  OBVIOUS
<1>1. CartInv /\ CartInv'
  BY NextCartInv DEF SettleInv
<1>2. ASSUME NEW k \in Checkouts,
             Shop(k) \/ Collect(k) \/ Verify(k) \/ Control(k) \/ Settle(k) \/ Adjudication(k)
      PROVE  \A j \in Checkouts : Settles(j)'
  <2>1. Touches(k)
    BY <1>1, <1>2, ShopAgrees, CollectAgrees, VerifyAgrees, ControlAgrees, SettleAgrees,
       AdjudicationAgrees
  <2>2. EvidenceTouches(k) /\ Settles(k)'
    BY <1>2, ShopSettles, CollectSettles, VerifySettles, ControlSettles, SettleSettles,
       AdjudicationSettles
  <2> QED BY <2>1, <2>2, StepSettles
<1>3. ASSUME UNCHANGED vars \/ \E p \in Pools : Adjust(p)
      PROVE  \A j \in Checkouts : Settles(j)'
  <2>1. UNCHANGED <<status, res, payment, tx, evidence, answer, auth>>
    BY <1>3 DEF Adjust, vars, checkout, money
  <2> QED BY <2>1 DEF SettleInv, Settles, StockAgrees, LinesOf, FlowAgrees, EvidenceAgrees,
     EndAgrees, ClaimAgrees
<1>4. \A j \in Checkouts : Settles(j)'
  BY <1>2, <1>3 DEF Next
<1> QED BY <1>1, <1>4 DEF SettleInv

\* A line has an original reservation and a replacement, and no other.
LEMMA HoldsOf ==
  ASSUME NEW l \in Lines, NEW states
  PROVE  Holds(l, states) <=> \/ res[<<l, "original">>] \in states
                              \/ res[<<l, "replacement">>] \in states
<1>1. \A r \in Reservations : r[1] = l => r \in {<<l, "original">>, <<l, "replacement">>}
  BY DEF Reservations
<1>2. \A kind \in {"original", "replacement"} :
        <<l, kind>> \in Reservations /\ <<l, kind>>[1] = l
  BY DEF Reservations
<1> QED BY <1>1, <1>2 DEF Holds

\* What the invariant says of a line: it holds nothing once the operation
\* ended unpaid, and a sold one holds nothing either.
LEMMA NothingHeld ==
  ASSUME NEW k \in Checkouts, Agrees(k), Settles(k), ~Owns(k), auth[k] # "applied",
         NEW l \in LinesOf(k)
  PROVE  ~Holds(l, Current)
<1>1. res[<<l, "original">>] \notin Current
  BY DEF Agrees, OriginalsAgree
<1>2. res[<<l, "replacement">>] \notin Current
  BY DEF Settles, StockAgrees
<1> QED BY <1>1, <1>2, HoldsOf DEF LinesOf

LEMMA Unpaid == SettleInv => TerminalUnpaidReleased
<1> SUFFICES ASSUME SettleInv, NEW k \in Checkouts, tx[k] = "terminal", payment[k] = "open"
             PROVE  /\ status[k] = "canceled" /\ ~Owns(k)
                    /\ \A l \in LinesOf(k) : ~Holds(l, Current)
                    /\ \A l \in LinesOf(k) : ~Holds(l, {"payment_hold"})
  BY DEF TerminalUnpaidReleased, Abandonable
<1> Agrees(k) /\ Settles(k)
  BY DEF SettleInv, CartInv
<1>1. status[k] = "canceled" /\ auth[k] = "none"
  BY DEF Settles, FlowAgrees, EvidenceAgrees, EndAgrees, ClaimAgrees
<1>2. ~Owns(k)
  BY <1>1 DEF Agrees
<1>3. \A l \in LinesOf(k) : ~Holds(l, Current)
  BY <1>1, <1>2, NothingHeld
<1> QED BY <1>1, <1>2, <1>3 DEF Holds, Current

LEMMA Claimed == SettleInv => PaidKeepsClaim
<1> SUFFICES ASSUME SettleInv, NEW k \in Checkouts,
                    payment[k] = "pending_finalization", auth[k] = "none"
             PROVE  Extendable(k)
  BY DEF PaidKeepsClaim
<1> Agrees(k) /\ Settles(k) /\ ShopType
  BY TypeParts DEF SettleInv, CartInv, IInv
<1> Owner[k] \in Customers
  BY GraphAssumption
<1>1. status[k] = "pending" /\ Owns(k) /\ Reason(k) \in {"payment", "review"}
  BY DEF Agrees, ReasonAgrees, Settles, FlowAgrees, EvidenceAgrees, EndAgrees, ClaimAgrees
<1>2. \A l \in LinesOf(k) : res[<<l, "original">>] \in {"payment_hold", "held_for_review"}
  BY <1>1 DEF Agrees, OriginalsAgree
<1>3. EveryLine(k, {"payment_hold", "held_for_review"})
  BY <1>2 DEF EveryLine, Holds, Reservations, LinesOf
<1> QED BY <1>1, <1>3 DEF Extendable

LEMMA Sold == SettleInv => SoldIffPaid
<1> SUFFICES ASSUME SettleInv, NEW k \in Checkouts
             PROVE  /\ (status[k] = "paid") <=> (payment[k] = "paid")
                    /\ \A l \in LinesOf(k) : Holds(l, {"consumed"}) <=> status[k] = "paid"
                    /\ status[k] = "paid" => \A l \in LinesOf(k) : ~Holds(l, Current)
  BY DEF SoldIffPaid
<1> Agrees(k) /\ Settles(k)
  BY DEF SettleInv, CartInv
<1>1. status[k] = "paid" <=> payment[k] = "paid"
  BY DEF Settles, FlowAgrees, EvidenceAgrees, EndAgrees, ClaimAgrees
<1>2. \A l \in LinesOf(k) : Holds(l, {"consumed"}) <=> status[k] = "paid"
  <2> TAKE l \in LinesOf(k)
  <2>1. Holds(l, {"consumed"}) <=> \/ res[<<l, "original">>] = "consumed"
                                   \/ res[<<l, "replacement">>] = "consumed"
    BY HoldsOf DEF LinesOf
  <2> QED BY <2>1 DEF Settles, StockAgrees
<1>3. status[k] = "paid" => auth[k] # "applied" /\ ~Owns(k)
  BY DEF Agrees, Settles, FlowAgrees, EvidenceAgrees, EndAgrees, ClaimAgrees
<1> QED BY <1>1, <1>2, <1>3, NothingHeld

\* However verification, expiry, review and escalation interleave, a payment
\* ends in one of three ways: unpaid with nothing left behind; recognized on
\* clean evidence, with the claim it bought kept; or sold, line by line.
THEOREM SettlesAsPromised == Spec => []PaymentSettles
<1>1. SettleInv => PaidOnCleanEvidence
  BY DEF SettleInv, Settles, PaidOnCleanEvidence, FlowAgrees, EvidenceAgrees, EndAgrees,
     ClaimAgrees
<1>2. SettleInv => PaymentSettles
  BY <1>1, Unpaid, Claimed, Sold DEF PaymentSettles
<1> QED BY <1>2, InitSettleInv, NextSettleInv, PTL DEF Spec

-----------------------------------------------------------------------------
(***************************************************************************)
(* What the database accepts: the refinement of PaymentGuards.             *)
(***************************************************************************)

\* The operation and the payment go through their phases together.
PhaseAgrees(k) ==
  /\ tx[k] = "none" => payment[k] \in {"none", "open"} /\ evidence[k] = {}
  /\ tx[k] \in {"attempted", "created"} \cup LiveTx => payment[k] \in {"processing", "review"}
  /\ tx[k] = "succeeded" => payment[k] \in {"pending_finalization", "paid"}
  /\ payment[k] \in {"pending_finalization", "paid"} =>
       tx[k] = "succeeded" \/ auth[k] = "applied"
  /\ "success" \in evidence[k] => tx[k] \in {"review", "succeeded", "terminal"}

\* An adjudication has its case, and what is placed was prepared with lines.
RowsAgree(k) ==
  /\ auth[k] # "none" => reviews[k]["late"] # "none"
  /\ payment[k] # "none" => status[k] \in {"pending", "paid", "canceled"}
  /\ status[k] # "none" => LinesOf(k) # {}

\* The invariant under which every step is one the database accepts.
GuardInv == SettleInv /\ \A k \in Checkouts : PhaseAgrees(k) /\ RowsAgree(k)

\* A case is opened once and resolved once, and no other payment's cases move.
CasesFollow(k) ==
  /\ \A c \in Cases : \/ reviews'[k][c] = reviews[k][c]
                      \/ reviews[k][c] = "none" /\ reviews'[k][c] = "open"
                      \/ reviews[k][c] = "open" /\ reviews'[k][c] = "resolved"
  /\ \A j \in Checkouts \ {k} : reviews'[j] = reviews[j]

\* No reservation disappears, and only a sale takes stock and pays.
StockFollows(k) ==
  /\ \A r \in Reservations : res[r] # "none" => res'[r] # "none"
  /\ \/ UNCHANGED sellable /\ (payment'[k] = "paid" => payment[k] = "paid")
     \/ Finalize(k)

PaymentFollows(k) ==
  /\ Guards!Follows(Guards!PaymentMoves, payment[k], payment'[k])
  /\ Allocated(k) => Allocated(k)'
TransactionFollows(k) == Guards!Follows(Guards!TransactionMoves, tx[k], tx'[k])

\* A placed checkout is canceled with the definitive end of its operation.
Ends(k) ==
  status'[k] = "canceled" /\ status[k] # "canceled" /\ payment[k] # "none" =>
    payment'[k] = "open" /\ tx'[k] = "terminal"

\* The guards that look at the rows of one payment.
RowGuarded(k) ==
  /\ PaymentFollows(k) /\ TransactionFollows(k) /\ Ends(k)
  /\ Guards!AttemptGuarded(k) /\ Guards!EvidenceAppended(k)

\* What the database looks at in a step on a checkout, and the invariant.
Admitted(k) ==
  /\ CasesFollow(k) /\ StockFollows(k) /\ RowGuarded(k) /\ Guards!ReopenGuarded(k)
  /\ PhaseAgrees(k)' /\ RowsAgree(k)'

LEMMA SameCases ==
  ASSUME NEW k, UNCHANGED reviews
  PROVE  CasesFollow(k)
BY DEF CasesFollow

LEMMA OpenedCases ==
  ASSUME MoneyType, NEW k \in Checkouts, NEW c \in Cases,
         \/ reviews' = Opening(k, c)
         \/ IsOpen(k, c) /\ reviews' = [reviews EXCEPT ![k][c] = "resolved"]
  PROVE  CasesFollow(k)
BY DEF MoneyType, Opening, IsOpen, CasesFollow

LEMMA SettledCases ==
  ASSUME MoneyType, NEW k \in Checkouts, reviews' = Settled(k)
  PROVE  CasesFollow(k)
BY DEF MoneyType, Settled, CasesFollow

\* An adjudication keeps its case.
LEMMA CaseKept ==
  ASSUME NEW k, CasesFollow(k), reviews[k]["late"] # "none"
  PROVE  reviews'[k]["late"] # "none"
<1>1. "late" \in Cases
  BY DEF Cases
<1> QED BY <1>1 DEF CasesFollow

LEMMA MovedFollows ==
  ASSUME ShopType, NEW k, NEW from, NEW to, to # "none", Move(k, from, to)
  PROVE  \A r \in Reservations : res[r] # "none" => res'[r] # "none"
BY DEF Move, ShopType

LEMMA RetainedFollows ==
  ASSUME ShopType, NEW k \in Checkouts, NEW to \in {"payment_hold", "held_for_review"},
         Retain(k, to), UNCHANGED sellable, payment'[k] = "paid" => payment[k] = "paid"
  PROVE  StockFollows(k) /\ status[k] = "pending" /\ status'[k] = "pending"
BY MovedFollows DEF Retain, Extendable, StockFollows

LEMMA TerminatedFollows ==
  ASSUME ShopType, NEW k \in Checkouts, NEW expected \in {"payment_hold", "held_for_review"},
         Terminate(k, expected), UNCHANGED sellable, payment'[k] # "paid"
  PROVE  StockFollows(k) /\ status[k] \in {"pending", "canceled"} /\ status'[k] = "canceled"
<1>1. CASE status[k] = "canceled" /\ UNCHANGED <<cart, checkout, res>>
  BY <1>1 DEF StockFollows, checkout
<1>2. CASE /\ status[k] = "pending" /\ Move(k, {expected}, "released")
           /\ status' = [status EXCEPT ![k] = "canceled"]
  BY <1>2, MovedFollows DEF StockFollows, ShopType
<1> QED BY <1>1, <1>2 DEF Terminate

\* What a step may assume of its checkout.
LEMMA Assumed ==
  ASSUME GuardInv, NEW k \in Checkouts
  PROVE  /\ ShopType /\ MoneyType /\ Agrees(k) /\ PhaseAgrees(k) /\ RowsAgree(k)
         /\ EvidenceAgrees(k) /\ EndAgrees(k) /\ ClaimAgrees(k)
BY TypeParts DEF GuardInv, SettleInv, CartInv, IInv, Settles, FlowAgrees

\* A step that does not reopen the payment has nothing to show for it.
LEMMA NotReopened ==
  ASSUME NEW k, payment'[k] # "open" \/ payment[k] \in {"none", "open"}
  PROVE  Guards!ReopenGuarded(k)
BY DEF Guards!ReopenGuarded

-----------------------------------------------------------------------------
(* The rows of a checkout in each step                                     *)

LEMMA ShopGuarded ==
  ASSUME GuardInv, NEW k \in Checkouts, Shop(k)
  PROVE  Admitted(k)
<1> USE Assumed DEF PhaseAgrees, RowsAgree, EvidenceAgrees, EndAgrees, ClaimAgrees,
   RowGuarded, PaymentFollows, TransactionFollows, Ends, Allocated, Guards!Follows,
   Guards!PaymentMoves, Guards!TransactionMoves, Guards!AttemptGuarded, Guards!EvidenceAppended,
   Guards!Blocking, Guards!Unpaid
<1>1. UNCHANGED <<tx, evidence, auth, reviews, sellable>>
  BY DEF Shop, Prepare, Lapse, Expire, CancelCheckout, Abandon, Place, money
<1>2. CASE Prepare(k)
  <2>1. /\ status[k] = "none" /\ status'[k] = "draft" /\ UNCHANGED payment
        /\ LinesOf(k) # {}
    BY <1>2 DEF Prepare, ShopType, money
  <2>2. payment[k] = "none" /\ tx[k] = "none"
    BY <2>1 DEF Agrees, Unprepared
  <2>3. RowGuarded(k) /\ PhaseAgrees(k)' /\ RowsAgree(k)'
    BY <1>1, <2>1, <2>2 DEF LinesOf
  <2>4. StockFollows(k)
    BY <1>1, <1>2, <2>1 DEF Prepare, StockFollows, ShopType
  <2> QED BY <1>1, <2>2, <2>3, <2>4, SameCases, NotReopened DEF Admitted
<1>3. CASE Lapse(k)
  <2>1. UNCHANGED <<status, payment, res>>
    BY <1>3 DEF Lapse, money
  <2>2. RowGuarded(k) /\ PhaseAgrees(k)' /\ RowsAgree(k)'
    BY <1>1, <2>1 DEF LinesOf
  <2> QED BY <1>1, <2>1, <2>2, SameCases, NotReopened DEF Admitted, StockFollows
<1>4. CASE Expire(k) \/ CancelCheckout(k)
  <2>1. /\ Unplaced(k)
        /\ \E to \in {"expired", "canceled"}, released \in {"expired", "released"} :
             Abandon(k, to, released)
    BY <1>4 DEF Expire, Expirable, CancelCheckout
  <2>2. /\ payment[k] = "none" /\ UNCHANGED payment /\ status[k] # "none"
        /\ \E released \in {"expired", "released"} : Move(k, {"active"}, released)
    BY <2>1 DEF Unplaced, Abandon, money
  <2>3. RowGuarded(k) /\ PhaseAgrees(k)' /\ RowsAgree(k)'
    BY <1>1, <2>2 DEF LinesOf
  <2>4. StockFollows(k)
    BY <1>1, <2>2, MovedFollows DEF StockFollows
  <2> QED BY <1>1, <2>2, <2>3, <2>4, SameCases, NotReopened DEF Admitted
<1>5. CASE Place(k)
  <2>1. /\ status[k] = "draft" /\ status'[k] = "pending" /\ payment'[k] = "open"
        /\ Move(k, {"active"}, "payment_hold")
    BY <1>5, Assumed
       DEF Place, Placeable, HoldForOrder, OpenObligation, ShopType, MoneyType
  <2>2. payment[k] = "none" /\ tx[k] = "none"
    BY <2>1 DEF MoneyType, LiveTx
  <2>3. RowGuarded(k) /\ PhaseAgrees(k)' /\ RowsAgree(k)'
    BY <1>1, <2>1, <2>2 DEF LinesOf
  <2>4. StockFollows(k)
    BY <1>1, <2>1, MovedFollows DEF StockFollows
  <2> QED BY <1>1, <2>2, <2>3, <2>4, SameCases, NotReopened DEF Admitted
<1> QED BY <1>2, <1>3, <1>4, <1>5 DEF Shop

LEMMA CollectGuarded ==
  ASSUME GuardInv, NEW k \in Checkouts, Collect(k)
  PROVE  Admitted(k)
<1> USE Assumed DEF PhaseAgrees, RowsAgree, EvidenceAgrees, EndAgrees, ClaimAgrees,
   RowGuarded, PaymentFollows, TransactionFollows, Ends, Allocated, Guards!Follows,
   Guards!PaymentMoves, Guards!TransactionMoves, Guards!AttemptGuarded, Guards!EvidenceAppended,
   Guards!Blocking, Guards!Unpaid
<1>1. UNCHANGED <<auth, evidence, sellable>>
  BY DEF Collect, CreateAttempt, CreateTransaction, ClaimRequest, ResultAccepted, ResultUnpaid,
     ResultUnclear, Decide, CaptureLate, money
<1>2. CASE CreateAttempt(k) \/ CreateTransaction(k) \/ ClaimRequest(k)
  <2>1. UNCHANGED <<status, res, reviews>>
    BY <1>2 DEF CreateAttempt, CreateTransaction, ClaimRequest, checkout
  <2>2. \/ payment[k] = "open" /\ payment'[k] = "processing"
           /\ tx[k] = "none" /\ tx'[k] = "attempted"
        \/ payment'[k] = payment[k]
           /\ <<tx[k], tx'[k]>> \in {<<"attempted", "created">>, <<"created", "requesting">>}
    BY <1>2 DEF CreateAttempt, CreateTransaction, ClaimRequest, Pay, MoneyType
  <2>3. RowGuarded(k) /\ PhaseAgrees(k)' /\ RowsAgree(k)'
    BY <1>1, <2>1, <2>2 DEF LinesOf, LiveTx
  <2>4. payment'[k] # "open" /\ StockFollows(k)
    BY <1>1, <2>1, <2>2 DEF StockFollows, LiveTx
  <2> QED BY <2>1, <2>3, <2>4, SameCases, NotReopened DEF Admitted
<1>3. CASE ResultAccepted(k) \/ ResultUnclear(k)
  <2>1. PICK to \in {"payment_hold", "held_for_review"} : Retain(k, to)
    BY <1>3 DEF ResultAccepted, ResultUnclear, Keep, HoldIn
  <2>2. /\ tx[k] = "requesting"
        /\ tx'[k] \in {"pending_customer", "pending_provider", "created", "unknown", "review"}
        /\ payment'[k] \in {"processing", "review"}
    BY <1>3 DEF ResultAccepted, ResultUnclear, Pay, MoneyType
  <2>3. StockFollows(k) /\ status[k] = "pending" /\ status'[k] = "pending"
    BY <1>1, <2>1, <2>2, RetainedFollows
  <2>4. CasesFollow(k)
    <3>1. CASE ResultAccepted(k)
      BY <3>1, SameCases DEF ResultAccepted
    <3>2. CASE ResultUnclear(k)
      <4>1. reviews' = Opening(k, "request") \/ reviews' = Opening(k, "fault")
        BY <3>2 DEF ResultUnclear
      <4> QED BY <4>1, OpenedCases DEF Cases
    <3> QED BY <1>3, <3>1, <3>2
  <2>5. RowGuarded(k) /\ PhaseAgrees(k)' /\ RowsAgree(k)'
    BY <1>1, <2>2, <2>3, <2>4, CaseKept DEF LinesOf, LiveTx
  <2> QED BY <2>2, <2>3, <2>4, <2>5, NotReopened DEF Admitted
<1>4. CASE ResultUnpaid(k)
  <2>1. /\ Terminate(k, "payment_hold") /\ UNCHANGED reviews /\ Reopenable(k, {})
        /\ tx[k] = "requesting" /\ tx'[k] = "terminal" /\ payment'[k] = "open"
    BY <1>4 DEF ResultUnpaid, Pay, MoneyType
  <2>2. /\ StockFollows(k)
        /\ status[k] \in {"pending", "canceled"} /\ status'[k] = "canceled"
    BY <1>1, <2>1, TerminatedFollows
  <2>3. RowGuarded(k) /\ PhaseAgrees(k)' /\ RowsAgree(k)'
    BY <1>1, <2>1, <2>2 DEF LinesOf, LiveTx
  <2>4. Guards!ReopenGuarded(k)
    BY <1>1, <2>1 DEF Guards!ReopenGuarded, Guards!Blocking, Reopenable, IsOpen, MoneyType
  <2> QED BY <2>1, <2>2, <2>3, <2>4, SameCases DEF Admitted
<1>5. CASE (\E a \in {"paid", "unpaid"} : Decide(k, a)) \/ CaptureLate(k)
  <2>1. UNCHANGED <<status, res, payment, tx, reviews>>
    BY <1>5 DEF Decide, CaptureLate, checkout, money
  <2>2. RowGuarded(k) /\ PhaseAgrees(k)' /\ RowsAgree(k)'
    BY <1>1, <2>1 DEF LinesOf
  <2> QED BY <1>1, <2>1, <2>2, SameCases, NotReopened DEF Admitted, StockFollows
<1> QED BY <1>2, <1>3, <1>4, <1>5 DEF Collect


LEMMA VerifyGuarded ==
  ASSUME GuardInv, NEW k \in Checkouts, Verify(k)
  PROVE  Admitted(k)
<1> USE Assumed DEF PhaseAgrees, RowsAgree, EvidenceAgrees, EndAgrees, ClaimAgrees,
   RowGuarded, PaymentFollows, TransactionFollows, Ends, Allocated, Guards!Follows,
   Guards!PaymentMoves, Guards!TransactionMoves, Guards!AttemptGuarded, Guards!EvidenceAppended,
   Guards!Blocking, Guards!Unpaid
<1>1. UNCHANGED sellable
  BY DEF Verify, VerifySuccess, VerifyLateSuccess, VerifyUnpaid, VerifyPending, VerifyUnknown,
     VerifyMalformed,
     VerifyConflict
<1>2. CASE VerifySuccess(k) \/ VerifyPending(k) \/ VerifyUnknown(k)
           \/ VerifyMalformed(k) \/ VerifyConflict(k)
  <2>1. PICK to \in {"payment_hold", "held_for_review"} : Retain(k, to)
    BY <1>2
       DEF VerifySuccess, VerifyPending, VerifyUnknown,
           VerifyMalformed, VerifyConflict, HoldAfter, Keep, HoldIn
  <2>2. /\ UNCHANGED auth /\ tx[k] \in LiveTx
        /\ payment[k] \in {"open", "processing", "review"}
        /\ payment'[k] \in {"processing", "review"}
    BY <1>2 DEF VerifySuccess, VerifyPending, VerifyUnknown,
       VerifyMalformed, VerifyConflict, Verifiable, Pay,
       MoneyType, LiveTx
  <2>3. \/ /\ evidence'[k] = evidence[k] \cup {"success"} /\ tx'[k] = "review"
        \/ /\ evidence'[k] = evidence[k] \cup {"waiting"} /\ "success" \notin evidence[k]
           /\ tx[k] \in {"requesting", "pending_provider"} /\ tx'[k] = "pending_provider"
        \/ /\ \E what \in {"malformed", "doubt"} : evidence'[k] = evidence[k] \cup {what}
           /\ "success" \notin evidence[k] /\ tx'[k] \in {"unknown", "review"}
        \/ /\ evidence'[k] = evidence[k] \cup {"doubt"} /\ tx'[k] = "review"
    BY <1>2 DEF VerifySuccess, VerifyPending, VerifyUnknown,
       VerifyMalformed, VerifyConflict, Record, Pay,
       Unspoiled, MoneyType
  <2>4. StockFollows(k) /\ status[k] = "pending" /\ status'[k] = "pending"
    BY <1>1, <2>1, <2>2, RetainedFollows
  <2>5. CasesFollow(k)
    <3>1. CASE VerifySuccess(k) \/ VerifyPending(k)
      BY <3>1, SameCases DEF VerifySuccess, VerifyPending
    <3>2. CASE VerifyUnknown(k) \/ VerifyMalformed(k) \/ VerifyConflict(k)
      <4>1. reviews' = Opening(k, "unclear") \/ reviews' = Opening(k, "conflict")
        BY <3>2 DEF VerifyUnknown, VerifyMalformed, VerifyConflict
      <4> QED BY <4>1, OpenedCases DEF Cases
    <3> QED BY <1>2, <3>1, <3>2
  <2>6. RowGuarded(k)
    BY <2>2, <2>3, <2>4 DEF LiveTx
  <2>7. PhaseAgrees(k)' /\ RowsAgree(k)'
    BY <2>2, <2>3, <2>4, <2>5, CaseKept DEF LinesOf, LiveTx
  <2> QED BY <2>2, <2>4, <2>5, <2>6, <2>7, NotReopened DEF Admitted
<1>3. CASE VerifyLateSuccess(k)
  <2>1. /\ UNCHANGED <<status, res>> /\ auth[k] = "none" /\ auth'[k] = "open"
        /\ tx[k] = "terminal" /\ tx'[k] = "terminal" /\ payment'[k] = "review"
        /\ evidence'[k] = evidence[k] \cup {"success"}
    BY <1>3 DEF VerifyLateSuccess, Pay, Record, MoneyType, checkout
  <2>2. CasesFollow(k) /\ reviews'[k]["late"] # "none"
    <3>1. reviews' = Opening(k, "late") /\ "late" \in Cases
      BY <1>3 DEF VerifyLateSuccess, Cases
    <3>2. reviews'[k]["late"] # "none"
      BY <3>1 DEF Opening, MoneyType
    <3> QED BY <3>1, <3>2, OpenedCases
  <2>3. payment[k] \in {"open", "review"}
    BY <2>1
  <2>4. RowGuarded(k) /\ PhaseAgrees(k)' /\ RowsAgree(k)'
    BY <2>1, <2>2, <2>3 DEF LinesOf
  <2> QED BY <1>1, <2>1, <2>2, <2>4, NotReopened DEF Admitted, StockFollows
<1>4. CASE VerifyUnpaid(k)
  <2>1. /\ Terminate(k, "payment_hold") /\ UNCHANGED <<auth, reviews>> /\ Reopenable(k, {})
        /\ "success" \notin evidence[k] /\ evidence'[k] = evidence[k] \cup {"unpaid"}
        /\ tx'[k] = "terminal" /\ payment'[k] = "open"
        /\ \/ tx[k] \in LiveTx /\ payment[k] \in {"open", "processing", "review"}
           \/ tx[k] = "terminal" /\ payment[k] = "open"
    BY <1>4 DEF VerifyUnpaid, Verifiable, Unspoiled, Pay, Record, MoneyType
  <2>2. /\ StockFollows(k)
        /\ status[k] \in {"pending", "canceled"} /\ status'[k] = "canceled"
    BY <1>1, <2>1, TerminatedFollows
  <2>3. RowGuarded(k) /\ PhaseAgrees(k)' /\ RowsAgree(k)'
    BY <2>1, <2>2 DEF LinesOf, LiveTx
  <2>4. Guards!ReopenGuarded(k)
    BY <2>1 DEF Guards!ReopenGuarded, Guards!Blocking, Reopenable, IsOpen, MoneyType
  <2> QED BY <2>1, <2>2, <2>3, <2>4, SameCases DEF Admitted
<1> QED BY <1>2, <1>3, <1>4 DEF Verify

LEMMA ControlGuarded ==
  ASSUME GuardInv, NEW k \in Checkouts, Control(k)
  PROVE  Admitted(k)
<1> USE Assumed DEF PhaseAgrees, RowsAgree, EvidenceAgrees, EndAgrees, ClaimAgrees,
   RowGuarded, PaymentFollows, TransactionFollows, Ends, Allocated, Guards!Follows,
   Guards!PaymentMoves, Guards!TransactionMoves, Guards!AttemptGuarded, Guards!EvidenceAppended,
   Guards!Blocking, Guards!Unpaid
<1>1. UNCHANGED <<sellable, evidence, auth>>
  BY DEF Control, EscalateOverdue, RenewPaid, EscalateFinalization, Reconcile, ResolveReview,
     money
<1>2. CASE EscalateOverdue(k) \/ RenewPaid(k) \/ EscalateFinalization(k) \/ ResolveReview(k)
  <2>1. UNCHANGED money
    BY <1>2 DEF EscalateOverdue, RenewPaid, EscalateFinalization, ResolveReview
  <2>2. /\ StockFollows(k) /\ status'[k] = status[k]
    <3>1. CASE \E to \in {"payment_hold", "held_for_review"} : Retain(k, to)
      BY <1>1, <2>1, <3>1, RetainedFollows DEF money
    <3>2. CASE UNCHANGED <<cart, checkout, res>>
      BY <1>1, <2>1, <3>2 DEF StockFollows, money, checkout
    <3> QED BY <1>2, <3>1, <3>2
            DEF EscalateOverdue, RenewPaid, EscalateFinalization, ResolveReview, Keep, HoldIn
  <2>3. CasesFollow(k)
    <3>1. CASE RenewPaid(k)
      BY <3>1, SameCases DEF RenewPaid
    <3>2. CASE EscalateOverdue(k) \/ EscalateFinalization(k)
      <4>1. reviews' = Opening(k, "overdue") \/ reviews' = Opening(k, "finalization")
        BY <3>2 DEF EscalateOverdue, EscalateFinalization
      <4> QED BY <4>1, OpenedCases DEF Cases
    <3>3. CASE ResolveReview(k)
      BY <3>3, OpenedCases DEF ResolveReview
    <3> QED BY <1>2, <3>1, <3>2, <3>3
  <2>4. RowGuarded(k)
    BY <1>1, <2>1, <2>2 DEF money
  <2>5. PhaseAgrees(k)' /\ RowsAgree(k)'
    BY <1>1, <2>1, <2>2, <2>3, CaseKept DEF LinesOf, money
  <2>6. Guards!ReopenGuarded(k)
    BY <2>1 DEF Guards!ReopenGuarded, money
  <2> QED BY <2>2, <2>3, <2>4, <2>5, <2>6 DEF Admitted
<1>3. CASE Reconcile(k)
  <2>1. /\ Terminate(k, "held_for_review") /\ evidence[k] = {}
        /\ tx[k] = "unknown" /\ tx'[k] = "terminal" /\ payment[k] = "review" /\ payment'[k] = "open"
    BY <1>3 DEF Reconcile, Pay, MoneyType
  <2>2. /\ StockFollows(k)
        /\ status[k] \in {"pending", "canceled"} /\ status'[k] = "canceled"
    BY <1>1, <2>1, TerminatedFollows
  <2>3. PICK c \in {"request", "overdue"} :
          /\ IsOpen(k, c) /\ Reopenable(k, {c})
          /\ reviews' = [reviews EXCEPT ![k][c] = "resolved"]
    BY <1>3 DEF Reconcile
  <2>4. CasesFollow(k)
    BY <2>3, OpenedCases DEF Cases
  <2>5. RowGuarded(k) /\ PhaseAgrees(k)' /\ RowsAgree(k)'
    BY <1>1, <2>1, <2>2, <2>4, CaseKept DEF LinesOf, LiveTx
  <2>6. Guards!ReopenGuarded(k)
    <3>1. \A d \in Cases : reviews'[k][d] # "open"
      BY <2>1, <2>3 DEF Reopenable, IsOpen, MoneyType
    <3> QED BY <1>1, <2>1, <3>1 DEF Guards!ReopenGuarded, MoneyType
  <2> QED BY <2>2, <2>4, <2>5, <2>6 DEF Admitted
<1> QED BY <1>2, <1>3 DEF Control

LEMMA SettleGuarded ==
  ASSUME GuardInv, NEW k \in Checkouts, Settle(k)
  PROVE  Admitted(k)
<1> USE Assumed DEF PhaseAgrees, RowsAgree, EvidenceAgrees, EndAgrees, ClaimAgrees,
   RowGuarded, PaymentFollows, TransactionFollows, Ends, Allocated, Guards!Follows,
   Guards!PaymentMoves, Guards!TransactionMoves, Guards!AttemptGuarded, Guards!EvidenceAppended,
   Guards!Blocking, Guards!Unpaid
<1>1. UNCHANGED evidence
  BY DEF Settle, Recognize, RecognizeLate, Finalize
<1>2. CASE Recognize(k)
  <2>1. /\ Retain(k, "payment_hold") /\ UNCHANGED <<auth, sellable>> /\ reviews' = Settled(k)
        /\ payment[k] \in {"processing", "review"} /\ payment'[k] = "pending_finalization"
        /\ tx[k] # "terminal" /\ tx'[k] = "succeeded" /\ "success" \in evidence[k]
    BY <1>2 DEF Recognize, Keep, HoldIn, Clean, Pay, MoneyType
  <2>2. StockFollows(k) /\ status[k] = "pending" /\ status'[k] = "pending"
    BY <2>1, RetainedFollows
  <2>3. CasesFollow(k)
    BY <2>1, SettledCases
  <2>4. RowGuarded(k) /\ PhaseAgrees(k)' /\ RowsAgree(k)'
    BY <1>1, <2>1, <2>2, <2>3, CaseKept DEF LinesOf, LiveTx
  <2> QED BY <2>1, <2>2, <2>3, <2>4, NotReopened DEF Admitted
<1>3. CASE RecognizeLate(k)
  <2>1. /\ UNCHANGED <<status, res, sellable>> /\ reviews' = Settled(k)
        /\ auth[k] = "approved" /\ auth'[k] = "applied"
        /\ payment[k] = "review" /\ payment'[k] = "pending_finalization"
        /\ tx[k] = "terminal" /\ tx'[k] = "terminal"
    BY <1>3 DEF RecognizeLate, Pay, MoneyType, checkout
  <2>2. CasesFollow(k)
    BY <2>1, SettledCases
  <2>3. RowGuarded(k)
    BY <1>1, <2>1
  <2>4. reviews'[k]["late"] # "none"
    BY <2>1, <2>2, CaseKept DEF RowsAgree
  <2>5. PhaseAgrees(k)' /\ RowsAgree(k)'
    BY <1>1, <2>1, <2>4 DEF LinesOf, LiveTx
  <2> QED BY <2>1, <2>2, <2>3, <2>5, NotReopened DEF Admitted, StockFollows
<1>4. CASE Finalize(k)
  <2>1. /\ status[k] = "pending" /\ status'[k] = "paid" /\ UNCHANGED <<tx, auth, reviews>>
        /\ payment[k] = "pending_finalization" /\ payment'[k] = "paid"
    BY <1>4 DEF Finalize, ShopType, MoneyType
  <2>2. StockFollows(k)
    BY <1>4, MovedFollows DEF Finalize, StockFollows
  <2>3. RowGuarded(k) /\ PhaseAgrees(k)' /\ RowsAgree(k)'
    BY <1>1, <2>1 DEF LinesOf
  <2> QED BY <2>1, <2>2, <2>3, SameCases, NotReopened DEF Admitted
<1> QED BY <1>2, <1>3, <1>4 DEF Settle

LEMMA AdjudicationGuarded ==
  ASSUME GuardInv, NEW k \in Checkouts, Adjudication(k)
  PROVE  Admitted(k)
<1> USE Assumed DEF PhaseAgrees, RowsAgree, EvidenceAgrees, EndAgrees, ClaimAgrees,
   RowGuarded, PaymentFollows, TransactionFollows, Ends, Allocated, Guards!Follows,
   Guards!PaymentMoves, Guards!TransactionMoves, Guards!AttemptGuarded, Guards!EvidenceAppended,
   Guards!Blocking, Guards!Unpaid
<1>1. UNCHANGED <<sellable, status, payment, tx, evidence>>
  BY DEF Adjudication, Propose, Check, BarLate, RecoverLate, ResolveInventory, checkout, money
<1>2. auth[k] # "none" /\ auth'[k] # "none" /\ (auth[k] = "applied" => auth'[k] = "applied")
  BY DEF Adjudication, Propose, Check, BarLate, RecoverLate, ResolveInventory, Adjudicate,
     MoneyType
<1>3. StockFollows(k)
  <2>1. \A r \in Reservations : res[r] # "none" => res'[r] # "none"
    BY DEF Adjudication, Propose, Check, BarLate, RecoverLate, ResolveInventory
  <2> QED BY <1>1, <2>1 DEF StockFollows
<1>4. CasesFollow(k)
  <2>1. CASE Propose(k) \/ RecoverLate(k)
    BY <2>1, SameCases DEF Propose, RecoverLate
  <2>2. CASE Check(k)
    <3>1. reviews' = [reviews EXCEPT ![k]["late"] = "resolved"] /\ reviews[k]["late"] # "none"
      BY <1>2, <2>2 DEF Check, RowsAgree
    <3>2. "late" \in Cases /\ reviews[k]["late"] \in {"open", "resolved"}
      BY <3>1 DEF Cases, MoneyType, ReviewStatus
    <3> QED BY <3>1, <3>2 DEF CasesFollow, MoneyType
  <2>3. CASE BarLate(k) \/ ResolveInventory(k)
    BY <2>3, OpenedCases DEF BarLate, ResolveInventory, Cases
  <2> QED BY <2>1, <2>2, <2>3 DEF Adjudication
<1>5. RowGuarded(k) /\ PhaseAgrees(k)' /\ RowsAgree(k)'
  BY <1>1, <1>2, <1>4, CaseKept DEF LinesOf
<1>6. Guards!ReopenGuarded(k)
  BY <1>1 DEF Guards!ReopenGuarded
<1> QED BY <1>3, <1>4, <1>5, <1>6 DEF Admitted

-----------------------------------------------------------------------------
(* The rows of every checkout                                              *)

\* What a step on a checkout is: it leaves the other ones alone, and the
\* database admits it.
StepOn(k) == Touches(k) /\ EvidenceTouches(k) /\ Admitted(k)

LEMMA StepsAreOn ==
  ASSUME GuardInv, NEW k \in Checkouts,
         Shop(k) \/ Collect(k) \/ Verify(k) \/ Control(k) \/ Settle(k) \/ Adjudication(k)
  PROVE  StepOn(k)
<1>1. SettleInv /\ CartInv
  BY DEF GuardInv, SettleInv
<1>2. Touches(k)
  BY <1>1, ShopAgrees, CollectAgrees, VerifyAgrees, ControlAgrees, SettleAgrees,
     AdjudicationAgrees
<1>3. EvidenceTouches(k)
  BY <1>1, ShopSettles, CollectSettles, VerifySettles, ControlSettles, SettleSettles,
     AdjudicationSettles
<1>4. Admitted(k)
  BY ShopGuarded, CollectGuarded, VerifyGuarded, ControlGuarded, SettleGuarded,
     AdjudicationGuarded
<1> QED BY <1>2, <1>3, <1>4 DEF StepOn

\* Nothing the rows of a checkout say changes.
RowsStay(j) ==
  /\ status'[j] = status[j] /\ payment'[j] = payment[j] /\ tx'[j] = tx[j]
  /\ auth'[j] = auth[j] /\ evidence'[j] = evidence[j] /\ reviews'[j] = reviews[j]

LEMMA OthersStay ==
  ASSUME NEW k \in Checkouts, StepOn(k), NEW j \in Checkouts, j # k
  PROVE  RowsStay(j)
BY DEF StepOn, Touches, ShopTouches, MoneyTouches, EvidenceTouches, Admitted, CasesFollow,
   RowsStay

LEMMA AdjustStays ==
  ASSUME UNCHANGED vars \/ \E p \in Pools : Adjust(p), NEW j \in Checkouts
  PROVE  RowsStay(j)
BY DEF Adjust, vars, checkout, money, RowsStay

LEMMA StayingAgrees ==
  ASSUME NEW j, RowsStay(j), PhaseAgrees(j), RowsAgree(j)
  PROVE  PhaseAgrees(j)' /\ RowsAgree(j)'
BY DEF RowsStay, PhaseAgrees, RowsAgree, LinesOf

LEMMA InitGuardInv == Init => GuardInv
<1> SUFFICES ASSUME Init, NEW k \in Checkouts PROVE PhaseAgrees(k) /\ RowsAgree(k)
  BY InitSettleInv DEF GuardInv
<1> QED BY DEF Init, PhaseAgrees, RowsAgree, LiveTx

LEMMA NextGuardInv == GuardInv /\ [Next]_vars => GuardInv'
<1> SUFFICES ASSUME GuardInv, [Next]_vars PROVE GuardInv'
  OBVIOUS
<1>1. SettleInv'
  BY NextSettleInv DEF GuardInv
<1>2. ASSUME NEW k \in Checkouts, StepOn(k), NEW j \in Checkouts
      PROVE  PhaseAgrees(j)' /\ RowsAgree(j)'
  <2>1. CASE j = k
    BY <1>2, <2>1 DEF StepOn, Admitted
  <2>2. CASE j # k
    BY <1>2, <2>2, OthersStay, StayingAgrees DEF GuardInv
  <2> QED BY <2>1, <2>2
<1>3. ASSUME UNCHANGED vars \/ \E p \in Pools : Adjust(p), NEW j \in Checkouts
      PROVE  PhaseAgrees(j)' /\ RowsAgree(j)'
  BY <1>3, AdjustStays, StayingAgrees DEF GuardInv
<1>4. \A j \in Checkouts : PhaseAgrees(j)' /\ RowsAgree(j)'
  BY <1>2, <1>3, StepsAreOn DEF Next
<1> QED BY <1>1, <1>4 DEF GuardInv

-----------------------------------------------------------------------------
(* The guards of the whole graph                                           *)

CasesMove(j) ==
  \A c \in Cases : Guards!Follows(Guards!CaseMoves, reviews[j][c], reviews'[j][c])

LEMMA StayingAdmitted ==
  ASSUME NEW j, RowsStay(j)
  PROVE  RowGuarded(j) /\ Guards!ReopenGuarded(j) /\ CasesMove(j)
BY DEF RowsStay, CasesMove, Guards!ReopenGuarded, RowGuarded, PaymentFollows,
   TransactionFollows, Guards!Follows, Guards!PaymentMoves, Guards!TransactionMoves,
   Guards!AttemptGuarded, Guards!EvidenceAppended, Guards!Blocking, Guards!Unpaid, Ends,
   Allocated

\* What admits a step on one checkout admits it for all of them.
LEMMA RowsAdmitted ==
  ASSUME NEW k \in Checkouts, StepOn(k), NEW j \in Checkouts
  PROVE  RowGuarded(j) /\ Guards!ReopenGuarded(j) /\ CasesMove(j)
<1>1. CASE j = k
  BY <1>1 DEF StepOn, Admitted, CasesFollow, CasesMove, Guards!Follows, Guards!CaseMoves
<1>2. CASE j # k
  BY <1>2, OthersStay, StayingAdmitted
<1> QED BY <1>1, <1>2

\* The guards count with the same operator.
LEMMA SameCount ==
  ASSUME NEW S
  PROVE  Guards!Cardinality(S) = Cardinality(S)
BY DEF Guards!Cardinality, Cardinality

\* A checkout's reservations are the two of each of its lines.
LEMMA RowsOfLines ==
  ASSUME NEW k, DOMAIN res = Reservations, NEW r
  PROVE  r \in Guards!RowsOf(k) <=>
           \E l \in LinesOf(k) : r \in {<<l, "original">>, <<l, "replacement">>}
BY DEF Guards!RowsOf, LinesOf, Reservations

\* A sale is of every line of the checkout, each from the hold it had, and
\* takes from each pool what it consumed of it.
LEMMA SaleComplete ==
  ASSUME GuardInv, GuardInv', NEW k \in Checkouts, Finalize(k)
  PROVE  /\ Guards!FinalizationComplete(k)
         /\ \A p \in Pools : /\ sellable[p] \in Nat /\ Guards!Committed(k, p) \in Nat
                             /\ sellable'[p] = sellable[p] - Guards!Committed(k, p)
<1> /\ ShopType /\ Agrees(k) /\ StockAgrees(k) /\ Owner[k] \in Customers
    /\ DOMAIN res = Reservations
  BY Assumed, GraphAssumption DEF GuardInv, SettleInv, Settles, ShopType
<1> DEFINE Originals(p) == {l \in LinesOf(k) : PoolOf[l] = p} \X {"original"}
<1>1. /\ status'[k] = "paid" /\ payment'[k] = "paid" /\ active'[Owner[k]] = NoCheckout
      /\ Owns(k)
  BY Assumed DEF Finalize, Unlock, ShopType, MoneyType
<1>2. \A l \in LinesOf(k) : /\ res[<<l, "replacement">>] \notin Current
                            /\ res[<<l, "replacement">>] # "consumed"
  BY <1>1 DEF Agrees, NoReplacement, StockAgrees
<1>3. \A l \in LinesOf(k) : res[<<l, "original">>] = "payment_hold"
  BY <1>2 DEF Finalize, Deliverable, EveryLine, Holds, Reservations, Current
<1>4. \A l \in LinesOf(k) : /\ res'[<<l, "original">>] = "consumed"
                            /\ res'[<<l, "replacement">>] # "consumed"
  BY <1>2, <1>3 DEF Finalize, Move, LinesOf, Reservations, Current
<1>5. Guards!Consumed(k) = LinesOf(k) \X {"original"}
  <2>1. ASSUME NEW r \in Guards!Consumed(k) PROVE r \in LinesOf(k) \X {"original"}
    <3>1. r \in Guards!RowsOf(k) /\ res'[r] = "consumed"
      BY <2>1 DEF Guards!Consumed
    <3>2. PICK l \in LinesOf(k) : r \in {<<l, "original">>, <<l, "replacement">>}
      BY <3>1, RowsOfLines
    <3>3. r = <<l, "original">>
      BY <1>4, <3>1, <3>2
    <3> QED BY <3>3
  <2>2. ASSUME NEW r \in LinesOf(k) \X {"original"} PROVE r \in Guards!Consumed(k)
    <3>1. PICK l \in LinesOf(k) : r = <<l, "original">>
      OBVIOUS
    <3>2. r \in Guards!RowsOf(k)
      BY <3>1, RowsOfLines
    <3> QED BY <1>4, <3>1, <3>2 DEF Guards!Consumed
  <2> QED BY <2>1, <2>2
<1>6. \A l \in {m \in Lines : CheckoutOf[m] = k} :
        Cardinality({r \in Guards!Consumed(k) : r[1] = l}) = 1
  <2> TAKE l \in {m \in Lines : CheckoutOf[m] = k}
  <2>1. {r \in Guards!Consumed(k) : r[1] = l} = {<<l, "original">>}
    BY <1>5 DEF LinesOf
  <2> QED BY <2>1, FS_Singleton
<1>7. \A p \in Pools : /\ Guards!Committed(k, p) = Demand(p, LinesOf(k))
                       /\ Demand(p, LinesOf(k)) \in Nat
  <2> TAKE p \in Pools
  <2>1. {r \in Guards!Consumed(k) : PoolOf[r[1]] = p} = Originals(p)
    BY <1>5
  <2>2. /\ IsFiniteSet({l \in LinesOf(k) : PoolOf[l] = p})
        /\ Cardinality({l \in LinesOf(k) : PoolOf[l] = p}) \in Nat
    BY SomeLinesFinite DEF LinesOf
  <2>3. Cardinality(Originals(p)) = Cardinality({l \in LinesOf(k) : PoolOf[l] = p})
    BY <2>2, OnePerLine
  <2> QED BY <2>1, <2>2, <2>3, SameCount DEF Guards!Committed, Demand
<1>8. Guards!CommitmentOrigin(k)
  <2> SUFFICES ASSUME NEW p \in Pools
               PROVE  Cardinality({r \in Guards!RowsOf(k) :
                                     PoolOf[r[1]] = p /\ res[r] = "payment_hold"})
                        = Guards!Committed(k, p)
    BY SameCount DEF Guards!CommitmentOrigin
  <2>1. {r \in Guards!RowsOf(k) : PoolOf[r[1]] = p /\ res[r] = "payment_hold"} = Originals(p)
    BY <1>2, <1>3 DEF Guards!RowsOf, LinesOf, Reservations, Current
  <2>2. {r \in Guards!Consumed(k) : PoolOf[r[1]] = p} = Originals(p)
    BY <1>5
  <2> QED BY <2>1, <2>2, SameCount DEF Guards!Committed
<1>9. \A p \in Pools : /\ sellable[p] \in Nat /\ Guards!Committed(k, p) \in Nat
                       /\ sellable'[p] = sellable[p] - Guards!Committed(k, p)
  <2>1. \A p \in Pools : sellable'[p] = sellable[p] - Demand(p, LinesOf(k))
    BY DEF Finalize
  <2>2. \A p \in Pools : sellable[p] \in Nat
    BY TypeParts, StockAssumption DEF GuardInv, SettleInv, CartInv, IInv, SellableType
  <2> QED BY <1>7, <2>1, <2>2
<1> QED
  BY <1>1, <1>6, <1>8, <1>9, SameCount DEF Guards!FinalizationComplete, Guards!CommitmentComplete

LEMMA PaidByFinalize ==
  ASSUME NEW k \in Checkouts, StepOn(k), NEW j \in Checkouts,
         payment[j] # "paid", payment'[j] = "paid"
  PROVE  j = k /\ Finalize(k)
BY OthersStay DEF RowsStay, StepOn, Admitted, StockFollows

LEMMA FinalizationsGuarded ==
  ASSUME GuardInv, GuardInv', NEW k \in Checkouts, StepOn(k), NEW j \in Checkouts
  PROVE  Guards!FinalizationGuarded(j)
<1> SUFFICES ASSUME payment[j] # "paid", payment'[j] = "paid"
             PROVE  Guards!FinalizationComplete(j)
  BY DEF Guards!FinalizationGuarded, Finalized
<1> QED BY PaidByFinalize, SaleComplete

LEMMA PoolsGuarded ==
  ASSUME GuardInv, GuardInv', NEW k \in Checkouts, StepOn(k), NEW p \in Pools
  PROVE  Guards!PoolGuarded(p)
<1>1. CASE UNCHANGED sellable
  <2>1. sellable[p] \in Nat
    BY TypeParts, StockAssumption DEF GuardInv, SettleInv, CartInv, IInv, SellableType
  <2> QED BY <1>1, <2>1 DEF Guards!PoolGuarded
<1>2. CASE Finalize(k)
  <2>1. Finalized(k)' /\ ~Finalized(k)
    BY <1>2, Assumed DEF Finalize, Finalized, MoneyType
  <2>2. sellable[p] - sellable'[p] = Guards!Committed(k, p)
    BY <1>2, SaleComplete
  <2> QED BY <2>1, <2>2 DEF Guards!PoolGuarded
<1> QED BY <1>1, <1>2 DEF StepOn, Admitted, StockFollows

LEMMA CartsGuarded ==
  ASSUME GuardInv, GuardInv', NEW k \in Checkouts, StepOn(k), NEW c \in Customers
  PROVE  Guards!CartGuarded(c)
<1> SUFFICES ASSUME active[c] # NoCheckout, active'[c] = NoCheckout,
                    payment[active[c]] # "none"
             PROVE  \/ Guards!DefinitivelyUnpaid(k) /\ active[c] = k
                    \/ Finalized(k)' /\ active[c] = k
  BY DEF Guards!CartGuarded, Guards!Placed
<1> /\ ShopType /\ Agrees(k) /\ RowsAgree(k) /\ DOMAIN res = Reservations
    /\ Owner[k] \in Customers /\ NoCheckout \notin Checkouts
  BY Assumed, GraphAssumption DEF ShopType
<1> /\ Agrees(k)' /\ Settles(k)' /\ PhaseAgrees(k)' /\ RowsAgree(k)' /\ ShopType'
  BY DEF GuardInv, SettleInv, CartInv, IInv, TypeOK, ShopType, ReservationStates
<1>1. c = Owner[k] /\ active[c] = k
  BY DEF StepOn, Touches, ShopTouches, ShopType, cart
<1>2. Owns(k) /\ ~Owns(k)' /\ payment[k] # "none"
  BY <1>1 DEF Owns
<1>3. status[k] = "pending" /\ payment'[k] # "none"
  BY <1>2 DEF Agrees, RowsAgree, StepOn, Admitted, RowGuarded, PaymentFollows,
     TransactionFollows, Guards!Follows, Guards!PaymentMoves, Guards!TransactionMoves,
     Guards!AttemptGuarded, Guards!EvidenceAppended, Guards!Blocking, Guards!Unpaid, Ends,
     Allocated
<1>4. status'[k] \in {"paid", "canceled"}
  BY <1>2, <1>3 DEF Agrees, RowsAgree
<1>5. CASE status'[k] = "paid"
  BY <1>1, <1>5 DEF Settles, PhaseAgrees, RowsAgree, EvidenceAgrees, EndAgrees, ClaimAgrees,
     FlowAgrees, Finalized
<1>6. CASE status'[k] = "canceled"
  <2>1. payment'[k] = "open" /\ tx'[k] = "terminal"
    BY <1>2, <1>3, <1>6 DEF StepOn, Admitted, RowGuarded, Ends
  <2>2. auth'[k] # "applied"
    BY <2>1 DEF Settles, FlowAgrees, EndAgrees
  <2>3. \A l \in LinesOf(k) : /\ res'[<<l, "original">>] \notin Current
                              /\ res'[<<l, "replacement">>] \notin Current
    BY <1>2, <2>2 DEF Agrees, OriginalsAgree, Settles, StockAgrees, LinesOf
  <2>4. \A r \in Guards!RowsOf(k) : res'[r] \notin Current
    <3> TAKE r \in Guards!RowsOf(k)
    <3>1. PICK l \in LinesOf(k) : r \in {<<l, "original">>, <<l, "replacement">>}
      BY RowsOfLines
    <3> QED BY <2>3, <3>1
  <2>5. PICK l \in LinesOf(k) : TRUE
    BY <1>3 DEF RowsAgree
  <2>6. <<l, "original">> \in Guards!RowsOf(k) /\ <<l, "original">> \in Reservations
    BY <2>5 DEF Guards!RowsOf, LinesOf, Reservations
  <2>7. res[<<l, "original">>] # "none"
    BY <1>2, <2>5 DEF Agrees, OriginalsAgree
  <2>8. res'[<<l, "original">>] # "none"
    BY <2>6, <2>7 DEF StepOn, Admitted, StockFollows
  <2>9. Guards!DefinitivelyUnpaid(k)
    BY <1>6, <2>1, <2>4, <2>6, <2>8
       DEF Guards!DefinitivelyUnpaid, Allocated, Guards!Unpaid, Current
  <2> QED BY <1>1, <2>9
<1> QED BY <1>4, <1>5, <1>6

\* The rest follows from the invariant before and after the step.
LEMMA AcceptedParts ==
  ASSUME GuardInv, GuardInv',
         \A j \in Checkouts : /\ RowGuarded(j) /\ Guards!ReopenGuarded(j) /\ CasesMove(j)
                              /\ Guards!FinalizationGuarded(j),
         \A c \in Customers : Guards!CartGuarded(c),
         \A p \in Pools : Guards!PoolGuarded(p)
  PROVE  Guards!Accepted
<1>1. \A j \in Checkouts : Allocated(j) => Allocated(j)'
  BY DEF RowGuarded, PaymentFollows
<1>2. \A j \in Checkouts : Finalized(j) => Finalized(j)'
  BY DEF RowGuarded, PaymentFollows, Guards!Follows, Guards!PaymentMoves, Finalized
<1>3. Guards!AllocationAppended
  BY <1>1, <1>2 DEF Guards!AllocationAppended
<1>4. ASSUME NEW j \in Checkouts
      PROVE  /\ Guards!TransitionsFollowed(j) /\ Guards!PaymentProtected(j)
             /\ Guards!AttemptGuarded(j) /\ Guards!EvidenceAppended(j)
             /\ Guards!AttemptProtected(j) /\ Guards!AllocationValid(j)
             /\ Guards!AllocationProjected(j) /\ Guards!ConfirmedEvidence(j)
             /\ Guards!CheckoutGuarded(j) /\ Guards!FinalizedCheckoutProtected(j)
  <2> RowGuarded(j) /\ CasesMove(j) /\ MoneyType
    BY Assumed
  <2> /\ PhaseAgrees(j)' /\ EvidenceAgrees(j)' /\ ClaimAgrees(j)'
    BY DEF GuardInv, SettleInv, Settles, FlowAgrees
  <2>1. DOMAIN reviews[j] = Cases
    BY DEF MoneyType
  <2>2. Guards!TransitionsFollowed(j)
    BY <2>1 DEF Guards!TransitionsFollowed, RowGuarded, PaymentFollows, TransactionFollows,
       CasesMove
  <2>3. Guards!PaymentProtected(j)
    BY <1>2 DEF Guards!PaymentProtected, Finalized
  <2>4. Guards!AttemptProtected(j)
    <3>1. tx[j] \in {"terminal", "succeeded"} => tx'[j] = tx[j]
      BY DEF RowGuarded, TransactionFollows, Guards!Follows, Guards!TransactionMoves
    <3>2. tx'[j] = "succeeded" => Allocated(j)'
      BY DEF PhaseAgrees, Allocated
    <3> QED BY <3>1, <3>2 DEF Guards!AttemptProtected, Guards!Unpaid
  <2>5. Guards!AllocationValid(j)
    BY DEF Guards!AllocationValid, Allocated, EvidenceAgrees
  <2>6. Guards!AllocationProjected(j) /\ Guards!ConfirmedEvidence(j)
    BY DEF Guards!AllocationProjected, Guards!HandedOver, Guards!ConfirmedEvidence, Allocated,
       Finalized, PhaseAgrees
  <2>7. Guards!CheckoutGuarded(j) /\ Guards!FinalizedCheckoutProtected(j)
    BY <1>2 DEF Guards!CheckoutGuarded, Guards!FinalizedCheckoutProtected, Finalized, ClaimAgrees
  <2> QED BY <2>2, <2>3, <2>4, <2>5, <2>6, <2>7 DEF RowGuarded
<1>5. ASSUME NEW r \in Reservations
      PROVE  Guards!ConsumedProtected(r) /\ Guards!ConsumptionGuarded(r)
  <2> DEFINE j == CheckoutOf[r[1]]
  <2>1. /\ j \in Checkouts /\ r[1] \in LinesOf(j)
        /\ r \in {<<r[1], "original">>, <<r[1], "replacement">>}
    BY GraphAssumption DEF Reservations, LinesOf
  <2>2. res[r] = "consumed" => r = <<r[1], "original">> /\ Finalized(j)
    BY <2>1 DEF GuardInv, SettleInv, Settles, FlowAgrees, StockAgrees, ClaimAgrees, Finalized
  <2>3. res'[r] = "consumed" <=> r = <<r[1], "original">> /\ Finalized(j)'
    BY <2>1
       DEF GuardInv, SettleInv, Settles, FlowAgrees, StockAgrees, ClaimAgrees, Finalized, LinesOf
  <2> QED BY <1>2, <2>1, <2>2, <2>3 DEF Guards!ConsumedProtected, Guards!ConsumptionGuarded
<1>6. DOMAIN res = Reservations
  BY TypeParts DEF GuardInv, SettleInv, CartInv, IInv, ShopType
<1> QED BY <1>3, <1>4, <1>5, <1>6 DEF Guards!Accepted

\* A controlled adjustment, and a step of nothing.
LEMMA AdjustAccepted ==
  ASSUME GuardInv, GuardInv', UNCHANGED vars \/ \E p \in Pools : Adjust(p)
  PROVE  Guards!Accepted
<1>1. UNCHANGED <<active, payment, res>>
  BY DEF Adjust, vars, cart, money
<1>2. ASSUME NEW j \in Checkouts
      PROVE  /\ RowGuarded(j) /\ Guards!ReopenGuarded(j) /\ CasesMove(j)
             /\ Guards!FinalizationGuarded(j)
  BY <1>1, AdjustStays, StayingAdmitted DEF Guards!FinalizationGuarded, Finalized
<1>3. \A c \in Customers : Guards!CartGuarded(c)
  BY <1>1 DEF Guards!CartGuarded
<1>4. ASSUME NEW q \in Pools PROVE Guards!PoolGuarded(q)
  <2>1. sellable \in [Pools -> Nat] /\ DOMAIN res = Reservations
    BY TypeParts, StockAssumption DEF GuardInv, SettleInv, CartInv, IInv, SellableType, ShopType
  <2>2. CASE UNCHANGED sellable
    BY <2>1, <2>2 DEF Guards!PoolGuarded
  <2>3. ASSUME NEW p \in Pools, NEW d \in {-1, 1}, d < 0 => Lowerable(p),
               sellable' = [sellable EXCEPT ![p] = @ + d]
        PROVE  Guards!PoolGuarded(q)
    <3>1. CASE q # p \/ d = 1
      BY <2>1, <2>3, <3>1 DEF Guards!PoolGuarded
    <3>2. CASE q = p /\ d = -1
      BY <1>1, <2>1, <2>3, <3>2
         DEF Guards!PoolGuarded, Guards!OrderRows, Guards!Placed, Lowerable
    <3> QED BY <3>1, <3>2
  <2> QED BY <2>2, <2>3 DEF Adjust, vars
<1> QED BY <1>2, <1>3, <1>4, AcceptedParts

LEMMA NextAccepted ==
  ASSUME GuardInv, GuardInv', [Next]_vars
  PROVE  Guards!Accepted
<1>1. ASSUME NEW k \in Checkouts, StepOn(k) PROVE Guards!Accepted
  BY <1>1, RowsAdmitted, FinalizationsGuarded, PoolsGuarded, CartsGuarded, AcceptedParts
<1> QED BY <1>1, StepsAreOn, AdjustAccepted DEF Next

\* Every transaction of the purchase is one the database accepts, by its row
\* guards, the guards of the graph at commit and the transition tables: no
\* command relies on a refusal, and whatever they promise of the graph holds.
THEOREM Implementation == Spec => Guarded
<1>1. Init => Guards!Init
  BY DEF Init, Guards!Init, Allocated, Finalized, Reservations
<1>2. GuardInv /\ GuardInv' /\ [Next]_vars => [Guards!Accepted]_(Guards!vars)
  BY NextAccepted
<1> QED BY <1>1, <1>2, InitGuardInv, NextGuardInv, PTL DEF Spec, Guarded, Guards!Spec
=============================================================================
