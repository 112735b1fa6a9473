--------------------------- MODULE RevenueContract ---------------------------
(***************************************************************************)
(* What accounting promises: the consideration of a line is a liability    *)
(* from the payment of its order on, and becomes revenue once, as a whole, *)
(* after the line was delivered.                                           *)
(***************************************************************************)
CONSTANTS Line, Order, OrderOf, Staff, NoOne

VARIABLES paid, deliveredBy,
          earned        \* lines whose consideration is revenue

Delivery == INSTANCE DeliveryContract

vars == <<paid, deliveredBy, earned>>

Init == Delivery!Init /\ earned = {}

Earn(l) ==
  /\ deliveredBy[l] # NoOne /\ l \notin earned
  /\ earned' = earned \cup {l}
  /\ UNCHANGED <<paid, deliveredBy>>

\* A delivery may be earned in the same step.
Next ==
  \/ Delivery!Next /\ UNCHANGED earned
  \/ \E l \in Line : Earn(l)

Spec == Init /\ [][Next]_vars
=============================================================================
