-------------------------- MODULE DeliveryContract --------------------------
(***************************************************************************)
(* What fulfillment promises about the lines of paid orders: a line is     *)
(* delivered at most once, by one person, only after its order was paid,   *)
(* and never taken back.                                                   *)
(***************************************************************************)
CONSTANTS Line, Order, OrderOf, Staff, NoOne

VARIABLES paid,        \* orders that are paid
          deliveredBy  \* who delivered each line, NoOne while it is owed

vars == <<paid, deliveredBy>>

TypeOK ==
  /\ paid \subseteq Order
  /\ deliveredBy \in [Line -> Staff \cup {NoOne}]

Init ==
  /\ paid = {}
  /\ deliveredBy = [l \in Line |-> NoOne]

Pay(o) ==
  /\ o \in Order \ paid
  /\ paid' = paid \cup {o}
  /\ UNCHANGED deliveredBy

Deliver(l, s) ==
  /\ OrderOf[l] \in paid /\ deliveredBy[l] = NoOne
  /\ deliveredBy' = [deliveredBy EXCEPT ![l] = s]
  /\ UNCHANGED paid

Next ==
  \/ \E o \in Order : Pay(o)
  \/ \E l \in Line, s \in Staff : Deliver(l, s)

Spec == Init /\ [][Next]_vars
=============================================================================
