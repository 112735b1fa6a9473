------------------------ MODULE MCDigitalFulfillment ------------------------
(* One order with a game in stock, sold for remote fulfillment, and a      *)
(* preordered one of capacity 1; a manager and an admin.                   *)
EXTENDS DigitalFulfillment, TLC

CONSTANTS order, now, later, manager, admin

OneOrder == [l \in {now, later} |-> order]
Methods == (now :> "remote") @@ (later :> "in_store")
=============================================================================
