------------------------ MODULE MCRevenueRecognition ------------------------
(* A Digital order with an ordinary and a preordered line, and a physical  *)
(* order placed by a member of staff; three staff, two processes.          *)
EXTENDS RevenueRecognition, TLC

CONSTANTS games, goods, now, later, parcel, ali, sara, reza, p1, p2

OrderOfLine == (now :> games) @@ (later :> games) @@ (parcel :> goods)
BuyerOf == (games :> NoOne) @@ (goods :> ali)
AmountOf == (now :> 2) @@ (later :> 3) @@ (parcel :> 1)

Symmetry == Permutations({sara, reza}) \cup Permutations(Process)
=============================================================================
