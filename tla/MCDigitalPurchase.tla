------------------------- MODULE MCDigitalPurchase -------------------------
(* Alice's order draws twice on one pool, on which bob's checkout draws    *)
(* too; alice's next checkout, on the other pool, wants her cart.          *)
EXTENDS DigitalPurchase, TLC

CONSTANTS alice, bob, order, next, rival, p1, p2, o1, o2, n1, r1

OwnerOf == (order :> alice) @@ (next :> alice) @@ (rival :> bob)
CheckoutOfLine == (o1 :> order) @@ (o2 :> order) @@ (n1 :> next) @@ (r1 :> rival)
PoolOfLine == (o1 :> p1) @@ (o2 :> p1) @@ (n1 :> p2) @@ (r1 :> p1)
=============================================================================
