--------------------------- MODULE MCShopCheckout ---------------------------
(* A small instance of ShopCheckout: two rows of one product in the first  *)
(* cart and one in the second, two checkouts of the first customer.         *)
EXTENDS ShopCheckout, TLC

CONSTANTS c1, c2, p1, r1, r2, r3, k1, k2, k3

MCRowOf == (r1 :> <<c1, p1>>) @@ (r2 :> <<c1, p1>>) @@ (r3 :> <<c2, p1>>)
MCKeyOf == (k1 :> c1) @@ (k2 :> c1) @@ (k3 :> c2)

=============================================================================
