----------------------------- MODULE MCShopOrder -----------------------------
(* A small instance of ShopOrder: a game order that may pay twice and an   *)
(* order of a product that compete for stock; the game order and an old    *)
(* repair request that compete for a slot; two new repair requests and the *)
(* staff.                                                                  *)
EXTENDS ShopOrder, TLC

CONSTANTS o1, o2, t1, t2, t3, u1, u2, s1, s2, h, k, d, r1, r2, r3, i1, i2, c1, c2, staff

MCNeed == (o1 :> 1) @@ (o2 :> 2)
MCCustomerOf == (o1 :> u1) @@ (o2 :> u2)
MCOrderOf == (t1 :> o1) @@ (t2 :> o1) @@ (t3 :> o2)
MCScheduleOf == (s1 :> h) @@ (s2 :> h)
MCCapacity == h :> 1
MCCasts == {{o1, o2}, {o1, r1}, {r2, r3, staff}}

\* Calls, slots, and the transactions of one order are interchangeable.
MCSymmetry == UNION {Permutations({c1, c2}), Permutations({s1, s2}), Permutations({t1, t2})}

=============================================================================
