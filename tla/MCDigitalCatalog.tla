-------------------------- MODULE MCDigitalCatalog --------------------------
(* A small instance of DigitalCatalog: one PS4 version, two offers out of   *)
(* three configurations, two of which can share a pool.                     *)
EXTENDS DigitalCatalog, TLC

CONSTANTS v1, o1, o2, p1, p2, k1, k2

MCNativeOf == v1 :> "PS4"
MCConfigs == {<<v1, "PS4", "cap2">>, <<v1, "PS5", "cap2">>, <<v1, "PS5", "cap3">>}
MCSymmetry == Permutations({o1, o2}) \cup Permutations({p1, p2})
              \cup Permutations({k1, k2})

=============================================================================
