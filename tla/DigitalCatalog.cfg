SPECIFICATION CatalogSpec
CONSTANTS
  v1 = v1
  o1 = o1
  o2 = o2
  p1 = p1
  p2 = p2
  k1 = k1
  k2 = k2
  Versions = {v1}
  NativeOf <- MCNativeOf
  Offers = {o1, o2}
  Configs <- MCConfigs
  Pools = {p1, p2}
  Keys = {k1, k2}
  Carts = {c1}
  MaxStock = 1
SYMMETRY MCSymmetry
INVARIANTS CatalogTypeOK
PROPERTIES CatalogAgrees
CHECK_DEADLOCK FALSE
