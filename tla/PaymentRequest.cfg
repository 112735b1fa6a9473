CONSTANTS
  k1 = k1
  k2 = k2
  k3 = k3
  p1 = p1
  p2 = p2
  NoKey = NoKey
  Key = {k1, k2, k3}
  Process = {p1, p2}
SPECIFICATION RequestSpec
SYMMETRY Alike
INVARIANTS
  RequestTypeOK
  OnePayablePage
CHECK_DEADLOCK FALSE
