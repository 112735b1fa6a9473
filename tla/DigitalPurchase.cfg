CONSTANTS
  alice = alice
  bob = bob
  order = order
  next = next
  rival = rival
  p1 = p1
  p2 = p2
  o1 = o1
  o2 = o2
  n1 = n1
  r1 = r1
  NoCheckout = NoCheckout
  Customers = {alice, bob}
  Pools = {p1, p2}
  Checkouts = {order, next, rival}
  Lines = {o1, o2, n1, r1}
  Owner <- OwnerOf
  CheckoutOf <- CheckoutOfLine
  PoolOf <- PoolOfLine
  Payers = {order}
  MaxStock = 2
SPECIFICATION Spec
INVARIANTS
  TypeOK
  NoOversell
  CartOwnsItsHolds
  PaymentSettles
PROPERTY
  Guarded
CHECK_DEADLOCK FALSE
