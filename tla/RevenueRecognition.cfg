CONSTANTS
  games = games
  goods = goods
  now = now
  later = later
  parcel = parcel
  ali = ali
  sara = sara
  reza = reza
  p1 = p1
  p2 = p2
  NoOne = NoOne
  Order = {games, goods}
  Line = {now, later, parcel}
  OrderOf <- OrderOfLine
  Buyer <- BuyerOf
  Physical = {parcel}
  Preorder = {later}
  Amount <- AmountOf
  Staff = {ali, sara, reza}
  Process = {p1, p2}
  MaxAttempts = 2
SPECIFICATION Spec
SYMMETRY Symmetry
INVARIANTS
  TypeOK
  EarnedAsDelivered
PROPERTIES
  ImplementsRevenueContract
CHECK_DEADLOCK FALSE
