CONSTANTS
  order = order
  now = now
  later = later
  manager = manager
  admin = admin
  NoOne = NoOne
  Order = {order}
  Line = {now, later}
  OrderOf <- OneOrder
  Preorder = {later}
  InStoreOnly = {later}
  SoldAs <- Methods
  Manager = {manager}
  Admin = {admin}
SPECIFICATION Spec
INVARIANTS
  TypeOK
  DeliveryIsEvidenced
PROPERTIES
  ImplementsDelivery
CHECK_DEADLOCK FALSE
