SPECIFICATION FairCheckoutSpec
CONSTANTS
  c1 = c1
  c2 = c2
  p1 = p1
  r1 = r1
  r2 = r2
  r3 = r3
  k1 = k1
  k2 = k2
  k3 = k3
  Shoppers = {c1, c2}
  Products = {p1}
  Rows = {r1, r2, r3}
  RowOf <- MCRowOf
  Keys = {k1, k2, k3}
  KeyOf <- MCKeyOf
  MaxQuantity = 2
  Ttl = 1
  Lifetime = 2
INVARIANTS CheckoutTypeOK CartFollowsCheckout
PROPERTIES NewHoldsFit DraftsEnd
CHECK_DEADLOCK FALSE
