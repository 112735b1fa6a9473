SPECIFICATION Spec
CONSTANTS
  o1 = o1
  o2 = o2
  t1 = t1
  t2 = t2
  t3 = t3
  u1 = u1
  u2 = u2
  s1 = s1
  s2 = s2
  h = h
  k = k
  d = d
  r1 = r1
  r2 = r2
  r3 = r3
  i1 = i1
  i2 = i2
  staff = staff
  c1 = c1
  c2 = c2
  None = None
  Orders = {o1, o2}
  Need <- MCNeed
  CustomerOf <- MCCustomerOf
  Games = {o1}
  Stock = 2
  Transactions = {t1, t2, t3}
  OrderOf <- MCOrderOf
  Calls = {c1, c2}
  Slots = {s1, s2}
  ScheduleOf <- MCScheduleOf
  Capacity <- MCCapacity
  Repairs = {r1, r2, r3}
  Existing = {r1}
  Devices = {"controller"}
  Issues = {i1, i2}
  Moves = {"received", "canceled"}
  Staffed = {staff}
  Casts <- MCCasts
  Coupons = {k}
  Direct = {d}
  Uses = 1
SYMMETRY MCSymmetry
INVARIANTS TypeOK PaidOnce SlotsHold
CHECK_DEADLOCK FALSE
