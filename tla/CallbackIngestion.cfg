CONSTANTS
  d1 = d1
  d2 = d2
  d3 = d3
  d4 = d4
  paid = paid
  failed = failed
  unmatched = unmatched
  foreign = foreign
  forged = forged
  genuine = genuine
  stray = stray
  event = event
  Nothing = Nothing
  Delivery = {d1, d2, d3, d4}
  Evidence = {paid, failed, unmatched, foreign, forged, genuine, stray}
  Forged = {forged}
  Hint = {genuine, stray}
  Genuine = {genuine}
  Unmatched = {unmatched}
  Foreign = {foreign}
  Event = {event}
  EventOf <- OneEvent
SPECIFICATION Spec
SYMMETRY Alike
INVARIANTS
  TypeOK
  EvidenceIsKept
CHECK_DEADLOCK FALSE
