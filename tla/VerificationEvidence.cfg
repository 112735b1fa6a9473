CONSTANTS
  t1 = t1
  t2 = t2
  w1 = w1
  w2 = w2
  w3 = w3
  r1 = r1
  r2 = r2
  Transactions = {t1, t2}
  Work = {w1, w2, w3}
  References = {r1, r2}
  NoReference = NoReference
  NotFoundIsFinal = {t1}
  MaxRows = 2
  TransactionOf <- MCTransactionOf
  EventChoices <- MCEventChoices
  SignedReference <- MCSignedReference
  StatusChoices <- MCStatusChoices
SPECIFICATION EvidenceSpec
INVARIANTS EvidenceTypeOK EligibleIsExact
PROPERTY ReadingMoves
CHECK_DEADLOCK FALSE
