CONSTANTS
  w1 = w1
  w2 = w2
  Workers = {w1, w2}
  MaxAttempts = 2
  MaxVersion = 4
  MaxCrashes = 1
SPECIFICATION Spec
INVARIANTS
  TypeOK
  EndIsJustified
PROPERTIES
  RecognizedOnceAsValidated
  LeaseIsFenced
CHECK_DEADLOCK FALSE
