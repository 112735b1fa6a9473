CONSTANTS
  w1 = w1
  w2 = w2
  none = none
  Workers = {w1, w2}
  NoWorker = none
  MaxAttempts = 2
  MaxCrashes = 1
  MaxRuns = 1
SPECIFICATION FairSpec
INVARIANTS
  TypeOK
  OneClaimPerAttempt
  EndIsJustified
PROPERTIES
  ImplementsObservedWork
  EventuallyTerminal
CHECK_DEADLOCK FALSE
