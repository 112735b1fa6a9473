CONSTANTS
  w1 = w1
  w2 = w2
  Workers = {w1, w2}
  MaxAttempts = 2
  MaxCrashes = 1
  MaxRuns = 1
SPECIFICATION FairSpec
INVARIANTS
  TypeOK
  EndIsJustified
PROPERTIES
  SoldFromLiveHold
  EventuallyTerminal
CHECK_DEADLOCK FALSE
