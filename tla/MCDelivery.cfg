SPECIFICATION FairSpec
CONSTANTS
  Ids = {a, b}
  MaxAttempts = 1
  HasMaxAge = TRUE
  BothLimited = {b}
  MaxTries = 2
  MaxCrashes = 1
  MaxStops = 1
INVARIANT NeverLost
INVARIANT OneRunner
INVARIANT AttemptsAccounted
INVARIANT FinishBounded
PROPERTY KeepsPromise
CHECK_DEADLOCK FALSE
