SPECIFICATION FairSpec
CONSTANTS
  Ids = {a, b, c}
  Specs <- MCSpecs
  Counts = {0, 1, 2}
  MaxCalls = 3
  MaxExits = 2
  MaxFailures = 1
INVARIANT NoOrphan
INVARIANT KeptUp
PROPERTY StopEnds
CHECK_DEADLOCK FALSE
