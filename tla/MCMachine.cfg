SPECIFICATION FairSpec
CONSTANTS
  MaxCalls = 3
  MaxRestarts = 2
INVARIANT StopHolds
INVARIANT GuestOnly
INVARIANT Reachable
INVARIANT OneDisk
PROPERTY StopReturns
CHECK_DEADLOCK FALSE
