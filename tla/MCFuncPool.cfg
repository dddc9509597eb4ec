SPECIFICATION FairSpec
CONSTANTS
  Callers = {c1, c2}
  Pools <- MCPools
  FunctionMax <- MCFunctionMax
  AccountMax = {2}
  MaxSlots = 3
  MaxTopUps = 1
INVARIANT LimitAccounted
INVARIANT ServedAlive
INVARIANT NoLeak
INVARIANT IdleWatched
INVARIANT ProvisionKept
PROPERTY Drained
CHECK_DEADLOCK FALSE
