SPECIFICATION FairSpec
CONSTANTS
  Mappings = {m}
  Qualified = {m}
  Queue <- OneQueue
  Ids = {p, q}
  MaxWrites = 3
INVARIANT OnePoller
INVARIANT LoopAwake
PROPERTY Polled
PROPERTY Rests
CHECK_DEADLOCK FALSE
