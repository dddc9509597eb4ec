SPECIFICATION Spec
CONSTANTS
  Mappings = {m}
  Qualified = {m}
  Queue <- OneQueue
  Ids = {p, q}
  MaxWrites = 3
INVARIANT BlockCleared
CHECK_DEADLOCK FALSE
