SPECIFICATION Spec
CONSTANTS
  Groups = {g, none}
  NoGroup = none
  Keys = {nokey}
  NoKey = nokey
  Delays = {0}
  TTLs = {0}
  Leases = {1}
  Batches = {1, 2}
  MaxDeliveries = 1
  Retention = 0
  DedupWindow = 0
  Ordered = TRUE
  ReceiptOutlivesLease = TRUE
  BackoffTable <- MCNoBackoff
  BackoffCap = 0
  TicksPerMs = 1
  MaxSeq = 3
  MaxReceipts = 2
  MaxNow = 1
INVARIANT ReceiveMatchesLoop
PROPERTY GroupHeadFirst
CHECK_DEADLOCK FALSE
