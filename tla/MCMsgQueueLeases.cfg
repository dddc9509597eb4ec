SPECIFICATION Spec
CONSTANTS
  Groups = {g, none}
  NoGroup = none
  Keys = {nokey}
  NoKey = nokey
  Delays = {0}
  TTLs = {0}
  Leases = {1, 3}
  Batches = {2}
  MaxDeliveries = 2
  Retention = 0
  DedupWindow = 0
  Ordered = TRUE
  ReceiptOutlivesLease = FALSE
  BackoffTable <- MCNoBackoff
  BackoffCap = 0
  TicksPerMs = 2
  MaxSeq = 2
  MaxReceipts = 3
  MaxNow = 5
CHECK_DEADLOCK FALSE
INVARIANT DeliveriesBounded
INVARIANT DeadLetterEarned
INVARIANT LedgerAgrees
PROPERTY LeaseExclusive
