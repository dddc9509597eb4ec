SPECIFICATION Spec
CONSTANTS
  Groups = {none}
  NoGroup = none
  Keys = {k, nokey}
  NoKey = nokey
  Delays = {0, 2}
  TTLs = {0, 1}
  Leases = {1}
  Batches = {1}
  MaxDeliveries = 0
  Retention = 3
  DedupWindow = 2
  Ordered = FALSE
  ReceiptOutlivesLease = TRUE
  BackoffTable <- MCBackoff
  BackoffCap = 1
  TicksPerMs = 1
  MaxSeq = 2
  MaxReceipts = 2
  MaxNow = 5
INVARIANT DedupOnce
INVARIANT NextChangeExact
CHECK_DEADLOCK FALSE
