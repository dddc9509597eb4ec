SPECIFICATION SBSpec
CONSTANTS
  Groups = {none}
  NoGroup = none
  Keys = {nokey}
  NoKey = nokey
  Delays = {0, 1}
  TTLs = {2}
  Leases = {1, 2}
  Batches = {1}
  MaxDeliveries = 1
  Retention = 0
  DedupWindow = 0
  Ordered = FALSE
  ReceiptOutlivesLease = FALSE
  BackoffTable <- MCNoBackoff
  BackoffCap = 0
  TicksPerMs = 1
  MaxSeq = 1
  MaxReceipts = 2
  MaxNow = 2
  Receivers = {r}
  Procs = {p}
  Locks = {1, 2}
  Timeouts = {2}
  MaxCredit = 1
  MaxHands = 1
  MaxRenewals = 1
  MaxRestarts = 1
VIEW Live
INVARIANT NoSleepThrough
INVARIANT TimerCovers
CHECK_DEADLOCK FALSE
