SPECIFICATION Spec
CONSTANTS
  N = 3
  Parallelism = 2
  MaxRetries = 1
  Needed = 2
  AttemptTimeout = TRUE
  TaskTimeout = TRUE
  RetryAnswers = {TRUE}
  MaxCrashes = 1
INVARIANT ParallelismBound
INVARIANT SlotsUsed
INVARIANT FinishedClean
INVARIANT NoStrayWorkload
INVARIANT VerdictEarned
PROPERTY LaunchOnce
CHECK_DEADLOCK FALSE
