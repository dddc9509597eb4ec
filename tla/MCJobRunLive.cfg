SPECIFICATION FairSpec
CONSTANTS
  N = 2
  Parallelism = 1
  MaxRetries = 1
  Needed = 0
  AttemptTimeout = TRUE
  TaskTimeout = FALSE
  RetryAnswers = {TRUE, FALSE}
  MaxCrashes = 1
PROPERTY EventuallyFinished
CHECK_DEADLOCK FALSE
