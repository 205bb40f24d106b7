CONSTANTS
  t1 = t1
  Threads = {t1}
  Jobs = {"a"}
  PerJob = 3
  High = 2
  Low = 1
  CloseIdle = TRUE
  MaxFlushes = 2
  Exposures = {}
SPECIFICATION FairSpec
PROPERTIES EventuallyAll FlushReturns
CHECK_DEADLOCK FALSE
