CONSTANTS
  t1 = t1
  t2 = t2
  Threads = {t1, t2}
  Jobs = {"a"}
  PerJob = 3
  High = 2
  Low = 1
  CloseIdle = FALSE
  MaxFlushes = 1
  Exposures = {"idle_race", "dies", "throttle_race"}
SPECIFICATION Spec
INVARIANT NoStaleAnswer
PROPERTIES ServerOrder
CHECK_DEADLOCK FALSE
