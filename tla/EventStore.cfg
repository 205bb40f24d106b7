CONSTANTS
  MaxEvents = 3
  Lens = {2}
  QueueHigh = 2
  QueueLow = 1
  MaxCrashes = 1
  Exposures = {}
SPECIFICATION FairSpec
INVARIANTS TypeOK CrashSafe SkipsOnlyHandled NoDanglingStore CommittedInFile
PROPERTIES RemovedWhenDelivered EventuallyDelivered EventuallyRemoved
