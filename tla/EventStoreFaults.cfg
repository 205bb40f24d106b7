CONSTANTS
  MaxEvents = 2
  Lens = {1}
  QueueHigh = 0
  QueueLow = 0
  MaxCrashes = 0
  Exposures = {"sync", "ctl_write", "confirm", "torn"}
SPECIFICATION FairSpec
PROPERTIES ReadersReturn DamagedMovedAway
