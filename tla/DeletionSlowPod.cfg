SPECIFICATION FairSpec
CONSTANTS
  Sandboxes = {"s1"}
  NoSandbox = NoSandbox
  Runners = {"ticker"}
  Ticker = "ticker"
  Kinds <- MCDelete
  StuckSets <- NothingStuck
  MaxFaults = 0
  MaxAge = 4
  PodDeleteTimeout = 1
  PVCDeleteTimeout = 2
  PVCForceCleanupThreshold = 3
  StorageAttachmentCleanupAfter = 4
PROPERTY DeletionConverges
CHECK_DEADLOCK FALSE
