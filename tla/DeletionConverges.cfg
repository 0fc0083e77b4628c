SPECIFICATION FairSpec
CONSTANTS
  Sandboxes = {"s1"}
  NoSandbox = NoSandbox
  Runners = {"ticker"}
  Ticker = "ticker"
  Kinds <- MCAllKinds
  StuckSets <- NothingStuck
  MaxFaults = 2
  MaxAge = 0
  PodDeleteTimeout = 1
  PVCDeleteTimeout = 1
  PVCForceCleanupThreshold = 1
  StorageAttachmentCleanupAfter = 1
PROPERTY DeletionConverges
CHECK_DEADLOCK FALSE
