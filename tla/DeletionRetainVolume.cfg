SPECIFICATION Spec
CONSTANTS
  Sandboxes = {"s1"}
  NoSandbox = NoSandbox
  Runners = {"ticker"}
  Ticker = "ticker"
  Kinds <- MCRetain
  StuckSets <- OnlyPodStuck
  MaxFaults = 0
  MaxAge = 4
  PodDeleteTimeout = 1
  PVCDeleteTimeout = 2
  PVCForceCleanupThreshold = 3
  StorageAttachmentCleanupAfter = 4
INVARIANT RetainKeepsVolume
CHECK_DEADLOCK FALSE
