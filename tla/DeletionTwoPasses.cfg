SPECIFICATION Spec
CONSTANTS
  Sandboxes = {"s1"}
  NoSandbox = NoSandbox
  Runners = {"ticker", "boot"}
  Ticker = "ticker"
  Kinds <- MCDelete
  StuckSets <- NothingStuck
  MaxFaults = 0
  MaxAge = 1
  PodDeleteTimeout = 1
  PVCDeleteTimeout = 1
  PVCForceCleanupThreshold = 1
  StorageAttachmentCleanupAfter = 1
INVARIANTS
  NothingLeftBehind
  StorageAfterRuntime
  UnfinishedStaysPending
PROPERTY ImplementsContract
CHECK_DEADLOCK FALSE
