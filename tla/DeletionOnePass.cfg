SPECIFICATION Spec
CONSTANTS
  Sandboxes = {"s1"}
  NoSandbox = NoSandbox
  Runners = {"ticker"}
  Ticker = "ticker"
  Kinds <- MCAllKinds
  StuckSets <- AnyStuck
  MaxFaults = 2
  MaxAge = 4
  PodDeleteTimeout = 1
  PVCDeleteTimeout = 2
  PVCForceCleanupThreshold = 3
  StorageAttachmentCleanupAfter = 4
INVARIANTS
  TypeOK
  NothingLeftBehind
  RetainKeepsPVC
  DeletedIsCompleted
PROPERTIES
  EscalationIsKept
  ImplementsContract
CHECK_DEADLOCK FALSE
