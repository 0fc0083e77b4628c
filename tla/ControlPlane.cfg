SPECIFICATION Spec
CONSTANTS
    MaxTplRequests = 3
    MaxStoredVersions = 1
    MaxTasks = 2
    PrepullNodes = {"n1", "n2"}
    l1 = l1
    PrepullReaders = {l1}
    s1 = s1
    s2 = s2
    NetSandboxes = {s1, s2}
    MaxNetChanges = 3
    MaxNetFaults = 1
    Sessions = {"session"}
    APIKeys = {"key"}
    AuthRequests = {"r1", "r2"}
    MaxPasswords = 2
    Processes = {"server", "new server", "gateway"}
    APIServers = {"server", "new server"}
    NewColumns = {"deletion_phase", "stopped_at"}
    LateColumns = {"stopped_at"}
    MaxStartCrashes = 1
    Master = "master"
    Agents = {"a1", "a2"}
    AgentLists = {{"a1"}, {"a1", "a2"}}
    RemoveAbsentAgents = TRUE
    WithoutMirrors = {1}
    WithoutLonghorn = {2}
    WithoutSandbox = {2}
    MaxVersion = 2
    MaxCommands = 3
    MaxInstFaults = 1
    IntWidth = 16
    RetryInterval = 10
    MaxRetry = 60
    MaxAttempts = 18
    Areas = {"templates", "prepull", "prepull and reader", "network", "auth", "start", "installer", "retry"}
INVARIANTS
    TypeOK
    VersionsAreContiguous
    NoUpdateIsLost
    LabelNotOlderThanSpec
    CompletedWasPulled
    ReachIsGranted
    ApplyInstalls
    RetryStaysNear
PROPERTIES
    RevokedIsRefused
    PrepullSettles
    PoliciesConverge
    EveryProcessComesUp
CHECK_DEADLOCK FALSE
