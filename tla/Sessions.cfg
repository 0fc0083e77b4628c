SPECIFICATION Spec
CONSTANTS
    r1 = r1
    r2 = r2
    Requests = {r1, r2}
    MaxMessages = 1
    MaxOutputs = 2
    MaxInputs = 1
    Areas = {"shutdown", "relay", "exec"}
INVARIANTS
    TypeOK
    SurvivorIsTold
    EndMeansAllRead
    OneWriter
    CrashOnlyInCleanUp
PROPERTIES
    CleanDrain
    NoSessionAdmittedWhileDraining
    ShutdownEnds
    NothingLeaks
    OutputReachesCaller
    BridgeIsReclaimed
CHECK_DEADLOCK FALSE
