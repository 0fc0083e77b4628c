CONSTANTS
    MaxAge = 0
    Callers = {c1}
    APIs = {"stop", "start", "restart"}
    Kinds <- MCTwoKinds
    Stages = {"creating", "created"}
    MaxCalls = 2
    MaxFaults = 1
SPECIFICATION FairSpec
PROPERTIES
    ReadyIsReported
    StoppedIsReported
