SPECIFICATION Spec
CONSTANTS
    r1 = r1
    Requests = {r1}
    MaxMessages = 1
    MaxOutputs = 1
    MaxInputs = 1
    Areas = {"relay"}
INVARIANTS
    BackendDropIsReported
CHECK_DEADLOCK FALSE
