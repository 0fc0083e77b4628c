CONSTANTS
    MaxAge = 0
    Callers = {c1}
    APIs = {"delete"}
    Kinds <- MCPersistent
    Stages = {"creating"}
    MaxCalls = 1
    MaxFaults = 0
SPECIFICATION FairSpec
PROPERTIES
    ResidueConverges
