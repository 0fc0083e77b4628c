CONSTANTS
    MaxAge = 0
    Callers = {c1}
    APIs = {"restart"}
    Kinds <- MCPersistent
    Stages = {"created"}
    MaxCalls = 1
    MaxFaults = 0
SPECIFICATION FairSpec
PROPERTIES
    DeletionConverges
