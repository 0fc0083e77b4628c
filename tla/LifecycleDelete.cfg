CONSTANTS
    MaxAge = 0
    Callers = {c1}
    APIs = {"delete"}
    Kinds <- MCAllKinds
    Stages = {"created"}
    MaxCalls = 1
    MaxFaults = 2
SPECIFICATION FairSpec
INVARIANTS
    TypeOK
    NothingLeftBehind
PROPERTIES
    DeletedIsFinal
    DeletionConverges
