SPECIFICATION Spec
CONSTANTS
    v1 = v1
    v2 = v2
    v3 = v3
    v4 = v4
    v5 = v5
    None = None
    Names = {"n", "m", "t", "u", "f", "g", "h"}
    Keys = {"k", "l"}
    Programs = {v1, v2, v3, v4, v5}
    Code <- Versions
    Engines = {"tree", "bytecode"}
    MaxApplies = 5
    MaxCalls = 2
INVARIANT TypeOK
INVARIANT FunctionsAreCurrent
INVARIANT StateIsShared
PROPERTY ReloadKeepsState
PROPERTY ReloadKeepsFields
PROPERTY RollbackRestores
CHECK_DEADLOCK FALSE
