\* A List may be given a member without a name.
SPECIFICATION Spec
CONSTANTS
    Bases = {"LIST"}
    Keys = {"a"}
    MaxSize = 3
    MaxOps = 4
    Unnamed = TRUE
    Scopes = {"session"}
    NoTarget = NoTarget
PROPERTY GivenIsStored
CHECK_DEADLOCK FALSE
