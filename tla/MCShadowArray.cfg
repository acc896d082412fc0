\* An Array may lose a member in its middle to a DELETE.
SPECIFICATION Spec
CONSTANTS
    Bases = {"ARRAY"}
    Keys = {"a"}
    MaxSize = 3
    MaxOps = 4
    Unnamed = FALSE
    Scopes = {"session"}
    NoTarget = NoTarget
PROPERTY PostKeepsMembers
CHECK_DEADLOCK FALSE
