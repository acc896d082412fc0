\* Session.atomicDelete commits its target and not the session.
SPECIFICATION Spec
CONSTANTS
    Bases = {"COLLECTION"}
    Keys = {"a"}
    MaxSize = 3
    MaxOps = 4
    Unnamed = FALSE
    Scopes = {"session", "target"}
    NoTarget = NoTarget
PROPERTY DeleteDeletes
CHECK_DEADLOCK FALSE
