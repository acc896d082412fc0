\* Lists and Collections with up to three members, edited by four requests.
SPECIFICATION Spec
CONSTANTS
    Bases = {"LIST", "COLLECTION"}
    Keys = {"a"}
    MaxSize = 3
    MaxOps = 4
    Unnamed = FALSE
    Scopes = {"session"}
    NoTarget = NoTarget
INVARIANTS TypeOK ListNumbered
PROPERTY ContainerSpec
\* all requests have been made
CHECK_DEADLOCK FALSE
