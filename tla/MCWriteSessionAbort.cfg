\* One thread edits two items; the commit of the second may throw.
SPECIFICATION Spec
CONSTANTS
    Writers = {w1}
    Items = {a, b}
    Bound = {b}
    MaxOps = 1
    NoSession = NoSession
INVARIANT DiscardedChangesNothing
CHECK_DEADLOCK FALSE
