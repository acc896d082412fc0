\* Two threads contend for the database; one of the two items is under a
\* binding whose commit may throw.  Every thread makes two requests.
SPECIFICATION FairSpec
CONSTANTS
    Writers = {w1, w2}
    Items = {a, b}
    Bound = {b}
    MaxOps = 2
    NoSession = NoSession
INVARIANTS TypeOK MutualExclusion NoLostUpdate SessionInv
PROPERTIES SerialSpec LockIsFreed
\* every thread has made its requests and is idle
CHECK_DEADLOCK FALSE
