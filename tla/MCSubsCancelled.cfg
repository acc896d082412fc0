\* One client that creates, renews and cancels one record.
SPECIFICATION FairSpec
CONSTANTS
    Clients = {c1}
    Names = {n1}
    Paths = {p}
    MaxValue = 2
    Increment = 1
    Lifetime = 2
    Elapsed = 1
    Silent = {}
    LogsOnly = FALSE
    MaxVersions = 2
    MaxChanges = 1
    Watcher = Watcher
    NoOne = NoOne
    NoValue = NoValue
PROPERTY CancelledIsDeleted
CHECK_DEADLOCK FALSE
