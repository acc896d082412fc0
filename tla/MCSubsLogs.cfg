\* One client whose records may have logs only.
SPECIFICATION FairSpec
CONSTANTS
    Clients = {c1}
    Names = {n1}
    Paths = {p}
    MaxValue = 2
    Increment = 1
    Lifetime = 2
    Elapsed = 1
    Silent = {}
    LogsOnly = TRUE
    MaxVersions = 2
    MaxChanges = 1
    Watcher = Watcher
    NoOne = NoOne
    NoValue = NoValue
PROPERTY DatabaseIsFreed
CHECK_DEADLOCK FALSE
