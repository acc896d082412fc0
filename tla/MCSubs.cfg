\* One record with up to two covs entries: the second is compared after the
\* lock has been given back. The data changes once, by enough to be reported
\* or by too little.
SPECIFICATION FairSpec
CONSTANTS
    Clients = {c1}
    Names = {n1}
    Paths = {p, q}
    MaxValue = 2
    Increment = 1
    Lifetime = 2
    Elapsed = 1
    Silent = {}
    LogsOnly = FALSE
    MaxVersions = 2
    MaxChanges = 1
    Watcher = Watcher
    NoOne = NoOne
    NoValue = NoValue
INVARIANTS TypeOK OneRecordPerName KnownToSubscriber RequestHasDatabase
PROPERTY DatabaseIsFreed
CHECK_DEADLOCK FALSE
