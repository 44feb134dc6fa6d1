SPECIFICATION LiveSpec
CONSTANTS
    Zones = {"no zone", "east", "west"}
    Targets <- PrimaryAndReplica
    Subscribers = {"pool"}
    Watcher = "pool"
    Conns = {c1}
    NoTarget = NoTarget
    PoolPolicy <- PreferEast
    Owned = TRUE
    SessionHook = TRUE
    MaxIssued = 2
PROPERTIES ObsoleteAttemptsEnd ObsoleteIdleConnectionsAreRetired PoolCloseReturns
CHECK_DEADLOCK FALSE
