SPECIFICATION Spec
CONSTANTS
    Zones = {"no zone", "east", "west"}
    Targets <- TwoPrimaries
    Subscribers = {"pool"}
    Watcher = "pool"
    Conns = {c1}
    NoTarget = NoTarget
    PoolPolicy <- FollowPrimary
    Owned = FALSE
    SessionHook = FALSE
    MaxIssued = 3
INVARIANT ResetRetiresConnections
CHECK_DEADLOCK FALSE
