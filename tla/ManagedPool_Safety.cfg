SPECIFICATION Spec
CONSTANTS
    Zones = {"no zone", "east", "west"}
    Targets <- PrimaryAndReplica
    Subscribers = {"pool"}
    Watcher = "pool"
    Conns = {c1, c2}
    NoTarget = NoTarget
    PoolPolicy <- PreferReplica
    Owned = FALSE
    SessionHook = FALSE
    MaxIssued = 3
INVARIANTS QuietRoutesAreEligible ObsoleteAttemptsAreCancelled
    ConnectionsAreCurrentOrCondemned ClosedPoolHoldsNothing
SYMMETRY Symmetry
CHECK_DEADLOCK FALSE
