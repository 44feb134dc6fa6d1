SPECIFICATION LiveLoopSpec
CONSTANTS
    MemberIDs = {m1}
    ClusterUIDs = {u1}
    Addresses = {m1}
    HostPort <- MCHostPort
    Zones = {"no zone"}
    Connections = {"connection"}
    Network = "internal"
    ClockSkew = 1
    MaxSnapshotTTL = 2
    ObservedAts = {1, 2}
    Lifetimes = {1, 2}
    Snapshots <- MCSnapshots
    Policies <- MCPolicies
    Goroutines = {"runExpiry", "waitReady", r1}
    Resolvers = {r1}
    Idle = Idle
    Subscribers = {s1}
    MaxClock = 3
    MaxLag = 0
    MaxGeneration = 4
    ReconnectMin = 2
    ReconnectMax = 2
INVARIANTS ExpiryTimerIsCurrent WatchdogGuardsView StartupIsNotAsleep
PROPERTIES DrivesClient StaleViewsAreRevoked StalledStreamsEnd CloseReturns StartupEnds
CHECK_DEADLOCK FALSE
