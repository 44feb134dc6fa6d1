SPECIFICATION LiveSpec
CONSTANTS
    MemberIDs = {m1, m2}
    ClusterUIDs = {u1}
    Addresses = {m1, m2}
    HostPort <- MCHostPort
    Zones = {"no zone", "east"}
    Connections = {"connection"}
    Network = "internal"
    ClockSkew = 1
    MaxSnapshotTTL = 2
    Statuses = {"primary", "sync"}
    ObservedAts = {1, 2}
    Lifetimes = {1}
    Snapshots <- MCSnapshots
    Policies <- MCPolicies
    Goroutines = {r1, g1}
    Resolvers = {r1}
    Idle = Idle
    Subscribers = {s1}
    MaxClock = 3
    MaxLag = 1
    MaxGeneration = 4
INVARIANTS NoLostWakeup
PROPERTIES ImplementsResolver SubscribersHearRouteChanges ResolversAreServed
