SPECIFICATION HistorySpec
CONSTANTS
    MemberIDs = {m1, m2}
    ClusterUIDs = {u1}
    Addresses = {m1, m2}
    HostPort <- MCHostPort
    Zones = {"no zone", "east"}
    Connections = {"connection"}
    Network = "internal"
    ClockSkew = 1
    MaxSnapshotTTL = 2
    Statuses = {"primary", "unready", "sync", "async"}
    ObservedAts = {1, 2}
    Lifetimes = {1, 3}
    Snapshots <- MCSnapshots
    Policies = {}
    Goroutines = {}
    Resolvers = {}
    Idle = Idle
    Subscribers = {}
    MaxClock = 3
    MaxLag = 1
    MaxGeneration = 6
SYMMETRY MCSymmetry
INVARIANTS RevocationsStand
