SPECIFICATION Spec
CONSTANTS
    MemberIDs = {m1, m2}
    ClusterUIDs = {u1, u2}
    Addresses = {m1, m2}
    HostPort <- MCHostPort
    Zones = {"no zone", "east"}
    Connections = {"connection"}
    Network = "internal"
    ClockSkew = 1
    MaxSnapshotTTL = 2
    Statuses = {"primary", "unready", "sync", "async"}
    ObservedAts = {1, 2, 3}
    Lifetimes = {1, 3}
    Snapshots <- MCSnapshots
    Policies = {}
    Goroutines = {}
    Resolvers = {}
    Idle = Idle
    Subscribers = {}
    MaxClock = 4
    MaxLag = 1
    MaxGeneration = 5
SYMMETRY MCSymmetry
INVARIANTS EvidenceMatchesMembers OneIncarnation RoutesAreBacked
PROPERTIES RetiredStaysRetired FreshnessIsNotRenewed WithdrawalNeedsNewerObservation HealthyMembersAreUndisturbed
