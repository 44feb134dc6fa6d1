------------------------------ MODULE Topology ------------------------------
(***************************************************************************)
(* The vocabulary of discovery: what a snapshot on the wire contains, when *)
(* the client refuses it, and which routing targets a valid one yields.    *)
(* Nothing here has state; the modules that do are built from these        *)
(* operators.                                                              *)
(*                                                                         *)
(* Times are natural numbers and 0 is Go's zero time. The formatting that  *)
(* validateSnapshot checks character by character (resource names, host    *)
(* syntax, API version) is folded into `wellFormed' and BadEndpoint. A     *)
(* member's name is folded into its id: both must be unique.               *)
(***************************************************************************)
EXTENDS Routing, FiniteSets

CONSTANTS
    MemberIDs,       \* member identities
    ClusterUIDs,     \* incarnations of the cluster, one per Cluster UID
    Addresses,       \* host, port and server name of an endpoint
    HostPort,        \* of an address: its host, in lower case, and its port
    Connections,     \* database and server CA a snapshot advertises
    Network,         \* Config.Network; Automatic when it is empty
    ClockSkew,       \* how far in the future an observation may lie
    MaxSnapshotTTL   \* Config.MaxSnapshotTTL

NoEndpoint == "no endpoint"
BadEndpoint == "bad endpoint"
NoMember == "no member"
Automatic == "automatic"

ASSUME TopologyAssumption ==
    /\ ClockSkew \in Nat
    /\ MaxSnapshotTTL \in Nat \ {0}
    /\ NoEndpoint \notin Addresses /\ BadEndpoint \notin Addresses
    /\ NoZone \in Zones
    /\ NoMember \notin MemberIDs

-----------------------------------------------------------------------------
(* Snapshots, as the topology service sends them *)

\* The entries of a member's endpoint map that this client looks at.
Networks == IF Network = Automatic THEN {"internal", "external"} ELSE {Network}

WireRole == {"ROLE_PRIMARY", "ROLE_STANDBY", "ROLE_UNSPECIFIED"}
SyncState == {"unknown", "sync", "async", "quorum", "potential"}

WireMember ==
    [id        : MemberIDs,
     ready     : BOOLEAN,
     role      : WireRole,
     syncState : SyncState,
     zone      : Zones,
     endpoints : [Networks -> Addresses \cup {NoEndpoint, BadEndpoint}]]

Snapshot ==
    [wellFormed    : BOOLEAN,
     uid           : ClusterUIDs,
     observedAt    : Nat \ {0},
     validUntil    : Nat,
     available     : BOOLEAN,
     transitioning : BOOLEAN,
     primaryId     : MemberIDs \cup {NoMember},
     connection    : Connections,
     members       : SUBSET WireMember]

\* The snapshot withdraws the whole view.
Withdrawal(s) == ~s.available \/ s.transitioning

ReadyMembers(s) == {m \in s.members : m.ready}

Listed(m) == {network \in Networks : m.endpoints[network] # NoEndpoint}

Primaries(s) == {m \in ReadyMembers(s) : m.role = "ROLE_PRIMARY"}

\* The places its addresses lead to, whatever server names they are given.
Places(m) == {HostPort[m.endpoints[network]] :
                network \in {i \in Networks : m.endpoints[i] \in Addresses}}

\* Members that claim one another's address on a network the client uses.
ShareEndpoint(m, n) == Places(m) \cap Places(n) # {}

InvalidMember(s, m) ==
    \/ m.role = "ROLE_UNSPECIFIED"
    \/ m.role = "ROLE_PRIMARY" /\ m.id # s.primaryId
    \/ m.role = "ROLE_STANDBY" /\ m.syncState = "unknown"
    \/ \E network \in Networks : m.endpoints[network] = BadEndpoint

\* Whether a client whose clock reads now refuses the snapshot.
Invalid(s, now) ==
    \/ ~s.wellFormed
    \/ s.observedAt > now + ClockSkew
    \/ s.validUntil <= s.observedAt
    \/ \E m, n \in s.members : m # n /\ m.id = n.id
    \/ \E m \in ReadyMembers(s) : InvalidMember(s, m)
    \/ \E m, n \in ReadyMembers(s) : m.id # n.id /\ ShareEndpoint(m, n)
    \/ ~Withdrawal(s) /\ Cardinality(Primaries(s)) # 1

MinTime(a, b) == IF a < b THEN a ELSE b

\* Mutant of Until: the advertised lifetime is not capped.
UncappedUntil(s) == s.validUntil

\* When a snapshot stops being usable, whatever lifetime it advertises.
Until(s) == MinTime(s.validUntil, s.observedAt + MaxSnapshotTTL)

-----------------------------------------------------------------------------
(* Targets: a discovered member and the generation this client gave it *)

Role == {"primary", "replica"}

Discovered ==
    [clusterUID       : ClusterUIDs,
     id               : MemberIDs,
     endpoint         : Addresses \cup {NoEndpoint, BadEndpoint},
     fallbackEndpoint : Addresses \cup {NoEndpoint, BadEndpoint},
     connection       : Connections,
     role             : Role,
     syncState        : SyncState,
     zone             : Zones]

\* sameMember compares everything but the generation, so it is equality of
\* the member field.
Target == [member : Discovered, generation : Nat]

Ids(targets) == {t.member.id : t \in targets}

\* Internal first, then external; a pinned network stands alone.
Endpoint(m) ==
    IF Network # Automatic THEN m.endpoints[Network]
    ELSE IF "internal" \in Listed(m) THEN m.endpoints["internal"]
    ELSE m.endpoints["external"]

FallbackEndpoint(m) ==
    IF Network = Automatic /\ Listed(m) = Networks
       /\ m.endpoints["external"] # m.endpoints["internal"]
    THEN m.endpoints["external"]
    ELSE NoEndpoint

Discover(s, m) ==
    [clusterUID       |-> s.uid,
     id               |-> m.id,
     endpoint         |-> Endpoint(m),
     fallbackEndpoint |-> FallbackEndpoint(m),
     connection       |-> s.connection,
     role             |-> IF m.role = "ROLE_PRIMARY" THEN "primary" ELSE "replica",
     syncState        |-> IF m.role = "ROLE_STANDBY" THEN m.syncState ELSE "unknown",
     zone             |-> m.zone]

\* The members a valid snapshot makes eligible for routing.
Eligible(s) ==
    IF Withdrawal(s) THEN {}
    ELSE {Discover(s, m) : m \in {n \in ReadyMembers(s) : Listed(n) # {}}}

\* Members a snapshot names without making them eligible.
NegativeEvidence(s) ==
    {m.id : m \in s.members} \ {d.id : d \in Eligible(s)}
=============================================================================
