-------------------------- MODULE MCDiscoveryClient --------------------------
(***************************************************************************)
(* Instances of DiscoveryClient for TLC. A snapshot is put together from   *)
(* what it says of each member (its status), which incarnation it is about *)
(* and its two times.                                                      *)
(***************************************************************************)
EXTENDS DiscoveryClient, TLC

CONSTANTS
    Statuses,        \* what a snapshot may say of one member
    ObservedAts,     \* observation times
    Lifetimes        \* advertised lifetimes, measured from the observation

\* No two addresses differ in the server name alone.
MCHostPort == [address \in Addresses |-> address]

MCSymmetry == Permutations(MemberIDs) \cup Permutations(ClusterUIDs)

WireRoleOf(status) ==
    IF status \in {"primary", "unreachablePrimary"} THEN "ROLE_PRIMARY" ELSE "ROLE_STANDBY"

\* The address of a member is the member itself: Addresses is MemberIDs.
WireMemberOf(id, status) ==
    [id        |-> id,
     ready     |-> status # "unready",
     role      |-> WireRoleOf(status),
     syncState |-> IF status = "async" THEN "async"
                   ELSE IF status = "unknown" THEN "unknown" ELSE "sync",
     zone      |-> IF status = "sync" THEN "east" ELSE NoZone,
     endpoints |-> [network \in Networks |->
                      IF status \in {"unreachable", "unreachablePrimary"}
                      THEN NoEndpoint ELSE id]]

\* What a snapshot says of the cluster: a status for each member it lists.
Contents == UNION {[listed -> Statuses] : listed \in SUBSET MemberIDs}

SnapshotOf(content, uid, at, lifetime, available) ==
    LET leaders == {id \in DOMAIN content : WireRoleOf(content[id]) = "ROLE_PRIMARY"}
    IN  [wellFormed    |-> TRUE,
         uid           |-> uid,
         observedAt    |-> at,
         validUntil    |-> at + lifetime,
         available     |-> available,
         transitioning |-> FALSE,
         primaryId     |-> IF leaders = {} THEN NoMember ELSE CHOOSE id \in leaders : TRUE,
         connection    |-> "connection",
         members       |-> {WireMemberOf(id, content[id]) : id \in DOMAIN content}]

\* Of the contents no client accepts, a snapshot without a primary stands for all.
Acceptable(content) ==
    \/ DOMAIN content = {}
    \/ Cardinality({id \in DOMAIN content : WireRoleOf(content[id]) = "ROLE_PRIMARY"}) = 1

MCSnapshots ==
    {SnapshotOf(content, uid, at, lifetime, TRUE) :
       content \in {c \in Contents : Acceptable(c)}, uid \in ClusterUIDs,
       at \in ObservedAts, lifetime \in Lifetimes}
    \cup
    {SnapshotOf(<<>>, uid, at, lifetime, FALSE) :
       uid \in ClusterUIDs, at \in ObservedAts, lifetime \in Lifetimes}

MCPolicies == {[chain |-> <<"sync", "primary">>, preferZone |-> NoZone],
               [chain |-> <<"any">>, preferZone |-> "east"],
               [chain |-> <<"async">>, preferZone |-> NoZone]}
=============================================================================
