--------------------------- MODULE MCDiscoveryLoops ---------------------------
(***************************************************************************)
(* Instances of DiscoveryLoops for TLC: one member, a server that can send *)
(* a healthy view, withdraw it or send nonsense, and an application that   *)
(* subscribes and resolves the primary.                                    *)
(***************************************************************************)
EXTENDS DiscoveryLoops

CONSTANTS ObservedAts, Lifetimes

TheMember == CHOOSE id \in MemberIDs : TRUE
TheCluster == CHOOSE uid \in ClusterUIDs : TRUE

Healthy(at, lifetime) ==
    [wellFormed    |-> TRUE,
     uid           |-> TheCluster,
     observedAt    |-> at,
     validUntil    |-> at + lifetime,
     available     |-> TRUE,
     transitioning |-> FALSE,
     primaryId     |-> TheMember,
     connection    |-> "connection",
     members       |-> {[id        |-> TheMember,
                         ready     |-> TRUE,
                         role      |-> "ROLE_PRIMARY",
                         syncState |-> "unknown",
                         zone      |-> NoZone,
                         endpoints |-> [network \in Networks |-> TheMember]]}]

MCHostPort == [address \in Addresses |-> address]

MCPolicies == {[chain |-> <<"primary">>, preferZone |-> NoZone]}

MCSnapshots ==
    {Healthy(at, 1) : at \in ObservedAts}
    \cup {Healthy(1, lifetime) : lifetime \in Lifetimes}
    \cup {[Healthy(2, 1) EXCEPT !.transitioning = TRUE],
          [Healthy(1, 1) EXCEPT !.wellFormed = FALSE]}
=============================================================================
