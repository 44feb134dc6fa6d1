---------------------------- MODULE MCManagedPool ----------------------------
(***************************************************************************)
(* Instances of ManagedPool for TLC: a primary and a replica, which a      *)
(* policy may prefer to it, for its role or for its zone, or ignore, and a *)
(* new generation of the primary.                                          *)
(***************************************************************************)
EXTENDS ManagedPool, TLC

TargetOf(role, zone, generation) ==
    [member     |-> [role |-> role, syncState |-> "unknown", zone |-> zone],
     generation |-> generation]

OnePrimary == {TargetOf("primary", "west", 1)}
TwoPrimaries == OnePrimary \cup {TargetOf("primary", "west", 2)}
PrimaryAndReplica == OnePrimary \cup {TargetOf("replica", "east", 2)}

FollowPrimary == [chain |-> <<"primary">>, preferZone |-> NoZone]
PreferReplica == [chain |-> <<"replica", "primary">>, preferZone |-> NoZone]
PreferEast == [chain |-> <<"any">>, preferZone |-> "east"]

Symmetry == Permutations(Conns)
=============================================================================
