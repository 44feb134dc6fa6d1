------------------------- MODULE MCNetworkPreference -------------------------
(***************************************************************************)
(* Instances of NetworkPreference for TLC: what the lookups of a member's  *)
(* two hosts may return.                                                   *)
(***************************************************************************)
EXTENDS NetworkPreference, TLC

Disjoint == [internal |-> <<"in">>, external |-> <<"ex">>]

\* Both hosts resolve to the load balancer.
Balanced == [internal |-> <<"lb">>, external |-> <<"lb">>]

SomeShared == {Disjoint, Balanced}

Symmetry == Permutations(TwoAddressed)
=============================================================================
