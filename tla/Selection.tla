------------------------------ MODULE Selection ------------------------------
(***************************************************************************)
(* How a client picks a target without building the set of candidates:     *)
(* Routing states the policy over sets, this module the counting and the   *)
(* walk over the sorted list of members that implement it.                 *)
(***************************************************************************)
EXTENDS Routing, FiniteSets, Functions

CONSTANT NoTarget

\* The members a turn of the loop counts, by their positions in the list.
Matching(role, members) == {i \in DOMAIN members : Matches(role, members[i].member)}

Local(policy, role, members) ==
    {i \in Matching(role, members) :
       policy.preferZone # NoZone /\ members[i].member.zone = policy.preferZone}

Nothing == [role |-> "primary", local |-> FALSE, count |-> 0]

\* Mutant of Turn: the members of the whole class are counted for the zone.
TurnCountsClass(policy, members, role) ==
    [role |-> role, local |-> Local(policy, role, members) # {},
     count |-> Cardinality(Matching(role, members))]

\* The turn that ends the loop over the role and its fallbacks.
Turn(policy, members, role) ==
    LET zone == Cardinality(Local(policy, role, members))
    IN  IF zone > 0 THEN [role |-> role, local |-> TRUE, count |-> zone]
        ELSE [role |-> role, local |-> FALSE, count |-> Cardinality(Matching(role, members))]

\* The class and the zone that win, and how many members they have: the first turn
\* that counts a member decides.
selectionLocked(ready, policy, members) ==
    LET counting == {k \in DOMAIN policy.chain :
                       Cardinality(Matching(policy.chain[k], members)) > 0}
    IN  IF ready /\ counting # {}
        THEN Turn(policy, members,
                  policy.chain[CHOOSE k \in counting : \A l \in counting : k <= l])
        ELSE Nothing

Admits(selection, policy, target) ==
    /\ Matches(selection.role, target.member)
    /\ selection.local => target.member.zone = policy.preferZone

Admitted(selection, policy, members) ==
    {i \in DOMAIN members : Admits(selection, policy, members[i])}

\* How many of some positions a walk over the list has passed when it is at i.
Passed(positions, i) == Cardinality({j \in positions : j < i})

\* The walk of Resolve from a random index below the count: every admitted member it
\* passes takes one off the index, and it stops at the one where none is left.
Pick(selection, policy, members, index) ==
    LET admitted == Admitted(selection, policy, members)
        stops == {i \in admitted : Passed(admitted, i) = index}
    IN  IF stops = {} THEN NoTarget ELSE members[CHOOSE i \in stops : TRUE]

Valid(ready, policy, members, target) ==
    LET selection == selectionLocked(ready, policy, members)
    IN  /\ selection.count # 0
        /\ Admits(selection, policy, target)
        /\ target \in Range(members)
=============================================================================
