------------------------------- MODULE Routing -------------------------------
(***************************************************************************)
(* Routing policies: which of a set of targets a policy admits. A target is *)
(* a record with a `member' that has a role, a syncState and a zone.       *)
(***************************************************************************)
EXTENDS Integers, Sequences

CONSTANT Zones   \* placement, NoZone for none

NoZone == "no zone"

PolicyRole == {"primary", "replica", "sync", "async", "quorum", "potential", "any"}

\* The role, then each fallback: the order in which classes are tried. A zero
\* Role is "primary"; PreferZone is NoZone when empty.
Policy == [chain : Seq(PolicyRole) \ {<<>>}, preferZone : Zones]

Matches(role, member) ==
    CASE role \in {"primary", "replica"} -> member.role = role
      [] role \in {"sync", "async", "quorum", "potential"} ->
            member.role = "replica" /\ member.syncState = role
      [] OTHER -> TRUE

\* The first class of the chain that has a member.
Leading(chain, targets) ==
    LET served == {i \in DOMAIN chain :
                     \E t \in targets : Matches(chain[i], t.member)}
    IN  {t \in targets :
           \E i \in served : /\ \A j \in served : i <= j
                             /\ Matches(chain[i], t.member)}

\* The targets a policy admits: its leading class, restricted to the
\* preferred zone when that zone has a member of the class.
Candidates(policy, targets) ==
    LET class == Leading(policy.chain, targets)
        local == {t \in class : t.member.zone = policy.preferZone}
    IN  IF policy.preferZone # NoZone /\ local # {} THEN local ELSE class
=============================================================================
