-------------------------- MODULE WithdrawalHistory --------------------------
(***************************************************************************)
(* The client remembers withdrawals only as a set of identities that is    *)
(* reset with each observation (observationMembers). This module keeps the *)
(* whole history of what was withdrawn from which observation, and asks    *)
(* whether the client ever routes to a member against it.                  *)
(***************************************************************************)
EXTENDS MCDiscoveryClient

VARIABLE revoked   \* <<incarnation, observation time, member>> withdrawn so far

historyVars == <<vars, revoked>>

HistoryInit == Init /\ revoked = {}

\* A member that the view loses while its observation stays the same was
\* withdrawn from that observation.
HistoryNext ==
    /\ Next
    /\ revoked' = revoked \cup
         IF clusterUID' = clusterUID /\ observedAt' = observedAt
         THEN {<<clusterUID, observedAt, id>> : id \in Ids(members) \ Ids(members')}
         ELSE {}

HistorySpec == HistoryInit /\ [][HistoryNext]_historyVars

\* No replay of an observation restores a member that was withdrawn from it; only
\* a newer observation does (docs/hardening.md, "Freshness and withdrawal").
RevocationsStand ==
    \A t \in members : ready => <<clusterUID, observedAt, t.member.id>> \notin revoked
=============================================================================
