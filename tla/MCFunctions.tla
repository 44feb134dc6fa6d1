----------------------------- MODULE MCFunctions -----------------------------
(* The instance of FunctionCalls for TLC. *)
EXTENDS FunctionCalls, SequencesExt

CONSTANT MaxMembers

-----------------------------------------------------------------------------
(* transientConnectError: what errors are made of *)

Leaves == {Plain(kind) : kind \in
             Transient \cup {"canceled", "net-canceled", "missing", "certificate", "other", "join"}}

MCFailures ==
    Leaves \cup {Wrapped("optional", Plain("missing")), Wrapped("hook", Plain("eof")),
                Wrapped("missing", Plain("certificate"))}

-----------------------------------------------------------------------------
(* Resolve and Valid: lists of at most MaxMembers members, policies with at *)
(* most one fallback *)

Kinds == [role : {"primary"}, syncState : {"none"}, zone : Zones] \cup
         [role : {"replica"}, syncState : {"sync", "async"}, zone : Zones]

\* Members are told apart by their position: their list is sorted by identity.
Target(i, kind) == [id |-> i, member |-> kind]

MCMembers == {Target(i, kind) : i \in 1..MaxMembers, kind \in Kinds}

MCLists == {[i \in DOMAIN kinds |-> Target(i, kinds[i])] : kinds \in SeqOf(Kinds, MaxMembers)}

MCPolicies ==
    [chain : SeqOf({"primary", "replica", "sync", "any"}, 2) \ {<<>>}, preferZone : Zones]

-----------------------------------------------------------------------------
(* normalized: durations on both sides of every default and limit *)

MCDurations == {0 - Second, 0, Millisecond \div 2, 50 * Millisecond, 10 * Second}

-----------------------------------------------------------------------------
(* configureConnection: members with one or two endpoints, and the attempts *)
(* that sslmode and lists of hosts give *)

NameOf == [internal |-> "internal-name", external |-> "external-name", a |-> "a-name", b |-> "b-name"]

MCNames == DOMAIN NameOf \cup Range(NameOf)

Named(host) == [address |-> host, host |-> host, serverName |-> NameOf[host]]
Unnamed(host) == [Named(host) EXCEPT !.serverName = NoName]

MCEndpoints == UNION {{Named(host), Unnamed(host)} : host \in {"internal", "external"}}

\* sslmode=disable, require, allow and prefer at one host of the application's.
Verified(host) == [trust |-> "own-CA", serverName |-> NameOf[host]]
Modes(host) ==
    {<<PlainText>>, <<Verified(host)>>, <<PlainText, Verified(host)>>, <<Verified(host), PlainText>>}

Attempts(host) ==
    {[i \in DOMAIN mode |-> [address |-> host, tls |-> mode[i]]] : mode \in Modes(host)}

MCConfigs == Attempts("a") \cup {a \o b : a \in Attempts("a"), b \in Attempts("b")}
=============================================================================
