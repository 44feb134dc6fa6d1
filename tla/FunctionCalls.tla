---------------------------- MODULE FunctionCalls ----------------------------
(***************************************************************************)
(* The functions of the library that keep no state, called once each: what *)
(* they return is compared with what the code's comments, or its callers,  *)
(* take it to be. MCFunctions calls them over every input up to a bound.   *)
(***************************************************************************)
EXTENDS Selection, Configuration, ConnectionPlan, StartupErrors

CONSTANTS
    Members,      \* targets that have been discovered at some time
    Lists,        \* lists of members a view may have
    Policies,     \* that adapters ask for
    ConnConfigs,  \* connection strings, parsed
    Failures,     \* errors that those of a first connection are made of
    MaxNodes      \* errors of fewer nodes may grow

\* A view's list is sorted by identity, and has no member twice.
ASSUME ListsAreInjective == \A members \in Lists : members \in Seq(Members) /\ IsInjective(members)

\* What Policy.Validate lets through.
ASSUME PoliciesAreValid == \A policy \in Policies : policy.chain \in Seq(PolicyRole)

ASSUME ConfigsAreParsed == ConnConfigs \subseteq ConnConfig

ASSUME FailuresAreErrors == Failures \subseteq GoError

VARIABLES
    function,     \* of the source
    input,
    output        \* <<>> before the call, <<result>> after it

vars == <<function, input, output>>

Called(name) == function = name /\ output # <<>>

-----------------------------------------------------------------------------
(* Resolve and Valid: of an unexpired or an expired view *)

Views == [ready : BOOLEAN, members : Lists, policy : Policies]

Draws(view) ==
    LET selection == selectionLocked(view.ready, view.policy, view.members)
    IN  [index \in 0..(selection.count - 1) |-> Pick(selection, view.policy, view.members, index)]

CallResolve == output' = <<Draws(input)>>

CallValid ==
    \E target \in Members :
      output' = <<[target |-> target,
                   valid  |-> Valid(input.ready, input.policy, input.members, target)]>>

Served(view) == IF view.ready THEN Candidates(view.policy, Range(view.members)) ELSE {}

\* Resolve draws each candidate of the policy at exactly one index, and every index
\* below the count ends its walk at a candidate: no candidate is left without
\* traffic, none gets twice its share, and no walk runs off the list and leaves the
\* caller waiting for a change although there is a member to connect to. Valid
\* admits exactly the same targets: "Both selection and eligibility use exactly the
\* same policy", for members that left or were discovered anew as well.
SelectionAndEligibilityAgree ==
    /\ Called("Resolve") => IsInjective(output[1]) /\ Range(output[1]) = Served(input)
    /\ Called("Valid") => (output[1].valid <=> output[1].target \in Served(input))

-----------------------------------------------------------------------------
(* normalized: of what a caller may write *)

Given == {c \in Config : c.TLSConfig = NoTLS \/ c.TLSConfig.owner = "caller"}

CallNormalized == output' = <<normalized(input)>>

Waits == {"StartupTimeout", "ReconnectMin", "ReconnectMax", "MaxSnapshotTTL"}

\* A configuration New uses satisfies what the client's loops take for granted,
\* whichever of its durations the caller left unset: every wait is positive, the
\* delay can double from its minimum to its maximum, and a snapshot lives for a
\* millisecond at least. A token travels only over verified TLS 1.2 or later ("accepted
\* token over insecure transport", client_test.go), in a configuration that is not the
\* caller's own object. What the caller set is used as it was set.
ConfigurationIsSound ==
    Called("normalized") /\ output[1] # Refused =>
      LET used == output[1]
      IN  /\ \A wait \in Waits : used[wait] > 0 /\ input[wait] \in {0, used[wait]}
          /\ used.ReconnectMin <= used.ReconnectMax
          /\ used.MaxSnapshotTTL >= Millisecond
          /\ used.insecure => used.token = "none"
          /\ ~used.insecure =>
               /\ used.TLSConfig.owner = "client"
               /\ used.TLSConfig.verifies
               /\ used.TLSConfig.minVersion >= TLS12
               /\ input.TLSConfig # NoTLS =>
                    used.TLSConfig.minVersion >= input.TLSConfig.minVersion

-----------------------------------------------------------------------------
(* configureConnection *)

Plans == [automatic : BOOLEAN, cfg : ConnConfigs, target : Targets]

CallConfigureConnection ==
    output' = <<configureConnection(input.automatic, input.cfg, input.target)>>

\* The endpoints of the member, in the order in which they are tried.
Route(target) == IF target.fallback = NoEndpoint THEN <<target.endpoint>>
                 ELSE <<target.endpoint, target.fallback>>

Name(endpoint) == IF endpoint.serverName = NoName THEN endpoint.host ELSE endpoint.serverName

\* The application's attempts at the server it names first, and which of them one is.
Firsts(cfg) == {p \in DOMAIN cfg : cfg[p].address = cfg[1].address}
Rank(cfg, p) == Cardinality({q \in Firsts(cfg) : q <= p})

\* How often an endpoint is tried.
Tries(call) ==
    IF call.automatic THEN IF call.target.described THEN 1 ELSE 0
    ELSE Cardinality(Firsts(call.cfg))

\* An attempt with the trust of a transport, under the name of the endpoint.
Carries(attempt, tls, endpoint) ==
    IF tls = PlainText THEN attempt.tls = PlainText
    ELSE /\ attempt.tls # PlainText
         /\ attempt.tls.trust = tls.trust
         /\ attempt.tls.serverName = Name(endpoint)

\* A constructor tries the member's endpoints and no other, the first one with all
\* its transports before the second; each as the application ordered its transports,
\* each under the name of the endpoint it goes to; and an automatic connection
\* trusts nothing but the discovered CA, and is not made without one
\* (connection_config.go:170-185).
PlanIsTheMembers ==
    Called("configureConnection") =>
      LET plan == output[1]
          route == Route(input.target)
          n == Tries(input)
      IN  /\ Len(plan) = Len(route) * n
          /\ \A i \in DOMAIN route, j \in 1..n :
               LET attempt == plan[(i - 1) * n + j]
               IN  /\ attempt.address = route[i].address
                   /\ input.automatic => Carries(attempt, DiscoveredTLS, route[i])
          /\ ~input.automatic =>
               \A i \in DOMAIN route, p \in Firsts(input.cfg) :
                 Carries(plan[(i - 1) * n + Rank(input.cfg, p)], input.cfg[p].tls, route[i])

-----------------------------------------------------------------------------
(* transientConnectError: for a constructor that was not cancelled and for *)
(* one that was                                                            *)

\* On its way up an error is wrapped and joined with others.
Grow ==
    /\ function = "transientConnectError" /\ output = <<>>
    /\ Len(input) < MaxNodes
    /\ \/ \E kind \in Wrappers \cup {"missing"} : input' = Wrapped(kind, input)
       \/ \E other \in Failures : input' = Joined(input, other)
    /\ UNCHANGED <<function, output>>

CallTransientConnectError ==
    output' = <<[obsolete \in BOOLEAN |-> transientConnectError(input, obsolete)]>>

\* The recursion over the tree comes to what its causes call for, in whatever order
\* they are joined and however deep (startup.go:84-87).
ClassifiesAsDocumented ==
    Called("transientConnectError") =>
      \A obsolete \in BOOLEAN :
        output[1][obsolete] <=> CallsForRetry(CausesOf(input)[Len(input)], obsolete)

-----------------------------------------------------------------------------

CallInit ==
    /\ output = <<>>
    /\ \/ function \in {"Resolve", "Valid"} /\ input \in Views
       \/ function = "normalized" /\ input \in Given
       \/ function = "configureConnection" /\ input \in Plans
       \/ function = "transientConnectError" /\ input \in Failures

Call ==
    /\ output = <<>>
    /\ \/ function = "Resolve" /\ CallResolve
       \/ function = "Valid" /\ CallValid
       \/ function = "normalized" /\ CallNormalized
       \/ function = "configureConnection" /\ CallConfigureConnection
       \/ function = "transientConnectError" /\ CallTransientConnectError
    /\ UNCHANGED <<function, input>>

CallNext == Grow \/ Call

CallSpec == CallInit /\ [][CallNext]_vars
=============================================================================
