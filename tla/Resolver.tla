------------------------------ MODULE Resolver ------------------------------
(***************************************************************************)
(* What an adapter may rely on when it is handed a Resolver (types.go): a  *)
(* set of usable targets that only ever gains targets with a new           *)
(* generation, and a channel that holds a token whenever the set changed   *)
(* since the adapter last looked. How the set comes about is not said.     *)
(***************************************************************************)
EXTENDS Integers

CONSTANTS
    Targets,       \* records with a generation
    Subscribers    \* channels handed out by Subscribe

VARIABLES
    usable,        \* targets that Resolve returns and Valid admits
    issued,        \* the largest generation any target can have
    shut,          \* the resolver is closed
    channel,       \* the state of each subscriber's channel
    pending        \* subscriber channels that hold a token

resolverVars == <<usable, issued, shut, channel, pending>>

Registered == {u \in Subscribers : channel[u] = "open"}

ResolverInit ==
    /\ usable = {} /\ issued = 0 /\ shut = FALSE
    /\ channel = [u \in Subscribers |-> "unused"]
    /\ pending = {}

\* The routes change: targets go for good, and come only with a generation that
\* was never issued before. Every subscriber is told.
Reroute ==
    /\ issued' > issued
    /\ usable' \in SUBSET Targets
    /\ \A t \in usable' : t \in usable \/ t.generation \in issued + 1 .. issued'
    /\ shut => usable' = {}
    /\ pending' = pending \cup Registered
    /\ UNCHANGED <<shut, channel>>

Shutdown ==
    /\ ~shut
    /\ shut' = TRUE /\ usable' = {} /\ issued' > issued
    /\ pending' = pending \cup Registered
    /\ channel' = [u \in Subscribers |->
                     IF channel[u] = "open" THEN "closed" ELSE channel[u]]

Join(u) ==
    /\ channel[u] = "unused"
    /\ channel' = [channel EXCEPT ![u] = IF shut THEN "closed" ELSE "open"]
    /\ pending' = IF shut THEN pending ELSE pending \cup {u}
    /\ UNCHANGED <<usable, issued, shut>>

Leave(u) ==
    /\ channel[u] = "open"
    /\ channel' = [channel EXCEPT ![u] = "closed"]
    /\ UNCHANGED <<usable, issued, shut, pending>>

TakeToken(u) ==
    /\ u \in pending
    /\ pending' = pending \ {u}
    /\ UNCHANGED <<usable, issued, shut, channel>>

ResolverNext ==
    \/ Reroute
    \/ Shutdown
    \/ \E u \in Subscribers : Join(u) \/ Leave(u) \/ TakeToken(u)

ResolverSpec == ResolverInit /\ [][ResolverNext]_resolverVars
=============================================================================
