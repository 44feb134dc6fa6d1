----------------------------- MODULE ManagedPool -----------------------------
(***************************************************************************)
(* pgxpool.Pool: a native pgx pool whose connections follow one routing    *)
(* policy of a Resolver. Three kinds of goroutine meet here: constructors  *)
(* and borrowers of connections, which pgx runs and which call the hooks   *)
(* of this pool; the watcher, which hears of route changes, cancels        *)
(* obsolete attempts and resets the native pool; and Close.                *)
(*                                                                         *)
(* Of the native pool, which is outside this repository, the model keeps   *)
(* what the hooks rely on: Reset destroys what is idle and marks the rest, *)
(* what is marked is destroyed when it is returned, and a background       *)
(* constructor puts its connection among the idle ones whether or not it   *)
(* is marked. A connection is followed by the slot it occupies.            *)
(***************************************************************************)
EXTENDS Resolver, Routing

CONSTANTS
    Conns,         \* slots of the native pool, MaxConns of them
    NoTarget,      \* target of a slot that has none
    PoolPolicy,    \* Config.Policy
    Watcher,       \* the subscription of this pool
    Owned,         \* the pool created the resolver (Config.Resolver is nil)
    SessionHook,   \* Config.ConnConfig.AfterConnect is set
    MaxIssued      \* bound on the generations the resolver issues

ASSUME PoolAssumption ==
    /\ PoolPolicy \in Policy
    /\ NoTarget \notin Targets
    /\ Watcher \in Subscribers
    /\ Owned \in BOOLEAN /\ SessionHook \in BOOLEAN
    /\ MaxIssued \in Nat

VARIABLES
    life,          \* how far Open and Close have come
    watcher,       \* what the goroutine `watch' is about to do
    unchecked,     \* attempts it has still to look at
    unswept,       \* routes it has still to look at, with p.mu held
    dropped,       \* it found one to remove
    routes,        \* p.routes
    connecting,    \* slots whose constructor is in p.connecting
    cancelled,     \* those whose attempt was cancelled as obsolete
    stage,         \* what each slot's constructor or borrower is about to do
    target,        \* the target its constructor resolved
    stale          \* slots taken before the last Reset of the native pool

watchVars == <<watcher, unchecked, unswept, dropped>>
connVars == <<stage, target, stale>>
poolVars == <<life, watchVars, routes, connecting, cancelled, connVars>>
vars == <<resolverVars, poolVars>>

-----------------------------------------------------------------------------
(* Stages of a slot *)

\* From BeforeConnect to the return of the native constructor.
Connecting == {"resolving", "configured", "registered", "dialing", "validated",
               "tracked"}
Initializing == {"connected", "session", "sessionRegistered", "hooking",
                 "settled", "built"}
\* From Acquire to Release.
Borrowing == {"acquired", "preparing", "borrowed", "releasing", "returning"}

Stage == {"none", "idle"} \cup Connecting \cup Initializing \cup Borrowing

\* The slot holds a connection whose route was registered.
Established == {"tracked", "idle"} \cup Initializing \cup Borrowing

Occupied == {c \in Conns : stage[c] # "none"}

\* The slot's constructor is registered in p.connecting.
Attempting == {"registered", "dialing", "validated", "tracked",
               "sessionRegistered", "hooking", "settled"}

\* An attempt waits for the network or for a callback of the application.
Waiting == {"dialing", "validated", "hooking"}

Admitted == Candidates(PoolPolicy, usable)

\* p.ctx is not cancelled.
Alive == life \in {"unopened", "subscribed", "created", "open"}

\* The native pool accepts constructors and acquisitions.
Serving == life \in {"created", "open", "cancelled", "unsubscribed", "released"}

\* Pool.Valid for the connection in slot c.
Valid(c) == Alive /\ target[c] \in Admitted

\* Only the watcher holds p.mu across several steps.
Unlocked == watcher # "pruning"

Moves(c, from, to) ==
    /\ stage[c] = from
    /\ stage' = [stage EXCEPT ![c] = to]
    /\ UNCHANGED <<target, stale>>

\* The slot becomes free.
Vacate(c) ==
    /\ stage' = [stage EXCEPT ![c] = "none"]
    /\ target' = [target EXCEPT ![c] = NoTarget]
    /\ stale' = stale \ {c}

IdleConns == {c \in Conns : stage[c] = "idle"}

DestroyIdle ==
    /\ stage' = [c \in Conns |-> IF c \in IdleConns THEN "none" ELSE stage[c]]
    /\ target' = [c \in Conns |-> IF c \in IdleConns THEN NoTarget ELSE target[c]]

-----------------------------------------------------------------------------

Init ==
    /\ ResolverInit
    /\ life = "unopened" /\ watcher = "none"
    /\ unchecked = {} /\ unswept = {} /\ dropped = FALSE
    /\ routes = {} /\ connecting = {} /\ cancelled = {}
    /\ stage = [c \in Conns |-> "none"]
    /\ target = [c \in Conns |-> NoTarget]
    /\ stale = {}

-----------------------------------------------------------------------------
(* The resolver *)

Reroutes ==
    /\ ~shut
    /\ issued' \in issued + 1 .. MaxIssued
    /\ Reroute
    /\ UNCHANGED poolVars

\* The owner of a shared resolver closes it.
ShutDown ==
    /\ ~Owned
    /\ issued' = issued + 1
    /\ Shutdown
    /\ UNCHANGED poolVars

\* Idempotent: the resolver may have closed the channel before.
Unsubscribe ==
    IF channel[Watcher] = "open" THEN Leave(Watcher) ELSE UNCHANGED resolverVars

-----------------------------------------------------------------------------
(* Open *)

OpenSubscribes ==
    /\ life = "unopened" /\ life' = "subscribed"
    /\ Join(Watcher)
    /\ UNCHANGED <<watchVars, routes, connecting, cancelled, connVars>>

\* NewWithConfig starts background constructors before it returns.
OpenCreates ==
    /\ life = "subscribed" /\ life' = "created"
    /\ UNCHANGED <<resolverVars, watchVars, routes, connecting, cancelled, connVars>>

\* NewWithConfig fails, and no other goroutine knows of the pool: cancel,
\* unsubscribe and close an owned resolver in one step.
OpenFails ==
    /\ life = "subscribed" /\ life' = "closed"
    /\ watcher' = "stopped"
    /\ IF Owned THEN issued' = issued + 1 /\ Shutdown ELSE Unsubscribe
    /\ UNCHANGED <<unchecked, unswept, dropped, routes, connecting, cancelled, connVars>>

\* The watcher starts; Open pings, and returns or closes.
OpenWatches ==
    /\ life = "created" /\ life' = "open"
    /\ watcher' = "waiting"
    /\ UNCHANGED <<resolverVars, unchecked, unswept, dropped, routes,
                   connecting, cancelled, connVars>>

-----------------------------------------------------------------------------
(* watch *)

WatcherStops ==
    /\ watcher = "waiting"
    /\ ~Alive \/ (channel[Watcher] = "closed" /\ Watcher \notin pending)
    /\ watcher' = "stopped"
    /\ UNCHANGED <<resolverVars, life, unchecked, unswept, dropped, routes,
                   connecting, cancelled, connVars>>

WatcherWakes ==
    /\ watcher = "waiting" /\ watcher' = "woken"
    /\ TakeToken(Watcher)
    /\ UNCHANGED <<life, unchecked, unswept, dropped, routes,
                   connecting, cancelled, connVars>>

\* The attempts under way, copied under p.mu.
CollectAttempts ==
    /\ watcher = "woken" /\ watcher' = "cancelling"
    /\ unchecked' = connecting
    /\ UNCHANGED <<resolverVars, life, unswept, dropped, routes,
                   connecting, cancelled, connVars>>

\* Mutant of CancelObsolete: attempts are left to their ConnectTimeout.
CancelNothing(c) ==
    /\ watcher = "cancelling" /\ c \in unchecked
    /\ unchecked' = unchecked \ {c}
    /\ UNCHANGED <<resolverVars, life, watcher, unswept, dropped, routes,
                   connecting, cancelled, connVars>>

CancelObsolete(c) ==
    /\ watcher = "cancelling" /\ c \in unchecked
    /\ unchecked' = unchecked \ {c}
    /\ cancelled' = IF target[c] \in Admitted THEN cancelled ELSE cancelled \cup {c}
    /\ UNCHANGED <<resolverVars, life, watcher, unswept, dropped, routes,
                   connecting, connVars>>

LockRoutes ==
    /\ watcher = "cancelling" /\ unchecked = {}
    /\ watcher' = "pruning"
    /\ unswept' = routes
    /\ UNCHANGED <<resolverVars, life, unchecked, dropped, routes,
                   connecting, cancelled, connVars>>

\* Mutant of Sweep: routes are removed and the native pool is not told.
SweepSilently(t) ==
    /\ watcher = "pruning" /\ t \in unswept
    /\ unswept' = unswept \ {t}
    /\ routes' = IF t \in Admitted THEN routes ELSE routes \ {t}
    /\ UNCHANGED <<resolverVars, life, watcher, unchecked, dropped,
                   connecting, cancelled, connVars>>

Sweep(t) ==
    /\ watcher = "pruning" /\ t \in unswept
    /\ unswept' = unswept \ {t}
    /\ IF t \in Admitted
       THEN UNCHANGED <<routes, dropped>>
       ELSE routes' = routes \ {t} /\ dropped' = TRUE
    /\ UNCHANGED <<resolverVars, life, watcher, unchecked,
                   connecting, cancelled, connVars>>

\* Native Reset: what is idle is destroyed, the rest once it is returned.
Reset == DestroyIdle /\ stale' = Occupied \ IdleConns

\* Mutant of Unlock: Reset only when no route is left.
UnlockResettingEmptied ==
    /\ watcher = "pruning" /\ unswept = {}
    /\ watcher' = "waiting" /\ dropped' = FALSE
    /\ IF dropped /\ routes = {} THEN Reset ELSE UNCHANGED connVars
    /\ UNCHANGED <<resolverVars, life, unchecked, unswept, routes,
                   connecting, cancelled>>

Unlock ==
    /\ watcher = "pruning" /\ unswept = {}
    /\ watcher' = "waiting" /\ dropped' = FALSE
    /\ IF dropped THEN Reset ELSE UNCHANGED connVars
    /\ UNCHANGED <<resolverVars, life, unchecked, unswept, routes,
                   connecting, cancelled>>

-----------------------------------------------------------------------------
(* Constructors *)

\* pgx takes a slot for an acquisition or to keep its minimum.
Construct(c) ==
    /\ Serving
    /\ Moves(c, "none", "resolving")
    /\ UNCHANGED <<resolverVars, life, watchVars, routes, connecting, cancelled>>

\* BeforeConnect: Resolve returns one of the admitted targets.
Configure(c) ==
    /\ stage[c] = "resolving"
    /\ \E t \in Admitted :
         /\ stage' = [stage EXCEPT ![c] = "configured"]
         /\ target' = [target EXCEPT ![c] = t]
    /\ UNCHANGED <<resolverVars, life, watchVars, routes, connecting, cancelled, stale>>

\* beginConnectionAttempt, under p.mu: at TraceConnectStart, and around the
\* application's AfterConnect.
Register(c) ==
    /\ Unlocked
    /\ \/ Moves(c, "configured", "registered")
       \/ SessionHook /\ Moves(c, "session", "sessionRegistered")
    /\ connecting' = connecting \cup {c}
    /\ UNCHANGED <<resolverVars, life, watchVars, routes, cancelled>>

\* Mutant of CheckRegistered: the route is not looked at again.
TrustRegistered(c) ==
    /\ \/ Moves(c, "registered", "dialing")
       \/ Moves(c, "sessionRegistered", "hooking")
    /\ UNCHANGED <<resolverVars, life, watchVars, routes, connecting, cancelled>>

\* The rest of beginConnectionAttempt, after p.mu was given back.
CheckRegistered(c) ==
    /\ \/ Moves(c, "registered", "dialing")
       \/ Moves(c, "sessionRegistered", "hooking")
    /\ cancelled' = IF target[c] \in Admitted THEN cancelled ELSE cancelled \cup {c}
    /\ UNCHANGED <<resolverVars, life, watchVars, routes, connecting>>

\* ValidateConnect accepts the server that answered.
ValidateConnect(c) ==
    /\ target[c] \in Admitted
    /\ Moves(c, "dialing", "validated")
    /\ UNCHANGED <<resolverVars, life, watchVars, routes, connecting, cancelled>>

\* Mutant of Track: the route is registered as it was validated.
TrackUnchecked(c) ==
    /\ Unlocked
    /\ Moves(c, "validated", "tracked")
    /\ routes' = routes \cup {target[c]}
    /\ UNCHANGED <<resolverVars, life, watchVars, connecting, cancelled>>

\* pgconn's AfterConnect registers the route, under p.mu.
Track(c) ==
    /\ Unlocked
    /\ target[c] \in Admitted
    /\ Moves(c, "validated", "tracked")
    /\ routes' = routes \cup {target[c]}
    /\ UNCHANGED <<resolverVars, life, watchVars, connecting, cancelled>>

\* The attempt leaves p.connecting, and to cancel it means nothing any more.
Forget(c) ==
    /\ connecting' = connecting \ {c}
    /\ cancelled' = cancelled \ {c}
    /\ unchecked' = unchecked \ {c}

\* endConnectionAttempt at TraceConnectEnd, and when AfterConnect returns.
EndAttempt(c) ==
    /\ Unlocked
    /\ \/ Moves(c, "tracked", "connected")
       \/ Moves(c, "settled", "built")
    /\ Forget(c)
    /\ UNCHANGED <<resolverVars, life, watcher, unswept, dropped, routes>>

\* The pool's AfterConnect hook, before and after the application's.
EnterSession(c) ==
    /\ Valid(c)
    /\ Moves(c, "connected", "session")
    /\ UNCHANGED <<resolverVars, life, watchVars, routes, connecting, cancelled>>

Settle(c) ==
    /\ Valid(c)
    /\ \/ SessionHook /\ Moves(c, "hooking", "settled")
       \/ ~SessionHook /\ Moves(c, "session", "built")
    /\ UNCHANGED <<resolverVars, life, watchVars, routes, connecting, cancelled>>

\* Resolving or connecting fails, or a check finds the target gone.
ConstructorFails(c) ==
    /\ \/ stage[c] \in {"resolving", "configured", "connected"}
       \/ ~SessionHook /\ stage[c] = "session"
    /\ Vacate(c)
    /\ UNCHANGED <<resolverVars, life, watchVars, routes, connecting, cancelled>>

\* The same within an attempt, which ends with it.
AttemptFails(c) ==
    /\ Unlocked
    /\ stage[c] \in Waiting
    /\ Vacate(c) /\ Forget(c)
    /\ UNCHANGED <<resolverVars, life, watcher, unswept, dropped, routes>>

\* The native pool takes the connection: to its acquirer, back from one that
\* has left, or to the idle ones when it was built in the background.
Deliver(c) ==
    /\ \/ Moves(c, "built", "acquired")
       \/ Moves(c, "built", "returning")
       \/ Serving /\ Moves(c, "built", "idle")
       \/ ~Serving /\ stage[c] = "built" /\ Vacate(c)
    /\ UNCHANGED <<resolverVars, life, watchVars, routes, connecting, cancelled>>

-----------------------------------------------------------------------------
(* Borrowers *)

Acquire(c) ==
    /\ Serving
    /\ Moves(c, "idle", "acquired")
    /\ UNCHANGED <<resolverVars, life, watchVars, routes, connecting, cancelled>>

\* PrepareConn, before and after the application's hook.
Prepare(c) ==
    /\ Valid(c)
    /\ \/ Moves(c, "acquired", "preparing")
       \/ Moves(c, "preparing", "borrowed")
    /\ UNCHANGED <<resolverVars, life, watchVars, routes, connecting, cancelled>>

\* The hook fails without condemning the connection.
PrepareFails(c) ==
    /\ Moves(c, "preparing", "returning")
    /\ UNCHANGED <<resolverVars, life, watchVars, routes, connecting, cancelled>>

Release(c) ==
    /\ Moves(c, "borrowed", "releasing")
    /\ UNCHANGED <<resolverVars, life, watchVars, routes, connecting, cancelled>>

AfterRelease(c) ==
    /\ Valid(c)
    /\ Moves(c, "releasing", "returning")
    /\ UNCHANGED <<resolverVars, life, watchVars, routes, connecting, cancelled>>

\* The native pool takes it back, and destroys what a Reset or Close condemned.
Return(c) ==
    /\ stage[c] = "returning"
    /\ IF c \in stale \/ ~Serving THEN Vacate(c) ELSE Moves(c, "returning", "idle")
    /\ UNCHANGED <<resolverVars, life, watchVars, routes, connecting, cancelled>>

\* A hook refuses it, a ping fails, it is closed, hijacked or idle for too long.
Discard(c) ==
    /\ stage[c] \in {"idle", "acquired", "preparing", "borrowed", "releasing"}
    /\ Vacate(c)
    /\ UNCHANGED <<resolverVars, life, watchVars, routes, connecting, cancelled>>

-----------------------------------------------------------------------------
(* Close *)

CloseCancels ==
    /\ life = "open" /\ life' = "cancelled"
    /\ UNCHANGED <<resolverVars, watchVars, routes, connecting, cancelled, connVars>>

CloseUnsubscribes ==
    /\ life = "cancelled" /\ life' = "unsubscribed"
    /\ Unsubscribe
    /\ UNCHANGED <<watchVars, routes, connecting, cancelled, connVars>>

CloseReleases ==
    /\ life = "unsubscribed" /\ life' = "released"
    /\ IF Owned /\ ~shut THEN issued' = issued + 1 /\ Shutdown
                         ELSE UNCHANGED resolverVars
    /\ UNCHANGED <<watchVars, routes, connecting, cancelled, connVars>>

\* <-p.done, and the native pool begins to close.
CloseDrains ==
    /\ life = "released" /\ life' = "draining"
    /\ watcher = "stopped"
    /\ DestroyIdle /\ stale' = stale \ IdleConns
    /\ UNCHANGED <<resolverVars, watchVars, routes, connecting, cancelled>>

\* Mutant of CloseEnds: the routes are cleared while constructors still run.
CloseEndsEarly ==
    /\ life = "draining" /\ life' = "closed"
    /\ routes' = {}
    /\ UNCHANGED <<resolverVars, watchVars, connecting, cancelled, connVars>>

\* Every connection has been returned and destroyed; the routes are cleared.
CloseEnds ==
    /\ life = "draining" /\ life' = "closed"
    /\ Occupied = {} /\ Unlocked
    /\ routes' = {}
    /\ UNCHANGED <<resolverVars, watchVars, connecting, cancelled, connVars>>

-----------------------------------------------------------------------------

Open == OpenSubscribes \/ OpenCreates \/ OpenFails \/ OpenWatches

Watch ==
    \/ WatcherStops \/ WatcherWakes \/ CollectAttempts
    \/ \E c \in Conns : CancelObsolete(c)
    \/ LockRoutes \/ Unlock
    \/ \E t \in Targets : Sweep(t)

Build(c) ==
    \/ Construct(c) \/ Configure(c) \/ Register(c) \/ CheckRegistered(c)
    \/ ValidateConnect(c) \/ Track(c) \/ EndAttempt(c)
    \/ EnterSession(c) \/ Settle(c)
    \/ ConstructorFails(c) \/ AttemptFails(c) \/ Deliver(c)

Borrow(c) ==
    \/ Acquire(c) \/ Prepare(c) \/ PrepareFails(c)
    \/ Release(c) \/ AfterRelease(c) \/ Return(c) \/ Discard(c)

Close ==
    \/ CloseCancels \/ CloseUnsubscribes \/ CloseReleases
    \/ CloseDrains \/ CloseEnds

Next ==
    \/ Reroutes \/ ShutDown
    \/ Open \/ Watch \/ Close
    \/ \E c \in Conns : Build(c) \/ Borrow(c)

Spec == Init /\ [][Next]_vars

-----------------------------------------------------------------------------
(* Safety *)

ResolverTypeOK ==
    /\ usable \subseteq Targets /\ issued \in Nat /\ shut \in BOOLEAN
    /\ channel \in [Subscribers -> {"unused", "open", "closed"}]
    /\ pending \subseteq Subscribers

WatcherTypeOK ==
    /\ life \in {"unopened", "subscribed", "created", "open", "cancelled",
                "unsubscribed", "released", "draining", "closed"}
    /\ watcher \in {"none", "waiting", "woken", "cancelling", "pruning", "stopped"}
    /\ watcher = "none" <=> life \in {"unopened", "subscribed", "created"}
    /\ dropped \in BOOLEAN
    /\ unswept \subseteq routes /\ routes \subseteq Targets
    /\ unchecked # {} => watcher = "cancelling"
    /\ unswept # {} \/ dropped => watcher = "pruning"
    /\ unchecked \subseteq connecting /\ cancelled \subseteq connecting

SlotTypeOK ==
    /\ stage \in [Conns -> Stage]
    /\ target \in [Conns -> Targets \cup {NoTarget}]
    /\ connecting = {c \in Conns : stage[c] \in Attempting}
    /\ stale \subseteq Occupied
    /\ \A c \in Conns : target[c] = NoTarget <=> stage[c] \in {"none", "resolving"}

\* Every part of the pool is well typed; a slot has a target exactly when its
\* constructor has resolved one, and an attempt exactly while it connects or runs
\* the session hook.
PoolTypeOK == ResolverTypeOK /\ WatcherTypeOK /\ SlotTypeOK

\* The watcher has dealt with all it was told.
Quiet == watcher \in {"none", "waiting", "stopped"} /\ Watcher \notin pending

\* Once the watcher is quiet, p.routes holds eligible routes only: none was
\* registered behind its back with a check that was already out of date.
QuietRoutesAreEligible == Alive /\ Quiet => routes \subseteq Admitted

\* Once the watcher is quiet, every attempt at an ineligible target is cancelled,
\* whether it registered before or after the watcher looked.
ObsoleteAttemptsAreCancelled ==
    Alive /\ Quiet =>
        \A c \in connecting :
            \/ target[c] \in Admitted \/ c \in cancelled
            \/ stage[c] \in {"registered", "sessionRegistered"}

\* Once the watcher is quiet, every connection is to an eligible target or is
\* marked for destruction on its return: constructors that finish while routes
\* are removed and the native pool is reset are not lost from sight.
ConnectionsAreCurrentOrCondemned ==
    Alive /\ Quiet =>
        \A c \in Conns : stage[c] \in Established => target[c] \in Admitted \/ c \in stale

\* What docs/hardening.md says of Reset: it retires the connections of a route
\* that becomes ineligible, so that none of them stays idle in the pool.
ResetRetiresConnections ==
    Alive /\ Quiet => \A c \in IdleConns : target[c] \in Admitted

\* When Close returns nothing of the pool is left: no goroutine, constructor,
\* connection or route, nor a registered attempt, wherever constructors failed.
ClosedPoolHoldsNothing ==
    life = "closed" =>
      routes = {} /\ Occupied = {} /\ connecting = {} /\ watcher = "stopped"

-----------------------------------------------------------------------------
(* Liveness *)

\* Mutant of Interrupted: hooks and dials are not tied to the pool's lifetime.
InterruptedWhenObsolete(c) == stage[c] \in Waiting /\ c \in cancelled

\* Its context is cancelled, so what the constructor waits for returns.
Interrupted(c) ==
    \/ stage[c] \in Waiting /\ (c \in cancelled \/ ~Alive)
    \/ stage[c] = "resolving" /\ ~Alive

\* Steps of a constructor that do not wait for discovery, the network or an
\* application's callback, or need not any more.
Prompt(c) ==
    /\ stage[c] \notin {"none", "resolving"} \cup Waiting \/ Interrupted(c)
    /\ Build(c)

\* Goroutines run; borrowers and their hooks end. No server need answer.
Fairness ==
    /\ WF_vars(life # "unopened" /\ Open)
    /\ WF_vars(Watch)
    /\ WF_vars(life # "open" /\ Close)
    /\ \A c \in Conns :
         /\ WF_vars(Prompt(c))
         /\ WF_vars(stage[c] \in Borrowing /\ Borrow(c))

LiveSpec == Spec /\ Fairness

\* An attempt at a target that is gone ends, although its server never answers
\* and its timeout never comes.
ObsoleteAttemptsEnd ==
    \A c \in Conns, t \in Targets :
        (c \in connecting /\ target[c] = t /\ t \notin usable)
            ~> ~(c \in connecting /\ target[c] = t)

\* An idle connection to a target that is gone is destroyed though nobody asks
\* for it, unless it was built across a Reset.
ObsoleteIdleConnectionsAreRetired ==
    \A c \in Conns, t \in Targets :
        (c \in IdleConns \ stale /\ target[c] = t /\ t \notin usable)
            ~> ~(c \in IdleConns /\ target[c] = t)

\* Close returns from any state, constructors that wait for a route or for a
\* server included, once borrowers have released.
PoolCloseReturns == life = "cancelled" ~> life = "closed"
=============================================================================
