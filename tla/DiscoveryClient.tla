--------------------------- MODULE DiscoveryClient ---------------------------
(***************************************************************************)
(* The routing view of a discovery Client: everything guarded by c.mu. An  *)
(* action is one critical section of that mutex, so the interleavings of   *)
(* the stream reader, the expiry goroutine, resolvers, subscribers and     *)
(* Close are the behaviours of Next.                                       *)
(*                                                                         *)
(* What the topology service sends is arbitrary: any snapshot of Snapshots *)
(* may arrive at any moment, in any order and any number of times, which   *)
(* covers observers that lag, replay after a reconnect or disagree.        *)
(***************************************************************************)
EXTENDS Topology

CONSTANTS
    Snapshots,       \* what the topology service may send
    Policies,        \* routing policies callers resolve with
    Goroutines,      \* goroutines that block on c.changed
    Resolvers,       \* those of them that call Resolve
    Idle,            \* not a policy: the goroutine is not resolving
    Subscribers,     \* channels handed out by Subscribe
    MaxClock,        \* bound: the clock stops here
    MaxLag,          \* bound: how long accept may wait for c.mu
    MaxGeneration    \* bound: no snapshot is accepted beyond it

NoCluster == "no cluster"
ASSUME ClientAssumption ==
    /\ Snapshots \subseteq Snapshot
    /\ \A s \in Snapshots : IsFiniteSet(s.members)
    /\ Policies \subseteq Policy /\ Idle \notin Policies
    /\ NoCluster \notin ClusterUIDs
    /\ Resolvers \subseteq Goroutines
    /\ MaxClock \in Nat /\ MaxLag \in Nat /\ MaxGeneration \in Nat

VARIABLES
    clock,               \* time.Now()
    ready,               \* state.Ready
    connected,           \* state.Connected
    lastError,           \* state.LastError
    observedAt,          \* state.ObservedAt, the positive high-water mark
    validUntil,          \* state.ValidUntil
    members,             \* state.Members
    clusterUID,
    withdrawn,
    observationMembers,
    closed,
    generation,
    channel,             \* the state of each subscriber's channel
    pending,             \* subscriber channels that hold a token
    resolving,           \* the policy each goroutine is resolving, or Idle
    listening            \* goroutines blocked on the current c.changed

view == <<ready, connected, lastError, observedAt, validUntil, members,
          clusterUID, withdrawn, observationMembers, closed, generation>>
vars == <<clock, view, channel, pending, resolving, listening>>

\* Errors that end a stream. The fatal ones revoke the view as well; "Rejected"
\* is any of Unauthenticated, PermissionDenied and InvalidArgument.
Fatal == {"NotFound", "Rejected"}
StreamErrors == Fatal \cup {"Unavailable", "ErrInvalidSnapshot", "ErrClosed"}
Errors == StreamErrors \cup {"none", "ErrUnavailable"}

Described(targets) == {t.member : t \in targets}

\* The targets Resolve may return and Valid may admit.
Routes == IF ready THEN members ELSE {}

Registered == {u \in Subscribers : channel[u] = "open"}

TypeOK ==
    /\ clock \in Nat /\ observedAt \in Nat /\ validUntil \in Nat
    /\ ready \in BOOLEAN /\ connected \in BOOLEAN /\ withdrawn \in BOOLEAN
    /\ closed \in BOOLEAN
    /\ lastError \in Errors
    /\ members \subseteq Target
    /\ clusterUID \in ClusterUIDs \cup {NoCluster}
    /\ observationMembers \subseteq MemberIDs
    /\ generation \in Nat
    /\ channel \in [Subscribers -> {"unused", "open", "closed"}]
    /\ pending \subseteq Subscribers
    /\ resolving \in [Resolvers -> Policies \cup {Idle}]
    /\ listening \subseteq Goroutines

Init ==
    /\ clock = 1
    /\ ready = FALSE /\ connected = FALSE /\ lastError = "none"
    /\ observedAt = 0 /\ validUntil = 0
    /\ members = {} /\ clusterUID = NoCluster
    /\ withdrawn = FALSE /\ observationMembers = {}
    /\ closed = FALSE /\ generation = 0
    /\ channel = [u \in Subscribers |-> "unused"]
    /\ pending = {}
    /\ resolving = [r \in Resolvers |-> Idle]
    /\ listening = {}

-----------------------------------------------------------------------------
(* Notification *)

\* Mutant of SignalWaiters: a heartbeat wakes nobody.
WakeNobody == UNCHANGED <<listening, pending>>

\* Close c.changed and replace it: whoever blocks on it wakes.
SignalWaiters == listening' = {} /\ UNCHANGED pending

\* Mutant of Signal: subscribers are told and waiters are not.
SignalSubscribersOnly == pending' = pending \cup Registered /\ UNCHANGED listening

\* Wake the waiters and leave a token in every subscriber's channel.
Signal == listening' = {} /\ pending' = pending \cup Registered

\* expireLocked(now) finds a view to revoke.
Expires(now) == ready /\ now >= validUntil

\* The view is ready once expireLocked(now) has run.
Alive(now) == ready /\ now < validUntil

\* Mutant of GenerationAfterExpiry: an expired view does not count as a change.
GenerationDespiteExpiry(now) == generation

GenerationAfterExpiry(now) == IF Expires(now) THEN generation + 1 ELSE generation

\* Mutant of Invalidate: only the waiters hear of a revoked view.
InvalidateQuietly ==
    /\ ready' = FALSE
    /\ generation' = IF ready THEN generation + 1 ELSE generation
    /\ SignalWaiters

\* invalidateLocked
Invalidate ==
    /\ ready' = FALSE
    /\ IF ready THEN generation' = generation + 1 /\ Signal
                ELSE UNCHANGED <<generation, pending, listening>>

-----------------------------------------------------------------------------
(* Accepting a snapshot *)

\* time.Now() is read before accept waits for the mutex.
Readings == {now \in 0 .. clock : clock - now <= MaxLag}

Newer(s) == s.observedAt > observedAt
Older(s) == s.observedAt < observedAt
SameSample(s) == s.observedAt = observedAt /\ s.uid = clusterUID

\* Mutant of InOrder: a withdrawal can be undone at its own observation time.
InOrderDespiteWithdrawal(s) == Older(s) => s.uid = clusterUID /\ Withdrawal(s)

\* Positive evidence must not be older than what has been observed, and must be
\* newer than a withdrawal; negative evidence must be about this incarnation.
InOrder(s) ==
    /\ Older(s) => s.uid = clusterUID /\ Withdrawal(s)
    /\ ~Withdrawal(s) /\ withdrawn => Newer(s)

\* Mutant of Observable: what an equal-time replay lists is what may be routed to.
ObservableOnReplay(s) ==
    IF Older(s) THEN observationMembers ELSE {d.id : d \in Eligible(s)}

\* Mutant of Observable: members that a sample no longer lists are not forgotten.
ObservableWithLost(s) ==
    IF SameSample(s) \/ Older(s) THEN observationMembers
    ELSE {d.id : d \in Eligible(s)}

\* The identities that may still be routed to within this observation.
Observable(s) ==
    LET listed == {d.id : d \in Eligible(s)}
    IN  IF SameSample(s) THEN observationMembers \ (Ids(members) \ listed)
        ELSE IF Newer(s) \/ s.uid # clusterUID THEN listed
        ELSE observationMembers

Admitted(s) ==
    IF SameSample(s) THEN {d \in Eligible(s) : d.id \in Observable(s)}
                     ELSE Eligible(s)

\* Mutant of Deadline: a replay counts its lifetime afresh.
DeadlineOfReplay(s) == Until(s)

\* A replayed observation cannot extend its original lifetime.
Deadline(s) == IF Newer(s) THEN Until(s) ELSE MinTime(Until(s), validUntil)

ReadyAfter(s, now) == ~Withdrawal(s) /\ now < Deadline(s)

Changes(s, now) ==
    \/ ReadyAfter(s, now) # Alive(now)
    \/ Described(members) # Admitted(s)

GenerationAfter(s, now) ==
    GenerationAfterExpiry(now) + IF Changes(s, now) THEN 1 ELSE 0

\* Mutant of Kept: a view that had expired gives its targets back.
KeptThroughExpiry(s, now) ==
    IF ReadyAfter(s, now) THEN {t \in members : t.member \in Admitted(s)} ELSE {}

\* Mutant of Kept: any change to the view replaces every target.
KeptUnlessChanged(s, now) ==
    IF Alive(now) /\ ReadyAfter(s, now) /\ ~Changes(s, now)
    THEN {t \in members : t.member \in Admitted(s)}
    ELSE {}

\* Members that were and stay eligible, unchanged, keep their target.
Kept(s, now) ==
    IF Alive(now) /\ ReadyAfter(s, now)
    THEN {t \in members : t.member \in Admitted(s)}
    ELSE {}

\* Mutant of Restamped: the snapshot is merged into the view it should replace.
Merged(s, now) ==
    members \cup
    [member     : Admitted(s) \ Described(Kept(s, now)),
     generation : {GenerationAfter(s, now)}]

Restamped(s, now) ==
    Kept(s, now) \cup
    [member     : Admitted(s) \ Described(Kept(s, now)),
     generation : {GenerationAfter(s, now)}]

Accept(s, now) ==
    /\ generation + 2 <= MaxGeneration
    /\ ~closed /\ ~Invalid(s, now) /\ InOrder(s)
    /\ ready' = ReadyAfter(s, now)
    /\ connected' = TRUE
    /\ lastError' = IF ReadyAfter(s, now) THEN "none" ELSE "ErrUnavailable"
    /\ observedAt' = IF Newer(s) THEN s.observedAt ELSE observedAt
    /\ validUntil' = Deadline(s)
    /\ members' = Restamped(s, now)
    /\ clusterUID' = s.uid
    /\ withdrawn' = Withdrawal(s)
    /\ observationMembers' = Observable(s)
    /\ generation' = GenerationAfter(s, now)
    /\ IF generation' # generation THEN Signal ELSE SignalWaiters
    /\ UNCHANGED <<clock, closed, channel, resolving>>

\* An older snapshot of this incarnation counts for what it says against members.
Supplements(s) == Older(s) /\ s.uid = clusterUID /\ ~Withdrawal(s)

\* The members it names as ineligible.
Refuted(s) == {t \in members : t.member.id \in NegativeEvidence(s)}

\* acceptOlderWithdrawalsLocked
AcceptOlderWithdrawals(s, now) ==
    /\ generation + 2 <= MaxGeneration
    /\ ~closed /\ ~Invalid(s, now)
    /\ Supplements(s)
    /\ Refuted(s) # {}
    /\ LET primaryWithdrawn == \E t \in Refuted(s) : t.member.role = "primary"
       IN  /\ ready' = (Alive(now) /\ ~primaryWithdrawn)
           /\ withdrawn' = (withdrawn \/ primaryWithdrawn)
    /\ connected' = TRUE
    /\ lastError' = IF ready' THEN "none" ELSE "ErrUnavailable"
    /\ members' = members \ Refuted(s)
    /\ observationMembers' = observationMembers \ Ids(Refuted(s))
    /\ generation' = GenerationAfterExpiry(now) + 1
    /\ Signal
    /\ UNCHANGED <<clock, observedAt, validUntil, clusterUID, closed, channel, resolving>>

\* A snapshot that is invalid, or arrives after Close, revokes the view and ends
\* the stream. One that is merely out of order changes nothing.
RejectSnapshot(s, now) ==
    /\ Invalid(s, now) \/ closed
    /\ lastError' = IF Invalid(s, now) THEN "ErrInvalidSnapshot" ELSE "ErrClosed"
    /\ Invalidate
    /\ UNCHANGED <<clock, connected, observedAt, validUntil, members, clusterUID,
                   withdrawn, observationMembers, closed, channel, resolving>>

-----------------------------------------------------------------------------
(* The stream, the clock and the end of the client *)

\* run, once watch has returned err
StreamFailed(err) ==
    /\ connected' = FALSE
    /\ lastError' = err
    /\ IF err \in Fatal /\ ready
       THEN ready' = FALSE /\ generation' = generation + 1 /\ Signal
       ELSE SignalWaiters /\ UNCHANGED <<ready, generation>>
    /\ UNCHANGED <<clock, observedAt, validUntil, members, clusterUID, withdrawn,
                   observationMembers, closed, channel, resolving>>

\* expireLocked at the head of Status and Valid.
Observe ==
    /\ Expires(clock)
    /\ Invalidate
    /\ UNCHANGED <<clock, connected, lastError, observedAt, validUntil, members,
                   clusterUID, withdrawn, observationMembers, closed, channel, resolving>>

\* One turn of runExpiry or of waitReady: revoke a view past its deadline, read
\* the state and c.changed, and block on that channel.
Await(g) ==
    /\ ready' = Alive(clock)
    /\ generation' = GenerationAfterExpiry(clock)
    /\ pending' = IF Expires(clock) THEN pending \cup Registered ELSE pending
    /\ listening' = {g} \cup IF Expires(clock) THEN {} ELSE listening
    /\ UNCHANGED <<clock, connected, lastError, observedAt, validUntil, members,
                   clusterUID, withdrawn, observationMembers, closed, channel, resolving>>

Tick ==
    /\ clock < MaxClock
    /\ clock' = clock + 1
    /\ UNCHANGED <<view, channel, pending, resolving, listening>>

Close ==
    /\ ~closed
    /\ closed' = TRUE
    /\ ready' = FALSE /\ connected' = FALSE /\ lastError' = "ErrClosed"
    /\ generation' = generation + 1
    /\ Signal
    /\ channel' = [u \in Subscribers |->
                     IF channel[u] = "open" THEN "closed" ELSE channel[u]]
    /\ UNCHANGED <<clock, observedAt, validUntil, members, clusterUID, withdrawn,
                   observationMembers, resolving>>

-----------------------------------------------------------------------------
(* Subscribers *)

Subscribe(u) ==
    /\ channel[u] = "unused"
    /\ channel' = [channel EXCEPT ![u] = IF closed THEN "closed" ELSE "open"]
    /\ pending' = IF closed THEN pending ELSE pending \cup {u}
    /\ UNCHANGED <<clock, view, resolving, listening>>

Unsubscribe(u) ==
    /\ channel[u] = "open"
    /\ channel' = [channel EXCEPT ![u] = "closed"]
    /\ UNCHANGED <<clock, view, pending, resolving, listening>>

\* The subscriber takes the token from its channel.
Receive(u) ==
    /\ u \in pending
    /\ pending' = pending \ {u}
    /\ UNCHANGED <<clock, view, channel, resolving, listening>>

-----------------------------------------------------------------------------
(* Resolve *)

CallResolve(r, policy) ==
    /\ resolving[r] = Idle
    /\ resolving' = [resolving EXCEPT ![r] = policy]
    /\ UNCHANGED <<clock, view, channel, pending, listening>>

\* One turn of the loop: return a target, fail because the client is closed,
\* or block on the c.changed read under the mutex.
Resolve(r) ==
    /\ resolving[r] # Idle /\ r \notin listening
    /\ ready' = Alive(clock)
    /\ generation' = GenerationAfterExpiry(clock)
    /\ pending' = IF Expires(clock) THEN pending \cup Registered ELSE pending
    /\ LET blocked == IF Expires(clock) THEN {} ELSE listening
           usable  == IF Alive(clock) THEN members ELSE {}
       IN  IF closed \/ Candidates(resolving[r], usable) # {}
           THEN resolving' = [resolving EXCEPT ![r] = Idle] /\ listening' = blocked
           ELSE listening' = blocked \cup {r} /\ UNCHANGED resolving
    /\ UNCHANGED <<clock, connected, lastError, observedAt, validUntil, members,
                   clusterUID, withdrawn, observationMembers, closed, channel>>

\* The caller's context ends before a target is found.
CancelResolve(r) ==
    /\ resolving[r] # Idle
    /\ resolving' = [resolving EXCEPT ![r] = Idle]
    /\ listening' = listening \ {r}
    /\ UNCHANGED <<clock, view, channel, pending>>

-----------------------------------------------------------------------------

Next ==
    \/ \E s \in Snapshots, now \in Readings :
          \/ Accept(s, now)
          \/ AcceptOlderWithdrawals(s, now)
          \/ RejectSnapshot(s, now)
    \/ \E err \in StreamErrors : StreamFailed(err)
    \/ Observe
    \/ \E g \in Goroutines \ Resolvers : Await(g)
    \/ Tick
    \/ Close
    \/ \E u \in Subscribers : Subscribe(u) \/ Unsubscribe(u) \/ Receive(u)
    \/ \E r \in Resolvers :
          \/ \E policy \in Policies : CallResolve(r, policy)
          \/ Resolve(r)
          \/ CancelResolve(r)

Spec == Init /\ [][Next]_vars

\* A goroutine in Resolve takes its turns: nothing holds the mutex for long.
Fairness == \A r \in Resolvers : WF_vars(Resolve(r))

LiveSpec == Spec /\ Fairness

-----------------------------------------------------------------------------
(* Safety *)

\* The identities that may be routed to within an observation are exactly those
\* of the current members, unless the whole view was withdrawn; so evidence kept
\* to order equal-time replays (Client.observationMembers) neither leaks
\* nor forgets a member that is still served.
EvidenceMatchesMembers ==
    /\ Ids(members) \subseteq observationMembers
    /\ ~withdrawn => observationMembers = Ids(members)

\* A usable view describes one incarnation of the cluster and routes writes to at
\* most one member, whatever mixture of observers and partial withdrawals the
\* members were assembled from.
OneIncarnation ==
    /\ \A t \in members : t.member.clusterUID = clusterUID
    /\ \A t, u \in members :
          (t.member.id = u.member.id \/ {t.member.role, u.member.role} = {"primary"})
             => t = u

\* A withdrawn view and a closed client route nowhere, and no view outlives the
\* TTL of the observation it came from, however often it is replayed.
RoutesAreBacked ==
    /\ withdrawn \/ closed => ~ready
    /\ ready => validUntil <= observedAt + MaxSnapshotTTL

\* No goroutine sleeps on c.changed while the view could serve it, or once the
\* client is closed: every change it waits for closes the channel it holds.
NoLostWakeup ==
    \A r \in listening \cap Resolvers :
        ~closed /\ Candidates(resolving[r], Routes) = {}

-----------------------------------------------------------------------------
(* What a step may never do *)

\* A target that stopped being routable is never routable again: whatever a step
\* makes routable was so before or carries a generation this client never issued.
RetiredStaysRetired ==
    [][\A t \in Routes' : t \in Routes \/ t.generation > generation]_vars

\* The positive high-water mark never falls, and replaying an observation never
\* extends the deadline accepted for it.
FreshnessIsNotRenewed ==
    [][/\ observedAt <= observedAt'
       /\ observedAt' = observedAt => validUntil' <= validUntil]_vars

\* Within one observation of one incarnation, members are only ever lost, and a
\* withdrawn view comes back only with a newer observation.
WithdrawalNeedsNewerObservation ==
    [][observedAt' = observedAt =>
          /\ withdrawn => ~ready'
          /\ clusterUID' = clusterUID => Ids(members') \subseteq Ids(members)]_vars

\* A change elsewhere in the cluster does not reset a healthy member: while the
\* view stays usable, an unchanged member keeps its target and so its sessions.
HealthyMembersAreUndisturbed ==
    [][Alive(clock) /\ ready' =>
          \A t \in members : t.member \in Described(members') => t \in members']_vars

\* Subscribers learn of every change to the routes, and hear nothing of heartbeats
\* that only move the deadline or of transport errors.
SubscribersHearRouteChanges ==
    [][/\ Routes' # Routes => Registered' \subseteq pending'
       /\ \A u \in Registered : u \in pending' \ pending => generation' # generation]_vars

-----------------------------------------------------------------------------
(* Liveness *)

Servable(r) ==
    /\ resolving[r] # Idle
    /\ closed \/ Candidates(resolving[r], Routes) # {}

\* A resolver whose policy the view can serve is served, or the view changes
\* first; one that is closed out fails rather than sleeps.
ResolversAreServed == \A r \in Resolvers : Servable(r) ~> ~Servable(r)

-----------------------------------------------------------------------------
(* The promise to adapters *)

Promise == INSTANCE Resolver
    WITH Targets <- Target, usable <- Routes, issued <- generation, shut <- closed

\* The client is a Resolver: seen through Resolve, Valid and Subscribe, all its
\* critical sections are reroutings with new generations, or nothing at all.
ImplementsResolver == Promise!ResolverSpec
=============================================================================
