# cnpgconnect-go in TLA+

cnpgconnect-go is a Go client library: it follows a CloudNativePG cluster
through a discovery stream and gives database adapters a shared routing view
that expires. This directory models its concurrent core, checks the models with
TLC and proves the main results with TLAPS.

## 1. Inventory of the system

| Component | Source | State it keeps | Operations | Talks to |
|---|---|---|---|---|
| Snapshot validation | `routing.go` (`validateSnapshot`) | none | turn a wire snapshot into targets and a deadline, or refuse it | called by `accept` before the mutex is taken |
| Routing policies | `routing.go` (`selectionLocked`, `matches`), `types.go` | none | the targets a policy admits: role, fallbacks, zone | read by `Resolve` and `Valid` under the mutex |
| Routing view | `client.go`, `routing.go`; all that `Client.mu` guards | ready, connected, last error, observation high-water mark, deadline, members, Cluster UID, withdrawn flag, remembered identities, generation, subscribers, `c.changed` | `accept`, `acceptOlderWithdrawalsLocked`, `expireLocked`, `invalidateLocked`, `Resolve`, `Valid`, `Status`, `Subscribe`, `Close` | shared memory with every goroutine of the process |
| Client goroutines | `client.go` (`run`, `watch`, `runExpiry`, `waitReady`, `New`, `Close`) | the stream, its watchdog, the backoff delay, the expiry timer | dial, receive, back off, expire, start, stop | the topology server; the view |
| Resolver contract | `types.go` | usable targets and subscriber tokens, as adapters see them | `Resolve`, `Valid`, `Subscribe` | between client and adapters |
| Managed pool | `pgxpool/pool.go`, `pool_hooks.go`, `connecting.go` | tracked routes, connection attempts in flight, owned client | `Open`, `Valid`, `watch`, hooks of the native pool, `Close` | a Resolver; the native pgx pool (callbacks) |
| Connection construction | `pgxpool/connection_config.go` | identity in pgx's `CustomData` | choose a target, configure TLS and addresses, validate the server role, register the route | Resolver; pgx; PostgreSQL |
| Startup retry | `pgxpool/startup.go` | the delay; provenance of a cancellation | classify joined errors, retry the first ping | native pool; connection tracer |
| Network preference | `pgxpool/network_preference.go` | at most 128 preferences with a deadline | choose address order, learn from a verified path | connection construction |
| database/sql adapter | `stdlib/stdlib.go` | once-only ownership of the pool | `Open`, `ResetSession`, `Close` | managed pool |
| Client configuration | `config.go` | none | `normalized`: defaults, ranges, transport | `New` |
| Statistics, examples, integration tests | `statistics.go`, `examples/`, `test/` | none that is read back | | |

What makes it hard:

- **Delivery.** The stream reconnects to any of several observers. Snapshots are
  replayed, arrive out of order, disagree about the same instant, and may be
  about another incarnation of the cluster. Nothing but the observation time and
  the Cluster UID orders them.
- **Two clocks.** The server's observation time orders evidence; the client's
  clock expires it. The time a snapshot is judged by is read before the mutex.
- **Lost wake-ups.** Goroutines block on `c.changed`, a channel that is closed
  and replaced by eight different critical sections. One that forgets to signal,
  or signals the wrong channel, leaves a goroutine asleep.
- **Timers.** The expiry timer and the receipt watchdog are set from a deadline
  that moves while they sleep, in both directions.
- **Shutdown.** Close, cancellation, the stream and the expiry goroutine end in
  any order.
- **Callbacks.** The pool's hooks run inside pgx constructors that outlive a
  `Reset`, while the watcher prunes the routes they register. pgx calls them again
  at every address, reports their errors as its own, and reuses the dialer for
  cancellation requests.
- **Errors as data.** Whether the first ping is retried is read from a tree of
  joined errors that four libraries and the application's hooks have contributed to.
- **Handoffs.** database/sql passes connections between goroutines without the
  pool's hooks.

What would make each component correct: the view never routes against evidence
that was withdrawn, expired or closed, never gives a retired target back, stays
one incarnation with one primary, and disturbs no healthy member; whoever waits
for a change is woken; timers guard the current view; `Close` and `New` return;
the pool retires every connection whose target became ineligible; a constructor
tries only addresses of its member, under their names; what it learns about them
is bounded, verified and ends on time; `Open` follows discovery, replays no hook
and retries nothing that was refused; an obsolete connection leaves database/sql.

## 2. Plan

The order is by importance. All of it is done.

1. `Topology`: snapshots, validation and targets as operators, over `Routing`:
   policies.
2. `DiscoveryClient`: the view; `MCDiscoveryClient` and two runs.
3. `Resolver`: the promise to adapters, implemented by `DiscoveryClient`.
4. `DiscoveryLoops`: the goroutines over the view; one run.
5. `WithdrawalHistory`: the view against a full history of withdrawals.
   `DiscoveryClientProofs`, `EvidenceProofs`.
6. `ManagedPool` over the abstract `Resolver` (not over the client: what it
   needs is exactly the promise): routes, attempts, the native pool's
   constructors, idle and borrowed connections, resets, the watcher, Close. Three
   runs; `ManagedPoolProofs`.
7. `ErrorCauses`: what errors of a first connection mean for the retry;
   `StartupRetry`: the retry loop; `StartupErrors`: `classifyConnectError` as a
   function on the nodes of an error, which must come to that meaning.
8. `NetworkPreference`: bounded size, deadlines that do not slide, eviction of the
   oldest; `PreferenceHistory` adds what each preference was learned from.
9. `ConnectionPlan`: which addresses a constructor tries, and how.
10. `SqlHandle`: database/sql over the pool; of the pool it needs `Valid`, a limit
    and a Close that waits, so it does not stand on `ManagedPool` itself.
11. `Selection`: the counting and the walk that implement the routing policies.
    `Configuration`: what `New` accepts. `FunctionCalls` calls these and the
    functions of 7 and 9.
12. `DiscoveryLoopsProofs`, `NetworkPreferenceProofs`, `SqlHandleProofs`,
    `StartupRetryProofs`, `FunctionProofs`.

## 3. Modules and their relation to the code

`Topology` has no state. Times are natural numbers, 0 being Go's zero time.
Folded together: a member's name into its id (both must be unique), host, port
and server name of an endpoint into one address, database and CA into one
connection value, region into zone. `HostPort` says which host and port an address
is at: two members may not share that, whatever the server names (in the instances no
two addresses differ in the server name only). `wellFormed` stands for the format checks of
identity, API version and timestamps, `BadEndpoint` for those of an endpoint.
`Invalid`, `Until`, `Eligible` are the three results of `validateSnapshot`.
`Routing`, which it extends, holds the policies: `Candidates` is what
`selectionLocked` selects and `Resolve` chooses from, over whatever targets the
user of the module has.

`DiscoveryClient` has one variable per field guarded by `Client.mu` and one
action per critical section:

| Action | Code |
|---|---|
| `Accept`, `AcceptOlderWithdrawals`, `RejectSnapshot` | the three ways `accept` ends that change state (`errOutOfOrder` changes nothing) |
| `StreamFailed` | the critical section of `run` after `watch` returned |
| `Observe` | `expireLocked` in `Status` and `Valid` |
| `Await(g)` | one turn of `runExpiry` or `waitReady` |
| `CallResolve`, `Resolve`, `CancelResolve` | `Resolve`: entry, one turn of its loop, the end of its context |
| `Subscribe`, `Unsubscribe`, `Receive` | `Subscribe`, its cancellation, the receiver |
| `Close` | `Close` up to its unlock |
| `Tick` | the process clock |

A channel that is closed and replaced is modelled by who still blocks on it:
`listening` is the set of goroutines that block on the current `c.changed`, and
a signal empties it. Reading the channel and blocking on it is one step, since a
channel closed in between does not block. `Readings` are the values `time.Now()`
may have had when the snapshot was received; a snapshot may be applied up to
`MaxLag` later. A target is a discovered member with the generation it was
given; `sameMember` is equality of the member.

`Resolver` says what an adapter can observe: a set of usable targets that is only
ever left for good and entered with new generations, and a token in every open
channel after every change. `Valid` calls `expireLocked` before it looks, so the
adapter's view of an expired set is the empty one although nothing has yet run.
The promise is about members: a policy with fallbacks may admit, refuse and again
admit one unchanged target as the classes before it fill and empty.

`DiscoveryLoops` adds the program counters of the goroutines and their timers to
`DiscoveryClient`, reusing its actions inside its own: `Apply` is `Accept` or its
alternatives plus what `watch` does with the result. A timer set from a duration
is set in the instant the duration was computed and fires at any moment from its
deadline on. `ReceiveFails` with any error stands for the server and the network; a
cancelled stream may still hand out snapshots that arrived before (`Deliver`), until
Recv fails. `Application` is everything applications and adapters do with a client
once New has returned it: status, subscriptions, `Resolve`.

`WithdrawalHistory` adds a history variable to the client and asks the question
of `docs/hardening.md` directly.

`ManagedPool` stands on `Resolver`, whose variables it shares and whose actions it
uses for the one subscription the pool has. It models `pgxpool.Pool` and, as far
as its hooks depend on it, the native pool:

| State | Code |
|---|---|
| `life` | how far `Open` or `Close` has come; `p.ctx` is cancelled from `cancelled` on |
| `watcher`, `unchecked`, `unswept`, `dropped` | the goroutine `watch`: its place, its copy of the attempts, the rest of its range over `p.routes`, its local `reset` |
| `routes`, `connecting` | the fields of that name; an attempt is named by its slot |
| `cancelled` | the attempts whose context was cancelled as obsolete |
| `stage`, `target`, `stale` | per slot of the native pool: what its constructor or borrower does next, the target it resolved, whether it predates the last `Reset` |

A slot passes through these stages, each arrow an action (in brackets, with a
session hook only):

    none -> resolving -> configured -> registered -> dialing -> validated -> tracked
         -> connected -> session [-> sessionRegistered -> hooking -> settled] -> built
    built -> acquired | returning | idle
    idle -> acquired -> preparing -> borrowed -> releasing -> returning -> idle

`Configure` is BeforeConnect up to the return of `Resolve`; `Register` and
`CheckRegistered` are the two halves of `beginConnectionAttempt`, and
`ValidateConnect`, `Track` the pgconn hooks of `configureConnection`.
`EnterSession` to `built` is the AfterConnect hook, `Prepare` the PrepareConn hook
before and after the application's, `AfterRelease` the hook of that name.
`AttemptFails`, `ConstructorFails` and `Discard` are the ways out. A constructor
that tries several addresses of its one target is one `dialing`.

The watcher asks `Valid` for one attempt and one route at a time, because the
routes may change in between (`CancelObsolete`, `Sweep`); it holds `p.mu` while it
sweeps, so actions that take `p.mu` wait for `Unlocked`. `Track` asks `Valid` and
registers in one step: it holds `p.mu`, and a change of routes between the two
leaves a token, just as one right after them does. An attempt that ends is also
dropped from the watcher's copy, since to cancel it means nothing any more.

Of pgx the model assumes: `Reset` destroys what is idle and marks everything else;
a marked connection is destroyed when it is returned, not when a background
constructor puts it among the idle ones; a pool that is closing accepts no
constructor, destroys what comes back and waits until it is empty. A failed ping of
`Open` ends in `Close`, which any open pool may do.

`Selection` is the code behind `Candidates`: `selectionLocked` counts members per
class and zone, `Resolve` walks the list to a random index below the count (`Pick`),
`Valid` applies the same role and zone to one target. A count is the number of
positions of the list that match, and the walk ends at the first position with one
counted position more, itself included, than the index drawn.

`Configuration` is `Config.normalized`. A TLS configuration is a record that knows
whose object it is, so that a missing Clone would show.

`ConnectionPlan` turns a configuration of pgx, which is a list of attempts (the first
host, and pgx's fallbacks for transports and other hosts), and a target into the list
of attempts a constructor makes. An attempt is an address and a transport: plain
text, or a trust and a server name. The address order comes from the preference.
The loop that keeps the attempts of the first host (`Kept`) and the two that repeat
attempts for the second endpoint are functions of the position reached.

`FunctionCalls` is the specification for what has no state: it calls one of these
functions once, on any input of its constants, and keeps what it returned.

`NetworkPreference` has `p.preferences` and, per constructor, its `dialPaths`:

| Action | Code |
|---|---|
| `Start`, `Prefer` | `time.Now()`, then `preferredTarget` under `p.mu`; with the answers of both lookups, which pgx makes before it dials |
| `Dial`, `Refused` | `dialed`, and pgx going on to the next address |
| `CancelRequest` | the same dialer, used by pgx to clean up; only in constructors of `CleansUp` |
| `Verified`, `Remember` | the end of AfterConnect: `chosen` and `time.Now()`, then `rememberPath` under `p.mu` |
| `Fail` | every other end of a constructor |

The deadline 0 stands for no entry, as Go's zero time does in the map. Which address
a path is taken for is the set of networks that resolved to it, the bit mask of the
code. That Close clears the preferences is part of `CloseEnds` in `ManagedPool`, after
which no constructor is left. `PreferenceHistory` remembers what taught each
preference: when, through which networks' address the verified connection really
went, and whether pgx sends requests in that constructor's attempts.

`ErrorCauses` describes a Go error by its causes: the leaves of its tree, each with
the kinds of the errors around it. That is all `errors.As` and `errors.Is` ask for, and
enough to say when a first connection is retried (`CallsForRetry`). Kinds with the
same branch are one: `eof` stands for the six wire errors, `timeout` for every
`net.Error` that timed out or is temporary.

`StartupErrors` has the trees themselves, as the list of their nodes with each node
after those it wraps or joins, and `classifyConnectError` as the code computes it: a
verdict for each node from those of its causes. `CausesOf` leads from a tree to its
description, so `ClassifiesAsDocumented` relates the recursion to the meaning, and
`StartupRetry` needs the meaning only.

`StartupRetry` is `pingStartup` with the constructor it waits for, in pgconn's order:
the lookups, then the addresses one by one, each ending in a network failure, a hook's
refusal, a failed check or success; a lookup, which the application may supply, fails as
missing, in time, with another error or with a cancellation of its own, and the two
endpoints may be one host, for which nothing is optional; then the hooks of the connection and of the pool.
`marker` is whether `startup.obsolete` is the very error the ping returned, set by
`ConnectFails` (TraceConnectEnd). `hookFailure` is the variable of that name, and
`hookFailures` counts failures over the whole `Open`. What lookups, dials and hooks
return when they are cancelled or refuse are constants. `p.ctx` is left out: nobody can
close the pool before `Open` has returned it. The background constructors of the
minimum are left out as well: they carry no `startupRetry` and the ping does not see
their errors.

`SqlHandle` has the goroutines that use a DB, the connections up to MaxOpenConns, and
the life of the DB. `Release` hands a connection to a goroutine that waits
(`ResetSession` follows) or, no idle ones being kept, back to the pool. All but
`ResetSession`, the two limits and the connector's Close is database/sql.

`MCDiscoveryClient`, `MCDiscoveryLoops`, `MCManagedPool`, `MCNetworkPreference` and the
other MC modules hold the snapshots, targets, errors, lists and answers TLC enumerates.
Operators introduced by a comment "Mutant of ..." are not part of any
specification: each is a plausible slip in the definition that follows it, kept
to show that some property would notice.

## 4. Runs

| Run | Instance | Shows |
|---|---|---|
| `client_safety` | 2 members, 2 Cluster UIDs, observation times 1..3, lifetimes 1 and 3 with a TTL of 2, clock to 4, 5 generations | `EvidenceMatchesMembers`, `OneIncarnation`, `RoutesAreBacked`; `RetiredStaysRetired`, `FreshnessIsNotRenewed`, `WithdrawalNeedsNewerObservation`, `HealthyMembersAreUndisturbed` |
| `client_notify` | 1 resolver, 1 other waiter, 1 subscriber, 2 members, 2 policies | `NoLostWakeup`, `SubscribersHearRouteChanges`, `ImplementsResolver`, `ResolversAreServed` |
| `withdrawal_history` | 1 Cluster UID | `RevocationsStand` holds |
| `withdrawal_across_clusters` | 2 Cluster UIDs | `RevocationsStand` is violated, see section 6 |
| `loops_live` | 1 member, 1 resolver, 1 subscriber; a server that sends healthy, withdrawing and malformed snapshots; snapshots are applied in the instant they are received in; 1 reconnect delay | `ExpiryTimerIsCurrent`, `WatchdogGuardsView`, `StartupIsNotAsleep`, `DrivesClient`; `StaleViewsAreRevoked`, `StalledStreamsEnd`, `CloseReturns`, `StartupEnds` |
| `pool_safety` | 2 slots; a primary and a replica, under a policy that prefers the replica; shared resolver, 3 generations | `QuietRoutesAreEligible`, `ObsoleteAttemptsAreCancelled`, `ConnectionsAreCurrentOrCondemned`, `ClosedPoolHoldsNothing` |
| `pool_live` | 1 slot; owned resolver, session hook, 2 generations | `ObsoleteAttemptsEnd`, `ObsoleteIdleConnectionsAreRetired`, `PoolCloseReturns` |
| `pool_background` | 1 slot, two incarnations of the primary | `ResetRetiresConnections` is violated, see section 6 |
| `preferences` | 3 targets, 2 places, 2 constructors, hosts that may share an address; pgx sends cancellation requests for one of the constructors; TTL 2, clock to 3 | `CacheIsBounded`, `PreferencesAreVerified`, `LivePreferencesAreKept` |
| `startup` | hooks whose errors look like the network's, lookups and dials that report a cancellation in either form | `HooksFailOnce`, `RetriesAreSafe`, `CancelledAttemptsAreRetried`, `OpenSettles` |
| `functions` | every error that grows, one wrapper or join at a time, from a leaf or one of 3 small errors, while it has fewer than 6 nodes; lists of up to 3 members of 3 kinds in 2 zones, policies with up to 1 fallback; durations on both sides of each default and limit; 4 endpoints, applications with 1 or 2 hosts in any sslmode | `ClassifiesAsDocumented`, `SelectionAndEligibilityAgree`, `ConfigurationIsSound`, `PlanIsTheMembers` |
| `sql_handle` | 3 goroutines, 2 connections | `ObsoleteSessionsLeave`, `DBCloseClosesPool` |

The type invariants (`TypeOK`, `LoopTypeOK`, `PoolTypeOK`, `PreferenceTypeOK`,
`SqlTypeOK`) and `PreferencesEndOnTime` are not repeated in the runs: they are proved,
for every instance. A run's liveness and safety are checked together where one instance
serves both.

Bounds. Two members are enough for a change of one beside a healthy other, for a
switch of primary and for partial withdrawals; two Cluster UIDs for a change and
a return; three observation times for older, equal and newer than the accepted
one, with room on both sides. A lifetime of 3 exceeds the TTL, one of 1 expires
while the clock still runs. Since the server's choices are unconstrained, all
orders and repetitions of these snapshots are covered. `MaxClock` stops the
clock, `MaxGeneration` stops the acceptance of snapshots (`Accept` raises the
generation by at most two, `Deliver` leaves room for one more), `MaxLag` is 1:
the snapshot is judged by the current or the previous instant, so a view can
expire between the reading and the mutex. Symmetry under permutations of members
and of Cluster UIDs is used in the safety and withdrawal runs only.

The goroutines need only one member: what they do depends on whether there is a view,
when it ends and whether a snapshot was refused, not on who is in it. Two lifetimes let
a replay shorten the deadline while the timers sleep. `MaxLag` is 0 here: what a late
application does to the view is explored in the client's runs, and all goroutines still
run between a snapshot's receipt and its application. The one reconnect delay is a
timer like any other; that backoff stays in its range is `LoopTypes`. That more
members, delays and lag change nothing for the safety properties is proved (section 5).

In the pool's runs the policy admits the primary only while no replica is usable, so
one target can be refused and admitted again without a new generation: the case in
which a check that was right a moment ago is most easily wrong. Two slots let one
connection be established while another is under way, and share a route. Three
generations are two changes of routes and the end of the resolver. The slots are
interchangeable (symmetry, safety run only). The live run has one slot because the
progress of a constructor does not depend on another's: they meet at `p.mu`, which
the watcher gives back, and at the watcher's copy, which is finite.

Zones: in the runs of the client and in the live runs of the pool some members are in
zone east and a policy prefers it, so a change of zones alone moves routes.

Three targets for two places make two constructors evict and learn in every order. A
TTL of 2 and a clock to 3 leave a preference time to be good, to expire and to be
learned again. The two addresses of a member may be one. Permutations of the targets
are a symmetry; the constructors differ in `CleansUp`.

An error that grew from fewer than six nodes has up to two joins with wrappers between
and around them, more than pgconn, net and one hook produce for a member with two
addresses. In `StartupRetry` hooks fail
at most twice, the second time being the violation; the delay starts at 2 with a cap of
5, which is not reached by doubling, as 50 ms and 1 s are not.

Three goroutines on two connections let one wait while two hold; two retries are
those of database/sql.

`CHECK_DEADLOCK FALSE` is set for the runs of `DiscoveryLoops` and `ManagedPool`:
after `Close` all goroutines have ended and, once the clock or the generations have
reached their bound, nothing remains. It is set for `StartupRetry`, which ends when
`Open` returns, and for `FunctionCalls`, which calls one function and stops.
The client alone never stops while a subscriber, a caller or the server may act,
and its runs check for deadlock.

Fairness. `LiveSpec` assumes weak fairness of a resolver's turns: `Resolve` holds
the mutex for a bounded time and the Go scheduler runs a runnable goroutine.
`LoopFairness` assumes it of the turns of `run`, `runExpiry` and `waitReady`, of
timers that are due, of Close after it has let go of the mutex, and of the Close by
which a failed New ends. The turns of `run` are one disjunction (`RunTurn`), since a
select picks either of its continuations. A cancelled Recv is strongly fair: gRPC may
first hand out snapshots it holds, between which the failure is not possible, but only
finitely many. Nothing is assumed of the server, the network, applications, startup's
context, or of the clock: time may stop. In the pool, `Open`, the watcher, a Close
that has begun, borrowers with their hooks, and constructors run, except that a
constructor which waits for a route, for a server or for the session hook need not
go on until its context is cancelled (`Prompt`, `Interrupted`): hooks have to honour
their context, as the code says of cooperative callbacks, and no timeout is needed.
In `StartupRetry` the loop's steps and timers are fair, and so is a constructor, whose
steps all have a timeout (`ConnectTimeout`), except for `Resolve`: it waits for an
eligible member, which is only assumed once nothing fails any more (`healthy`). That
systems recover is not assumed: the second half of `OpenSettles` starts there. In `SqlHandle`
applications release what they hold and database/sql goes on; nothing is assumed of
discovery or of who calls Close.

## 5. Proofs

All proofs hold for every value of the constants, from `TopologyAssumption`
(natural bounds, a positive TTL, distinguished values), `ClientAssumption`
(the snapshots are well typed with finite member lists, resolvers are
goroutines), `LoopAssumption` and `ReconnectAssumption` (which goroutines there are, a
positive and ordered reconnect range: what `ConfigurationIsSound` checks of the code),
`PoolAssumption` (the pool's subscription is one of the resolver's, no target is the
value that stands for none), `PreferenceAssumption` (finitely many targets, a positive
TTL and limit) and `SqlAssumption`. For the first ping: `DelaysAreSound` (half a delay,
which the jitter is drawn from, is not zero), `CancellationsAreKnown` and
`HookErrorsAreErrors` (a hook may return any error at all). For the functions: a list
has no member twice (`ListsAreInjective`: `accept` sorts members with distinct
identities), a policy's chain is a sequence of roles (`PoliciesAreValid`), a connection
string has at least one attempt (`ConfigsAreParsed`), errors are trees
(`FailuresAreErrors`), durations are integers, the values that stand for no TLS
configuration and for plain text are no others.

Every safety property of a passing run, invariant, action property or refinement, is a
theorem.

- `DiscoveryClientProofs`. `TypeCorrect` is by induction, one step per action.
  `BackedRoutes` is inductive given types. `OtherStepsRevoke` is the lemma that
  carries most of the weight elsewhere: every step but `Accept` and
  `AcceptOlderWithdrawals` leaves the evidence alone and can only revoke.
  `RouteStep` says how routes and generations move together; from it follow
  `Retirement` and, over whole behaviours, `RetirementIsForever`.
  `TokenStep` sorts all steps into announced, silent, `Close`
  and subscriber steps; with `RouteStep` and `BackedRoutes` it gives the
  refinement `ClientIsResolver` and `Notification`. `Wakeups` proves
  `NoLostWakeup`, which is not inductive alone: a call could otherwise begin
  while its goroutine already blocks. `OnlyCallersListen` rules that out.
- `EvidenceProofs`. `Freshness`; `EvidenceMatches` (inductive as it stands, and
  the reason why `Withdrawals` holds: admitted identities come from the
  remembered set, which equals the members); `Incarnation`, from the uniqueness
  that `Invalid` enforces on accepted snapshots; `Undisturbed`.
- `ManagedPoolProofs`. Types first, from lemmas on moving, freeing and destroying
  slots. None of the three properties of a quiet watcher is inductive, because they
  say nothing while it works. The strengthenings say what it still has to do:
  whatever the watcher does not know yet, it has been told (`Warned`: a token is
  pending or it has just woken) or is about to look at. `RoutesWillBeSwept`: an
  ineligible route is still to be swept, unless the watcher is warned or has not
  yet locked. `AttemptsWillBeCancelled`: an attempt at an ineligible target is
  cancelled, still in the watcher's copy, or has its own check ahead of it.
  `ConnectionsAreTracked`: an established connection's route is in `p.routes`,
  or its slot is marked or about to be. `RouteChangesWarn` is where the promise of
  `Resolver` enters: no change of routes without a token. `Lifetime` ties the
  stages of Open and Close to what may still run, and gives `ClosedPool`.
- `EvidenceProofs` also has `Revocations`, under the assumption that there is one
  Cluster UID, without which the statement is false (section 6). The history alone is
  not inductive: `RevocationInv` adds that what was withdrawn from the observation the
  view is at is not among its members nor among the remembered identities.
- `DiscoveryLoopsProofs`. `LoopInv` (types, recent readings, a failure is one of the
  stream's) lets every step be shown a step of the client, which is the refinement
  `LoopsDriveClient`; the client's theorems then hold of the goroutines and of the
  applications beside them, and `LoopsServeAdapters` says so for what adapters stand
  on. The three timer invariants are inductive with `SleepersUndisturbed` (whichever of
  runExpiry and waitReady still blocks on the current channel saw the current view) and `GuardedWhileReading` (the watchdog's
  deadline was set from a view no later than the present one).
- `NetworkPreferenceProofs`. `PreferenceStep` sorts all steps into those that leave the
  preferences alone, drop one, or learn; `BoundedCache` counts over the last,
  `LivePreferences` compares a reading with the clock it came from.
  `OnlyRememberExtends`: a deadline grows only in `Remember`,
  so the lesson that is remembered is that of the one constructor that ends there.
  `PreferencesEnd` holds with and without cancellation requests; `PreferencesVerified`
  is about constructors without them, by `LastIsDialed`: there `d.last` is the path of
  the address being tried, whatever the other constructors do.
- `SqlHandleProofs`. The types with the count of connections per goroutine;
  `SqlInv` says it without cardinalities.
- `StartupRetryProofs`. `StartupIsInductive` follows an error on its way to the
  decision. `HookFailureEnds`: once a hook has failed nothing is dialed any more, its
  error is among those the constructor returns, and the loop ends; that a hook fails
  only once (`HooksAreNotReplayed`) is not inductive without it. `ErrorIsExplained`:
  at the decision a connect error that is not a hook's is marked exactly if the watcher
  cancelled the attempt it comes from, and not one before; and it joins all that went
  wrong in that attempt, unless a check of the route ended it. `DecisionStands`: the
  loop waits, or has returned, for what the last error calls for. Lemmas on causes lead
  from there to the properties: what a retried error consists of (`RetriedErrors`,
  `SomethingIsRetried`, `RouteChecksAreVetoed`), and that one which is not retried has
  a cause that is no interruption (`ExcusesAreNamed`).
- `FunctionProofs`. Each function's result is compared with what it should be, for every
  input. What a loop or a recursion computes is an induction over data; it is done here
  with the set of the positions that satisfy the claim (`SetInduction`), which needs a
  least counterexample (`LeastNatural`, from the well-foundedness of the naturals) and no
  theorem about operators. Where a function is defined by recursion, its existence is
  part of that induction: there are functions on the first n positions that satisfy the
  equation, for every n (`LoopKeeps`, `NodesHaveVerdicts`, `NodesHaveCauses`).
  `SelectionIsATurn` shows that `selectionLocked` counts for the class, and the zone or
  all zones, that `Candidates` picks; `PassedStep`, `PassedReaches` that the number of
  positions passed grows by one at a time, so each index below the count is drawn at one
  position (`DrawsAreFair`). `KeptAreFirsts` says where the application's attempts end
  up, `AttemptsAreRepeated` that the second endpoint follows in the same order.
  `NodesAreJudged`, by induction on the nodes of an error, equates the verdict of the
  recursion with that of the causes below the node; a hook's or a certificate's node
  stops the recursion, and marks all its causes instead.

The proofs found one defect of a model: arms of a CASE overlapped where the code's `if`s
are ordered, which TLC evaluates in order and TLA+ does not. What only an instance had
stated, such as that a list has no member twice, without which no draw is fair, is now
a named assumption.

Only model-checked is liveness, which needs fairness and ENABLED: `ResolversAreServed`,
`StaleViewsAreRevoked`, `StalledStreamsEnd`, `CloseReturns`, `StartupEnds`,
`ObsoleteAttemptsEnd`, `ObsoleteIdleConnectionsAreRetired`, `PoolCloseReturns`,
`OpenSettles`, `ObsoleteSessionsLeave`, `DBCloseClosesPool`; and the two violations of
section 6, of which TLC shows a behaviour.

## 6. Findings

`withdrawal_across_clusters`: `accept` resets the remembered identities whenever
the Cluster UID changes (`routing.go:186`), also at the same observation time.
Member m1 of cluster A is observed at 1, withdrawn at 1, then a snapshot of
cluster B observed at 1 is accepted, then the first snapshot again: m1 is routed
to. `docs/hardening.md:14-17` and `:21-22` say that a replay at an equal time
cannot restore it. Within one Cluster UID the statement holds.

`pool_background`: pgx builds connections in the background to keep its minimum. One
of them passes the last `p.Valid` of the AfterConnect hook (`pool_hooks.go:48`);
then its target becomes ineligible, the watcher removes the route and calls `Reset`,
which marks the slot; then the constructor returns and pgx puts the connection among
the idle ones. Nothing retires it there, since its route is no longer tracked.
`docs/hardening.md:44-45` and `docs/behavior.md:18-20` say that Reset retires
connections, the idle ones at once. What holds is
`ConnectionsAreCurrentOrCondemned`: it is destroyed on its first return, and
PrepareConn refuses to hand it out before that.

Four more places where the code and its documentation part have no run of their own.
Three are exceptions that a property of a passing run makes; the second is a case no
property speaks of.

- Cancellation requests (`lesson.cancels` in `PreferencesAreVerified`). `dialed` runs
  for every use of the dialer (`connection_config.go:92`), also for the cancellation
  request that pgx sends, in the background, for a connection it gave up. Sent while the
  constructor is connected through the internal address, the request to the external
  one becomes the path of the verified connection, and the pool prefers an address no
  check has passed at.
- The next preference (`LivePreferencesAreKept` and `PreferencesEndOnTime` are about
  each preference by itself). A constructor that found a good
  preference, dialed the external address and is verified after the deadline teaches
  another minute, the internal address not having been tried. `docs/hardening.md:61`
  says that expired preferences retry internal first.
- Go's own dialer and resolver (a cause of kind "net-canceled", which is not an
  `Interruption` in `CancelledAttemptsAreRetried`).
  `classifyConnectError` compares with the value `context.Canceled` (`startup.go:89`),
  but they return an error of the package net that only Is `context.Canceled`. When
  discovery cancels such a lookup or dial, `Open` returns to a caller that still waits.
  The test of this behaviour (`startup_topology_test.go`) uses custom functions that
  return the context's error, for which it holds.
- Checks that notice first (a cause of kind "topology-changed", no `Interruption`
  either). When the target is replaced after the last dial, ValidateConnect or
  AfterConnect notices it and returns a plain error (`connection_config.go:122`, `:138`, `pool_hooks.go:35`, `:49`),
  which is permanent; `Open` returns although the caller waits.

## 7. Not modelled

DNS, TLS, PostgreSQL authentication and the gRPC transport are pure I/O: the
models let them fail at any point where the code handles it. How names, addresses
and hosts are spelled (`resourceName`, the parsing of `host:port` answers) is one
Boolean or one value. Statistics (`statistics.go`) are independent counters that
nothing reads back. The examples and the integration tests are programs over the
library and keep no state of their own.
