------------------------ MODULE DiscoveryClientProofs ------------------------
(***************************************************************************)
(* Theorems about DiscoveryClient, for every set of members, incarnations, *)
(* snapshots, policies, goroutines and subscribers, and for every bound.   *)
(* Routes first, then the promise of Resolver to the adapters: subscribers  *)
(* hear of every change, and goroutines blocked in Resolve are woken.      *)
(***************************************************************************)
EXTENDS DiscoveryClient, FiniteSetTheorems, TLAPS

-----------------------------------------------------------------------------
(* What a snapshot contributes *)

USE TopologyAssumption, ClientAssumption

\* What the assumption on the constants says of one snapshot.
LEMMA SnapshotType ==
    ASSUME NEW s \in Snapshots
    PROVE  /\ s \in Snapshot
           /\ s.observedAt \in Nat /\ s.observedAt > 0 /\ s.validUntil \in Nat
           /\ s.uid \in ClusterUIDs /\ s.connection \in Connections
           /\ s.members \subseteq WireMember
           /\ Withdrawal(s) \in BOOLEAN
  BY DEF Snapshot, Withdrawal

\* A wire member that is discovered is a target's member.
LEMMA DiscoverType ==
    ASSUME NEW s \in Snapshots, NEW m \in s.members
    PROVE  Discover(s, m) \in Discovered
<1>1. m \in WireMember
  BY SnapshotType
<1>2. /\ m.id \in MemberIDs /\ m.zone \in Zones /\ m.syncState \in SyncState
      /\ m.endpoints \in [Networks -> Addresses \cup {NoEndpoint, BadEndpoint}]
  BY <1>1 DEF WireMember
<1>3. Endpoint(m) \in Addresses \cup {NoEndpoint, BadEndpoint}
  BY <1>2 DEF Endpoint, Networks
<1>4. FallbackEndpoint(m) \in Addresses \cup {NoEndpoint, BadEndpoint}
  BY <1>2 DEF FallbackEndpoint, Networks
<1>5. (IF m.role = "ROLE_STANDBY" THEN m.syncState ELSE "unknown") \in SyncState
  BY <1>2 DEF SyncState
<1>6. (IF m.role = "ROLE_PRIMARY" THEN "primary" ELSE "replica") \in Role
  BY DEF Role
<1> QED
  BY <1>2, <1>3, <1>4, <1>5, <1>6, SnapshotType DEF Discover, Discovered

\* So are all that validateSnapshot returns.
LEMMA EligibleType ==
    ASSUME NEW s \in Snapshots
    PROVE  Eligible(s) \subseteq Discovered
  BY DiscoverType DEF Eligible, ReadyMembers

\* No snapshot counts for longer than MaxSnapshotTTL after it was observed.
LEMMA UntilType ==
    ASSUME NEW s \in Snapshots
    PROVE  Until(s) \in Nat /\ Until(s) <= s.observedAt + MaxSnapshotTTL
  BY SnapshotType DEF Until, MinTime

\* time.Now() is never ahead of the clock.
LEMMA ReadingType ==
    ASSUME TypeOK, NEW now \in Readings
    PROVE  now \in Nat /\ now <= clock
  BY DEF Readings, TypeOK

\* What Accept computes has the type of the state it becomes.
LEMMA AcceptedType ==
    ASSUME TypeOK, NEW s \in Snapshots, NEW now \in Nat
    PROVE  /\ Admitted(s) \subseteq Discovered
           /\ Admitted(s) \subseteq Eligible(s)
           /\ Observable(s) \subseteq MemberIDs
           /\ Deadline(s) \in Nat
           /\ ReadyAfter(s, now) \in BOOLEAN
           /\ GenerationAfter(s, now) \in Nat
           /\ GenerationAfter(s, now) >= generation
           /\ Restamped(s, now) \subseteq Target
<1>1. Admitted(s) \subseteq Discovered /\ Admitted(s) \subseteq Eligible(s)
  BY EligibleType DEF Admitted
<1>2. \A d \in Eligible(s) : d.id \in MemberIDs
  BY EligibleType DEF Discovered
<1>3. Observable(s) \subseteq MemberIDs
  BY <1>2 DEF Observable, TypeOK
<1>4. Deadline(s) \in Nat
  BY UntilType DEF Deadline, MinTime, TypeOK
<1>5. ReadyAfter(s, now) \in BOOLEAN
  BY SnapshotType DEF ReadyAfter
<1>6. GenerationAfter(s, now) \in Nat /\ GenerationAfter(s, now) >= generation
  BY DEF GenerationAfter, GenerationAfterExpiry, TypeOK
<1>7. Restamped(s, now) \subseteq Target
  BY <1>1, <1>6 DEF Restamped, Kept, Target, TypeOK
<1> QED
  BY <1>1, <1>3, <1>4, <1>5, <1>6, <1>7

-----------------------------------------------------------------------------
(* Type correctness *)

\* A new client is well typed.
LEMMA InitType == Init => TypeOK
<1> SUFFICES ASSUME Init PROVE TypeOK
  OBVIOUS
<1>1. lastError \in Errors
  BY DEF Init, Errors
<1>2. channel \in [Subscribers -> {"unused", "open", "closed"}]
  BY DEF Init
<1>3. resolving \in [Resolvers -> Policies \cup {Idle}]
  BY DEF Init
<1>4. clock \in Nat /\ observedAt \in Nat /\ validUntil \in Nat /\ generation \in Nat
  BY DEF Init
<1>5. /\ ready \in BOOLEAN /\ connected \in BOOLEAN /\ withdrawn \in BOOLEAN
      /\ closed \in BOOLEAN
  BY DEF Init
<1>6. /\ members \subseteq Target /\ observationMembers \subseteq MemberIDs
      /\ pending \subseteq Subscribers /\ listening \subseteq Goroutines
      /\ clusterUID \in ClusterUIDs \cup {NoCluster}
  BY DEF Init
<1> QED
  BY <1>1, <1>2, <1>3, <1>4, <1>5, <1>6 DEF TypeOK

\* accept at its end keeps the types.
LEMMA AcceptType ==
    ASSUME TypeOK, NEW s \in Snapshots, NEW now \in Readings, Accept(s, now)
    PROVE  TypeOK'
<1>1. now \in Nat
  BY ReadingType
<1>2. /\ members' \subseteq Target /\ generation' \in Nat
      /\ observationMembers' \subseteq MemberIDs
      /\ ready' \in BOOLEAN /\ validUntil' \in Nat
  BY <1>1, AcceptedType DEF Accept
<1>3. /\ connected' \in BOOLEAN /\ withdrawn' \in BOOLEAN /\ clusterUID' \in ClusterUIDs
      /\ observedAt' \in Nat /\ lastError' \in Errors
  BY SnapshotType DEF Accept, TypeOK, Errors
<1>4. pending' \subseteq Subscribers /\ listening' \subseteq Goroutines
  BY DEF Accept, Signal, SignalWaiters, Registered, TypeOK
<1> QED
  BY <1>2, <1>3, <1>4 DEF Accept, TypeOK

\* acceptOlderWithdrawalsLocked keeps the types.
LEMMA AcceptOlderType ==
    ASSUME TypeOK, NEW s \in Snapshots, NEW now \in Readings, AcceptOlderWithdrawals(s, now)
    PROVE  TypeOK'
<1>1. ready' \in BOOLEAN /\ withdrawn' \in BOOLEAN
  BY DEF AcceptOlderWithdrawals, Alive, TypeOK
<1>2. lastError' \in Errors /\ generation' \in Nat
  BY DEF AcceptOlderWithdrawals, GenerationAfterExpiry, Errors, TypeOK
<1>3. pending' \subseteq Subscribers /\ listening' \subseteq Goroutines
  BY DEF AcceptOlderWithdrawals, Signal, Registered, TypeOK
<1> QED
  BY <1>1, <1>2, <1>3 DEF AcceptOlderWithdrawals, TypeOK

\* invalidateLocked keeps the types of what it changes.
LEMMA InvalidateType ==
    ASSUME TypeOK, Invalidate
    PROVE  /\ ready' \in BOOLEAN
           /\ generation' \in Nat /\ generation' >= generation
           /\ pending' \subseteq Subscribers /\ listening' \subseteq Goroutines
<1>1. ready' \in BOOLEAN
  BY DEF Invalidate
<1>2. generation' \in Nat /\ generation' >= generation
  BY DEF Invalidate, TypeOK
<1>3. pending' \subseteq Subscribers
  BY DEF Invalidate, Signal, Registered, TypeOK
<1>4. listening' \subseteq Goroutines
  BY DEF Invalidate, Signal, TypeOK
<1> QED
  BY <1>1, <1>2, <1>3, <1>4

\* Every step keeps the types.
LEMMA NextType ==
    ASSUME TypeOK, [Next]_vars
    PROVE  TypeOK'
<1>1. CASE UNCHANGED vars
  BY <1>1 DEF vars, view, TypeOK
<1>2. ASSUME NEW s \in Snapshots, NEW now \in Readings, RejectSnapshot(s, now)
      PROVE  TypeOK'
  <2>1. /\ ready' \in BOOLEAN /\ generation' \in Nat
        /\ pending' \subseteq Subscribers /\ listening' \subseteq Goroutines
    BY <1>2, InvalidateType DEF RejectSnapshot
  <2>2. lastError' \in Errors
    BY <1>2 DEF RejectSnapshot, Errors, StreamErrors
  <2> QED
    BY <1>2, <2>1, <2>2 DEF RejectSnapshot, TypeOK
<1>3. ASSUME NEW err \in StreamErrors, StreamFailed(err)
      PROVE  TypeOK'
  <2>0. ready' \in BOOLEAN
    BY <1>3 DEF StreamFailed, TypeOK
  <2>1. generation' \in Nat
    BY <1>3 DEF StreamFailed, TypeOK
  <2>2. pending' \subseteq Subscribers /\ listening' \subseteq Goroutines
    BY <1>3 DEF StreamFailed, Signal, SignalWaiters, Registered, TypeOK
  <2>3. lastError' \in Errors /\ connected' \in BOOLEAN
    BY <1>3 DEF StreamFailed, Errors
  <2> QED
    BY <1>3, <2>0, <2>1, <2>2, <2>3 DEF StreamFailed, TypeOK
<1>4. CASE Observe
  <2>1. /\ ready' \in BOOLEAN /\ generation' \in Nat
        /\ pending' \subseteq Subscribers /\ listening' \subseteq Goroutines
    BY <1>4, InvalidateType DEF Observe
  <2> QED
    BY <1>4, <2>1 DEF Observe, TypeOK
<1>5. ASSUME NEW g \in Goroutines \ Resolvers, Await(g)
      PROVE  TypeOK'
  <2>0. ready' \in BOOLEAN
    BY <1>5 DEF Await, Alive, TypeOK
  <2>1. generation' \in Nat
    BY <1>5 DEF Await, GenerationAfterExpiry, TypeOK
  <2>2. pending' \subseteq Subscribers /\ listening' \subseteq Goroutines
    BY <1>5 DEF Await, Registered, TypeOK
  <2> QED
    BY <1>5, <2>0, <2>1, <2>2 DEF Await, TypeOK
<1>6. CASE Tick
  BY <1>6 DEF Tick, view, TypeOK
<1>7. CASE Close
  <2>1. generation' \in Nat /\ lastError' \in Errors
    BY <1>7 DEF Close, TypeOK, Errors, StreamErrors
  <2>2. /\ pending' \subseteq Subscribers /\ listening' \subseteq Goroutines
        /\ channel' \in [Subscribers -> {"unused", "open", "closed"}]
    BY <1>7 DEF Close, Signal, Registered, TypeOK
  <2>3. ready' \in BOOLEAN /\ connected' \in BOOLEAN /\ closed' \in BOOLEAN
    BY <1>7 DEF Close
  <2> QED
    BY <1>7, <2>1, <2>2, <2>3 DEF Close, TypeOK
<1>8. ASSUME NEW u \in Subscribers, Subscribe(u) \/ Unsubscribe(u) \/ Receive(u)
      PROVE  TypeOK'
  BY <1>8 DEF Subscribe, Unsubscribe, Receive, view, TypeOK
<1>9. ASSUME NEW r \in Resolvers, NEW policy \in Policies, CallResolve(r, policy)
      PROVE  TypeOK'
  BY <1>9 DEF CallResolve, view, TypeOK
<1>10. ASSUME NEW r \in Resolvers, Resolve(r)
       PROVE  TypeOK'
  <2>1. ready' \in BOOLEAN /\ generation' \in Nat /\ pending' \subseteq Subscribers
    BY <1>10 DEF Resolve, Alive, GenerationAfterExpiry, Registered, TypeOK
  <2>2. /\ resolving' \in [Resolvers -> Policies \cup {Idle}]
        /\ listening' \subseteq Goroutines
    BY <1>10 DEF Resolve, TypeOK
  <2> QED
    BY <1>10, <2>1, <2>2 DEF Resolve, TypeOK
<1>11. ASSUME NEW r \in Resolvers, CancelResolve(r)
       PROVE  TypeOK'
  BY <1>11 DEF CancelResolve, view, TypeOK
<1> QED
  BY <1>1, <1>2, <1>3, <1>4, <1>5, <1>6, <1>7, <1>8, <1>9, <1>10, <1>11,
     AcceptType, AcceptOlderType DEF Next

\* In every reachable state each part of the view has its type.
THEOREM TypeCorrect == Spec => []TypeOK
  BY InitType, NextType, PTL DEF Spec

-----------------------------------------------------------------------------
(* Withdrawn and closed clients route nowhere, and views respect the TTL *)

\* Steps other than Accept and AcceptOlderWithdrawals leave the view's evidence
\* alone and can only revoke it.
LEMMA OtherStepsRevoke ==
    ASSUME TypeOK, [Next]_vars,
           ~ \E s \in Snapshots, now \in Readings :
                Accept(s, now) \/ AcceptOlderWithdrawals(s, now)
    PROVE  /\ UNCHANGED <<observedAt, validUntil, members, clusterUID,
                          withdrawn, observationMembers>>
           /\ ready' => ready
           /\ closed => closed'
           /\ closed' => closed \/ ~ready'
<1>1. CASE UNCHANGED vars
  BY <1>1 DEF vars, view
<1>2. ASSUME NEW s \in Snapshots, NEW now \in Readings, RejectSnapshot(s, now)
      PROVE  /\ UNCHANGED <<observedAt, validUntil, members, clusterUID,
                            withdrawn, observationMembers>>
             /\ ~ready' /\ closed' = closed
  BY <1>2 DEF RejectSnapshot, Invalidate
<1>3. ASSUME NEW err \in StreamErrors, StreamFailed(err)
      PROVE  /\ UNCHANGED <<observedAt, validUntil, members, clusterUID,
                            withdrawn, observationMembers>>
             /\ ready' => ready
             /\ closed' = closed
  BY <1>3 DEF StreamFailed
<1>4. CASE Observe
  BY <1>4 DEF Observe, Invalidate
<1>5. ASSUME NEW g \in Goroutines \ Resolvers, Await(g)
      PROVE  /\ UNCHANGED <<observedAt, validUntil, members, clusterUID,
                            withdrawn, observationMembers>>
             /\ ready' => ready
             /\ closed' = closed
  BY <1>5 DEF Await, Alive
<1>6. CASE Tick
  BY <1>6 DEF Tick, view
<1>7. CASE Close
  BY <1>7 DEF Close
<1>8. ASSUME NEW u \in Subscribers, Subscribe(u) \/ Unsubscribe(u) \/ Receive(u)
      PROVE  UNCHANGED view
  BY <1>8 DEF Subscribe, Unsubscribe, Receive
<1>9. ASSUME NEW r \in Resolvers, CancelResolve(r) \/ \E policy \in Policies : CallResolve(r, policy)
      PROVE  UNCHANGED view
  BY <1>9 DEF CancelResolve, CallResolve
<1>10. ASSUME NEW r \in Resolvers, Resolve(r)
       PROVE  /\ UNCHANGED <<observedAt, validUntil, members, clusterUID,
                             withdrawn, observationMembers>>
              /\ ready' => ready
              /\ closed' = closed
  BY <1>10 DEF Resolve, Alive
<1> QED
  BY <1>1, <1>2, <1>3, <1>4, <1>5, <1>6, <1>7, <1>8, <1>9, <1>10 DEF Next, view

\* Every step leaves routes only to members of an accepted, unexpired view.
LEMMA BackedNext ==
    ASSUME TypeOK, RoutesAreBacked, [Next]_vars
    PROVE  RoutesAreBacked'
<1>1. ASSUME NEW s \in Snapshots, NEW now \in Readings, Accept(s, now)
      PROVE  RoutesAreBacked'
  <2>1. withdrawn' \/ closed' => ~ready'
    BY <1>1 DEF Accept, ReadyAfter
  <2>2. validUntil' <= observedAt' + MaxSnapshotTTL
    <3>1. validUntil' = Deadline(s)
      BY <1>1 DEF Accept
    <3>2. CASE Newer(s)
      BY <1>1, <3>1, <3>2, UntilType DEF Accept, Deadline
    <3>3. CASE ~Newer(s)
      <4>1. observedAt' = observedAt /\ validUntil' <= Until(s)
        BY <1>1, <3>1, <3>3, UntilType DEF Accept, Deadline, MinTime, TypeOK
      <4>2. s.observedAt <= observedAt
        BY <3>3, SnapshotType DEF Newer, TypeOK
      <4>3. validUntil' \in Nat
        BY <3>1, <1>1, ReadingType, AcceptedType
      <4> QED
        BY <4>1, <4>2, <4>3, UntilType, SnapshotType DEF TypeOK
    <3> QED
      BY <3>2, <3>3
  <2> QED
    BY <2>1, <2>2 DEF RoutesAreBacked
<1>2. ASSUME NEW s \in Snapshots, NEW now \in Readings, AcceptOlderWithdrawals(s, now)
      PROVE  RoutesAreBacked'
  BY <1>2 DEF AcceptOlderWithdrawals, Alive, RoutesAreBacked
<1>3. CASE ~ \E s \in Snapshots, now \in Readings :
                Accept(s, now) \/ AcceptOlderWithdrawals(s, now)
  BY <1>3, OtherStepsRevoke DEF RoutesAreBacked
<1> QED
  BY <1>1, <1>2, <1>3

\* A withdrawn view and a closed client route nowhere, and no usable view lives
\* beyond the TTL of its observation.
THEOREM BackedRoutes == Spec => []RoutesAreBacked
<1>1. Init => RoutesAreBacked
  BY DEF Init, RoutesAreBacked
<1> QED
  BY <1>1, TypeCorrect, BackedNext, PTL DEF Spec

-----------------------------------------------------------------------------
(* How routes change *)

\* The routes of a view whose generation did not change are what they were.
LEMMA AcceptKeepsRoutes ==
    ASSUME TypeOK, NEW s \in Snapshots, NEW now \in Readings, Accept(s, now),
           generation' = generation
    PROVE  Routes' = Routes
<1>1. GenerationAfter(s, now) = generation
  BY DEF Accept
<1>2. ~Expires(now) /\ ~Changes(s, now)
  BY <1>1 DEF GenerationAfter, GenerationAfterExpiry, TypeOK
<1>3. now \in Nat
  BY ReadingType
<1>4. Alive(now) <=> ready
  BY <1>2, <1>3 DEF Expires, Alive, TypeOK
<1>5. ready' <=> ready
  BY <1>2, <1>4 DEF Accept, Changes
<1>6. CASE ready
  <2>1. Kept(s, now) = members
    <3>1. \A t \in members : t.member \in Admitted(s)
      BY <1>2 DEF Changes, Described
    <3> QED
      BY <1>2, <1>4, <1>6, <3>1 DEF Kept, Changes
  <2>2. Admitted(s) \ Described(Kept(s, now)) = {}
    BY <1>2, <2>1 DEF Changes
  <2>3. Restamped(s, now) = members
    BY <2>1, <2>2 DEF Restamped
  <2> QED
    BY <1>5, <1>6, <2>3 DEF Accept, Routes
<1>7. CASE ~ready
  BY <1>5, <1>7 DEF Routes
<1> QED
  BY <1>6, <1>7

\* What Accept makes routable was routable, or is stamped with a new generation.
LEMMA AcceptStampsRoutes ==
    ASSUME TypeOK, NEW s \in Snapshots, NEW now \in Readings, Accept(s, now),
           NEW t \in Routes'
    PROVE  t \in Routes \/ t.generation \in generation + 1 .. generation'
<1>1. ready' /\ t \in Restamped(s, now) /\ generation' = GenerationAfter(s, now)
  BY DEF Accept, Routes
<1>2. ReadyAfter(s, now)
  BY <1>1 DEF Accept
<1>3. now \in Nat
  BY ReadingType
<1>4. CASE t \in Kept(s, now)
  BY <1>4 DEF Kept, Alive, Routes
<1>5. CASE t \notin Kept(s, now)
  <2>1. /\ t.generation = GenerationAfter(s, now)
        /\ t.member \in Admitted(s) \ Described(Kept(s, now))
    BY <1>1, <1>5 DEF Restamped
  <2>2. Changes(s, now)
    <3>1. CASE ~Alive(now)
      BY <1>2, <3>1 DEF Changes
    <3>2. CASE Alive(now)
      <4>1. t.member \notin Described(members)
        BY <1>2, <2>1, <3>2 DEF Kept, Described
      <4> QED
        BY <2>1, <4>1 DEF Changes
    <3> QED
      BY <3>1, <3>2
  <2>3. GenerationAfter(s, now) \in Nat /\ GenerationAfter(s, now) >= generation + 1
    BY <2>2, <1>3, AcceptedType DEF GenerationAfter, GenerationAfterExpiry, TypeOK
  <2> QED
    BY <1>1, <2>1, <2>3 DEF TypeOK
<1> QED
  BY <1>4, <1>5

\* An older withdrawal only takes routes away, under a new generation.
LEMMA OlderWithdrawalStep ==
    ASSUME TypeOK, NEW s \in Snapshots, NEW now \in Readings, AcceptOlderWithdrawals(s, now)
    PROVE  /\ Routes' \subseteq Routes
           /\ generation' \in Nat /\ generation' > generation
<1>1. ready' => ready
  BY DEF AcceptOlderWithdrawals, Alive
<1>2. members' \subseteq members
  BY DEF AcceptOlderWithdrawals
<1>3. generation' \in Nat /\ generation' > generation
  BY DEF AcceptOlderWithdrawals, GenerationAfterExpiry, TypeOK
<1> QED
  BY <1>1, <1>2, <1>3 DEF Routes

\* Every other step keeps the routes and the generation, or revokes the view
\* under a new one.
LEMMA OtherStepRoutes ==
    ASSUME TypeOK, [Next]_vars,
           ~ \E s \in Snapshots, now \in Readings :
                Accept(s, now) \/ AcceptOlderWithdrawals(s, now)
    PROVE  /\ generation' \in Nat
           /\ \/ Routes' = Routes /\ generation' = generation
              \/ Routes' = {} /\ generation' > generation
<1> DEFINE Kept0   == Routes' = Routes /\ generation' = generation
           Revoked == Routes' = {} /\ generation' = generation + 1
<1> SUFFICES Kept0 \/ Revoked
  BY DEF TypeOK
<1>1. CASE UNCHANGED vars
  BY <1>1 DEF vars, view, Routes
<1>2. ASSUME Invalidate, members' = members
      PROVE  Kept0 \/ Revoked
  BY <1>2 DEF Invalidate, Routes
<1>3. ASSUME NEW s \in Snapshots, NEW now \in Readings, RejectSnapshot(s, now)
      PROVE  Kept0 \/ Revoked
  BY <1>2, <1>3 DEF RejectSnapshot
<1>4. ASSUME NEW err \in StreamErrors, StreamFailed(err)
      PROVE  Kept0 \/ Revoked
  BY <1>4 DEF StreamFailed, Routes
<1>5. CASE Observe
  BY <1>2, <1>5 DEF Observe
<1>6. ASSUME members' = members, ready' = Alive(clock),
             generation' = GenerationAfterExpiry(clock)
      PROVE  Kept0 \/ Revoked
  <2>1. CASE Expires(clock)
    <3>0. ~Alive(clock)
      BY <2>1 DEF Alive, Expires, TypeOK
    <3>1. ~ready'
      BY <1>6, <3>0
    <3> QED
      BY <1>6, <2>1, <3>1 DEF GenerationAfterExpiry, Routes
  <2>2. CASE ~Expires(clock)
    <3>1. ready' <=> ready
      BY <1>6, <2>2 DEF Alive, Expires, TypeOK
    <3>2. Routes' = Routes
      BY <1>6, <3>1 DEF Routes
    <3> QED
      BY <1>6, <2>2, <3>2 DEF GenerationAfterExpiry
  <2> QED
    BY <2>1, <2>2
<1>7. ASSUME NEW g \in Goroutines \ Resolvers, Await(g)
      PROVE  Kept0 \/ Revoked
  BY <1>6, <1>7 DEF Await
<1>8. ASSUME NEW r \in Resolvers, Resolve(r)
      PROVE  Kept0 \/ Revoked
  BY <1>6, <1>8 DEF Resolve
<1>9. CASE Tick
  BY <1>9 DEF Tick, view, Routes
<1>10. CASE Close
  BY <1>10 DEF Close, Routes
<1>11. ASSUME NEW u \in Subscribers, Subscribe(u) \/ Unsubscribe(u) \/ Receive(u)
       PROVE  Kept0
  BY <1>11 DEF Subscribe, Unsubscribe, Receive, view, Routes
<1>12. ASSUME NEW r \in Resolvers,
              CancelResolve(r) \/ \E policy \in Policies : CallResolve(r, policy)
       PROVE  Kept0
  BY <1>12 DEF CancelResolve, CallResolve, view, Routes
<1> HIDE DEF Kept0, Revoked
<1> QED
  BY <1>1, <1>3, <1>4, <1>5, <1>7, <1>8, <1>9, <1>10, <1>11, <1>12 DEF Next

\* Routes change only with the generation, and new ones carry one that is new.
LEMMA RouteStep ==
    ASSUME TypeOK, [Next]_vars
    PROVE  /\ generation' \in Nat /\ generation' >= generation
           /\ generation' = generation => Routes' = Routes
           /\ \A t \in Routes' : t \in Routes \/ t.generation \in generation + 1 .. generation'
<1>1. ASSUME NEW s \in Snapshots, NEW now \in Readings, Accept(s, now)
      PROVE  generation' \in Nat /\ generation' >= generation
  BY <1>1, ReadingType, AcceptedType DEF Accept
<1>2. CASE ~ \E s \in Snapshots, now \in Readings :
                Accept(s, now) \/ AcceptOlderWithdrawals(s, now)
  BY <1>2, OtherStepRoutes DEF TypeOK
<1>3. ASSUME NEW s \in Snapshots, NEW now \in Readings, AcceptOlderWithdrawals(s, now)
      PROVE  /\ generation' \in Nat /\ generation' > generation
             /\ Routes' \subseteq Routes
  BY <1>3, OlderWithdrawalStep
<1> QED
  BY <1>1, <1>2, <1>3, AcceptKeepsRoutes, AcceptStampsRoutes DEF TypeOK

\* A target that stopped being routable is never routable again, because routes
\* appear only with generations the client has not issued before.
THEOREM Retirement == Spec => RetiredStaysRetired
<1>1. ASSUME TypeOK, [Next]_vars
      PROVE  \A t \in Routes' : t \in Routes \/ t.generation > generation
  BY <1>1, RouteStep DEF TypeOK
<1> QED
  BY <1>1, TypeCorrect, PTL DEF Spec, RetiredStaysRetired

\* The same over whole behaviours: once a target the client has issued is not
\* routable, it stays so for ever, whatever is replayed or recovers.
THEOREM RetirementIsForever ==
    ASSUME NEW t \in Target
    PROVE  Spec => [](t \notin Routes /\ t.generation <= generation
                        => [](t \notin Routes))
<1> DEFINE Gone == t \notin Routes /\ t.generation <= generation
<1>1. ASSUME TypeOK, Gone, [Next]_vars
      PROVE  Gone'
  <2>1. t.generation \in Nat
    BY DEF Target
  <2> QED
    BY <1>1, <2>1, RouteStep DEF TypeOK
<1>2. Gone => t \notin Routes
  OBVIOUS
<1> QED
  BY <1>1, <1>2, TypeCorrect, PTL DEF Spec

-----------------------------------------------------------------------------
(* What a step does to the subscribers' channels *)

\* A critical section that issues generations leaves a token in every open channel.
Announced ==
    /\ generation' > generation
    /\ closed' = closed /\ channel' = channel
    /\ pending' = pending \cup Registered

\* One that issues none leaves the channels alone.
Silent == generation' = generation /\ UNCHANGED <<closed, channel, pending>>

\* invalidateLocked leaves a token with every subscriber, or changes no route.
LEMMA InvalidateTokens ==
    ASSUME TypeOK, Invalidate, UNCHANGED <<closed, channel>>
    PROVE  Announced \/ Silent
<1>1. CASE ready
  BY <1>1 DEF Invalidate, Signal, Announced, TypeOK
<1>2. CASE ~ready
  BY <1>2 DEF Invalidate, Silent
<1> QED
  BY <1>1, <1>2

\* The same for the turns that begin with expireLocked.
LEMMA TurnTokens ==
    ASSUME TypeOK,
           generation' = GenerationAfterExpiry(clock),
           pending' = (IF Expires(clock) THEN pending \cup Registered ELSE pending),
           UNCHANGED <<closed, channel>>
    PROVE  Announced \/ Silent
<1>1. CASE Expires(clock)
  <2>1. generation' > generation
    BY <1>1 DEF GenerationAfterExpiry, TypeOK
  <2> QED
    BY <1>1, <2>1 DEF Announced
<1>2. CASE ~Expires(clock)
  BY <1>2 DEF GenerationAfterExpiry, Silent
<1> QED
  BY <1>1, <1>2

\* Every step announces, changes no route, ends the client, or is a subscriber's.
LEMMA TokenStep ==
    ASSUME TypeOK, [Next]_vars
    PROVE  \/ Announced
           \/ Silent
           \/ Close
           \/ \E u \in Subscribers : Subscribe(u) \/ Unsubscribe(u) \/ Receive(u)
<1>1. CASE UNCHANGED vars
  BY <1>1 DEF vars, view, Silent
<1>2. ASSUME NEW s \in Snapshots, NEW now \in Readings, Accept(s, now)
      PROVE  Announced \/ Silent
  <2>1. generation' \in Nat /\ generation' >= generation
    BY <1>2, RouteStep DEF Next
  <2>2. CASE generation' = generation
    BY <1>2, <2>2 DEF Accept, SignalWaiters, Silent
  <2>3. CASE generation' # generation
    <3>1. generation' > generation
      BY <2>1, <2>3 DEF TypeOK
    <3> QED
      BY <1>2, <2>3, <3>1 DEF Accept, Signal, Announced
  <2> QED
    BY <2>2, <2>3
<1>3. ASSUME NEW s \in Snapshots, NEW now \in Readings, AcceptOlderWithdrawals(s, now)
      PROVE  Announced
  <2>1. generation' > generation
    BY <1>3, OlderWithdrawalStep
  <2> QED
    BY <1>3, <2>1 DEF AcceptOlderWithdrawals, Signal, Announced
<1>4. ASSUME NEW s \in Snapshots, NEW now \in Readings, RejectSnapshot(s, now)
      PROVE  Announced \/ Silent
  BY <1>4, InvalidateTokens DEF RejectSnapshot
<1>5. ASSUME NEW err \in StreamErrors, StreamFailed(err)
      PROVE  Announced \/ Silent
  <2>1. CASE err \in Fatal /\ ready
    <3>1. generation' = generation + 1
      BY <1>5, <2>1 DEF StreamFailed
    <3>2. generation' > generation
      BY <3>1 DEF TypeOK
    <3> QED
      BY <1>5, <2>1, <3>2 DEF StreamFailed, Signal, Announced
  <2>2. CASE ~(err \in Fatal /\ ready)
    BY <1>5, <2>2 DEF StreamFailed, SignalWaiters, Silent
  <2> QED
    BY <2>1, <2>2
<1>6. CASE Observe
  BY <1>6, InvalidateTokens DEF Observe
<1>7. ASSUME NEW g \in Goroutines \ Resolvers, Await(g)
      PROVE  Announced \/ Silent
  BY <1>7, TurnTokens DEF Await
<1>8. CASE Tick
  BY <1>8 DEF Tick, view, Silent
<1>9. ASSUME NEW r \in Resolvers, NEW policy \in Policies, CallResolve(r, policy)
      PROVE  Silent
  BY <1>9 DEF CallResolve, view, Silent
<1>10. ASSUME NEW r \in Resolvers, Resolve(r)
       PROVE  Announced \/ Silent
  BY <1>10, TurnTokens DEF Resolve
<1>11. ASSUME NEW r \in Resolvers, CancelResolve(r)
       PROVE  Silent
  BY <1>11 DEF CancelResolve, view, Silent
<1> QED
  BY <1>1, <1>2, <1>3, <1>4, <1>5, <1>6, <1>7, <1>8, <1>9, <1>10, <1>11 DEF Next

-----------------------------------------------------------------------------
(* The refinement *)

\* A subscriber does not move routes.
LEMMA SubscriberKeepsRoutes ==
    ASSUME NEW u \in Subscribers, Subscribe(u) \/ Unsubscribe(u) \/ Receive(u)
    PROVE  UNCHANGED <<closed, generation>> /\ Routes' = Routes
  BY DEF Subscribe, Unsubscribe, Receive, view, Routes

\* Every step is one that the Resolver contract allows.
LEMMA PromiseStep ==
    ASSUME TypeOK, TypeOK', RoutesAreBacked', [Next]_vars
    PROVE  [Promise!ResolverNext]_(Promise!resolverVars)
<1>1. CASE Announced
  <2>1. /\ Routes' \in SUBSET Target
        /\ \A t \in Routes' : t \in Routes \/ t.generation \in generation + 1 .. generation'
    BY RouteStep DEF TypeOK, Routes
  <2>2. closed => Routes' = {}
    BY <1>1 DEF Announced, RoutesAreBacked, Routes
  <2>3. Promise!Reroute
    BY <1>1, <2>1, <2>2 DEF Announced, Promise!Reroute, Promise!Registered, Registered
  <2> QED
    BY <2>3 DEF Promise!ResolverNext
<1>2. CASE Silent
  <2>1. Routes' = Routes
    BY <1>2, RouteStep DEF Silent
  <2> QED
    BY <1>2, <2>1 DEF Silent, Promise!resolverVars
<1>3. CASE Close
  <2>1. generation' > generation
    BY <1>3 DEF Close, TypeOK
  <2>2. Routes' = {}
    BY <1>3 DEF Close, Routes
  <2>3. Promise!Shutdown
    BY <1>3, <2>1, <2>2 DEF Close, Signal, Promise!Shutdown, Promise!Registered, Registered
  <2> QED
    BY <2>3 DEF Promise!ResolverNext
<1>4. ASSUME NEW u \in Subscribers, Subscribe(u) \/ Unsubscribe(u) \/ Receive(u)
      PROVE  Promise!Join(u) \/ Promise!Leave(u) \/ Promise!TakeToken(u)
  BY <1>4, SubscriberKeepsRoutes
     DEF Subscribe, Unsubscribe, Receive, Promise!Join, Promise!Leave, Promise!TakeToken
<1> QED
  BY <1>1, <1>2, <1>3, <1>4, TokenStep DEF Promise!ResolverNext

\* The client is a Resolver: seen through Resolve, Valid and Subscribe, each of
\* its critical sections is one rerouting with new generations, or nothing at all.
THEOREM ClientIsResolver == Spec => ImplementsResolver
<1>1. Init => Promise!ResolverInit
  BY DEF Init, Routes, Promise!ResolverInit
<1>2. TypeOK /\ TypeOK' /\ RoutesAreBacked' /\ [Next]_vars
         => [Promise!ResolverNext]_(Promise!resolverVars)
  BY PromiseStep
<1> QED
  BY <1>1, <1>2, TypeCorrect, BackedRoutes, PTL
     DEF Spec, ImplementsResolver, Promise!ResolverSpec

\* Subscribers learn of every change to the routes, and of nothing else.
THEOREM Notification == Spec => SubscribersHearRouteChanges
<1> DEFINE Heard == Routes' # Routes => Registered' \subseteq pending'
           Quiet == \A u \in Registered : u \in pending' \ pending => generation' # generation
<1>1. ASSUME TypeOK, [Next]_vars
      PROVE  Heard /\ Quiet
  <2>1. CASE Announced
    <3>1. Registered' = Registered /\ Registered \subseteq pending'
      BY <2>1 DEF Announced, Registered
    <3>2. generation' # generation
      BY <1>1, <2>1, RouteStep DEF Announced, TypeOK
    <3> QED
      BY <3>1, <3>2
  <2>2. CASE Silent
    BY <1>1, <2>2, RouteStep DEF Silent
  <2>3. CASE Close
    BY <2>3 DEF Close, Registered, TypeOK
  <2>4. ASSUME NEW u \in Subscribers, Subscribe(u) \/ Unsubscribe(u) \/ Receive(u)
        PROVE  Heard /\ Quiet
    BY <2>4, SubscriberKeepsRoutes DEF Subscribe, Unsubscribe, Receive, Registered
  <2> QED
    BY <1>1, <2>1, <2>2, <2>3, <2>4, TokenStep
<1> QED
  BY <1>1, TypeCorrect, PTL DEF Spec, SubscribersHearRouteChanges

-----------------------------------------------------------------------------
(* Nobody sleeps on a stale channel *)

\* What NoLostWakeup needs to be inductive: only goroutines inside the loop of
\* Resolve are blocked there.
OnlyCallersListen == \A r \in listening \cap Resolvers : resolving[r] # Idle

WakeInv == NoLostWakeup /\ OnlyCallersListen

\* A turn that begins with expireLocked blocks on the channel current after it.
LEMMA TurnKeepsSleepers ==
    ASSUME TypeOK, NoLostWakeup,
           ready' = Alive(clock), UNCHANGED <<members, closed>>,
           NEW r \in Resolvers, resolving'[r] = resolving[r],
           r \in IF Expires(clock) THEN {} ELSE listening
    PROVE  ~closed' /\ Candidates(resolving'[r], Routes') = {}
<1>1. ~Expires(clock) /\ r \in listening \cap Resolvers
  OBVIOUS
<1>2. Alive(clock) <=> ready
  BY <1>1 DEF Alive, Expires, TypeOK
<1>3. Routes' = Routes
  BY <1>2 DEF Routes
<1> QED
  BY <1>1, <1>3 DEF NoLostWakeup

\* A step that wakes nobody and leaves the routes alone.
LEMMA CalmKeepsSleepers ==
    ASSUME WakeInv, Routes' = Routes, closed' = closed,
           \A r \in listening' \cap Resolvers :
               r \in listening /\ resolving'[r] = resolving[r]
    PROVE  WakeInv'
  BY DEF WakeInv, NoLostWakeup, OnlyCallersListen

\* No step closes a channel that somebody it concerns still blocks on.
LEMMA WokenNext ==
    ASSUME TypeOK, WakeInv, [Next]_vars
    PROVE  WakeInv'
<1>1. CASE listening' \cap Resolvers = {}
  BY <1>1 DEF WakeInv, NoLostWakeup, OnlyCallersListen
<1>2. CASE UNCHANGED vars
  BY <1>2, CalmKeepsSleepers DEF vars, view, Routes
<1>3. ASSUME NEW s \in Snapshots, NEW now \in Readings,
             Accept(s, now) \/ AcceptOlderWithdrawals(s, now)
      PROVE  listening' = {}
  BY <1>3 DEF Accept, AcceptOlderWithdrawals, Signal, SignalWaiters
<1>4. ASSUME NEW s \in Snapshots, NEW now \in Readings, RejectSnapshot(s, now)
      PROVE  WakeInv'
  <2>1. CASE ready
    BY <1>1, <1>4, <2>1 DEF RejectSnapshot, Invalidate, Signal
  <2>2. CASE ~ready
    BY <1>4, <2>2, CalmKeepsSleepers DEF RejectSnapshot, Invalidate, Routes
  <2> QED
    BY <2>1, <2>2
<1>5. ASSUME NEW err \in StreamErrors, StreamFailed(err)
      PROVE  listening' = {}
  BY <1>5 DEF StreamFailed, Signal, SignalWaiters
<1>6. CASE Observe
  BY <1>1, <1>6 DEF Observe, Expires, Invalidate, Signal
<1>7. ASSUME NEW g \in Goroutines \ Resolvers, Await(g)
      PROVE  WakeInv'
  <2>1. \A r \in listening' \cap Resolvers :
           r \in IF Expires(clock) THEN {} ELSE listening
    BY <1>7 DEF Await
  <2>2. \A r \in Resolvers : resolving'[r] = resolving[r]
    BY <1>7 DEF Await
  <2>3. NoLostWakeup'
    BY <1>7, <2>1, <2>2, TurnKeepsSleepers DEF Await, WakeInv, NoLostWakeup
  <2>4. OnlyCallersListen'
    BY <2>1, <2>2 DEF WakeInv, OnlyCallersListen
  <2> QED
    BY <2>3, <2>4 DEF WakeInv
<1>8. CASE Tick
  BY <1>8, CalmKeepsSleepers DEF Tick, view, Routes
<1>9. CASE Close
  BY <1>1, <1>9 DEF Close, Signal
<1>10. ASSUME NEW u \in Subscribers, Subscribe(u) \/ Unsubscribe(u) \/ Receive(u)
       PROVE  WakeInv'
  BY <1>10, CalmKeepsSleepers DEF Subscribe, Unsubscribe, Receive, view, Routes
<1>11. ASSUME NEW r \in Resolvers, NEW policy \in Policies, CallResolve(r, policy)
       PROVE  WakeInv'
  <2>1. r \notin listening
    BY <1>11 DEF CallResolve, WakeInv, OnlyCallersListen
  <2>2. \A q \in Resolvers : q # r => resolving'[q] = resolving[q]
    BY <1>11 DEF CallResolve, TypeOK
  <2>3. listening' = listening /\ Routes' = Routes /\ closed' = closed
    BY <1>11 DEF CallResolve, view, Routes
  <2> QED
    BY <2>1, <2>2, <2>3, CalmKeepsSleepers
<1>12. ASSUME NEW r \in Resolvers, CancelResolve(r)
       PROVE  WakeInv'
  <2>1. \A q \in Resolvers : q # r => resolving'[q] = resolving[q]
    BY <1>12 DEF CancelResolve, TypeOK
  <2>2. listening' = listening \ {r} /\ Routes' = Routes /\ closed' = closed
    BY <1>12 DEF CancelResolve, view, Routes
  <2> QED
    BY <2>1, <2>2, CalmKeepsSleepers
<1>13. ASSUME NEW r \in Resolvers, Resolve(r)
       PROVE  WakeInv'
  <2> DEFINE blocked == IF Expires(clock) THEN {} ELSE listening
             usable  == IF Alive(clock) THEN members ELSE {}
  <2>1. Routes' = usable /\ closed' = closed /\ members' = members /\ ready' = Alive(clock)
    BY <1>13 DEF Resolve, Routes
  <2>2. r \notin blocked /\ resolving[r] # Idle
    BY <1>13 DEF Resolve
  <2>3. \A q \in Resolvers : q # r => resolving'[q] = resolving[q]
    BY <1>13 DEF Resolve, TypeOK
  <2>4. ASSUME NEW q \in listening' \cap Resolvers, q # r
        PROVE  q \in blocked
    BY <1>13, <2>4 DEF Resolve
  <2>5. ASSUME NEW q \in listening' \cap Resolvers, q # r
        PROVE  /\ ~closed' /\ Candidates(resolving'[q], Routes') = {}
               /\ resolving'[q] # Idle
    <3>1. q \in blocked /\ resolving'[q] = resolving[q]
      BY <2>3, <2>4, <2>5
    <3>2. ~closed' /\ Candidates(resolving'[q], Routes') = {}
      BY <2>1, <3>1, TurnKeepsSleepers DEF WakeInv
    <3>3. q \in listening
      BY <3>1
    <3> QED
      BY <3>1, <3>2, <3>3 DEF WakeInv, OnlyCallersListen
  <2>6. ASSUME r \in listening'
        PROVE  /\ ~closed' /\ Candidates(resolving'[r], Routes') = {}
               /\ resolving'[r] # Idle
    <3>1. ~(closed \/ Candidates(resolving[r], usable) # {})
      BY <1>13, <2>2, <2>6 DEF Resolve
    <3>2. resolving' = resolving
      BY <1>13, <3>1 DEF Resolve
    <3> QED
      BY <2>1, <2>2, <3>1, <3>2
  <2> QED
    BY <2>5, <2>6 DEF WakeInv, NoLostWakeup, OnlyCallersListen
<1> QED
  BY <1>1, <1>2, <1>3, <1>4, <1>5, <1>6, <1>7, <1>8, <1>9, <1>10, <1>11, <1>12, <1>13 DEF Next

\* No goroutine in Resolve sleeps while the view could serve it, or once the
\* client is closed: every change it waits for closes the channel it holds.
THEOREM Wakeups == Spec => []NoLostWakeup
<1>1. Init => WakeInv
  BY DEF Init, WakeInv, NoLostWakeup, OnlyCallersListen
<1>2. WakeInv => NoLostWakeup
  BY DEF WakeInv
<1> QED
  BY <1>1, <1>2, TypeCorrect, WokenNext, PTL DEF Spec
=============================================================================
