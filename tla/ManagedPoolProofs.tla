--------------------------- MODULE ManagedPoolProofs ---------------------------
(***************************************************************************)
(* The safety of the managed pool, for any number of connections, targets, *)
(* policies and generations, shared or owned resolver, with and without a  *)
(* session hook.                                                           *)
(***************************************************************************)
EXTENDS ManagedPool, TLAPS

-----------------------------------------------------------------------------
(* What each goroutine leaves alone *)

\* A goroutine of pgx, which builds, borrows or returns connection c.
Conn(c) == Build(c) \/ Borrow(c)

\* A policy admits usable targets only.
LEMMA AdmittedAreUsable == Admitted \subseteq usable
BY DEF Admitted, Candidates, Leading

\* What happens in a slot leaves the resolver, the pool's life and the watcher alone.
LEMMA ConnFrame ==
    ASSUME NEW c \in Conns, Conn(c)
    PROVE  UNCHANGED <<resolverVars, life, watcher, unswept, dropped>>
<1>1. ASSUME Build(c)
      PROVE  UNCHANGED <<resolverVars, life, watcher, unswept, dropped>>
  BY <1>1 DEF Build, Construct, Configure, Register, CheckRegistered, ValidateConnect,
              Track, EndAttempt, EnterSession, Settle, ConstructorFails,
              AttemptFails, Deliver, watchVars
<1>2. ASSUME Borrow(c)
      PROVE  UNCHANGED <<resolverVars, life, watcher, unswept, dropped>>
  BY <1>2 DEF Borrow, Acquire, Prepare, PrepareFails, Release, AfterRelease, Return,
              Discard, watchVars
<1> QED
  BY <1>1, <1>2 DEF Conn

-----------------------------------------------------------------------------
(* Type correctness *)

\* Every step of the pool keeps the types of the resolver it uses.
LEMMA ResolverTypes ==
    ASSUME ResolverTypeOK, [Next]_vars
    PROVE  ResolverTypeOK'
<1> USE PoolAssumption
<1>1. CASE UNCHANGED resolverVars
  BY <1>1 DEF resolverVars, ResolverTypeOK
<1>2. CASE Reroutes
  <2>1. issued' \in Nat
    BY <1>2 DEF Reroutes, ResolverTypeOK
  <2> QED
    BY <1>2, <2>1 DEF Reroutes, Reroute, Registered, ResolverTypeOK
<1>3. ASSUME issued' = issued + 1, Shutdown
      PROVE  ResolverTypeOK'
  <2>1. issued' \in Nat
    BY <1>3 DEF ResolverTypeOK
  <2>2. channel' \in [Subscribers -> {"unused", "open", "closed"}]
    BY <1>3 DEF Shutdown, ResolverTypeOK
  <2> QED
    BY <1>3, <2>1, <2>2 DEF Shutdown, Registered, ResolverTypeOK
<1>4. CASE Join(Watcher) \/ Leave(Watcher) \/ TakeToken(Watcher)
  BY <1>4 DEF Join, Leave, TakeToken, ResolverTypeOK
<1>5. CASE Open
  BY <1>1, <1>3, <1>4, <1>5
     DEF Open, OpenSubscribes, OpenCreates, OpenFails, OpenWatches, Unsubscribe
<1>6. CASE Watch
  BY <1>1, <1>4, <1>6
     DEF Watch, WatcherStops, WatcherWakes, CollectAttempts, CancelObsolete,
         LockRoutes, Unlock, Sweep
<1>7. CASE Close
  BY <1>1, <1>3, <1>4, <1>7
     DEF Close, CloseCancels, CloseUnsubscribes, CloseReleases, CloseDrains, CloseEnds,
         Unsubscribe
<1>8. CASE ShutDown
  BY <1>3, <1>8 DEF ShutDown
<1>9. ASSUME NEW c \in Conns, Conn(c)
      PROVE  ResolverTypeOK'
  BY <1>1, <1>9, ConnFrame
<1>10. CASE UNCHANGED vars
  BY <1>1, <1>10 DEF vars
<1> QED
  BY <1>2, <1>5, <1>6, <1>7, <1>8, <1>9, <1>10 DEF Next, Conn

\* Destroying idle connections frees their slots and interrupts no attempt.
LEMMA DestroyIdleTypes ==
    ASSUME SlotTypeOK, DestroyIdle
    PROVE  /\ stage' \in [Conns -> Stage]
           /\ target' \in [Conns -> Targets \cup {NoTarget}]
           /\ Occupied' = Occupied \ IdleConns
           /\ \A c \in Conns : /\ target'[c] = NoTarget <=> stage'[c] \in {"none", "resolving"}
                               /\ stage'[c] \in Attempting <=> stage[c] \in Attempting
BY DEF SlotTypeOK, DestroyIdle, Occupied, IdleConns, Stage, Attempting

\* A constructor or borrower moves one slot between two stages, both or neither of
\* them stages of an attempt.
LEMMA MoveTypes ==
    ASSUME SlotTypeOK, NEW c \in Conns, NEW from, NEW to \in Stage, Moves(c, from, to),
           from \notin {"none", "resolving"}, to \notin {"none", "resolving"}
    PROVE  /\ stage' \in [Conns -> Stage]
           /\ target' \in [Conns -> Targets \cup {NoTarget}]
           /\ stale' \subseteq Occupied'
           /\ \A d \in Conns : target'[d] = NoTarget <=> stage'[d] \in {"none", "resolving"}
           /\ {d \in Conns : stage'[d] \in Attempting} =
                IF to \in Attempting THEN {d \in Conns : stage[d] \in Attempting} \cup {c}
                                     ELSE {d \in Conns : stage[d] \in Attempting} \ {c}
<1> USE DEF Moves, SlotTypeOK
<1>1. stage' \in [Conns -> Stage] /\ target' \in [Conns -> Targets \cup {NoTarget}]
  OBVIOUS
<1>2. \A d \in Conns : stage'[d] = IF d = c THEN to ELSE stage[d]
  OBVIOUS
<1>3. stale' \subseteq Occupied'
  BY <1>2 DEF Occupied
<1> QED
  BY <1>1, <1>2, <1>3

\* A constructor that fails frees its slot and ends its attempt.
LEMMA VacateTypes ==
    ASSUME SlotTypeOK, NEW c \in Conns, Vacate(c)
    PROVE  /\ stage' \in [Conns -> Stage]
           /\ target' \in [Conns -> Targets \cup {NoTarget}]
           /\ stale' \subseteq Occupied'
           /\ \A d \in Conns : target'[d] = NoTarget <=> stage'[d] \in {"none", "resolving"}
           /\ {d \in Conns : stage'[d] \in Attempting} =
                {d \in Conns : stage[d] \in Attempting} \ {c}
<1> USE DEF Vacate, SlotTypeOK
<1>1. stage' \in [Conns -> Stage] /\ target' \in [Conns -> Targets \cup {NoTarget}]
  BY DEF Stage
<1>2. \A d \in Conns : stage'[d] = IF d = c THEN "none" ELSE stage[d]
  OBVIOUS
<1>3. stale' \subseteq Occupied'
  BY <1>2 DEF Occupied
<1> QED
  BY <1>1, <1>2, <1>3 DEF Attempting

\* A constructor keeps the types of the slots,
LEMMA BuildTypes ==
    ASSUME PoolAssumption, ResolverTypeOK, SlotTypeOK, NEW c \in Conns, Build(c)
    PROVE  SlotTypeOK'
<1> USE DEF Stage, Connecting, Initializing, Borrowing, Attempting
<1>1. CASE Construct(c)
  BY <1>1 DEF Construct, Moves, SlotTypeOK, Occupied
<1>2. CASE Configure(c)
  BY <1>2, AdmittedAreUsable
     DEF Configure, SlotTypeOK, ResolverTypeOK, Occupied, PoolAssumption
<1>3. CASE Register(c)
  BY <1>3, MoveTypes DEF Register, SlotTypeOK
<1>4. CASE CheckRegistered(c)
  BY <1>4, MoveTypes DEF CheckRegistered, SlotTypeOK, Moves
<1>5. CASE ValidateConnect(c) \/ Track(c)
  BY <1>5, MoveTypes DEF ValidateConnect, Track, SlotTypeOK, Moves
<1>6. CASE EndAttempt(c)
  BY <1>6, MoveTypes DEF EndAttempt, Forget, SlotTypeOK
<1>7. CASE EnterSession(c) \/ Settle(c)
  BY <1>7, MoveTypes DEF EnterSession, Settle, SlotTypeOK, Moves
<1>8. CASE ConstructorFails(c)
  BY <1>8, VacateTypes DEF ConstructorFails, SlotTypeOK
<1>9. CASE AttemptFails(c)
  BY <1>9, VacateTypes DEF AttemptFails, Forget, SlotTypeOK
<1>10. CASE Deliver(c)
  BY <1>10, MoveTypes, VacateTypes DEF Deliver, SlotTypeOK, Moves
<1> QED
  BY <1>1, <1>2, <1>3, <1>4, <1>5, <1>6, <1>7, <1>8, <1>9, <1>10 DEF Build

\* and so does a borrower,
LEMMA BorrowTypes ==
    ASSUME SlotTypeOK, NEW c \in Conns, Borrow(c)
    PROVE  SlotTypeOK'
<1> USE DEF Stage, Connecting, Initializing, Borrowing, Attempting
<1>1. CASE Acquire(c)
  <2>1. Moves(c, "idle", "acquired") /\ connecting' = connecting
    BY <1>1 DEF Acquire
  <2>2. connecting' = {d \in Conns : stage'[d] \in Attempting}
    BY <2>1 DEF Moves, SlotTypeOK
  <2> QED
    BY <2>1, <2>2, MoveTypes DEF SlotTypeOK
<1>2. CASE Prepare(c) \/ PrepareFails(c)
  BY <1>2, MoveTypes DEF Prepare, PrepareFails, SlotTypeOK, Moves
<1>3. CASE Release(c) \/ AfterRelease(c)
  BY <1>3, MoveTypes DEF Release, AfterRelease, SlotTypeOK, Moves
<1>4. CASE Return(c)
  BY <1>4, MoveTypes, VacateTypes DEF Return, SlotTypeOK, Moves
<1>5. CASE Discard(c)
  BY <1>5, VacateTypes DEF Discard, SlotTypeOK
<1> QED
  BY <1>1, <1>2, <1>3, <1>4, <1>5 DEF Borrow

\* Outside the slots' own goroutines only Reset and Close touch them.
LEMMA SlotsElsewhere ==
    ASSUME [Next]_vars
    PROVE  \/ UNCHANGED <<connVars, connecting>>
           \/ Unlock \/ CloseDrains
           \/ \E c \in Conns : Conn(c)
<1> USE DEF poolVars
<1>1. CASE Reroutes \/ ShutDown \/ Open \/ UNCHANGED vars
  BY <1>1 DEF Reroutes, ShutDown, Open, OpenSubscribes, OpenCreates, OpenFails,
              OpenWatches, vars
<1>2. CASE Watch
  BY <1>2 DEF Watch, WatcherStops, WatcherWakes, CollectAttempts, CancelObsolete,
              LockRoutes, Sweep
<1>3. CASE Close
  BY <1>3 DEF Close, CloseCancels, CloseUnsubscribes, CloseReleases, CloseEnds
<1> QED
  BY <1>1, <1>2, <1>3 DEF Next, Conn

\* and so does every step.
LEMMA SlotTypes ==
    ASSUME ResolverTypeOK, SlotTypeOK, [Next]_vars
    PROVE  SlotTypeOK'
<1>1. CASE UNCHANGED <<connVars, connecting>>
  BY <1>1 DEF connVars, SlotTypeOK, Occupied
<1>2. CASE Unlock
  <2>1. CASE ~dropped
    BY <1>2, <2>1 DEF Unlock, connVars, SlotTypeOK, Occupied
  <2>2. CASE dropped
    BY <1>2, <2>2, DestroyIdleTypes DEF Unlock, Reset, SlotTypeOK
  <2> QED
    BY <2>1, <2>2
<1>3. CASE CloseDrains
  BY <1>3, DestroyIdleTypes DEF CloseDrains, SlotTypeOK
<1>4. ASSUME NEW c \in Conns, Conn(c)
      PROVE  SlotTypeOK'
  BY <1>4, BuildTypes, BorrowTypes, PoolAssumption DEF Conn
<1> QED
  BY <1>1, <1>2, <1>3, <1>4, SlotsElsewhere

\* How a slot's goroutine moves the tables that p.mu guards.
LEMMA ConnTables ==
    ASSUME SlotTypeOK, WatcherTypeOK, NEW c \in Conns, Conn(c)
    PROVE  /\ routes \subseteq routes'
           /\ routes' = routes \/ Track(c)
           /\ \/ connecting' = connecting \cup {c} /\ unchecked' = unchecked
                 /\ cancelled' = cancelled
              \/ connecting' = connecting /\ unchecked' = unchecked
                 /\ cancelled \subseteq cancelled' /\ cancelled' \subseteq connecting
              \/ Forget(c)
<1>1. ASSUME Borrow(c)
      PROVE  UNCHANGED <<routes, connecting, cancelled, unchecked>>
  BY <1>1 DEF Borrow, Acquire, Prepare, PrepareFails, Release, AfterRelease, Return,
              Discard, watchVars
<1>2. CASE CheckRegistered(c)
  <2>1. stage[c] \in Attempting
    BY <1>2 DEF CheckRegistered, Moves, Attempting
  <2> QED
    BY <1>2, <2>1 DEF CheckRegistered, watchVars, SlotTypeOK, WatcherTypeOK
<1>3. CASE Build(c) /\ ~CheckRegistered(c)
  BY <1>3 DEF Build, Construct, Configure, Register, ValidateConnect,
              Track, EndAttempt, EnterSession, Settle, ConstructorFails,
              AttemptFails, Deliver, watchVars, Forget, WatcherTypeOK
<1> QED
  BY <1>1, <1>2, <1>3 DEF Conn, WatcherTypeOK

\* Every step keeps the types of the watcher.
LEMMA WatcherTypes ==
    ASSUME ResolverTypeOK, SlotTypeOK, WatcherTypeOK, [Next]_vars
    PROVE  WatcherTypeOK'
<1> USE DEF WatcherTypeOK
<1>1. CASE Reroutes \/ ShutDown \/ UNCHANGED vars
  BY <1>1 DEF Reroutes, ShutDown, vars, poolVars, watchVars
<1>2. CASE Open
  BY <1>2 DEF Open, OpenSubscribes, OpenCreates, OpenFails, OpenWatches, watchVars
<1>3. CASE Watch
  <2>1. CASE WatcherStops \/ WatcherWakes \/ CollectAttempts
    BY <2>1 DEF WatcherStops, WatcherWakes, CollectAttempts
  <2>2. ASSUME NEW c \in Conns, CancelObsolete(c)
        PROVE  WatcherTypeOK'
    BY <2>2 DEF CancelObsolete
  <2>3. CASE LockRoutes
    BY <2>3 DEF LockRoutes
  <2>4. ASSUME NEW t \in Targets, Sweep(t)
        PROVE  WatcherTypeOK'
    BY <2>4 DEF Sweep
  <2>5. CASE Unlock
    BY <2>5 DEF Unlock
  <2> QED
    BY <1>3, <2>1, <2>2, <2>3, <2>4, <2>5 DEF Watch
<1>4. CASE Close
  <2>1. CASE CloseEnds
    BY <2>1 DEF CloseEnds, watchVars, Unlocked
  <2>2. CASE ~CloseEnds
    BY <1>4, <2>2 DEF Close, CloseCancels, CloseUnsubscribes, CloseReleases, CloseDrains,
                      watchVars
  <2> QED
    BY <2>1, <2>2
<1>5. ASSUME NEW c \in Conns, Conn(c)
      PROVE  WatcherTypeOK'
  <2>1. UNCHANGED <<life, watcher, unswept, dropped>>
    BY <1>5, ConnFrame
  <2>2. routes \subseteq routes' /\ routes' \subseteq Targets
    <3>1. CASE Track(c)
      BY <3>1, AdmittedAreUsable DEF Track, ResolverTypeOK
    <3> QED
      BY <1>5, <3>1, ConnTables
  <2>3. /\ unchecked' \subseteq connecting' /\ cancelled' \subseteq connecting'
        /\ unchecked' \subseteq unchecked
    BY <1>5, ConnTables DEF Forget
  <2> QED
    BY <2>1, <2>2, <2>3
<1> QED
  BY <1>1, <1>2, <1>3, <1>4, <1>5 DEF Next, Conn

\* Before Open the pool is well typed.
LEMMA InitTypes == Init => PoolTypeOK
<1> SUFFICES ASSUME Init PROVE PoolTypeOK
  OBVIOUS
<1> USE DEF Init, ResolverInit
<1>1. ResolverTypeOK
  BY DEF ResolverTypeOK
<1>2. WatcherTypeOK
  BY DEF WatcherTypeOK
<1>3. SlotTypeOK
  BY DEF SlotTypeOK, Stage, Attempting, Occupied
<1> QED
  BY <1>1, <1>2, <1>3 DEF PoolTypeOK

\* Every step keeps the types of the pool.
LEMMA StepTypes == PoolTypeOK /\ [Next]_vars => PoolTypeOK'
BY ResolverTypes, WatcherTypes, SlotTypes DEF PoolTypeOK

\* Every reachable state of the pool is well typed: an attempt is registered in
\* p.connecting exactly from beginConnectionAttempt to endConnectionAttempt,
\* whichever way the constructor ends.
THEOREM PoolTypeCorrect == Spec => []PoolTypeOK
BY InitTypes, StepTypes, PTL DEF Spec

-----------------------------------------------------------------------------
(* Open and Close *)

\* A pool that is open hears of every change; before it is created and after it is
\* closed it has nothing.
Lifetime ==
    /\ life = "unopened" => channel[Watcher] = "unused"
    /\ Alive /\ life # "unopened" => channel[Watcher] = "open" \/ shut
    /\ shut => usable = {}
    /\ life \in {"unopened", "subscribed", "closed"} => routes = {} /\ Occupied = {}
    /\ life \in {"draining", "closed"} => watcher = "stopped"

\* Only Open and Close move the pool through its life.
LEMMA LifeStep ==
    ASSUME [Next]_vars
    PROVE  life' = life \/ Open \/ Close
BY ConnFrame DEF Next, Conn, Reroutes, ShutDown, poolVars, vars, Watch, WatcherStops,
    WatcherWakes, CollectAttempts, CancelObsolete, LockRoutes, Sweep, Unlock

\* The first thing that happens in an empty slot is a constructor.
LEMMA OnlyConstructFirst ==
    ASSUME NEW c \in Conns, stage[c] = "none", Conn(c)
    PROVE  Construct(c)
<1>1. CASE Build(c)
  BY <1>1 DEF Build, Configure, Register, CheckRegistered, ValidateConnect, Track,
              EndAttempt, EnterSession, Settle, ConstructorFails, AttemptFails,
              Deliver, Moves, Waiting
<1>2. CASE Borrow(c)
  BY <1>2 DEF Borrow, Acquire, Prepare, PrepareFails, Release, AfterRelease, Return,
              Discard, Moves
<1> QED
  BY <1>1, <1>2 DEF Conn

\* Every step keeps what the stages of Open and Close allow to run.
LEMMA LifetimeStep ==
    ASSUME PoolTypeOK, Lifetime, [Next]_vars
    PROVE  Lifetime'
<1> USE DEF PoolTypeOK
<1>1. CASE UNCHANGED vars
  BY <1>1 DEF vars, poolVars, watchVars, connVars, resolverVars, Lifetime, Alive, Occupied
<1>2. CASE Reroutes \/ ShutDown
  BY <1>2, PoolAssumption
     DEF Reroutes, ShutDown, Reroute, Shutdown, poolVars, watchVars, connVars,
         Lifetime, Alive, Occupied, ResolverTypeOK
<1>3. CASE Open
  BY <1>3, PoolAssumption
     DEF Open, OpenSubscribes, OpenCreates, OpenFails, OpenWatches, Join, Leave,
         Shutdown, Unsubscribe, resolverVars, watchVars, connVars, Lifetime, Alive,
         Occupied, ResolverTypeOK, WatcherTypeOK
<1>4. CASE Watch
  <2>1. life' = life /\ (Occupied = {} => Occupied' = {}) /\ routes' \subseteq routes
    <3>1. CASE Unlock
      <4>1. CASE dropped
        BY <3>1, <4>1, DestroyIdleTypes DEF Unlock, Reset
      <4>2. CASE ~dropped
        BY <3>1, <4>2 DEF Unlock, connVars, Occupied
      <4> QED
        BY <3>1, <4>1, <4>2 DEF Unlock
    <3>2. CASE ~Unlock
      BY <1>4, <3>2 DEF Watch, WatcherStops, WatcherWakes, CollectAttempts,
                        CancelObsolete, LockRoutes, Sweep, connVars, Occupied
    <3> QED
      BY <3>1, <3>2
  <2>2. UNCHANGED <<usable, shut, channel>>
    BY <1>4 DEF Watch, WatcherStops, WatcherWakes, CollectAttempts, CancelObsolete,
                LockRoutes, Sweep, Unlock, TakeToken, resolverVars
  <2>3. watcher = "stopped" => FALSE
    BY <1>4 DEF Watch, WatcherStops, WatcherWakes, CollectAttempts, CancelObsolete,
                LockRoutes, Sweep, Unlock, WatcherTypeOK
  <2> QED
    BY <2>1, <2>2, <2>3 DEF Lifetime, Alive
<1>5. CASE Close
  <2>1. CASE CloseDrains
    BY <2>1, DestroyIdleTypes DEF CloseDrains, Lifetime, Alive, resolverVars, watchVars
  <2>2. CASE ~CloseDrains
    BY <1>5, <2>2, PoolAssumption
       DEF Close, CloseCancels, CloseUnsubscribes, CloseReleases, CloseEnds, Leave,
           Shutdown, Unsubscribe, resolverVars, watchVars, connVars, Lifetime, Alive,
           Occupied
  <2> QED
    BY <2>1, <2>2
<1>6. ASSUME NEW c \in Conns, Conn(c)
      PROVE  Lifetime'
  <2>1. life \notin {"unopened", "subscribed", "closed"}
    <3>1. SUFFICES ASSUME Occupied = {}, life \in {"unopened", "subscribed", "closed"}
                   PROVE  FALSE
      BY DEF Lifetime
    <3>2. stage[c] = "none"
      BY <3>1 DEF Occupied
    <3> QED
      BY <1>6, <3>1, <3>2, OnlyConstructFirst DEF Construct, Serving
  <2> QED
    BY <1>6, <2>1, ConnFrame DEF Lifetime, Alive, resolverVars
<1> QED
  BY <1>1, <1>2, <1>3, <1>4, <1>5, <1>6 DEF Next, Conn

\* Before Open nothing runs.
LEMMA InitLifetime == Init => Lifetime
BY PoolAssumption DEF Init, ResolverInit, Lifetime, Alive, Occupied

\* Close returns only when routes, connections, constructors and the watcher are
\* gone, and nothing starts again behind it.
THEOREM ClosedPool == Spec => []ClosedPoolHoldsNothing
<1>1. PoolTypeOK /\ Lifetime => ClosedPoolHoldsNothing
  BY DEF Lifetime, ClosedPoolHoldsNothing, PoolTypeOK, SlotTypeOK, Attempting, Occupied
<1> QED
  BY <1>1, InitTypes, StepTypes, InitLifetime, LifetimeStep, PTL DEF Spec

-----------------------------------------------------------------------------
(* What the watcher does not know yet, it has been told *)

Warned == Watcher \in pending \/ watcher = "woken"

\* A pool that has ended stays so.
LEMMA AliveBefore ==
    ASSUME PoolTypeOK, [Next]_vars, Alive'
    PROVE  Alive
BY LifeStep DEF Open, OpenSubscribes, OpenCreates, OpenFails, OpenWatches,
    Close, CloseCancels, CloseUnsubscribes, CloseReleases, CloseDrains, CloseEnds,
    Alive, PoolTypeOK, WatcherTypeOK

\* While the pool is alive, these are the steps that touch its tables.
LEMMA AliveStep ==
    ASSUME PoolTypeOK, [Next]_vars, Alive'
    PROVE  \/ /\ UNCHANGED <<unchecked, unswept, dropped, routes, connecting, cancelled,
                            connVars>>
              /\ watcher' = watcher \/ watcher \in {"none", "waiting"}
           \/ CollectAttempts \/ LockRoutes \/ Unlock
           \/ \E c \in Conns : CancelObsolete(c) \/ Conn(c)
           \/ \E t \in Targets : Sweep(t)
<1> USE DEF watchVars
<1>1. CASE Reroutes \/ ShutDown \/ UNCHANGED vars
  BY <1>1 DEF Reroutes, ShutDown, poolVars, vars
<1>2. CASE Open
  BY <1>2 DEF Open, OpenSubscribes, OpenCreates, OpenFails, OpenWatches, Alive,
              PoolTypeOK, WatcherTypeOK
<1>3. CASE Watch
  BY <1>3 DEF Watch, WatcherStops, WatcherWakes
<1>4. CASE Close
  BY <1>4 DEF Close, CloseCancels, CloseUnsubscribes, CloseReleases, CloseDrains,
              CloseEnds, Alive
<1> QED
  BY <1>1, <1>2, <1>3, <1>4 DEF Next, Conn

\* Before Open has subscribed, nothing is there.
LEMMA NothingBeforeOpen ==
    ASSUME PoolTypeOK, Lifetime, [Next]_vars, Alive', life = "unopened"
    PROVE  routes' = {} /\ connecting' = {}
<1>1. routes = {} /\ \A c \in Conns : stage[c] = "none"
  BY DEF Lifetime, Occupied
<1>2. connecting = {} /\ unchecked = {} /\ watcher = "none"
  BY <1>1 DEF PoolTypeOK, SlotTypeOK, WatcherTypeOK, Attempting
<1>3. \A c \in Conns : ~Conn(c)
  BY <1>1, OnlyConstructFirst DEF Construct, Serving
<1> QED
  BY <1>1, <1>2, <1>3, AliveStep DEF CollectAttempts, LockRoutes, Unlock, CancelObsolete, Sweep

\* A change of routes leaves a token for the watcher of an open pool.
LEMMA RouteChangesWarn ==
    ASSUME PoolTypeOK, Lifetime, [Next]_vars, Alive', life # "unopened"
    PROVE  UNCHANGED usable \/ Warned'
<1>1. CASE Reroutes \/ ShutDown
  <2>1. Watcher \in Registered
    BY <1>1, AliveBefore, PoolAssumption
       DEF Reroutes, ShutDown, Shutdown, Lifetime, Registered
  <2> QED
    BY <1>1, <2>1 DEF Reroutes, ShutDown, Shutdown, Reroute, Warned
<1>2. CASE Open
  BY <1>2 DEF Open, OpenSubscribes, OpenCreates, OpenFails, OpenWatches, resolverVars, Alive
<1>3. CASE Close
  BY <1>3 DEF Close, CloseCancels, CloseUnsubscribes, CloseReleases, CloseDrains,
              CloseEnds, resolverVars, Alive
<1>4. CASE Watch
  BY <1>4 DEF Watch, WatcherStops, WatcherWakes, CollectAttempts, CancelObsolete,
              LockRoutes, Sweep, Unlock, TakeToken, resolverVars
<1>5. ASSUME NEW c \in Conns, Conn(c)
      PROVE  UNCHANGED usable
  BY <1>5, ConnFrame DEF resolverVars
<1> QED
  BY <1>1, <1>2, <1>3, <1>4, <1>5 DEF Next, Conn, vars, resolverVars

\* A warning stays until the watcher acts on it.
LEMMA WarnedUntilCollected ==
    ASSUME PoolTypeOK, [Next]_vars, Warned, Alive'
    PROVE  Warned' \/ CollectAttempts
<1>1. CASE Reroutes \/ ShutDown \/ UNCHANGED vars
  BY <1>1 DEF Reroutes, ShutDown, Reroute, Shutdown, vars, poolVars, watchVars,
              resolverVars, Warned
<1>2. CASE Open
  BY <1>2 DEF Open, OpenSubscribes, OpenCreates, OpenFails, OpenWatches, Join,
              resolverVars, watchVars, Alive, Warned, PoolTypeOK, WatcherTypeOK
<1>3. CASE Close
  BY <1>3 DEF Close, CloseCancels, CloseUnsubscribes, CloseReleases, CloseDrains,
              CloseEnds, resolverVars, Alive
<1>4. CASE Watch
  BY <1>4 DEF Watch, WatcherStops, WatcherWakes, CollectAttempts, CancelObsolete,
              LockRoutes, Sweep, Unlock, TakeToken, resolverVars, Warned
<1>5. ASSUME NEW c \in Conns, Conn(c)
      PROVE  Warned'
  BY <1>5, ConnFrame DEF resolverVars, Warned
<1> QED
  BY <1>1, <1>2, <1>3, <1>4, <1>5 DEF Next, Conn

-----------------------------------------------------------------------------
(* Routes *)

\* A route that is no longer eligible has still to be looked at.
RoutesWillBeSwept ==
    Alive => \A t \in routes :
        t \in Admitted \/ Warned \/ watcher = "cancelling" \/ t \in unswept

\* No step leaves an ineligible route behind the watcher's back.
LEMMA SweptStep ==
    ASSUME PoolTypeOK, Lifetime, RoutesWillBeSwept, [Next]_vars
    PROVE  RoutesWillBeSwept'
<1> SUFFICES ASSUME Alive', NEW t \in routes', t \notin Admitted', ~Warned',
                    watcher' # "cancelling", t \notin unswept'
             PROVE  FALSE
  BY DEF RoutesWillBeSwept
<1>1. Alive
  BY AliveBefore
<1>2. CASE life = "unopened"
  BY <1>2, NothingBeforeOpen
<1>3. CASE life # "unopened"
  <2>1. Admitted' = Admitted
    BY <1>3, RouteChangesWarn DEF Admitted
  <2>2. ~Warned
    BY WarnedUntilCollected DEF CollectAttempts
  <2>3. t \in routes => watcher = "cancelling" \/ t \in unswept
    BY <1>1, <2>1, <2>2 DEF RoutesWillBeSwept
  <2>4. CASE LockRoutes \/ Unlock \/ CollectAttempts
    BY <2>3, <2>4 DEF LockRoutes, Unlock, CollectAttempts, PoolTypeOK, WatcherTypeOK
  <2>5. ASSUME NEW u \in Targets, Sweep(u)
        PROVE  FALSE
    BY <2>1, <2>3, <2>5 DEF Sweep, PoolTypeOK, WatcherTypeOK
  <2>6. ASSUME NEW c \in Conns, Conn(c)
        PROVE  FALSE
    BY <2>1, <2>3, <2>6, ConnFrame, ConnTables DEF Track, PoolTypeOK
  <2>7. ASSUME NEW c \in Conns, CancelObsolete(c)
        PROVE  FALSE
    BY <2>7 DEF CancelObsolete
  <2> QED
    BY <2>3, <2>4, <2>5, <2>6, <2>7, AliveStep DEF PoolTypeOK, WatcherTypeOK
<1> QED
  BY <1>2, <1>3

\* Before Open there are no routes.
LEMMA InitSwept == Init => RoutesWillBeSwept
BY DEF Init, RoutesWillBeSwept

\* Once the watcher has dealt with what it was told, p.routes holds eligible routes
\* only, however registrations interleave with its passes.
THEOREM Routes == Spec => []QuietRoutesAreEligible
<1>1. PoolTypeOK /\ RoutesWillBeSwept => QuietRoutesAreEligible
  BY DEF RoutesWillBeSwept, QuietRoutesAreEligible, Quiet, Warned, PoolTypeOK, WatcherTypeOK
<1> QED
  BY <1>1, InitTypes, StepTypes, InitLifetime, LifetimeStep, InitSwept, SweptStep,
     PTL DEF Spec

-----------------------------------------------------------------------------
(* Attempts *)

Unverified == {"registered", "sessionRegistered"}

\* An attempt at an ineligible target is cancelled, or someone will look at it: its
\* own goroutine, or the watcher.
AttemptsWillBeCancelled ==
    Alive => \A c \in connecting :
        \/ target[c] \in Admitted \/ c \in cancelled \/ stage[c] \in Unverified
        \/ Warned \/ c \in unchecked

\* What a slot's goroutine does to its own attempt and to those of others.
LEMMA AttemptMoves ==
    ASSUME PoolTypeOK, NEW c \in Conns, Conn(c), NEW d \in connecting'
    PROVE  \/ /\ d \in connecting /\ target'[d] = target[d]
              /\ stage[d] \in Unverified => stage'[d] \in Unverified
              /\ d \in cancelled => d \in cancelled'
              /\ d \in unchecked => d \in unchecked'
           \/ stage'[d] \in Unverified
           \/ d \in cancelled' \/ target'[d] \in Admitted
<1> USE DEF PoolTypeOK, SlotTypeOK, WatcherTypeOK, Unverified
<1>1. CASE d # c
  BY <1>1
     DEF Conn, Build, Borrow, Construct, Configure, Register, CheckRegistered,
         ValidateConnect, Track, EndAttempt, EnterSession, Settle, ConstructorFails,
         AttemptFails, Deliver, Acquire, Prepare, PrepareFails, Release, AfterRelease,
         Return, Discard, Moves, Vacate, Forget, watchVars
<1>2. CASE d = c /\ Build(c)
  BY <1>2
     DEF Build, Construct, Configure, Register, CheckRegistered, ValidateConnect, Track,
         EndAttempt, EnterSession, Settle, ConstructorFails, AttemptFails, Deliver,
         Moves, Forget, Attempting, watchVars
<1>3. CASE d = c /\ Borrow(c)
  BY <1>3
     DEF Borrow, Acquire, Prepare, PrepareFails, Release, AfterRelease, Return, Discard,
         Moves, Attempting
<1> QED
  BY <1>1, <1>2, <1>3 DEF Conn

\* No step leaves an obsolete attempt behind the watcher's back.
LEMMA AttemptsStep ==
    ASSUME PoolTypeOK, Lifetime, AttemptsWillBeCancelled, [Next]_vars
    PROVE  AttemptsWillBeCancelled'
<1> SUFFICES ASSUME Alive', NEW d \in connecting', target'[d] \notin Admitted',
                    d \notin cancelled', stage'[d] \notin Unverified, ~Warned',
                    d \notin unchecked'
             PROVE  FALSE
  BY DEF AttemptsWillBeCancelled
<1>1. Alive
  BY AliveBefore
<1>2. CASE life = "unopened"
  BY <1>2, NothingBeforeOpen
<1>3. CASE life # "unopened"
  <2>1. Admitted' = Admitted
    BY <1>3, RouteChangesWarn DEF Admitted
  <2>2. ~Warned \/ CollectAttempts
    BY WarnedUntilCollected
  <2>3. ~CollectAttempts
    BY DEF CollectAttempts
  <2>4. ASSUME d \in connecting, target'[d] = target[d], d \in cancelled => d \in cancelled',
               stage[d] \in Unverified => stage'[d] \in Unverified
        PROVE  d \in unchecked
    BY <1>1, <2>1, <2>2, <2>3, <2>4 DEF AttemptsWillBeCancelled
  <2>5. ASSUME NEW c \in Conns, Conn(c)
        PROVE  FALSE
    BY <2>1, <2>4, <2>5, AttemptMoves
  <2>6. ASSUME NEW c \in Conns, CancelObsolete(c)
        PROVE  FALSE
    BY <2>1, <2>4, <2>6 DEF CancelObsolete, connVars
  <2>7. CASE Unlock
    <3>1. d \in unchecked
      BY <2>4, <2>7, DestroyIdleTypes
         DEF Unlock, Reset, DestroyIdle, IdleConns, connVars, PoolTypeOK, SlotTypeOK,
             Attempting
    <3> QED
      BY <2>7, <3>1 DEF Unlock
  <2>8. ASSUME NEW t \in Targets, Sweep(t)
        PROVE  FALSE
    BY <2>4, <2>8 DEF Sweep, connVars
  <2>9. CASE LockRoutes
    BY <2>4, <2>9 DEF LockRoutes, connVars
  <2> QED
    BY <2>3, <2>4, <2>5, <2>6, <2>7, <2>8, <2>9, AliveStep DEF connVars
<1> QED
  BY <1>2, <1>3

\* Before Open there are no attempts.
LEMMA InitAttempts == Init => AttemptsWillBeCancelled
BY DEF Init, AttemptsWillBeCancelled

\* Once the watcher has dealt with what it was told, no attempt runs against a target
\* that is not eligible, on whichever side of the notification it registered.
THEOREM Attempts == Spec => []ObsoleteAttemptsAreCancelled
<1>1. PoolTypeOK /\ AttemptsWillBeCancelled => ObsoleteAttemptsAreCancelled
  BY DEF AttemptsWillBeCancelled, ObsoleteAttemptsAreCancelled, Quiet, Warned, Unverified,
         PoolTypeOK, WatcherTypeOK
<1> QED
  BY <1>1, InitTypes, StepTypes, InitLifetime, LifetimeStep, InitAttempts, AttemptsStep,
     PTL DEF Spec

-----------------------------------------------------------------------------
(* Connections *)

\* A connection's route is tracked, or a Reset has condemned it or is about to.
ConnectionsAreTracked ==
    \A c \in Conns : stage[c] \in Established =>
        target[c] \in routes \/ c \in stale \/ dropped

\* A connection is established by Track, and keeps its target and its mark.
LEMMA EstablishedMoves ==
    ASSUME PoolTypeOK, NEW c \in Conns, Conn(c), NEW d \in Conns,
           stage'[d] \in Established
    PROVE  \/ /\ stage[d] \in Established /\ target'[d] = target[d]
              /\ d \in stale => d \in stale'
           \/ target'[d] \in routes'
<1> USE DEF PoolTypeOK, SlotTypeOK, Established, Initializing, Borrowing
<1>1. CASE d # c
  BY <1>1
     DEF Conn, Build, Borrow, Construct, Configure, Register, CheckRegistered,
         ValidateConnect, Track, EndAttempt, EnterSession, Settle, ConstructorFails,
         AttemptFails, Deliver, Acquire, Prepare, PrepareFails, Release, AfterRelease,
         Return, Discard, Moves, Vacate
<1>2. CASE d = c /\ Build(c)
  BY <1>2
     DEF Build, Construct, Configure, Register, CheckRegistered, ValidateConnect, Track,
         EndAttempt, EnterSession, Settle, ConstructorFails, AttemptFails, Deliver,
         Moves, Vacate
<1>3. CASE d = c /\ Borrow(c)
  BY <1>3
     DEF Borrow, Acquire, Prepare, PrepareFails, Release, AfterRelease, Return, Discard,
         Moves, Vacate
<1> QED
  BY <1>1, <1>2, <1>3 DEF Conn

\* No step leaves a connection that neither p.routes nor a mark tells of.
LEMMA TrackedStep ==
    ASSUME PoolTypeOK, Lifetime, ConnectionsAreTracked, [Next]_vars
    PROVE  ConnectionsAreTracked'
<1> SUFFICES ASSUME NEW d \in Conns, stage'[d] \in Established,
                    target'[d] \notin routes', d \notin stale', ~dropped'
             PROVE  FALSE
  BY DEF ConnectionsAreTracked
<1>1. ASSUME stage'[d] = stage[d], target'[d] = target[d], d \in stale => d \in stale'
      PROVE  target[d] \in routes \/ dropped
  BY <1>1 DEF ConnectionsAreTracked
<1>2. CASE UNCHANGED <<connVars, routes, dropped>>
  BY <1>1, <1>2 DEF connVars
<1>3. ASSUME NEW t \in Targets, Sweep(t)
      PROVE  FALSE
  BY <1>1, <1>3 DEF Sweep, connVars
<1>4. CASE Unlock
  <2>1. CASE dropped
    <3>1. stage'[d] = IF d \in IdleConns THEN "none" ELSE stage[d]
      BY <1>4, <2>1 DEF Unlock, Reset, DestroyIdle
    <3>2. d \notin IdleConns /\ stage[d] # "none"
      BY <3>1 DEF Established, Initializing, Borrowing
    <3> QED
      BY <1>4, <2>1, <3>2 DEF Unlock, Reset, Occupied
  <2>2. CASE ~dropped
    BY <1>1, <1>4, <2>2 DEF Unlock, connVars
  <2> QED
    BY <2>1, <2>2
<1>5. CASE CloseDrains
  <2>1. stage'[d] = stage[d] /\ target'[d] = target[d] /\ (d \in stale => d \in stale')
    BY <1>5 DEF CloseDrains, DestroyIdle, IdleConns, Established, Initializing, Borrowing
  <2> QED
    BY <1>1, <1>5, <2>1 DEF CloseDrains, watchVars
<1>6. CASE CloseEnds
  BY <1>6 DEF CloseEnds, Occupied, connVars, Established, Initializing, Borrowing
<1>7. ASSUME NEW c \in Conns, Conn(c)
      PROVE  FALSE
  BY <1>7, EstablishedMoves, ConnFrame, ConnTables DEF ConnectionsAreTracked, PoolTypeOK
<1>8. CASE Reroutes \/ ShutDown \/ Open \/ UNCHANGED vars
  BY <1>2, <1>8 DEF Reroutes, ShutDown, Open, OpenSubscribes, OpenCreates, OpenFails,
                    OpenWatches, vars, poolVars, watchVars
<1>9. CASE Watch
  BY <1>2, <1>3, <1>4, <1>9 DEF Watch, WatcherStops, WatcherWakes, CollectAttempts,
                                CancelObsolete, LockRoutes
<1>10. CASE Close
  BY <1>2, <1>5, <1>6, <1>10 DEF Close, CloseCancels, CloseUnsubscribes, CloseReleases,
                                 watchVars
<1> QED
  BY <1>7, <1>8, <1>9, <1>10 DEF Next, Conn

\* Before Open there are no connections.
LEMMA InitTracked == Init => ConnectionsAreTracked
BY DEF Init, ConnectionsAreTracked, Established, Initializing, Borrowing

\* Once the watcher has dealt with what it was told, every connection is to an eligible
\* target or is destroyed when it is returned: no constructor that finishes around a
\* Reset escapes both.
THEOREM Connections == Spec => []ConnectionsAreCurrentOrCondemned
<1>1. PoolTypeOK /\ RoutesWillBeSwept /\ ConnectionsAreTracked
        => ConnectionsAreCurrentOrCondemned
  BY DEF RoutesWillBeSwept, ConnectionsAreTracked, ConnectionsAreCurrentOrCondemned, Quiet,
         Warned, PoolTypeOK, WatcherTypeOK
<1> QED
  BY <1>1, InitTypes, StepTypes, InitLifetime, LifetimeStep, InitSwept, SweptStep,
     InitTracked, TrackedStep, PTL DEF Spec
=============================================================================
