------------------------- MODULE DiscoveryLoopsProofs -------------------------
(***************************************************************************)
(* Theorems about DiscoveryLoops: the goroutines' steps are steps of the   *)
(* client, and their timers and sleeps agree with its view, for every set  *)
(* of snapshots, for every bound and for all reconnect delays.             *)
(***************************************************************************)
EXTENDS DiscoveryLoops, DiscoveryClientProofs

USE ReconnectAssumption, LoopAssumption, TopologyAssumption, ClientAssumption

-----------------------------------------------------------------------------
(* Every step is a critical section of the client *)

\* What LoopTypeOK needs to be inductive: a snapshot is applied under a recent
\* reading of the clock, and a stream that failed has an error that ends streams.
LoopInv ==
    /\ LoopTypeOK
    /\ \A m \in inbox : m.readAt \in Readings
    /\ phase = "failed" => failure \in StreamErrors

\* The two goroutines of the client that wait for changes, and are no resolvers.
LEMMA LoopGoroutines ==
    /\ ExpiryLoop \in Goroutines \ Resolvers
    /\ StartupWait \in Goroutines \ Resolvers
    /\ ExpiryLoop # StartupWait
  BY DEF ExpiryLoop, StartupWait

\* What watch does with a snapshot is one critical section of the client.
LEMMA ApplyStep ==
    ASSUME LoopInv, Apply
    PROVE  Next \/ UNCHANGED vars
<1>1. PICK m \in inbox :
         \/ Accept(m.snapshot, m.readAt) \/ AcceptOlderWithdrawals(m.snapshot, m.readAt)
         \/ UNCHANGED vars
         \/ RejectSnapshot(m.snapshot, m.readAt)
  BY DEF Apply
<1>2. m.snapshot \in Snapshots /\ m.readAt \in Readings
  BY DEF LoopInv, LoopTypeOK
<1> QED
  BY <1>1, <1>2 DEF Next

\* So is what any goroutine does, as far as the view can tell.
LEMMA LoopStepIsClientStep ==
    ASSUME LoopInv, [LoopNext]_loopVars
    PROVE  [Next]_vars
<1>1. CASE UNCHANGED loopVars
  BY <1>1 DEF loopVars
<1>2. CASE StartWatch
  BY <1>2 DEF StartWatch
<1>3. ASSUME NEW s \in Snapshots, Deliver(s)
      PROVE  [Next]_vars
  BY <1>3 DEF Deliver
<1>4. ASSUME NEW err \in {"NotFound", "Rejected", "Unavailable"}, ReceiveFails(err)
      PROVE  [Next]_vars
  BY <1>4 DEF ReceiveFails
<1>5. CASE Apply
  BY <1>5, ApplyStep
<1>6. CASE Rearm
  BY <1>6 DEF Rearm
<1>7. CASE WatchdogFires
  BY <1>7 DEF WatchdogFires
<1>8. CASE RecordFailure
  BY <1>8 DEF RecordFailure, LoopInv, Next
<1>9. CASE Retry
  BY <1>9 DEF Retry
<1>10. CASE RunStops
  BY <1>10 DEF RunStops
<1>11. CASE RunIsDone
  BY <1>11 DEF RunIsDone
<1>12. CASE ExpiryTurn
  BY <1>12, LoopGoroutines DEF ExpiryTurn, Next
<1>13. CASE ExpiryStops
  BY <1>13 DEF ExpiryStops
<1>14. CASE WaitReady
  BY <1>14, LoopGoroutines DEF WaitReady, Next
<1>15. CASE StartupTimesOut
  BY <1>15 DEF StartupTimesOut
<1>16. CASE CloseClient
  BY <1>16 DEF CloseClient, Next
<1>17. CASE CancelLife
  BY <1>17 DEF CancelLife
<1>18. CASE TimePasses
  BY <1>18 DEF TimePasses, Next
<1>19. CASE Application
  BY <1>19 DEF Application, Next
<1> QED
  BY <1>1, <1>2, <1>3, <1>4, <1>5, <1>6, <1>7, <1>8, <1>9, <1>10, <1>11, <1>12, <1>13,
     <1>14, <1>15, <1>16, <1>17, <1>18, <1>19 DEF LoopNext

-----------------------------------------------------------------------------
(* Type correctness *)

\* New starts in a state of the invariant.
LEMMA LoopInit0 == LoopInit => LoopInv
<1> SUFFICES ASSUME LoopInit PROVE LoopInv
  OBVIOUS
<1>1. TypeOK
  BY InitType DEF LoopInit
<1>2. delay \in ReconnectMin .. ReconnectMax
  BY DEF LoopInit
<1>3. failure \in Errors /\ phase \in Phases /\ armed \in Nat
  BY DEF LoopInit, Errors, Phases, Unarmed
<1> QED
  BY <1>1, <1>2, <1>3 DEF LoopInit, LoopInv, LoopTypeOK

\* The receipt watchdog is set to end no later than the view it guards.
LEMMA TimeoutType ==
    ASSUME TypeOK
    PROVE  /\ WatchTimeout \in Nat
           /\ Alive(clock) => clock + WatchTimeout <= validUntil
<1>1. CASE ready /\ validUntil > clock
  <2>1. WatchTimeout = MinTime(MaxSnapshotTTL, validUntil - clock)
    BY <1>1 DEF WatchTimeout
  <2>2. validUntil - clock \in Nat /\ validUntil \in Nat /\ clock \in Nat
    BY <1>1 DEF TypeOK
  <2> QED
    BY <2>1, <2>2 DEF MinTime
<1>2. CASE ~(ready /\ validUntil > clock)
  <2>1. WatchTimeout = MaxSnapshotTTL
    BY <1>2 DEF WatchTimeout
  <2> QED
    BY <1>2, <2>1 DEF Alive, TypeOK
<1> QED
  BY <1>1, <1>2

\* Half of a reconnect delay is a natural number, for the jitter.
LEMMA HalfType ==
    ASSUME NEW d \in ReconnectMin .. ReconnectMax
    PROVE  d \div 2 \in Nat
<1>1. d \in Nat
  OBVIOUS
<1> QED
  BY <1>1

\* Every step of a goroutine keeps the invariant.
LEMMA LoopTypes0 ==
    ASSUME LoopInv, [LoopNext]_loopVars
    PROVE  LoopInv'
<1>0. TypeOK /\ TypeOK'
  BY LoopStepIsClientStep, NextType DEF LoopInv, LoopTypeOK
<1> DEFINE Recent == \A m \in inbox : m.readAt \in Readings
<1>r. ASSUME inbox' = inbox, clock' = clock
      PROVE  Recent'
  BY <1>r DEF LoopInv, Readings
<1>f. /\ \A err \in {"NotFound", "Rejected", "Unavailable", "ErrInvalidSnapshot", "ErrClosed"} :
            err \in StreamErrors
      /\ StreamErrors \subseteq Errors /\ "none" \in Errors
  BY DEF StreamErrors, Errors, Fatal
<1>1. CASE UNCHANGED loopVars
  BY <1>0, <1>1, <1>r DEF loopVars, streamVars, vars, LoopInv, LoopTypeOK
<1>2. CASE StartWatch
  <2>1. clock' = clock /\ watchdog' \in Nat
    BY <1>0, <1>2, TimeoutType DEF StartWatch, vars, TypeOK
  <2> QED
    BY <1>0, <1>2, <1>r, <2>1 DEF StartWatch, LoopInv, LoopTypeOK, Phases, TypeOK
<1>3. ASSUME NEW s \in Snapshots, Deliver(s)
      PROVE  LoopInv'
  <2>1. clock' = clock
    BY <1>3 DEF Deliver, vars
  <2>2. clock \in Readings
    BY <1>0 DEF Readings, TypeOK
  <2>3. Recent'
    BY <1>3, <2>1, <2>2 DEF Deliver, Readings
  <2>4. inbox' \subseteq [snapshot : Snapshots, readAt : Nat] /\ inbox' # {}
    BY <1>0, <1>3 DEF Deliver, TypeOK
  <2> QED
    BY <1>0, <1>3, <2>3, <2>4 DEF Deliver, LoopInv, LoopTypeOK, Phases
<1>4. ASSUME NEW err \in {"NotFound", "Rejected", "Unavailable"}, ReceiveFails(err)
      PROVE  LoopInv'
  <2>1. clock' = clock
    BY <1>4 DEF ReceiveFails, vars
  <2>2. failure' \in StreamErrors /\ phase' = "failed" /\ phase = "receive"
    BY <1>4, <1>f DEF ReceiveFails, ReturnFromWatch
  <2> QED
    BY <1>0, <1>4, <1>f, <1>r, <2>1, <2>2
       DEF ReceiveFails, ReturnFromWatch, LoopInv, LoopTypeOK, Phases
<1>5. CASE Apply
  <2>1. PICK m \in inbox :
          \/ /\ Accept(m.snapshot, m.readAt) \/ AcceptOlderWithdrawals(m.snapshot, m.readAt)
             /\ phase' = "rearm" /\ got' = TRUE
             /\ UNCHANGED <<failure, watchdog, cut>>
          \/ /\ phase' = "receive"
             /\ UNCHANGED <<vars, failure, got, watchdog, cut>>
          \/ /\ RejectSnapshot(m.snapshot, m.readAt)
             /\ ReturnFromWatch(lastError')
             /\ UNCHANGED got
    BY <1>5 DEF Apply
  <2>2. inbox' = {} /\ UNCHANGED <<cancelled, startup, expiry, armed, started, delay, retryAt>>
    BY <1>5 DEF Apply
  <2>3. CASE UNCHANGED failure /\ phase' \in {"rearm", "receive"}
    BY <1>0, <2>1, <2>2, <2>3 DEF ReturnFromWatch, LoopInv, LoopTypeOK, Phases
  <2>4. CASE RejectSnapshot(m.snapshot, m.readAt) /\ ReturnFromWatch(lastError')
    <3>1. lastError' \in StreamErrors
      BY <2>4, <1>f DEF RejectSnapshot
    <3>2. phase' = "failed" /\ failure' \in StreamErrors /\ watchdog' = 0 /\ cut' = FALSE
      BY <2>4, <3>1 DEF ReturnFromWatch
    <3>3. got' \in BOOLEAN
      BY <2>1 DEF LoopInv, LoopTypeOK
    <3> QED
      BY <1>0, <1>f, <2>2, <3>2, <3>3 DEF LoopInv, LoopTypeOK, Phases
  <2> QED
    BY <2>1, <2>3, <2>4
<1>6. CASE Rearm
  <2>1. clock' = clock /\ watchdog' \in Nat
    BY <1>0, <1>6, TimeoutType DEF Rearm, vars, TypeOK
  <2> QED
    BY <1>0, <1>6, <1>r, <2>1 DEF Rearm, LoopInv, LoopTypeOK, Phases
<1>7. CASE WatchdogFires
  BY <1>0, <1>7, <1>r DEF WatchdogFires, vars, LoopInv, LoopTypeOK
<1>8. CASE RecordFailure
  <2>1. clock' = clock /\ phase' = "backoff" /\ phase = "failed"
    BY <1>8 DEF RecordFailure, StreamFailed
  <2>2. delay' \in ReconnectMin .. ReconnectMax
    BY <1>8 DEF RecordFailure, LoopInv, LoopTypeOK
  <2>3. retryAt' \in Nat
    <3> DEFINE half == delay' \div 2
    <3>1. PICK jitter \in 0 .. (IF half > 1 THEN half - 1 ELSE 0) :
             retryAt' = clock + half + jitter
      BY <1>8 DEF RecordFailure
    <3>2. half \in Nat
      BY <2>2, HalfType
    <3> HIDE DEF half
    <3>3. jitter \in Nat
      BY <3>1, <3>2
    <3> QED
      BY <1>0, <3>1, <3>2, <3>3 DEF TypeOK
  <2>4. Recent'
    BY <1>8, <2>1, <1>r DEF RecordFailure
  <2> QED
    BY <1>0, <1>8, <1>f, <2>1, <2>2, <2>3, <2>4
       DEF RecordFailure, ForgetStream, LoopInv, LoopTypeOK, Phases
<1>9. CASE Retry
  <2>1. clock' = clock
    BY <1>9 DEF Retry, vars
  <2>2. delay' \in ReconnectMin .. ReconnectMax
    <3>1. delay \in ReconnectMin .. ReconnectMax
      BY DEF LoopInv, LoopTypeOK
    <3>2. CASE delay > ReconnectMax \div 2
      <4>1. delay' = ReconnectMax
        BY <1>9, <3>2 DEF Retry
      <4> QED
        BY <4>1
    <3>3. CASE ~(delay > ReconnectMax \div 2)
      <4>1. delay' = 2 * delay
        BY <1>9, <3>3 DEF Retry
      <4>2. delay <= ReconnectMax \div 2
        BY <3>1, <3>3
      <4>3. 2 * delay <= ReconnectMax
        BY <3>1, <4>2
      <4> QED
        BY <3>1, <4>1, <4>3
    <3> QED
      BY <3>2, <3>3
  <2> QED
    BY <1>0, <1>9, <1>r, <2>1, <2>2 DEF Retry, LoopInv, LoopTypeOK, Phases
<1>10. CASE RunStops
  <2>1. clock' = clock /\ delay' \in ReconnectMin .. ReconnectMax
    BY <1>10 DEF RunStops, vars
  <2> QED
    BY <1>0, <1>10, <1>f, <1>r, <2>1 DEF RunStops, ForgetStream, LoopInv, LoopTypeOK, Phases
<1>11. CASE RunIsDone
  BY <1>0, <1>11, <1>r DEF RunIsDone, vars, LoopInv, LoopTypeOK, Phases
<1>12. CASE ExpiryTurn
  <2>1. clock' = clock /\ armed' \in Nat
    BY <1>0, <1>12 DEF ExpiryTurn, Await, TypeOK, Unarmed
  <2> QED
    BY <1>0, <1>12, <1>r, <2>1 DEF ExpiryTurn, streamVars, LoopInv, LoopTypeOK
<1>13. CASE ExpiryStops
  BY <1>0, <1>13, <1>r DEF ExpiryStops, vars, streamVars, LoopInv, LoopTypeOK
<1>14. CASE WaitReady
  <2>1. clock' = clock /\ startup' \in {"waiting", "opened", "failed"}
    BY <1>14 DEF WaitReady, Await
  <2> QED
    BY <1>0, <1>14, <1>r, <2>1 DEF WaitReady, streamVars, LoopInv, LoopTypeOK
<1>15. CASE StartupTimesOut
  BY <1>0, <1>15, <1>r DEF StartupTimesOut, vars, streamVars, LoopInv, LoopTypeOK
<1>16. CASE CloseClient
  <2>1. clock' = clock
    BY <1>16 DEF CloseClient, Close
  <2> QED
    BY <1>0, <1>16, <1>r, <2>1 DEF CloseClient, streamVars, LoopInv, LoopTypeOK
<1>17. CASE CancelLife
  BY <1>0, <1>17, <1>r DEF CancelLife, vars, streamVars, LoopInv, LoopTypeOK
<1>18. CASE TimePasses
  <2>1. Recent'
    <3>1. \A m \in inbox : m.readAt \in Nat /\ m.readAt <= clock /\ clock - m.readAt < MaxLag
      BY <1>0, <1>18 DEF TimePasses, LoopInv, LoopTypeOK, Readings, TypeOK
    <3>2. clock \in Nat /\ clock' = clock + 1 /\ inbox' = inbox
      BY <1>0, <1>18 DEF TimePasses, Tick, streamVars, TypeOK
    <3> QED
      BY <3>1, <3>2 DEF Readings
  <2> QED
    BY <1>0, <1>18, <2>1 DEF TimePasses, streamVars, LoopInv, LoopTypeOK
<1>19. CASE Application
  <2>1. clock' = clock
    BY <1>19 DEF Application, Observe, Subscribe, Unsubscribe, Receive, CallResolve, Resolve,
                 CancelResolve
  <2> QED
    BY <1>0, <1>19, <1>r, <2>1 DEF Application, streamVars, LoopInv, LoopTypeOK
<1> QED
  BY <1>1, <1>2, <1>3, <1>4, <1>5, <1>6, <1>7, <1>8, <1>9, <1>10, <1>11, <1>12, <1>13,
     <1>14, <1>15, <1>16, <1>17, <1>18, <1>19 DEF LoopNext

\* Each part of the goroutines' state has its type; the reconnect delay stays
\* within its bounds, whatever they are.
THEOREM LoopTypes == LoopSpec => []LoopTypeOK
<1>1. LoopInv => LoopTypeOK
  BY DEF LoopInv
<1> QED
  BY <1>1, LoopInit0, LoopTypes0, PTL DEF LoopSpec

\* What the goroutines do to the view is what the client's specification allows:
\* everything proved of the client holds while they drive it.
THEOREM LoopsDriveClient == LoopSpec => DrivesClient
<1>1. LoopInit => Init
  BY DEF LoopInit
<1> QED
  BY <1>1, LoopInit0, LoopTypes0, LoopStepIsClientStep, PTL DEF LoopSpec, DrivesClient, Spec

\* What is proved of the client whose view any goroutines read and replace holds of the
\* one these goroutines drive and applications use: it serves what a resolver may serve,
\* a target it has retired stays retired across reconnects, a withdrawn view and a closed
\* client route nowhere, no resolver sleeps through a change that serves it, and
\* subscribers hear of route changes and of nothing else.
THEOREM LoopsServeAdapters ==
    LoopSpec => /\ ImplementsResolver
                /\ RetiredStaysRetired
                /\ []RoutesAreBacked
                /\ []NoLostWakeup
                /\ SubscribersHearRouteChanges
  BY LoopsDriveClient, ClientIsResolver, Retirement, BackedRoutes, Wakeups, Notification,
     PTL DEF DrivesClient

-----------------------------------------------------------------------------
(* Sleeping goroutines *)

\* The goroutines of the client that are asleep.
Asleep == listening \cap {ExpiryLoop, StartupWait}

\* A step that leaves one of them asleep leaves alone what they wait for.
SleepersUndisturbed ==
    /\ Asleep' \subseteq Asleep
    /\ Asleep' # {} =>
          /\ ready' = ready /\ validUntil' = validUntil
          /\ lastError' = "Rejected" => lastError = "Rejected"

\* Outside the acceptance of snapshots, no step changes the view under a sleeper.
LEMMA SignalsWake ==
    ASSUME TypeOK
    PROVE  /\ UNCHANGED vars => SleepersUndisturbed
           /\ Tick => SleepersUndisturbed
           /\ Close => SleepersUndisturbed
           /\ Observe => SleepersUndisturbed
           /\ \A u \in Subscribers :
                 Subscribe(u) \/ Unsubscribe(u) \/ Receive(u) => SleepersUndisturbed
           /\ \A r \in Resolvers :
                 /\ \A policy \in Policies : CallResolve(r, policy) => SleepersUndisturbed
                 /\ Resolve(r) \/ CancelResolve(r) => SleepersUndisturbed
           /\ \A err \in StreamErrors : StreamFailed(err) => SleepersUndisturbed
<1>1. UNCHANGED vars => SleepersUndisturbed
  BY DEF vars, view, Asleep, SleepersUndisturbed
<1>2. Tick => SleepersUndisturbed
  BY DEF Tick, view, Asleep, SleepersUndisturbed
<1>3. Close => SleepersUndisturbed
  BY DEF Close, Signal, Asleep, SleepersUndisturbed
<1>4. Observe => SleepersUndisturbed
  BY DEF Observe, Expires, Invalidate, Signal, Asleep, SleepersUndisturbed
<1>5. \A err \in StreamErrors : StreamFailed(err) => SleepersUndisturbed
  BY DEF StreamFailed, Signal, SignalWaiters, Asleep, SleepersUndisturbed
<1>6. ASSUME NEW u \in Subscribers, Subscribe(u) \/ Unsubscribe(u) \/ Receive(u)
      PROVE  SleepersUndisturbed
  BY <1>6 DEF Subscribe, Unsubscribe, Receive, view, Asleep, SleepersUndisturbed
<1>7. ASSUME NEW r \in Resolvers, NEW policy \in Policies, CallResolve(r, policy)
      PROVE  SleepersUndisturbed
  BY <1>7 DEF CallResolve, view, Asleep, SleepersUndisturbed
<1>8. ASSUME NEW r \in Resolvers, Resolve(r)
      PROVE  SleepersUndisturbed
  <2>1. Asleep' \subseteq IF Expires(clock) THEN {} ELSE Asleep
    BY <1>8, LoopGoroutines DEF Resolve, Asleep
  <2>2. ready' = Alive(clock) /\ UNCHANGED <<validUntil, lastError>>
    BY <1>8 DEF Resolve
  <2>3. ready' = ready \/ Expires(clock)
    BY <2>2 DEF Alive, Expires, TypeOK
  <2> QED
    BY <2>1, <2>2, <2>3 DEF SleepersUndisturbed
<1>9. ASSUME NEW r \in Resolvers, CancelResolve(r)
      PROVE  SleepersUndisturbed
  BY <1>9 DEF CancelResolve, view, Asleep, SleepersUndisturbed
<1> QED
  BY <1>1, <1>2, <1>3, <1>4, <1>5, <1>6, <1>7, <1>8, <1>9

\* Nor does the end of accept, in any of its three ways.
LEMMA SnapshotsWake ==
    ASSUME TypeOK, NEW s \in Snapshots, NEW now \in Readings,
           Accept(s, now) \/ AcceptOlderWithdrawals(s, now) \/ RejectSnapshot(s, now)
    PROVE  SleepersUndisturbed
<1>1. CASE Accept(s, now)
  BY <1>1 DEF Accept, Signal, SignalWaiters, Asleep, SleepersUndisturbed
<1>2. CASE AcceptOlderWithdrawals(s, now)
  BY <1>2 DEF AcceptOlderWithdrawals, Signal, Asleep, SleepersUndisturbed
<1>3. CASE RejectSnapshot(s, now)
  BY <1>3 DEF RejectSnapshot, Invalidate, Signal, Asleep, SleepersUndisturbed, TypeOK
<1> QED
  BY <1>1, <1>2, <1>3

\* Nor does any step but the turns of those who may sleep themselves.
LEMMA LoopsDisturbNobody ==
    ASSUME LoopInv, [LoopNext]_loopVars, ~ExpiryTurn, ~WaitReady
    PROVE  /\ SleepersUndisturbed
           /\ armed' = armed
           /\ expiry' = "running" => expiry = "running"
           /\ startup' = "waiting" => startup = "waiting"
<1>0. TypeOK
  BY DEF LoopInv, LoopTypeOK
<1> DEFINE Frame == /\ armed' = armed
                    /\ expiry' = "running" => expiry = "running"
                    /\ startup' = "waiting" => startup = "waiting"
<1>1. CASE \/ UNCHANGED loopVars \/ StartWatch \/ (\E s \in Snapshots : Deliver(s))
           \/ (\E err \in {"NotFound", "Rejected", "Unavailable"} : ReceiveFails(err))
           \/ Rearm \/ WatchdogFires \/ Retry \/ RunStops \/ RunIsDone
           \/ ExpiryStops \/ StartupTimesOut \/ CancelLife
  <2>1. UNCHANGED vars
    BY <1>1 DEF loopVars, StartWatch, Deliver, ReceiveFails, Rearm, WatchdogFires, Retry,
                RunStops, RunIsDone, ExpiryStops, StartupTimesOut, CancelLife
  <2>2. Frame
    BY <1>1 DEF loopVars, StartWatch, Deliver, ReceiveFails, Rearm, WatchdogFires, Retry,
                RunStops, RunIsDone, ExpiryStops, StartupTimesOut, CancelLife
  <2> QED
    BY <1>0, <2>1, <2>2, SignalsWake
<1>2. CASE Apply
  <2>1. PICK m \in inbox :
          \/ Accept(m.snapshot, m.readAt) \/ AcceptOlderWithdrawals(m.snapshot, m.readAt)
          \/ UNCHANGED vars
          \/ RejectSnapshot(m.snapshot, m.readAt)
    BY <1>2 DEF Apply
  <2>2. m.snapshot \in Snapshots /\ m.readAt \in Readings
    BY DEF LoopInv, LoopTypeOK
  <2>3. Frame
    BY <1>2 DEF Apply
  <2> QED
    BY <1>0, <2>1, <2>2, <2>3, SnapshotsWake, SignalsWake
<1>3. CASE RecordFailure
  BY <1>0, <1>3, SignalsWake DEF RecordFailure, LoopInv
<1>4. CASE CloseClient
  BY <1>0, <1>4, SignalsWake DEF CloseClient
<1>5. CASE TimePasses
  BY <1>0, <1>5, SignalsWake DEF TimePasses
<1>6. CASE Application
  <2>1. UNCHANGED <<armed, expiry, startup>>
    BY <1>6 DEF Application
  <2> QED
    BY <1>0, <1>6, <2>1, SignalsWake DEF Application
<1> QED
  BY <1>1, <1>2, <1>3, <1>4, <1>5, <1>6 DEF LoopNext

\* A goroutine that turns sleeps last: if its own look at the view expired it, the others
\* are awake.
LEMMA AwaitWakes ==
    ASSUME TypeOK, NEW g \in Goroutines, Await(g)
    PROVE  /\ listening' \subseteq listening \cup {g}
           /\ validUntil' = validUntil /\ lastError' = lastError
           /\ ready' = Alive(clock)
           /\ ready' = ready \/ listening' = {g}
<1>1. ready' = ready \/ Expires(clock)
  BY DEF Await, Alive, Expires, TypeOK
<1> QED
  BY <1>1 DEF Await

\* While runExpiry sleeps its timer is set for the deadline of the current view,
\* whatever has shortened or extended that deadline since it went to sleep.
THEOREM ExpiryTimers == LoopSpec => []ExpiryTimerIsCurrent
<1>1. LoopInit => ExpiryTimerIsCurrent
  BY DEF LoopInit, Init, ExpiryTimerIsCurrent
<1>2. ASSUME LoopInv, ExpiryTimerIsCurrent, [LoopNext]_loopVars
      PROVE  ExpiryTimerIsCurrent'
  <2>0. TypeOK
    BY <1>2 DEF LoopInv, LoopTypeOK
  <2>1. CASE ExpiryTurn
    BY <2>0, <2>1, AwaitWakes, LoopGoroutines DEF ExpiryTurn, ExpiryTimerIsCurrent
  <2>2. CASE WaitReady
    <3>1. UNCHANGED <<expiry, armed>> /\ Await(StartupWait)
      BY <2>2 DEF WaitReady
    <3>2. /\ listening' \subseteq listening \cup {StartupWait}
          /\ validUntil' = validUntil
          /\ ready' = ready \/ listening' = {StartupWait}
      BY <2>0, <3>1, AwaitWakes, LoopGoroutines
    <3> QED
      BY <1>2, <3>1, <3>2, LoopGoroutines DEF ExpiryTimerIsCurrent
  <2>3. CASE ~ExpiryTurn /\ ~WaitReady
    <3>1. /\ SleepersUndisturbed /\ armed' = armed
          /\ expiry' = "running" => expiry = "running"
      BY <1>2, <2>3, LoopsDisturbNobody
    <3> QED
      BY <1>2, <3>1 DEF Asleep, SleepersUndisturbed, ExpiryTimerIsCurrent
  <2> QED
    BY <2>1, <2>2, <2>3
<1> QED
  BY <1>1, <1>2, LoopInit0, LoopTypes0, PTL DEF LoopSpec

\* New never sleeps through the view it waits for, nor through the refusal that
\* ends its wait.
THEOREM StartupWakes == LoopSpec => []StartupIsNotAsleep
<1>1. LoopInit => StartupIsNotAsleep
  BY DEF LoopInit, Init, StartupIsNotAsleep
<1>2. ASSUME LoopInv, StartupIsNotAsleep, [LoopNext]_loopVars
      PROVE  StartupIsNotAsleep'
  <2>0. TypeOK /\ TypeOK'
    BY <1>2, LoopStepIsClientStep, NextType DEF LoopInv, LoopTypeOK
  <2>1. CASE ExpiryTurn
    <3>1. startup' = startup /\ Await(ExpiryLoop)
      BY <2>1 DEF ExpiryTurn
    <3>2. /\ listening' \subseteq listening \cup {ExpiryLoop}
          /\ lastError' = lastError
          /\ ready' = ready \/ listening' = {ExpiryLoop}
      BY <2>0, <3>1, AwaitWakes, LoopGoroutines
    <3> QED
      BY <1>2, <3>1, <3>2, LoopGoroutines DEF StartupIsNotAsleep
  <2>2. CASE WaitReady
    <3>1. startup' = "waiting" => ~ready' /\ lastError # "Rejected"
      BY <2>2 DEF WaitReady
    <3>2. lastError' = lastError
      BY <2>2 DEF WaitReady, Await
    <3> QED
      BY <3>1, <3>2 DEF StartupIsNotAsleep
  <2>3. CASE ~ExpiryTurn /\ ~WaitReady
    <3>1. SleepersUndisturbed /\ (startup' = "waiting" => startup = "waiting")
      BY <1>2, <2>3, LoopsDisturbNobody
    <3> QED
      BY <1>2, <3>1 DEF Asleep, SleepersUndisturbed, StartupIsNotAsleep
  <2> QED
    BY <2>1, <2>2, <2>3
<1> QED
  BY <1>1, <1>2, LoopInit0, LoopTypes0, PTL DEF LoopSpec

-----------------------------------------------------------------------------
(* The receipt watchdog *)

\* WatchdogGuardsView from the delivery of a snapshot until it is applied, too: an
\* obsolete one sends watch back to receive with the watchdog it had.
GuardedWhileReading ==
    phase \in {"receive", "received"} /\ Alive(clock) => watchdog <= validUntil

\* Unless a snapshot is applied, no step brings a view to life or moves its deadline.
LEMMA ViewsOnlyFade ==
    ASSUME LoopInv, [LoopNext]_loopVars, ~Apply
    PROVE  validUntil' = validUntil /\ (Alive(clock)' => Alive(clock))
<1>0. TypeOK /\ TypeOK'
  BY LoopStepIsClientStep, NextType DEF LoopInv, LoopTypeOK
<1>1. CASE UNCHANGED vars
  BY <1>1 DEF vars, view, Alive
<1>2. CASE ExpiryTurn \/ WaitReady
  BY <1>2 DEF ExpiryTurn, WaitReady, Await, Alive
<1>3. CASE RecordFailure \/ CloseClient
  <2>1. validUntil' = validUntil /\ clock' = clock /\ (ready' => ready)
    BY <1>3 DEF RecordFailure, StreamFailed, CloseClient, Close
  <2> QED
    BY <2>1 DEF Alive
<1>4. CASE TimePasses
  <2>1. validUntil' = validUntil /\ clock' = clock + 1 /\ ready' = ready
    BY <1>4 DEF TimePasses, Tick, view
  <2> QED
    BY <1>0, <2>1 DEF Alive, TypeOK
<1>5. CASE Application
  <2>1. validUntil' = validUntil /\ clock' = clock /\ (ready' => ready)
    <3>1. CASE Observe
      BY <3>1 DEF Observe, Invalidate
    <3>2. ASSUME NEW u \in Subscribers, Subscribe(u) \/ Unsubscribe(u) \/ Receive(u)
          PROVE  UNCHANGED <<clock, view>>
      BY <3>2 DEF Subscribe, Unsubscribe, Receive
    <3>3. ASSUME NEW r \in Resolvers, NEW policy \in Policies, CallResolve(r, policy)
          PROVE  UNCHANGED <<clock, view>>
      BY <3>3 DEF CallResolve
    <3>4. ASSUME NEW r \in Resolvers, Resolve(r)
          PROVE  UNCHANGED <<clock, validUntil>> /\ ready' = Alive(clock)
      BY <3>4 DEF Resolve
    <3>5. ASSUME NEW r \in Resolvers, CancelResolve(r)
          PROVE  UNCHANGED <<clock, view>>
      BY <3>5 DEF CancelResolve
    <3>6. UNCHANGED <<clock, view>> => UNCHANGED <<clock, validUntil, ready>>
      BY DEF view
    <3>7. (Alive(clock) => ready)
      BY DEF Alive
    <3> QED
      BY <1>5, <3>1, <3>2, <3>3, <3>4, <3>5, <3>6, <3>7 DEF Application
  <2> QED
    BY <2>1 DEF Alive
<1> QED
  BY <1>1, <1>2, <1>3, <1>4, <1>5
     DEF LoopNext, loopVars, StartWatch, Deliver, ReceiveFails, Rearm, WatchdogFires, Retry,
         RunStops, RunIsDone, ExpiryStops, StartupTimesOut, CancelLife

\* No step lets the view end before the watchdog that reads for it.
LEMMA GuardedNext ==
    ASSUME LoopInv, GuardedWhileReading, [LoopNext]_loopVars
    PROVE  GuardedWhileReading'
<1>0. TypeOK
  BY DEF LoopInv, LoopTypeOK
<1>1. CASE StartWatch \/ Rearm
  <2>1. watchdog' = clock + WatchTimeout /\ UNCHANGED vars
    BY <1>1 DEF StartWatch, Rearm
  <2>2. validUntil' = validUntil /\ (Alive(clock)' => Alive(clock))
    BY <2>1 DEF vars, view, Alive
  <2> QED
    BY <1>0, <2>1, <2>2, TimeoutType DEF GuardedWhileReading
<1>2. CASE Apply
  <2>1. \/ phase' \in {"rearm", "failed"}
        \/ phase = "received" /\ UNCHANGED <<vars, watchdog>>
    BY <1>2 DEF Apply, ReturnFromWatch
  <2> QED
    BY <2>1 DEF GuardedWhileReading, vars, view, Alive
<1>3. CASE ~(StartWatch \/ Rearm) /\ ~Apply
  <2>1. validUntil' = validUntil /\ (Alive(clock)' => Alive(clock))
    BY <1>3, ViewsOnlyFade
  <2>2. CASE UNCHANGED loopVars \/ WatchdogFires \/ ExpiryTurn \/ ExpiryStops \/ WaitReady
             \/ StartupTimesOut \/ CloseClient \/ CancelLife \/ TimePasses \/ Application
    <3>1. UNCHANGED <<phase, watchdog>>
      BY <2>2 DEF loopVars, streamVars, WatchdogFires, ExpiryTurn, ExpiryStops, WaitReady,
                  StartupTimesOut, CloseClient, CancelLife, TimePasses, Application
    <3> QED
      BY <2>1, <3>1 DEF GuardedWhileReading
  <2>3. ASSUME NEW s \in Snapshots, Deliver(s)
        PROVE  GuardedWhileReading'
    BY <2>1, <2>3 DEF Deliver, GuardedWhileReading
  <2>4. CASE \/ \E err \in {"NotFound", "Rejected", "Unavailable"} : ReceiveFails(err)
             \/ RecordFailure \/ Retry \/ RunStops \/ RunIsDone
    <3>1. phase' \notin {"receive", "received"}
      BY <2>4 DEF ReceiveFails, ReturnFromWatch, RecordFailure, Retry, RunStops, RunIsDone
    <3> QED
      BY <3>1 DEF GuardedWhileReading
  <2> QED
    BY <1>3, <2>2, <2>3, <2>4 DEF LoopNext
<1> QED
  BY <1>1, <1>2, <1>3

\* A stream on which nothing arrives is given up no later than the usable view it
\* feeds expires.
THEOREM Watchdogs == LoopSpec => []WatchdogGuardsView
<1>1. LoopInit => GuardedWhileReading
  BY DEF LoopInit, GuardedWhileReading
<1>2. GuardedWhileReading => WatchdogGuardsView
  BY DEF GuardedWhileReading, WatchdogGuardsView
<1> QED
  BY <1>1, <1>2, GuardedNext, LoopInit0, LoopTypes0, PTL DEF LoopSpec
=============================================================================
