---------------------------- MODULE DiscoveryLoops ----------------------------
(***************************************************************************)
(* The goroutines that drive a Client's view: run and watch, which own the *)
(* discovery stream; runExpiry, which owns the expiry timer; New, which    *)
(* waits for the first view; and Close. Their critical sections are the    *)
(* actions of DiscoveryClient; this module adds what happens between them. *)
(*                                                                         *)
(* A timer set from a duration is set in the instant the duration was      *)
(* computed, and fires at any moment from its deadline on.                 *)
(***************************************************************************)
EXTENDS DiscoveryClient

CONSTANTS ReconnectMin, ReconnectMax     \* bounds of the reconnect delay

ASSUME ReconnectAssumption ==
    /\ ReconnectMin \in Nat \ {0} /\ ReconnectMax \in Nat
    /\ ReconnectMin <= ReconnectMax

ExpiryLoop == "runExpiry"
StartupWait == "waitReady"
Unarmed == 0

ASSUME LoopAssumption ==
    /\ Goroutines = Resolvers \cup {ExpiryLoop, StartupWait}
    /\ ExpiryLoop \notin Resolvers /\ StartupWait \notin Resolvers

VARIABLES
    cancelled,   \* c.ctx is done
    startup,     \* what New is doing: "waiting", "opened" or "failed"
    expiry,      \* runExpiry: "running" or "stopped"
    armed,       \* the deadline its timer is set for, or Unarmed
    phase,       \* where run is
    inbox,       \* the snapshots received and not yet applied, at most one
    failure,     \* the error watch returned
    got,         \* this stream delivered an accepted snapshot
    started,     \* when this stream was started
    watchdog,    \* when the receipt watchdog fires
    cut,         \* the watchdog has cancelled the stream
    delay,       \* the current reconnect delay
    retryAt      \* when the backoff timer fires

streamVars == <<phase, inbox, failure, got, started, watchdog, cut, delay, retryAt>>
loopVars == <<vars, cancelled, startup, expiry, armed, streamVars>>

Phases == {"dial", "receive", "received", "rearm", "failed", "backoff", "stopped", "done"}

\* watch is running.
Streaming == phase \in {"receive", "received", "rearm"}

LoopTypeOK ==
    /\ TypeOK
    /\ cancelled \in BOOLEAN /\ got \in BOOLEAN /\ cut \in BOOLEAN
    /\ startup \in {"waiting", "opened", "failed"}
    /\ expiry \in {"running", "stopped"}
    /\ phase \in Phases
    /\ inbox \subseteq [snapshot : Snapshots, readAt : Nat]
    /\ (inbox # {}) <=> (phase = "received")
    /\ failure \in Errors
    /\ armed \in Nat /\ started \in Nat /\ watchdog \in Nat /\ retryAt \in Nat
    /\ delay \in ReconnectMin .. ReconnectMax

LoopInit ==
    /\ Init
    /\ cancelled = FALSE /\ startup = "waiting"
    /\ expiry = "running" /\ armed = Unarmed
    /\ phase = "dial" /\ inbox = {} /\ failure = "none"
    /\ got = FALSE /\ started = 0 /\ watchdog = 0 /\ cut = FALSE
    /\ delay = ReconnectMin /\ retryAt = 0

-----------------------------------------------------------------------------
(* watch *)

\* watch returns: its deferred calls stop the watchdog and cancel the stream.
ReturnFromWatch(err) ==
    /\ phase' = "failed" /\ failure' = err
    /\ watchdog' = 0 /\ cut' = FALSE

\* Mutant of WatchTimeout: only the TTL bounds the wait for a snapshot.
WatchTimeoutOfTTL == MaxSnapshotTTL

\* A usable view bounds how long watch waits for a snapshot.
WatchTimeout ==
    IF ready /\ validUntil > clock
    THEN MinTime(MaxSnapshotTTL, validUntil - clock)
    ELSE MaxSnapshotTTL

\* Failing to open the stream is failing to receive anything from it.
StartWatch ==
    /\ phase = "dial" /\ ~cancelled
    /\ phase' = "receive"
    /\ got' = FALSE /\ started' = clock
    /\ watchdog' = clock + WatchTimeout /\ cut' = FALSE
    /\ UNCHANGED <<vars, cancelled, startup, expiry, armed, inbox, failure, delay, retryAt>>

\* Recv returns a snapshot, and accept is called with time.Now(). What had arrived
\* before the stream was cancelled may still be returned after.
Deliver(s) ==
    /\ phase = "receive"
    /\ generation + 3 <= MaxGeneration
    /\ phase' = "received"
    /\ inbox' = {[snapshot |-> s, readAt |-> clock]}
    /\ UNCHANGED <<vars, cancelled, startup, expiry, armed, failure, got, started,
                   watchdog, cut, delay, retryAt>>

\* Recv returns an error: the server's, the transport's, or the cancellation of
\* the stream by its watchdog or by Close.
ReceiveFails(err) ==
    /\ phase = "receive"
    /\ ReturnFromWatch(err)
    /\ UNCHANGED <<vars, cancelled, startup, expiry, armed, inbox, got, started,
                   delay, retryAt>>

\* An accepted snapshot renews the watchdog, an obsolete one does not, and any
\* other ends the stream.
Apply ==
    /\ phase = "received"
    /\ inbox' = {}
    /\ \E m \in inbox :
         \/ /\ Accept(m.snapshot, m.readAt) \/ AcceptOlderWithdrawals(m.snapshot, m.readAt)
            /\ phase' = "rearm" /\ got' = TRUE
            /\ UNCHANGED <<failure, watchdog, cut>>
         \/ /\ ~closed /\ ~Invalid(m.snapshot, m.readAt)
            /\ ~InOrder(m.snapshot)
            /\ ~(Supplements(m.snapshot) /\ Refuted(m.snapshot) # {})
            /\ phase' = "receive"
            /\ UNCHANGED <<vars, failure, got, watchdog, cut>>
         \/ /\ RejectSnapshot(m.snapshot, m.readAt)
            /\ ReturnFromWatch(lastError')
            /\ UNCHANGED got
    /\ UNCHANGED <<cancelled, startup, expiry, armed, started, delay, retryAt>>

\* watchdog.Reset(c.watchTimeout()), a critical section of its own. It does not
\* revive a stream the watchdog has already cancelled.
Rearm ==
    /\ phase = "rearm"
    /\ phase' = "receive"
    /\ watchdog' = clock + WatchTimeout
    /\ UNCHANGED <<vars, cancelled, startup, expiry, armed, inbox, failure, got,
                   started, cut, delay, retryAt>>

\* Mutant of WatchdogFires: the watchdog starts with the first snapshot.
WatchdogFiresOnceFed ==
    /\ Streaming /\ got /\ ~cut /\ watchdog <= clock
    /\ cut' = TRUE
    /\ UNCHANGED <<vars, cancelled, startup, expiry, armed, phase, inbox, failure,
                   got, started, watchdog, delay, retryAt>>

WatchdogFires ==
    /\ Streaming /\ ~cut /\ watchdog <= clock
    /\ cut' = TRUE
    /\ UNCHANGED <<vars, cancelled, startup, expiry, armed, phase, inbox, failure,
                   got, started, watchdog, delay, retryAt>>

-----------------------------------------------------------------------------
(* run *)

\* What run knew of a stream goes out of scope with it.
ForgetStream == failure' = "none" /\ got' = FALSE /\ started' = 0

\* Record the failure and back off, for half the delay and a random part of the
\* rest. Only a stream that lasted starts the delay over. Close may cancel c.ctx
\* after run has looked at it, so this step can follow the cancellation.
RecordFailure ==
    /\ phase = "failed"
    /\ StreamFailed(failure)
    /\ delay' = IF got /\ clock - started >= ReconnectMax THEN ReconnectMin ELSE delay
    /\ LET half == delay' \div 2
       IN  \E jitter \in 0 .. (IF half > 1 THEN half - 1 ELSE 0) :
              retryAt' = clock + half + jitter
    /\ phase' = "backoff"
    /\ ForgetStream
    /\ UNCHANGED <<cancelled, startup, expiry, armed, inbox, watchdog, cut>>

Retry ==
    /\ phase = "backoff" /\ retryAt <= clock
    /\ phase' = "dial"
    /\ delay' = IF delay > ReconnectMax \div 2 THEN ReconnectMax ELSE 2 * delay
    /\ retryAt' = 0
    /\ UNCHANGED <<vars, cancelled, startup, expiry, armed, inbox, failure, got,
                   started, watchdog, cut>>

\* Mutant of RunStops: run does not look at c.ctx while it backs off.
RunStopsOnlyAwake ==
    /\ cancelled /\ phase \in {"dial", "failed"}
    /\ phase' = "stopped"
    /\ ForgetStream /\ delay' = ReconnectMin /\ retryAt' = 0
    /\ UNCHANGED <<vars, cancelled, startup, expiry, armed, inbox, watchdog, cut>>

\* run leaves its loop, and then waits for runExpiry.
RunStops ==
    /\ cancelled /\ phase \in {"dial", "failed", "backoff"}
    /\ phase' = "stopped"
    /\ ForgetStream /\ delay' = ReconnectMin /\ retryAt' = 0
    /\ UNCHANGED <<vars, cancelled, startup, expiry, armed, inbox, watchdog, cut>>

RunIsDone ==
    /\ phase = "stopped" /\ expiry = "stopped"
    /\ phase' = "done"
    /\ UNCHANGED <<vars, cancelled, startup, expiry, armed, inbox, failure, got,
                   started, watchdog, cut, delay, retryAt>>

-----------------------------------------------------------------------------
(* runExpiry *)

\* Mutant of ExpiryTurn: a turn that stops the old timer sets no new one.
ExpiryTurnWithoutReset ==
    /\ expiry = "running"
    /\ ExpiryLoop \in listening => armed # Unarmed /\ armed <= clock
    /\ Await(ExpiryLoop)
    /\ armed' = IF Alive(clock) /\ armed = Unarmed THEN validUntil ELSE Unarmed
    /\ UNCHANGED <<cancelled, startup, expiry, streamVars>>

\* A turn starts when c.changed was closed, or when the timer has fired.
ExpiryTurn ==
    /\ expiry = "running"
    /\ ExpiryLoop \in listening => armed # Unarmed /\ armed <= clock
    /\ Await(ExpiryLoop)
    /\ armed' = IF Alive(clock) THEN validUntil ELSE Unarmed
    /\ UNCHANGED <<cancelled, startup, expiry, streamVars>>

ExpiryStops ==
    /\ expiry = "running" /\ cancelled
    /\ expiry' = "stopped"
    /\ UNCHANGED <<vars, cancelled, startup, armed, streamVars>>

-----------------------------------------------------------------------------
(* New and Close *)

\* Mutant of WaitReady: the view is read without expireLocked.
WaitReadyUnexpired ==
    /\ startup = "waiting" /\ StartupWait \notin listening
    /\ listening' = listening \cup {StartupWait}
    /\ startup' = IF closed THEN "failed"
                  ELSE IF ready THEN "opened"
                  ELSE IF lastError = "Rejected" THEN "failed"
                  ELSE "waiting"
    /\ UNCHANGED <<clock, view, channel, pending, resolving, cancelled, expiry,
                   armed, streamVars>>

\* One turn of waitReady.
WaitReady ==
    /\ startup = "waiting" /\ StartupWait \notin listening
    /\ Await(StartupWait)
    /\ startup' = IF closed THEN "failed"
                  ELSE IF ready' THEN "opened"
                  ELSE IF lastError = "Rejected" THEN "failed"
                  ELSE "waiting"
    /\ UNCHANGED <<cancelled, expiry, armed, streamVars>>

StartupTimesOut ==
    /\ startup = "waiting"
    /\ startup' = "failed"
    /\ UNCHANGED <<vars, cancelled, expiry, armed, streamVars>>

\* Mutant of CloseClient: a client that New could not open is not closed.
CloseOpenedClient ==
    /\ startup = "opened"
    /\ Close
    /\ UNCHANGED <<cancelled, startup, expiry, armed, streamVars>>

\* Nobody has the client before New returns; New itself closes it when it fails.
CloseClient ==
    /\ startup # "waiting"
    /\ Close
    /\ UNCHANGED <<cancelled, startup, expiry, armed, streamVars>>

\* Close cancels c.ctx only after it has let go of the mutex.
CancelLife ==
    /\ closed /\ ~cancelled
    /\ cancelled' = TRUE
    /\ UNCHANGED <<vars, startup, expiry, armed, streamVars>>

-----------------------------------------------------------------------------

\* MaxLag bounds how late a received snapshot is applied.
TimePasses ==
    /\ \A m \in inbox : clock - m.readAt < MaxLag
    /\ Tick
    /\ UNCHANGED <<cancelled, startup, expiry, armed, streamVars>>

\* The applications and adapters that were given the client: they ask for its
\* status, subscribe and resolve.
Application ==
    /\ startup = "opened"
    /\ \/ Observe
       \/ \E u \in Subscribers : Subscribe(u) \/ Unsubscribe(u) \/ Receive(u)
       \/ \E r \in Resolvers :
             \/ \E policy \in Policies : CallResolve(r, policy)
             \/ Resolve(r)
             \/ CancelResolve(r)
    /\ UNCHANGED <<cancelled, startup, expiry, armed, streamVars>>

LoopNext ==
    \/ StartWatch
    \/ \E s \in Snapshots : Deliver(s)
    \/ \E err \in {"NotFound", "Rejected", "Unavailable"} : ReceiveFails(err)
    \/ Apply
    \/ Rearm
    \/ WatchdogFires
    \/ RecordFailure
    \/ Retry
    \/ RunStops
    \/ RunIsDone
    \/ ExpiryTurn
    \/ ExpiryStops
    \/ WaitReady
    \/ StartupTimesOut
    \/ CloseClient
    \/ CancelLife
    \/ TimePasses
    \/ Application

LoopSpec == LoopInit /\ [][LoopNext]_loopVars

\* The turns of run and watch: at most one of them is possible at a time, or two
\* where run may see that c.ctx is done.
RunTurn ==
    \/ StartWatch \/ Apply \/ Rearm \/ RecordFailure \/ Retry \/ RunStops \/ RunIsDone

\* Recv notices that the stream was cancelled.
ReceiveIsCancelled == (cut \/ cancelled) /\ ReceiveFails("Unavailable")

\* Close goes on once it has let go of the mutex, and New closes what it could not
\* open.
ClosingTurn == CancelLife \/ (startup = "failed" /\ CloseClient)

\* Goroutines that can run do, and timers fire. A cancelled stream holds finitely
\* many snapshots, so a Recv that can fail again and again does. Nothing is assumed
\* of the server, of the network, of callers, or of the clock.
LoopFairness ==
    /\ WF_loopVars(RunTurn) /\ WF_loopVars(WatchdogFires)
    /\ SF_loopVars(ReceiveIsCancelled)
    /\ WF_loopVars(ExpiryTurn \/ ExpiryStops)
    /\ WF_loopVars(WaitReady)
    /\ WF_loopVars(ClosingTurn)

LiveLoopSpec == LoopSpec /\ LoopFairness

-----------------------------------------------------------------------------
(* Safety *)

\* While runExpiry sleeps its timer is set for the deadline of the current view,
\* although replays shorten that deadline and newer observations extend it.
ExpiryTimerIsCurrent ==
    expiry = "running" /\ ExpiryLoop \in listening
       => armed = IF ready THEN validUntil ELSE Unarmed

\* A stream on which nothing arrives is given up no later than the view it feeds
\* expires, on a reconnect before its first snapshot as well.
WatchdogGuardsView ==
    phase = "receive" /\ Alive(clock) => watchdog <= validUntil

\* New never sleeps through what it waits for: a view, or a refusal it reports.
StartupIsNotAsleep ==
    startup = "waiting" /\ StartupWait \in listening => ~ready /\ lastError # "Rejected"

\* The goroutines' steps are critical sections of the client, in an order its
\* specification allows: what holds of the view holds while they drive it.
DrivesClient == Spec

-----------------------------------------------------------------------------
(* Liveness *)

\* A view past its deadline is revoked without anyone asking for it.
StaleViewsAreRevoked ==
    ready /\ clock >= validUntil ~> ~(ready /\ clock >= validUntil)

\* A stream whose watchdog is due ends, unless an accepted snapshot renews it; a
\* server that repeats obsolete snapshots does not keep it.
StalledStreamsEnd ==
    Streaming /\ (cut \/ watchdog <= clock) ~> ~Streaming \/ (~cut /\ watchdog > clock)

\* Close returns: whatever the goroutines were doing, both end.
CloseReturns == closed ~> phase = "done"

\* New returns while there is a usable view or the service keeps refusing it, and a
\* New that fails, for whatever reason, leaves a closed client and no goroutine.
StartupEnds ==
    LET decided == Alive(clock) \/ lastError = "Rejected"
    IN  startup = "failed" \/ (startup = "waiting" /\ decided)
           ~> \/ startup = "opened"
              \/ startup = "waiting" /\ ~decided
              \/ startup = "failed" /\ closed /\ phase = "done"
=============================================================================
