----------------------------- MODULE StartupRetry -----------------------------
(***************************************************************************)
(* The first ping of a pool (pingStartup, pgxpool/startup.go) and the one  *)
(* constructor at a time it waits for: BeforeConnect, the lookups of the   *)
(* member's hosts, pgconn's serial tries of its addresses with the hooks of*)
(* connection_config.go, the pool's session hooks. What fails is chosen by *)
(* the environment; what the loop makes of it is the code's.               *)
(***************************************************************************)
EXTENDS ErrorCauses

CONSTANTS
    Cancellations,    \* how a cancelled lookup or dial may report it
    HookErrors,       \* what an application's hook may return
    MinDelay,         \* 50 ms
    MaxDelay          \* time.Second

\* The jitter is drawn from half of a delay, which must not be zero.
ASSUME DelaysAreSound == MinDelay \in Nat /\ MaxDelay \in Nat /\ 2 <= MinDelay /\ MinDelay <= MaxDelay

\* A context's error, or net's own for it.
ASSUME CancellationsAreKnown == Cancellations \subseteq {Canceled, NetCanceled}

\* Whatever a hook returns is an error, and may look like any other.
ASSUME HookErrorsAreErrors == HookErrors \subseteq Errors

NoError == Leaf("none")

VARIABLES
    caller,           \* the context of Open: "here", or "gone" once it is done
    step,             \* what the ping does next
    delay,            \* of the next retry
    err,              \* what the last ping returned
    marker,           \* startup.obsolete is err
    eligible,         \* Valid(policy, target), of the constructor's target
    obsolete,         \* the attempt's context was cancelled by the watcher
    hosts,            \* hosts still to look up
    optional,         \* the member's two endpoints have different hosts
    addresses,        \* addresses still to try
    errors,           \* of the lookups and tries so far
    hookFailure,      \* the first failure of a hook in this constructor
    hookFailures,     \* how often a hook has failed since Open began
    healthy           \* nothing fails any more

loop == <<caller, delay, marker, healthy>>
attempt == <<eligible, obsolete, hosts, optional, addresses, errors, hookFailure, hookFailures>>
vars == <<step, err, loop, attempt>>

Constructing == {"resolve", "lookup", "try", "validated", "session", "prepare", "ping"}
Attempting == {"lookup", "try", "validated"}   \* between ConnectStart and ConnectEnd
Ended == {"opened", "returned"}

Init ==
    /\ caller = "here" /\ healthy = FALSE
    /\ step = "again" /\ delay = MinDelay
    /\ err = NoError /\ marker = FALSE
    /\ eligible = TRUE /\ obsolete = FALSE
    /\ hosts = 0 /\ optional = FALSE /\ addresses = 0
    /\ errors = {} /\ hookFailure = NoError /\ hookFailures = 0

Becomes(from, to) == step = from /\ step' = to

\* The ping ends with an error.
Fails(e) == step' = "decide" /\ err' = e

HookFails == hookFailures < 2 /\ hookFailures' = hookFailures + 1 /\ ~healthy

\* Mutant of ConnectFails: whether the attempt is obsolete is asked once more.
ConnectFailsRevalidated(causes) == Fails(Connect(causes)) /\ marker' = ~eligible

\* Mutant of ConnectFails: the context's error is taken for its cause.
ConnectFailsUnexplained(causes) == Fails(Connect(causes)) /\ marker' = FALSE

\* pgx.ConnectConfig fails: TraceConnectEnd keeps the provenance of its error.
ConnectFails(causes) == Fails(Connect(causes)) /\ marker' = obsolete

-----------------------------------------------------------------------------
(* The environment *)

\* The caller's deadline passes, or it cancels.
CallerLeaves ==
    /\ step \notin Ended /\ caller = "here" /\ caller' = "gone"
    /\ UNCHANGED <<step, delay, err, marker, healthy, attempt>>

\* A policy with fallbacks may also admit the target again.
Reroute ==
    /\ ~healthy /\ step \in Constructing /\ eligible' = ~eligible
    /\ UNCHANGED <<step, err, loop, obsolete, hosts, optional, addresses, errors,
                   hookFailure, hookFailures>>

\* The watcher, or the attempt itself as it registers.
CancelObsolete ==
    /\ step \in Attempting /\ ~eligible /\ ~obsolete /\ obsolete' = TRUE
    /\ UNCHANGED <<step, err, loop, eligible, hosts, optional, addresses, errors,
                   hookFailure, hookFailures>>

Recover ==
    /\ ~healthy /\ healthy' = TRUE
    /\ UNCHANGED <<step, err, caller, delay, marker, attempt>>

-----------------------------------------------------------------------------
(* The constructor *)

\* pgconn reports a timeout as the error of the context that ended; the first
\* net.Error in the chain decides, and a startupHookError is none that timed out.
Normalize(e) == IF e = Leaf("timeout") /\ obsolete THEN Canceled ELSE e

Ping ==
    /\ Becomes("again", "resolve") /\ marker' = FALSE
    /\ UNCHANGED <<err, caller, delay, healthy, attempt>>

BeforeConnectFails ==
    /\ step = "resolve" /\ HookFails
    /\ \E e \in HookErrors : Fails(Hook(e))
    /\ UNCHANGED <<loop, eligible, obsolete, hosts, optional, addresses, errors, hookFailure>>

\* Mutant of Resolve: the new attempt runs in the context of the last one.
ResolveInOldContext ==
    /\ Becomes("resolve", "lookup")
    /\ eligible' = TRUE
    /\ hosts' \in {1, 2} /\ optional' \in {FALSE, hosts' = 2}
    /\ addresses' = 0 /\ errors' = {} /\ hookFailure' = NoError
    /\ UNCHANGED <<err, loop, hookFailures, obsolete>>

\* Resolve returns a target, and the attempt at it begins.
Resolve ==
    /\ Becomes("resolve", "lookup")
    /\ eligible' = TRUE /\ obsolete' = FALSE
    /\ hosts' \in {1, 2} /\ optional' \in {FALSE, hosts' = 2}
    /\ addresses' = 0 /\ errors' = {} /\ hookFailure' = NoError
    /\ UNCHANGED <<err, loop, hookFailures>>

ResolveFails ==
    /\ step = "resolve" /\ ~healthy /\ Fails(Wrap("wrap", Leaf("other")))
    /\ UNCHANGED <<loop, attempt>>

\* Of two hosts, each may be missing.
LookupError(e) == IF optional THEN Optional(e) ELSE e

\* An application's LookupFunc may also return context.Canceled of its own.
LookupFailures == {Missing, Leaf("slow-dns"), Leaf("other"), Canceled}

Lookup ==
    /\ step = "lookup" /\ hosts > 0 /\ hosts' = hosts - 1
    /\ \/ addresses' = addresses + 1 /\ UNCHANGED errors
       \/ /\ \E e \in (IF obsolete THEN {Wrap("dns", c) : c \in Cancellations} ELSE {})
                    \cup (IF healthy THEN {} ELSE LookupFailures) :
               errors' = errors \cup {LookupError(e)}
          /\ UNCHANGED addresses
    /\ UNCHANGED <<step, err, loop, eligible, obsolete, optional, hookFailure, hookFailures>>

LookedUp ==
    /\ Becomes("lookup", "try") /\ hosts = 0
    /\ UNCHANGED <<err, loop, attempt>>

\* DialFunc returns the failure of a hook instead of another connection.
TryBlocked ==
    /\ step = "try" /\ addresses > 0 /\ hookFailure # NoError
    /\ addresses' = addresses - 1 /\ errors' = errors \cup {hookFailure}
    /\ UNCHANGED <<step, err, loop, eligible, obsolete, hosts, optional, hookFailure, hookFailures>>

\* Mutant of MayDial: the hooks run at every address.
MayDialAgain == addresses > 0

MayDial == addresses > 0 /\ hookFailure = NoError

\* An application's DialFunc may also return context.Canceled of its own.
Refusals ==
    {Leaf(kind) : kind \in
        {"eof", "not-ready", "timeout", "canceled", "certificate", "denied", "other"}}

\* The network, TLS, PostgreSQL or the checks of ValidateConnect refuse. pgconn
\* goes on to the next address unless the login was denied.
TryFails ==
    /\ step = "try" /\ MayDial
    /\ \E e \in (IF obsolete THEN Cancellations \cup {Leaf("timeout")} ELSE {})
              \cup (IF healthy THEN {} ELSE Refusals) :
         /\ errors' = errors \cup {Normalize(e)}
         /\ addresses' = IF e = Leaf("denied") THEN 0 ELSE addresses - 1
    /\ UNCHANGED <<step, err, loop, eligible, obsolete, hosts, optional, hookFailure, hookFailures>>

\* A hook refuses: AfterNetConnect, TLS, the token, the application's checks.
TryHookFails ==
    /\ step = "try" /\ MayDial /\ HookFails
    /\ \E e \in HookErrors :
         /\ hookFailure' = Hook(e)
         /\ errors' = errors \cup {Normalize(Hook(e))}
    /\ addresses' = addresses - 1
    /\ UNCHANGED <<step, err, loop, eligible, obsolete, hosts, optional>>

\* ValidateConnect: the topology changed while connecting.
TryObsolete ==
    /\ step = "try" /\ MayDial /\ ~eligible
    /\ addresses' = addresses - 1 /\ errors' = errors \cup {Leaf("topology-changed")}
    /\ UNCHANGED <<step, err, loop, eligible, obsolete, hosts, optional, hookFailure, hookFailures>>

TrySucceeds ==
    /\ Becomes("try", "validated") /\ MayDial /\ eligible /\ ~obsolete
    /\ UNCHANGED <<err, loop, attempt>>

Exhausted ==
    /\ step = "try" /\ addresses = 0 /\ ConnectFails(errors)
    /\ UNCHANGED <<caller, delay, healthy, attempt>>

\* pgconn's AfterConnect: the application's, then the route is checked again.
AfterConnect ==
    /\ step = "validated"
    /\ \/ eligible /\ step' = "session" /\ UNCHANGED <<err, marker, hookFailures>>
       \/ ~eligible /\ ConnectFails({Leaf("topology-changed")}) /\ UNCHANGED hookFailures
       \/ HookFails /\ \E e \in HookErrors : ConnectFails({Hook(e)})
    /\ UNCHANGED <<caller, delay, healthy, eligible, obsolete, hosts, optional, addresses,
                   errors, hookFailure>>

\* The pool's AfterConnect hook, outside of pgx.ConnectConfig.
Session ==
    /\ step = "session"
    /\ \/ eligible /\ step' = "prepare" /\ UNCHANGED <<err, hookFailures>>
       \/ ~eligible /\ Fails(Leaf("topology-changed")) /\ UNCHANGED hookFailures
       \/ HookFails /\ \E e \in HookErrors : Fails(Hook(e))
    /\ UNCHANGED <<loop, eligible, obsolete, hosts, optional, addresses, errors, hookFailure>>

\* PrepareConn: pgx builds another connection when it is refused, up to a limit.
Prepare ==
    /\ step = "prepare"
    /\ \/ eligible /\ step' = "ping" /\ UNCHANGED <<err, hookFailures>>
       \/ (~eligible \/ ~healthy) /\ step' = "resolve" /\ UNCHANGED <<err, hookFailures>>
       \/ (~eligible \/ ~healthy) /\ Fails(Leaf("other")) /\ UNCHANGED hookFailures
       \/ HookFails /\ \E e \in HookErrors : Fails(Hook(e))
    /\ UNCHANGED <<loop, eligible, obsolete, hosts, optional, addresses, errors, hookFailure>>

\* The ping itself, on an established connection.
Query ==
    /\ step = "ping"
    /\ \/ step' = "opened" /\ UNCHANGED err
       \/ ~healthy /\ Fails(Wrap("wrap", Leaf("eof")))
    /\ UNCHANGED <<loop, attempt>>

\* Acquire does not wait for the constructor once the caller has left.
Abandon ==
    /\ step \in Constructing /\ caller = "gone" /\ Fails(Leaf("canceled"))
    /\ UNCHANGED <<loop, attempt>>

-----------------------------------------------------------------------------
(* The loop *)

Retryable == Has(err, "connect") /\ CallsForRetry(err, marker)

GiveUp ==
    /\ Becomes("decide", "returned") /\ (caller = "gone" \/ ~Retryable)
    /\ UNCHANGED <<err, loop, attempt>>

Wait ==
    /\ Becomes("decide", "wait") /\ caller = "here" /\ Retryable
    /\ UNCHANGED <<err, loop, attempt>>

NextDelay == IF 2 * delay < MaxDelay THEN 2 * delay ELSE MaxDelay

\* The timer fires, after delay/2 and before delay.
WaitEnds ==
    /\ Becomes("wait", "again") /\ delay' = NextDelay
    /\ UNCHANGED <<err, caller, marker, healthy, attempt>>

WaitAborts ==
    /\ Becomes("wait", "returned") /\ caller = "gone"
    /\ UNCHANGED <<err, loop, attempt>>

Try == TryBlocked \/ TryFails \/ TryHookFails \/ TryObsolete \/ TrySucceeds \/ Exhausted

Construct ==
    \/ BeforeConnectFails \/ Resolve \/ ResolveFails \/ Lookup \/ LookedUp
    \/ Try \/ AfterConnect \/ Session \/ Prepare \/ Query

Loop == Ping \/ Abandon \/ GiveUp \/ Wait \/ WaitEnds \/ WaitAborts

Next == CallerLeaves \/ Reroute \/ CancelObsolete \/ Recover \/ Construct \/ Loop

Spec == Init /\ [][Next]_vars

\* Open runs, timers fire, and whatever a constructor waits for has a timeout, but
\* for Resolve, which waits for an eligible member.
LiveSpec ==
    Spec /\ WF_vars(Loop) /\ WF_vars(Construct /\ (step # "resolve" \/ healthy))

-----------------------------------------------------------------------------
(* Safety *)

\* No hook of the application runs again once one has failed: neither at another
\* address of the member nor after a retry (startup.go:17-18,
\* connection_config.go:42-43), whatever error it returned.
HooksFailOnce == hookFailures <= 1

\* When Open is about to build another connection no hook has failed, no host and
\* no address was refused for a reason a retry would repeat, something calls for the
\* retry, and a cancellation came from the watcher, however pgconn has joined and
\* normalized what happened, and although the marker and the error reach the loop by
\* different ways (startup.go:60, connecting.go:34).
RetriesAreSafe ==
    step = "wait" =>
      /\ hookFailures = 0
      /\ \A e \in errors, kind \in {"denied", "certificate", "topology-changed", "other"} :
            ~Has(e, kind)
      /\ \E e \in errors, kind \in Transient \cup {"canceled"} : Has(e, kind)
      /\ (\E e \in errors : Has(e, "canceled")) => obsolete

\* A cause that only says that the attempt was interrupted, or might have been.
Interruption(cause) ==
    /\ cause.kind \in Transient \cup {"canceled"}
    /\ cause.in \cap {"hook", "certificate"} = {}

\* An attempt that the watcher cancelled does not end Open, while the caller waits,
\* with nothing to show but interruptions ("live caller lost startup to obsolete
\* constructor", startup_topology_test.go:130). It does end Open if some cause is
\* anything else, of which two are no fault of a server or a hook: the value by which
\* Go's own dialer and resolver report the cancellation, which startup.go:89 does not
\* recognise, and the error of a route check that ran before the watcher.
CancelledAttemptsAreRetried ==
    step = "returned" /\ caller = "here" /\ obsolete /\ Has(err, "connect") =>
      \E cause \in err : ~Interruption(cause)

-----------------------------------------------------------------------------
(* Liveness *)

\* Open returns to a caller that has left, from wherever a constructor is stuck;
\* and once nothing fails any more, a caller that stays gets its pool, although
\* its target may be cancelled under every attempt before.
OpenSettles ==
    (caller = "gone" \/ (healthy /\ step = "wait"))
      ~> (step = "opened" \/ (step = "returned" /\ caller = "gone"))
==============================================================================
