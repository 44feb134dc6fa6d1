----------------------------- MODULE ErrorCauses -----------------------------
(***************************************************************************)
(* The errors of a first connection by what they come down to              *)
(* (pgxpool/startup.go): a Go error is a tree whose nodes wrap one cause or *)
(* join several, and here the set of the causes at its leaves, each with   *)
(* the kinds of the errors it is wrapped in. StartupErrors has the trees,  *)
(* and the recursion over them that this module states the meaning of.     *)
(***************************************************************************)
EXTENDS Integers, FiniteSets

\* syscall.ECONNREFUSED and the like, io.EOF; PgError 57P03; net.Errors.
Transient == {"eof", "not-ready", "timeout", "slow-dns"}

CauseKinds == Transient \cup {"canceled", "net-canceled", "missing", "certificate", "denied",
                              "topology-changed", "other"}

Wrappers == {"connect", "wrap", "hook", "certificate", "optional", "dns"}

Cause == [kind : CauseKinds, in : SUBSET Wrappers]

Errors == {e \in SUBSET Cause : e # {}}

Leaf(kind) == {[kind |-> kind, in |-> {}]}

Wrap(wrapper, e) == {[cause EXCEPT !.in = @ \cup {wrapper}] : cause \in e}

Connect(errors) == Wrap("connect", UNION errors)   \* pgconn.ConnectError of errors.Join
Hook(e) == Wrap("hook", e)                         \* startupHookError
Optional(e) == Wrap("optional", e)                 \* optionalLookupError

Canceled == Leaf("canceled")         \* the value context.Canceled itself
NetCanceled == Leaf("net-canceled")  \* net's own, which only Is context.Canceled
Missing == Leaf("missing")           \* net.DNSError with IsNotFound

\* What errors.As and errors.Is see.
Has(e, kind) == \E cause \in e : kind = cause.kind \/ kind \in cause.in

-----------------------------------------------------------------------------

Retry == [retryable |-> TRUE, permanent |-> FALSE]
Veto == [retryable |-> FALSE, permanent |-> TRUE]
Neutral == [retryable |-> FALSE, permanent |-> FALSE]

\* Of an error without a cause of its own.
VerdictAlone(kind, optionalLookup, topologyCanceled) ==
    IF kind \in Transient \/ (kind = "canceled" /\ topologyCanceled) THEN Retry
    ELSE IF kind = "missing" /\ optionalLookup THEN Neutral ELSE Veto

\* Of a cause, whatever it is wrapped in. What a hook or a certificate check reports is
\* their own affair.
Verdict(cause, topologyCanceled) ==
    IF cause.in \cap {"hook", "certificate"} # {} THEN Veto
    ELSE VerdictAlone(cause.kind, "optional" \in cause.in, topologyCanceled)

\* An error is retried exactly if some cause of it calls for that and no other speaks
\* against it, the missing name of an optional address excepted, however the causes
\* are nested (startup.go:84-87).
CallsForRetry(e, topologyCanceled) ==
    /\ \E cause \in e : Verdict(cause, topologyCanceled) = Retry
    /\ \A cause \in e : Verdict(cause, topologyCanceled) # Veto
=============================================================================
