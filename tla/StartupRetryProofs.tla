-------------------------- MODULE StartupRetryProofs --------------------------
(***************************************************************************)
(* The safety of the first ping, for every set of errors a hook may return *)
(* and every pair of delays: what a constructor failed with decides whether*)
(* it is built again, and the inductive invariant says what is known of an *)
(* error at each step of its way to that decision.                         *)
(***************************************************************************)
EXTENDS StartupRetry, TLAPS

Deciding == {"decide", "wait", "returned"}

\* The variables have their types; an error of a ping always has a cause, because
\* pgconn joins one for every host and every address it has used up.
StartupTypeOK ==
    /\ caller \in {"here", "gone"} /\ healthy \in BOOLEAN
    /\ step \in Constructing \cup Deciding \cup Ended \cup {"again"}
    /\ delay \in MinDelay..MaxDelay
    /\ err \in Errors \cup {NoError} /\ marker \in BOOLEAN
    /\ eligible \in BOOLEAN /\ obsolete \in BOOLEAN
    /\ hosts \in 0..2 /\ optional \in BOOLEAN /\ addresses \in Nat
    /\ errors \in SUBSET Errors
    /\ step = "lookup" => hosts > 0 \/ addresses > 0 \/ errors # {}
    /\ step = "try" => addresses > 0 \/ errors # {}
    /\ hookFailure \in Errors \cup {NoError} /\ hookFailures \in 0..2

\* From the failure of a hook there is one way only: the other addresses are not
\* dialed, its error is in what the constructor returns, and the loop ends.
HookFailureEnds ==
    /\ hookFailure # NoError =>
         /\ Has(hookFailure, "hook")
         /\ step = "try" => hookFailure \in errors
    /\ hookFailures = 0 => hookFailure = NoError
    /\ hookFailures > 0 =>
         /\ hookFailures = 1
         /\ \/ step = "try" /\ hookFailure # NoError
            \/ step = "decide" /\ (caller = "gone" \/ Has(err, "hook"))
            \/ step = "returned"

\* A connect error that is not a hook's was marked if, and only if, the attempt it
\* comes from had been cancelled by the watcher; and it joins everything that went
\* wrong in that attempt, unless a check of the route has ended it.
ErrorIsExplained ==
    step \in Deciding /\ Has(err, "connect") /\ ~Has(err, "hook") =>
      /\ marker = obsolete
      /\ err \in {Connect(errors), Connect({Leaf("topology-changed")})}

\* The loop goes on, and ends, for what the last error was.
DecisionStands ==
    /\ step = "wait" => Retryable
    /\ step = "returned" => caller = "gone" \/ ~Retryable

IInv == StartupTypeOK /\ HookFailureEnds /\ ErrorIsExplained /\ DecisionStands

-----------------------------------------------------------------------------
(* Errors *)

\* A leaf is an error, and so is an error that is wrapped, or joined from others: none
\* of them loses its causes.
LEMMA LeavesAreErrors == \A kind \in CauseKinds : Leaf(kind) \in Errors
<1> TAKE kind \in CauseKinds
<1>1. [kind |-> kind, in |-> {}] \in Leaf(kind)
  BY DEF Leaf
<1>2. [kind |-> kind, in |-> {}] \in Cause
  BY DEF Cause
<1>3. QED
  BY <1>1, <1>2 DEF Leaf, Errors

LEMMA WrappedIsError ==
  ASSUME NEW e \in Errors, NEW wrapper \in Wrappers
  PROVE  Wrap(wrapper, e) \in Errors
<1>1. PICK cause \in e : TRUE
  BY DEF Errors
<1>2. [cause EXCEPT !.in = @ \cup {wrapper}] \in Wrap(wrapper, e)
  BY <1>1 DEF Wrap
<1>3. ASSUME NEW c \in e
      PROVE  [c EXCEPT !.in = @ \cup {wrapper}] \in Cause
  BY DEF Errors, Cause
<1>4. QED
  BY <1>2, <1>3 DEF Wrap, Errors

LEMMA ConnectIsError ==
  ASSUME NEW joined \in SUBSET Errors, joined # {}
  PROVE  Connect(joined) \in Errors
<1>1. UNION joined \in Errors
  BY DEF Errors
<1>2. QED
  BY <1>1, WrappedIsError DEF Connect, Wrappers

\* errors.As finds a wrapper above every cause it wraps, and through other wrappers.
LEMMA WrapperIsFound ==
  ASSUME NEW e \in Errors, NEW wrapper \in Wrappers
  PROVE  Has(Wrap(wrapper, e), wrapper)
<1>1. PICK cause \in e : TRUE
  BY DEF Errors
<1>2. [cause EXCEPT !.in = @ \cup {wrapper}] \in Wrap(wrapper, e)
  BY <1>1 DEF Wrap
<1>3. cause \in Cause
  BY DEF Errors
<1>4. wrapper \in [cause EXCEPT !.in = @ \cup {wrapper}].in
  BY <1>3 DEF Cause
<1>5. QED
  BY <1>2, <1>4 DEF Has

\* A hook's error is found in what it is joined to.
LEMMA JoinedIsFound ==
  ASSUME NEW joined \in SUBSET Errors, NEW e \in joined, Has(e, "hook")
  PROVE  Has(Connect(joined), "hook")
<1>1. PICK cause \in e : cause.kind = "hook" \/ "hook" \in cause.in
  BY DEF Has
<1>2. cause \in Cause
  BY DEF Errors
<1>3. [cause EXCEPT !.in = @ \cup {"connect"}] \in Connect(joined)
  BY <1>1 DEF Connect, Wrap
<1>4. LET c == [cause EXCEPT !.in = @ \cup {"connect"}]
      IN  c.kind = "hook" \/ "hook" \in c.in
  BY <1>1, <1>2 DEF Cause
<1>5. QED
  BY <1>3, <1>4 DEF Has

\* An error is retried for causes of two kinds only, of which a cancellation has to be
\* the pool's own, whatever the causes are wrapped in.
LEMMA RetriedCauses ==
  ASSUME NEW e \in Errors, NEW canceled \in BOOLEAN, CallsForRetry(e, canceled), NEW cause \in e
  PROVE  /\ cause.in \cap {"hook", "certificate"} = {}
         /\ \/ cause.kind \in Transient
            \/ cause.kind = "canceled" /\ canceled
            \/ cause.kind = "missing"
<1>1. Verdict(cause, canceled) # Veto
  BY DEF CallsForRetry
<1>2. cause.in \cap {"hook", "certificate"} = {}
  BY <1>1 DEF Verdict
<1>3. VerdictAlone(cause.kind, "optional" \in cause.in, canceled) # Veto
  BY <1>1, <1>2 DEF Verdict
<1>4. QED
  BY <1>2, <1>3 DEF VerdictAlone

\* A hook's error is never retried.
LEMMA HooksAreVetoed ==
  ASSUME NEW e \in Errors, Has(e, "hook"), NEW canceled \in BOOLEAN
  PROVE  ~CallsForRetry(e, canceled)
<1> SUFFICES ASSUME CallsForRetry(e, canceled) PROVE FALSE
  OBVIOUS
<1>1. PICK cause \in e : cause.kind = "hook" \/ "hook" \in cause.in
  BY DEF Has
<1>2. cause.kind # "hook"
  BY DEF Errors, Cause, CauseKinds, Transient
<1>3. "hook" \notin cause.in
  BY RetriedCauses
<1>4. QED
  BY <1>1, <1>2, <1>3

\* What a lookup or a try failed with keeps its kind, and what it was wrapped in, in the
\* error that joins it.
LEMMA JoinedCauses ==
  ASSUME NEW joined \in SUBSET Errors, NEW e \in joined, NEW cause \in e
  PROVE  \E c \in Connect(joined) : c.kind = cause.kind /\ cause.in \subseteq c.in
<1>1. cause \in Cause
  BY DEF Errors
<1>2. [cause EXCEPT !.in = @ \cup {"connect"}] \in Connect(joined)
  BY DEF Connect, Wrap
<1>3. QED
  BY <1>1, <1>2 DEF Cause

\* What holds of the errors that are retried together: none of them is a refusal, and a
\* cancellation among them has to be the pool's own.
LEMMA RetriedErrors ==
  ASSUME NEW joined \in SUBSET Errors, joined # {}, NEW canceled \in BOOLEAN,
         CallsForRetry(Connect(joined), canceled), NEW e \in joined
  PROVE  /\ \A kind \in {"denied", "certificate", "topology-changed", "other"} : ~Has(e, kind)
         /\ Has(e, "canceled") => canceled
<1>1. ASSUME NEW cause \in e
      PROVE  /\ cause.in \cap {"hook", "certificate"} = {}
             /\ \/ cause.kind \in Transient
                \/ cause.kind = "canceled" /\ canceled
                \/ cause.kind = "missing"
  <2>1. PICK c \in Connect(joined) : c.kind = cause.kind /\ cause.in \subseteq c.in
    BY JoinedCauses
  <2>2. /\ c.in \cap {"hook", "certificate"} = {}
        /\ \/ c.kind \in Transient
           \/ c.kind = "canceled" /\ canceled
           \/ c.kind = "missing"
    BY ConnectIsError, RetriedCauses
  <2>3. QED
    BY <2>1, <2>2
<1>2. ASSUME NEW cause \in e
      PROVE  cause.in \subseteq Wrappers
  BY DEF Errors, Cause
<1>3. \A kind \in {"denied", "certificate", "topology-changed", "other"} : ~Has(e, kind)
  BY <1>1, <1>2 DEF Has, Wrappers, Transient
<1>4. Has(e, "canceled") => canceled
  BY <1>1, <1>2 DEF Has, Wrappers, Transient
<1>5. QED
  BY <1>3, <1>4

\* And one of them calls for it.
LEMMA SomethingIsRetried ==
  ASSUME NEW joined \in SUBSET Errors, NEW canceled \in BOOLEAN,
         CallsForRetry(Connect(joined), canceled)
  PROVE  \E e \in joined, kind \in Transient \cup {"canceled"} : Has(e, kind)
<1>1. PICK c \in Connect(joined) : Verdict(c, canceled) = Retry
  BY DEF CallsForRetry
<1>2. c.kind \in Transient \cup {"canceled"}
  BY <1>1 DEF Verdict, VerdictAlone, Retry, Veto, Neutral
<1>3. PICK cause \in UNION joined : c = [cause EXCEPT !.in = @ \cup {"connect"}]
  BY DEF Connect, Wrap
<1>4. cause \in Cause
  BY DEF Errors
<1>5. cause.kind = c.kind
  BY <1>3, <1>4 DEF Cause
<1>6. QED
  BY <1>2, <1>5 DEF Has

\* The error of a route check is not retried.
LEMMA RouteChecksAreVetoed ==
  ASSUME NEW canceled \in BOOLEAN
  PROVE  ~CallsForRetry(Connect({Leaf("topology-changed")}), canceled)
<1>1. Leaf("topology-changed") \in Errors
  BY LeavesAreErrors DEF CauseKinds
<1>2. Has(Leaf("topology-changed"), "topology-changed")
  BY DEF Has, Leaf
<1>3. QED
  BY <1>1, <1>2, RetriedErrors

\* An error of a cancelled attempt that is not retried has a cause to show that is more
\* than an interruption.
LEMMA ExcusesAreNamed ==
  ASSUME NEW e \in Errors, ~CallsForRetry(e, TRUE)
  PROVE  \E cause \in e : ~Interruption(cause)
<1> SUFFICES ASSUME \A cause \in e : Interruption(cause) PROVE FALSE
  OBVIOUS
<1>1. ASSUME NEW cause \in e
      PROVE  Verdict(cause, TRUE) = Retry
  BY DEF Interruption, Verdict, VerdictAlone
<1>2. e # {}
  BY DEF Errors
<1>3. Retry # Veto
  BY DEF Retry, Veto
<1>4. QED
  BY <1>1, <1>2, <1>3 DEF CallsForRetry

-----------------------------------------------------------------------------
(* The steps *)

\* The invariant holds when Open begins.
LEMMA InitIInv == Init => IInv
<1> SUFFICES ASSUME Init PROVE IInv
  OBVIOUS
<1>1. /\ delay = MinDelay /\ hosts = 0 /\ addresses = 0 /\ hookFailures = 0
      /\ step = "again" /\ hookFailure = NoError /\ caller = "here" /\ err = NoError
  BY Zenon DEF Init
<1>2. delay \in MinDelay..MaxDelay /\ hosts \in 0..2 /\ addresses \in Nat /\ hookFailures \in 0..2
  BY <1>1, DelaysAreSound
<1>3. /\ errors \in SUBSET Errors /\ healthy \in BOOLEAN /\ marker \in BOOLEAN
      /\ eligible \in BOOLEAN /\ obsolete \in BOOLEAN /\ optional \in BOOLEAN
  BY Zenon DEF Init
<1>4. StartupTypeOK
  BY <1>1, <1>2, <1>3 DEF StartupTypeOK
<1>5. HookFailureEnds
  BY <1>1 DEF HookFailureEnds
<1>6. ErrorIsExplained /\ DecisionStands
  BY <1>1 DEF ErrorIsExplained, DecisionStands, Deciding
<1>7. QED
  BY <1>4, <1>5, <1>6 DEF IInv

\* The errors of the model's own are errors, and a hook's error stays one.
LEMMA ErrorsOfSteps ==
  /\ Leaf("other") \in Errors /\ Leaf("eof") \in Errors /\ Leaf("canceled") \in Errors
  /\ Leaf("timeout") \in Errors /\ Leaf("topology-changed") \in Errors
  /\ Missing \in Errors /\ Leaf("slow-dns") \in Errors
  /\ Refusals \subseteq Errors /\ Cancellations \subseteq Errors
  /\ \A e \in HookErrors : Hook(e) \in Errors /\ Has(Hook(e), "hook")
<1>1. Leaf("canceled") \in Errors /\ Leaf("net-canceled") \in Errors
  BY LeavesAreErrors DEF CauseKinds
<1>2. ASSUME NEW e \in HookErrors
      PROVE  Hook(e) \in Errors /\ Has(Hook(e), "hook")
  BY HookErrorsAreErrors, WrappedIsError, WrapperIsFound DEF Hook, Wrappers
<1>3. QED
  BY <1>1, <1>2, LeavesAreErrors, CancellationsAreKnown
     DEF CauseKinds, Transient, Missing, Refusals, Canceled, NetCanceled

\* What is not of pgx.ConnectConfig does not look like its error.
LEMMA NotOfConnect ==
  /\ \A kind \in CauseKinds : ~Has(Leaf(kind), "connect")
  /\ \A kind \in CauseKinds : Wrap("wrap", Leaf(kind)) \in Errors /\ ~Has(Wrap("wrap", Leaf(kind)), "connect")
  /\ ~Has(NoError, "connect") /\ ~Has(NoError, "hook")
<1>1. \A kind \in CauseKinds : Wrap("wrap", Leaf(kind)) \in Errors
  BY LeavesAreErrors, WrappedIsError DEF Wrappers
<1>2. \A kind \in CauseKinds : ~Has(Leaf(kind), "connect")
  BY DEF Has, Leaf, CauseKinds, Transient
<1>3. ASSUME NEW kind \in CauseKinds
      PROVE  ~Has(Wrap("wrap", Leaf(kind)), "connect")
  <2>1. \A c \in Wrap("wrap", Leaf(kind)) : c.kind = kind /\ c.in = {"wrap"}
    BY DEF Wrap, Leaf
  <2>2. QED
    BY <2>1 DEF Has, CauseKinds, Transient
<1>4. ~Has(NoError, "connect") /\ ~Has(NoError, "hook")
  BY DEF Has, NoError, Leaf
<1>5. QED
  BY <1>1, <1>2, <1>3, <1>4

\* The errors of lookups, and the connect errors of a single cause.
LEMMA ErrorsOfConstructors ==
  /\ \A c \in Cancellations : LookupError(Wrap("dns", c)) \in Errors
  /\ \A e \in LookupFailures : LookupError(e) \in Errors
  /\ Connect({Leaf("topology-changed")}) \in Errors
  /\ \A e \in HookErrors : Connect({Hook(e)}) \in Errors /\ Has(Connect({Hook(e)}), "hook")
  /\ \A e \in HookErrors : Hook(e) # NoError
<1>1. \A e \in Errors : LookupError(e) \in Errors
  BY WrappedIsError DEF LookupError, Optional, Wrappers
<1>2. \A c \in Cancellations : Wrap("dns", c) \in Errors
  BY ErrorsOfSteps, WrappedIsError DEF Wrappers
<1>3. \A e \in Errors : Connect({e}) \in Errors
  BY ConnectIsError
<1>4. \A e \in Errors : Has(e, "hook") => Has(Connect({e}), "hook")
  BY JoinedIsFound
<1>5. QED
  BY <1>1, <1>2, <1>3, <1>4, ErrorsOfSteps, NotOfConnect DEF LookupFailures, Canceled

\* A timeout of a cancelled attempt becomes the cancellation; a hook's never does.
LEMMA NormalizedErrors ==
  /\ \A e \in Errors : Normalize(e) \in Errors
  /\ \A e \in HookErrors : Normalize(Hook(e)) = Hook(e)
<1>1. ~Has(Leaf("timeout"), "hook")
  BY DEF Has, Leaf
<1>2. QED
  BY <1>1, ErrorsOfSteps DEF Normalize, Canceled

\* The environment may disturb nothing but the reasons to go on.
LEMMA EnvironmentKeepsIInv ==
  ASSUME IInv, CallerLeaves \/ Reroute \/ CancelObsolete \/ Recover
  PROVE  IInv'
<1> USE DEF loop, attempt
<1>1. StartupTypeOK'
  BY DEF IInv, StartupTypeOK, CallerLeaves, Reroute, CancelObsolete, Recover
<1>2. HookFailureEnds'
  BY DEF IInv, HookFailureEnds, CallerLeaves, Reroute, CancelObsolete, Recover
<1>3. ErrorIsExplained'
  BY DEF IInv, ErrorIsExplained, CallerLeaves, Reroute, CancelObsolete, Recover, Deciding,
         Attempting
<1>4. DecisionStands'
  BY DEF IInv, DecisionStands, CallerLeaves, Reroute, CancelObsolete, Recover, Ended,
         Retryable
<1>5. QED
  BY <1>1, <1>2, <1>3, <1>4 DEF IInv

\* What happens before an address is tried.
LEMMA LookupsKeepIInv ==
  ASSUME IInv, BeforeConnectFails \/ Resolve \/ ResolveFails \/ Lookup \/ LookedUp
  PROVE  IInv'
<1> USE DEF loop, attempt, Becomes, Fails, HookFails
<1>1. CASE BeforeConnectFails
  <2>1. StartupTypeOK'
    BY <1>1, ErrorsOfSteps DEF IInv, StartupTypeOK, Constructing, Deciding, Ended, BeforeConnectFails
  <2>2. HookFailureEnds'
    BY <1>1, ErrorsOfSteps DEF IInv, StartupTypeOK, HookFailureEnds, BeforeConnectFails
  <2>3. ErrorIsExplained' /\ DecisionStands'
    BY <1>1, ErrorsOfSteps DEF IInv, ErrorIsExplained, DecisionStands, Deciding, BeforeConnectFails
  <2>4. QED
    BY <2>1, <2>2, <2>3 DEF IInv
<1>2. CASE Resolve
  <2>1. StartupTypeOK'
    <3>1. hosts' \in 0..2 /\ optional' \in BOOLEAN
      <4>1. hosts' \in {1, 2} /\ optional' \in {FALSE, hosts' = 2}
        BY <1>2, Zenon DEF Resolve
      <4>2. (hosts' = 2) \in BOOLEAN
        OBVIOUS
      <4>3. optional' \in BOOLEAN
        BY <4>1, <4>2, Zenon
      <4>4. QED
        BY <4>1, <4>3
    <3>2. hosts' > 0
      BY <1>2 DEF Resolve
    <3>3. QED
      BY <1>2, <3>1, <3>2 DEF IInv, StartupTypeOK, Constructing, Deciding, Ended, Resolve
  <2>2. HookFailureEnds'
    BY <1>2, ErrorsOfSteps DEF IInv, StartupTypeOK, HookFailureEnds, Resolve
  <2>3. ErrorIsExplained' /\ DecisionStands'
    BY <1>2, ErrorsOfSteps DEF IInv, ErrorIsExplained, DecisionStands, Deciding, Resolve
  <2>4. QED
    BY <2>1, <2>2, <2>3 DEF IInv
<1>3. CASE ResolveFails
  <2>1. StartupTypeOK'
    BY <1>3, ErrorsOfSteps, NotOfConnect DEF IInv, StartupTypeOK, Constructing, Deciding, Ended, ResolveFails, CauseKinds
  <2>2. HookFailureEnds'
    BY <1>3, ErrorsOfSteps DEF IInv, StartupTypeOK, HookFailureEnds, ResolveFails
  <2>3. ErrorIsExplained' /\ DecisionStands'
    BY <1>3, ErrorsOfSteps, NotOfConnect DEF IInv, ErrorIsExplained, DecisionStands, Deciding, ResolveFails, CauseKinds
  <2>4. QED
    BY <2>1, <2>2, <2>3 DEF IInv
<1>4. CASE Lookup
  <2>1. StartupTypeOK'
    BY <1>4, ErrorsOfSteps, ErrorsOfConstructors DEF IInv, StartupTypeOK, Constructing, Deciding, Ended, Lookup
  <2>2. HookFailureEnds'
    BY <1>4, ErrorsOfSteps DEF IInv, StartupTypeOK, HookFailureEnds, Lookup
  <2>3. ErrorIsExplained' /\ DecisionStands'
    BY <1>4, ErrorsOfSteps DEF IInv, ErrorIsExplained, DecisionStands, Deciding, Lookup
  <2>4. QED
    BY <2>1, <2>2, <2>3 DEF IInv
<1>5. CASE LookedUp
  <2>1. StartupTypeOK'
    BY <1>5, ErrorsOfSteps DEF IInv, StartupTypeOK, Constructing, Deciding, Ended, LookedUp
  <2>2. HookFailureEnds'
    BY <1>5, ErrorsOfSteps DEF IInv, StartupTypeOK, HookFailureEnds, LookedUp
  <2>3. ErrorIsExplained' /\ DecisionStands'
    BY <1>5, ErrorsOfSteps DEF IInv, ErrorIsExplained, DecisionStands, Deciding, LookedUp
  <2>4. QED
    BY <2>1, <2>2, <2>3 DEF IInv
<1>6. QED
  BY <1>1, <1>2, <1>3, <1>4, <1>5


\* The tries of the addresses: each leaves an error, or another address.
LEMMA TriesKeepIInv ==
  ASSUME IInv, TryBlocked \/ TryFails \/ TryHookFails \/ TryObsolete \/ TrySucceeds \/ Exhausted
  PROVE  IInv'
<1> USE DEF loop, attempt, Becomes, Fails, HookFails
<1>1. CASE TryBlocked
  <2>1. StartupTypeOK'
    BY <1>1, ErrorsOfSteps DEF IInv, StartupTypeOK, Constructing, Deciding, Ended, TryBlocked
  <2>2. HookFailureEnds'
    BY <1>1, ErrorsOfSteps DEF IInv, StartupTypeOK, HookFailureEnds, TryBlocked
  <2>3. ErrorIsExplained' /\ DecisionStands'
    BY <1>1, ErrorsOfSteps DEF IInv, ErrorIsExplained, DecisionStands, Deciding, TryBlocked
  <2>4. QED
    BY <2>1, <2>2, <2>3 DEF IInv
<1>2. CASE TryFails
  <2>1. StartupTypeOK'
    <3>1. PICK e \in Errors :
            /\ errors' = errors \cup {Normalize(e)}
            /\ addresses' = IF e = Leaf("denied") THEN 0 ELSE addresses - 1
      BY <1>2, ErrorsOfSteps DEF TryFails
    <3>2. Normalize(e) \in Errors
      BY NormalizedErrors
    <3>3. QED
      BY <1>2, <3>1, <3>2 DEF IInv, StartupTypeOK, Constructing, Deciding, Ended, TryFails, MayDial
  <2>2. HookFailureEnds'
    BY <1>2, ErrorsOfSteps DEF IInv, StartupTypeOK, HookFailureEnds, TryFails, Normalize, MayDial
  <2>3. ErrorIsExplained' /\ DecisionStands'
    BY <1>2, ErrorsOfSteps DEF IInv, ErrorIsExplained, DecisionStands, Deciding, TryFails, Normalize, MayDial
  <2>4. QED
    BY <2>1, <2>2, <2>3 DEF IInv
<1>3. CASE TryHookFails
  <2>1. StartupTypeOK'
    <3>1. PICK e \in HookErrors : hookFailure' = Hook(e) /\ errors' = errors \cup {Hook(e)}
      BY <1>3, NormalizedErrors DEF TryHookFails
    <3>2. QED
      BY <1>3, <3>1, ErrorsOfSteps DEF IInv, StartupTypeOK, Constructing, Deciding, Ended, TryHookFails, MayDial
  <2>2. HookFailureEnds'
    <3>1. PICK e \in HookErrors : hookFailure' = Hook(e) /\ errors' = errors \cup {Hook(e)}
      BY <1>3, NormalizedErrors DEF TryHookFails
    <3>2. Has(hookFailure', "hook") /\ hookFailure' \in errors' /\ hookFailure' # NoError
      BY <3>1, ErrorsOfSteps, ErrorsOfConstructors
    <3>3. hookFailures' = 1
      BY <1>3 DEF IInv, StartupTypeOK, HookFailureEnds, TryHookFails, MayDial
    <3>4. QED
      BY <1>3, <3>2, <3>3 DEF TryHookFails, HookFailureEnds
  <2>3. ErrorIsExplained' /\ DecisionStands'
    BY <1>3, ErrorsOfSteps DEF IInv, ErrorIsExplained, DecisionStands, Deciding, TryHookFails, Normalize, MayDial
  <2>4. QED
    BY <2>1, <2>2, <2>3 DEF IInv
<1>4. CASE TryObsolete
  <2>1. StartupTypeOK'
    BY <1>4, ErrorsOfSteps DEF IInv, StartupTypeOK, Constructing, Deciding, Ended, TryObsolete, MayDial
  <2>2. HookFailureEnds'
    BY <1>4, ErrorsOfSteps DEF IInv, StartupTypeOK, HookFailureEnds, TryObsolete, MayDial
  <2>3. ErrorIsExplained' /\ DecisionStands'
    BY <1>4, ErrorsOfSteps DEF IInv, ErrorIsExplained, DecisionStands, Deciding, TryObsolete, MayDial
  <2>4. QED
    BY <2>1, <2>2, <2>3 DEF IInv
<1>5. CASE TrySucceeds
  <2>1. StartupTypeOK'
    BY <1>5, ErrorsOfSteps DEF IInv, StartupTypeOK, Constructing, Deciding, Ended, TrySucceeds, MayDial
  <2>2. HookFailureEnds'
    BY <1>5, ErrorsOfSteps DEF IInv, StartupTypeOK, HookFailureEnds, TrySucceeds, MayDial
  <2>3. ErrorIsExplained' /\ DecisionStands'
    BY <1>5, ErrorsOfSteps DEF IInv, ErrorIsExplained, DecisionStands, Deciding, TrySucceeds, MayDial
  <2>4. QED
    BY <2>1, <2>2, <2>3 DEF IInv
<1>6. CASE Exhausted
  <2>1. StartupTypeOK'
    <3>1. errors # {} /\ errors \in SUBSET Errors
      BY <1>6 DEF IInv, StartupTypeOK, Exhausted
    <3>2. Connect(errors) \in Errors
      BY <3>1, ConnectIsError
    <3>3. QED
      BY <1>6, <3>2 DEF IInv, StartupTypeOK, Constructing, Deciding, Ended, Exhausted, ConnectFails
  <2>2. HookFailureEnds'
    BY <1>6, ErrorsOfSteps, JoinedIsFound DEF IInv, StartupTypeOK, HookFailureEnds, Exhausted, ConnectFails
  <2>3. ErrorIsExplained' /\ DecisionStands'
    BY <1>6, ErrorsOfSteps DEF IInv, ErrorIsExplained, DecisionStands, Deciding, Exhausted, ConnectFails
  <2>4. QED
    BY <2>1, <2>2, <2>3 DEF IInv
<1>7. QED
  BY <1>1, <1>2, <1>3, <1>4, <1>5, <1>6


\* The session's hooks, and the ping itself.
LEMMA SessionsKeepIInv ==
  ASSUME IInv, AfterConnect \/ Session \/ Prepare \/ Query
  PROVE  IInv'
<1> USE DEF loop, attempt, Becomes, Fails, HookFails
<1>1. CASE AfterConnect
  <2>1. StartupTypeOK'
    <3>1. err' \in Errors \cup {NoError} /\ marker' \in BOOLEAN
      BY <1>1, ErrorsOfConstructors DEF IInv, StartupTypeOK, AfterConnect, ConnectFails
    <3>2. hookFailures' \in 0..2
      BY <1>1 DEF IInv, StartupTypeOK, AfterConnect
    <3>3. step' \in {"session", "decide"}
      BY <1>1 DEF AfterConnect, ConnectFails
    <3>4. QED
      BY <1>1, <3>1, <3>2, <3>3 DEF IInv, StartupTypeOK, Constructing, Deciding, Ended, AfterConnect
  <2>2. HookFailureEnds'
    <3>1. hookFailures = 0
      BY <1>1 DEF IInv, StartupTypeOK, HookFailureEnds, AfterConnect
    <3>2. CASE UNCHANGED hookFailures
      BY <1>1, <3>1, <3>2 DEF IInv, HookFailureEnds, AfterConnect
    <3>3. CASE HookFails /\ \E e \in HookErrors : ConnectFails({Hook(e)})
      BY <1>1, <3>1, <3>3, ErrorsOfConstructors DEF IInv, HookFailureEnds, AfterConnect, ConnectFails
    <3>4. QED
      BY <1>1, <3>2, <3>3 DEF AfterConnect
  <2>3. ErrorIsExplained'
    <3>1. CASE step' = "session"
      BY <3>1 DEF ErrorIsExplained, Deciding
    <3>2. CASE ConnectFails({Leaf("topology-changed")})
      BY <1>1, <3>2 DEF ErrorIsExplained, AfterConnect, ConnectFails
    <3>3. CASE \E e \in HookErrors : ConnectFails({Hook(e)})
      BY <3>3, ErrorsOfConstructors DEF ErrorIsExplained, ConnectFails
    <3>4. QED
      BY <1>1, <3>1, <3>2, <3>3 DEF AfterConnect
  <2>4. DecisionStands'
    BY <1>1 DEF DecisionStands, AfterConnect, ConnectFails
  <2>5. QED
    BY <2>1, <2>2, <2>3, <2>4 DEF IInv
<1>2. CASE Session
  <2>1. StartupTypeOK'
    BY <1>2, ErrorsOfSteps DEF IInv, StartupTypeOK, Constructing, Deciding, Ended, Session
  <2>2. HookFailureEnds'
    BY <1>2, ErrorsOfSteps DEF IInv, StartupTypeOK, HookFailureEnds, Session
  <2>3. ErrorIsExplained' /\ DecisionStands'
    BY <1>2, ErrorsOfSteps, NotOfConnect DEF IInv, ErrorIsExplained, DecisionStands, Deciding, Session, CauseKinds
  <2>4. QED
    BY <2>1, <2>2, <2>3 DEF IInv
<1>3. CASE Prepare
  <2>1. StartupTypeOK'
    BY <1>3, ErrorsOfSteps DEF IInv, StartupTypeOK, Constructing, Deciding, Ended, Prepare
  <2>2. HookFailureEnds'
    BY <1>3, ErrorsOfSteps DEF IInv, StartupTypeOK, HookFailureEnds, Prepare
  <2>3. ErrorIsExplained' /\ DecisionStands'
    BY <1>3, ErrorsOfSteps, NotOfConnect DEF IInv, ErrorIsExplained, DecisionStands, Deciding, Prepare, CauseKinds
  <2>4. QED
    BY <2>1, <2>2, <2>3 DEF IInv
<1>4. CASE Query
  <2>1. StartupTypeOK'
    BY <1>4, ErrorsOfSteps, NotOfConnect DEF IInv, StartupTypeOK, Constructing, Deciding, Ended, Query, CauseKinds, Transient
  <2>2. HookFailureEnds'
    BY <1>4, ErrorsOfSteps DEF IInv, StartupTypeOK, HookFailureEnds, Query
  <2>3. ErrorIsExplained' /\ DecisionStands'
    BY <1>4, ErrorsOfSteps, NotOfConnect DEF IInv, ErrorIsExplained, DecisionStands, Deciding, Query, CauseKinds, Transient
  <2>4. QED
    BY <2>1, <2>2, <2>3 DEF IInv
<1>5. QED
  BY <1>1, <1>2, <1>3, <1>4


\* The loop: it decides by the error, and what it decided stays true of it.
LEMMA LoopKeepsIInv ==
  ASSUME IInv, Ping \/ Abandon \/ GiveUp \/ Wait \/ WaitEnds \/ WaitAborts
  PROVE  IInv'
<1> USE DEF loop, attempt, Becomes, Fails, HookFails
<1>1. CASE Ping
  <2>1. StartupTypeOK'
    BY <1>1, ErrorsOfSteps DEF IInv, StartupTypeOK, Constructing, Deciding, Ended, Ping
  <2>2. HookFailureEnds'
    BY <1>1, ErrorsOfSteps DEF IInv, StartupTypeOK, HookFailureEnds, Ping
  <2>3. ErrorIsExplained' /\ DecisionStands'
    BY <1>1, ErrorsOfSteps DEF IInv, ErrorIsExplained, DecisionStands, Deciding, Ping
  <2>4. QED
    BY <2>1, <2>2, <2>3 DEF IInv
<1>2. CASE Abandon
  <2>1. StartupTypeOK'
    BY <1>2, ErrorsOfSteps DEF IInv, StartupTypeOK, Constructing, Deciding, Ended, Abandon
  <2>2. HookFailureEnds'
    BY <1>2, ErrorsOfSteps DEF IInv, StartupTypeOK, HookFailureEnds, Abandon
  <2>3. ErrorIsExplained' /\ DecisionStands'
    BY <1>2, ErrorsOfSteps, NotOfConnect DEF IInv, ErrorIsExplained, DecisionStands, Deciding, Abandon, CauseKinds
  <2>4. QED
    BY <2>1, <2>2, <2>3 DEF IInv
<1>3. CASE GiveUp
  <2>1. StartupTypeOK'
    BY <1>3, ErrorsOfSteps DEF IInv, StartupTypeOK, Constructing, Deciding, Ended, GiveUp, Retryable
  <2>2. HookFailureEnds'
    BY <1>3, ErrorsOfSteps DEF IInv, StartupTypeOK, HookFailureEnds, GiveUp, Retryable
  <2>3. ErrorIsExplained' /\ DecisionStands'
    BY <1>3, ErrorsOfSteps DEF IInv, ErrorIsExplained, DecisionStands, Deciding, GiveUp, Retryable
  <2>4. QED
    BY <2>1, <2>2, <2>3 DEF IInv
<1>4. CASE Wait
  <2>1. StartupTypeOK'
    BY <1>4, ErrorsOfSteps DEF IInv, StartupTypeOK, Constructing, Deciding, Ended, Wait, Retryable
  <2>2. HookFailureEnds'
    <3>1. err # NoError /\ err \in Errors
      BY <1>4, NotOfConnect DEF IInv, StartupTypeOK, Wait, Retryable
    <3>2. ~Has(err, "hook")
      BY <1>4, <3>1, HooksAreVetoed DEF IInv, StartupTypeOK, Wait, Retryable
    <3>3. hookFailures = 0
      BY <1>4, <3>2 DEF IInv, StartupTypeOK, HookFailureEnds, Wait
    <3>4. QED
      BY <1>4, <3>3 DEF IInv, HookFailureEnds, Wait
  <2>3. ErrorIsExplained' /\ DecisionStands'
    BY <1>4, ErrorsOfSteps DEF IInv, ErrorIsExplained, DecisionStands, Deciding, Wait, Retryable
  <2>4. QED
    BY <2>1, <2>2, <2>3 DEF IInv
<1>5. CASE WaitEnds
  <2>1. StartupTypeOK'
    <3>1. NextDelay \in MinDelay..MaxDelay
      BY DelaysAreSound DEF IInv, StartupTypeOK, NextDelay
    <3>2. QED
      BY <1>5, <3>1 DEF IInv, StartupTypeOK, Constructing, Deciding, Ended, WaitEnds
  <2>2. HookFailureEnds'
    BY <1>5, ErrorsOfSteps DEF IInv, StartupTypeOK, HookFailureEnds, WaitEnds, NextDelay
  <2>3. ErrorIsExplained' /\ DecisionStands'
    BY <1>5, ErrorsOfSteps DEF IInv, ErrorIsExplained, DecisionStands, Deciding, WaitEnds, NextDelay
  <2>4. QED
    BY <2>1, <2>2, <2>3 DEF IInv
<1>6. CASE WaitAborts
  <2>1. StartupTypeOK'
    BY <1>6, ErrorsOfSteps DEF IInv, StartupTypeOK, Constructing, Deciding, Ended, WaitAborts
  <2>2. HookFailureEnds'
    BY <1>6, ErrorsOfSteps DEF IInv, StartupTypeOK, HookFailureEnds, WaitAborts
  <2>3. ErrorIsExplained' /\ DecisionStands'
    BY <1>6, ErrorsOfSteps DEF IInv, ErrorIsExplained, DecisionStands, Deciding, WaitAborts
  <2>4. QED
    BY <2>1, <2>2, <2>3 DEF IInv
<1>7. QED
  BY <1>1, <1>2, <1>3, <1>4, <1>5, <1>6

\* Every step of Open keeps the invariant.
LEMMA NextIInv == IInv /\ [Next]_vars => IInv'
<1> SUFFICES ASSUME IInv, [Next]_vars PROVE IInv'
  OBVIOUS
<1>1. CASE CallerLeaves \/ Reroute \/ CancelObsolete \/ Recover
  BY <1>1, EnvironmentKeepsIInv
<1>2. CASE Construct
  BY <1>2, LookupsKeepIInv, TriesKeepIInv, SessionsKeepIInv DEF Construct, Try
<1>3. CASE Loop
  BY <1>3, LoopKeepsIInv DEF Loop
<1>4. CASE UNCHANGED vars
  BY <1>4 DEF vars, loop, attempt, IInv, StartupTypeOK, HookFailureEnds, ErrorIsExplained,
              DecisionStands, Retryable
<1>5. QED
  BY <1>1, <1>2, <1>3, <1>4 DEF Next

-----------------------------------------------------------------------------
(* The theorems *)

\* Open's state is always well-formed, with every error of a ping coming down to some
\* cause, and what it knows of its last error is what decides how it goes on.
THEOREM StartupIsInductive == Spec => []IInv
  BY InitIInv, NextIInv, PTL DEF Spec

\* Whatever error a hook returns, one that looks like the network's included, and
\* whatever fails beside it, no hook is called again (startup.go:17-18).
THEOREM HooksAreNotReplayed == Spec => []HooksFailOnce
<1>1. IInv => HooksFailOnce
  BY DEF IInv, StartupTypeOK, HookFailureEnds, HooksFailOnce
<1>2. QED
  BY <1>1, StartupIsInductive, PTL

\* When Open retries no hook has failed, no host or address of the attempt was refused
\* for good, and a cancellation among what went wrong was the watcher's, in every order of
\* addresses, hooks, reroutings and deadlines (startup.go:84-87).
THEOREM OnlySafeErrorsAreRetried == Spec => []RetriesAreSafe
<1>1. IInv => RetriesAreSafe
  <2> SUFFICES ASSUME IInv, step = "wait"
               PROVE  /\ hookFailures = 0
                      /\ \A e \in errors, kind \in {"denied", "certificate", "topology-changed", "other"} :
                            ~Has(e, kind)
                      /\ \E e \in errors, kind \in Transient \cup {"canceled"} : Has(e, kind)
                      /\ (\E e \in errors : Has(e, "canceled")) => obsolete
    BY DEF RetriesAreSafe
  <2>1. CallsForRetry(err, marker) /\ Has(err, "connect")
    BY DEF IInv, DecisionStands, Retryable
  <2>2. err \in Errors /\ marker \in BOOLEAN /\ errors \in SUBSET Errors /\ hookFailures \in 0..2
    BY <2>1, NotOfConnect DEF IInv, StartupTypeOK
  <2>3. ~Has(err, "hook")
    BY <2>1, <2>2, HooksAreVetoed
  <2>4. marker = obsolete /\ err = Connect(errors)
    BY <2>1, <2>2, <2>3, RouteChecksAreVetoed DEF IInv, ErrorIsExplained, Deciding
  <2>5. errors # {}
    BY <2>1, <2>4 DEF Has, Connect, Wrap
  <2>6. \A e \in errors :
          /\ \A kind \in {"denied", "certificate", "topology-changed", "other"} : ~Has(e, kind)
          /\ Has(e, "canceled") => marker
    BY <2>1, <2>2, <2>4, <2>5, RetriedErrors
  <2>7. \E e \in errors, kind \in Transient \cup {"canceled"} : Has(e, kind)
    BY <2>1, <2>2, <2>4, SomethingIsRetried
  <2>8. hookFailures = 0
    BY <2>2 DEF IInv, HookFailureEnds
  <2>9. (\E e \in errors : Has(e, "canceled")) => obsolete
    BY <2>4, <2>6, Zenon
  <2>10. QED
    BY <2>6, <2>7, <2>8, <2>9
<1>2. QED
  BY <1>1, StartupIsInductive, PTL

\* An attempt that the watcher cancelled ends Open, for a caller that waits, only with a
\* cause that is no mere interruption (startup_topology_test.go:130). Net's own value for
\* the cancellation and the error of a route check are such causes.
THEOREM ObsoleteAttemptsAreRetried == Spec => []CancelledAttemptsAreRetried
<1>1. IInv => CancelledAttemptsAreRetried
  <2> SUFFICES ASSUME IInv, step = "returned", caller = "here", obsolete, Has(err, "connect")
               PROVE  \E cause \in err : ~Interruption(cause)
    BY DEF CancelledAttemptsAreRetried
  <2>1. err \in Errors
    BY NotOfConnect DEF IInv, StartupTypeOK
  <2>2. CASE Has(err, "hook")
    BY <2>1, <2>2 DEF Has, Interruption, Errors, Cause, CauseKinds, Transient
  <2>3. CASE ~Has(err, "hook")
    <3>1. marker = obsolete
      BY <2>3 DEF IInv, ErrorIsExplained, Deciding
    <3>2. marker = TRUE
      BY <3>1, Zenon DEF IInv, StartupTypeOK
    <3>3. ~CallsForRetry(err, TRUE)
      BY <3>2 DEF IInv, DecisionStands, Retryable
    <3>4. QED
      BY <2>1, <3>3, ExcusesAreNamed
  <2>4. QED
    BY <2>2, <2>3
<1>2. QED
  BY <1>1, StartupIsInductive, PTL
==============================================================================
