-------------------------- MODULE NetworkPreference --------------------------
(***************************************************************************)
(* Which of a member's two addresses a connection constructor tries first. *)
(* A pool remembers for a while the targets whose external address worked  *)
(* when the internal one did not (pgxpool/network_preference.go), and a    *)
(* constructor learns which of them its connection went through from the   *)
(* last address it dialed. Constructors run concurrently and share the     *)
(* preferences, under p.mu; each reads the clock before it locks.          *)
(***************************************************************************)
EXTENDS Integers, FiniteSets, Functions, Sequences

CONSTANTS
    Targets,          \* routing identities
    NoTarget,         \* target of a constructor that does not run
    TwoAddressed,     \* targets with a FallbackEndpoint
    Constructors,
    Answers,          \* what the hosts of the two networks may resolve to
    PreferenceTTL,    \* networkPreferenceTTL
    MaxPreferences,   \* maxNetworkPreferences
    CleansUp,         \* constructors in whose attempts pgx may send a CancelRequest
    MaxClock          \* bound on the clock

Networks == {"internal", "external"}

ASSUME PreferenceAssumption ==
    /\ IsFiniteSet(Targets) /\ TwoAddressed \subseteq Targets
    /\ PreferenceTTL \in Nat \ {0}
    /\ MaxPreferences \in Nat \ {0}
    /\ CleansUp \subseteq Constructors
    /\ MaxClock \in Nat

VARIABLES
    clock,            \* time.Now(), later than Go's zero time
    preferences,      \* p.preferences: a deadline, or the zero time for none
    stage,            \* what each constructor is about to do
    target,           \* the target it resolved
    readAt,           \* the time it read, before it locks p.mu
    paths             \* its dialPaths, and the addresses it has still to try

vars == <<clock, preferences, stage, target, readAt, paths>>

Known == {t \in Targets : preferences[t] # 0}

Other(network) == IF network = "internal" THEN "external" ELSE "internal"

\* d.routes: the networks an address may have been resolved for.
Path(c, address) ==
    {n \in Networks : address \in Range(paths[c].answers[n])}

NoPaths ==
    [answers |-> [n \in Networks |-> <<>>],   \* of the two lookups
     todo    |-> <<>>,                        \* addresses not yet tried
     dialed  |-> "nowhere",                   \* the address being tried
     last    |-> {},                          \* d.last
     cancels |-> {}]                          \* CancelRequests under way

Init ==
    /\ clock = 1
    /\ preferences = [t \in Targets |-> 0]
    /\ stage = [c \in Constructors |-> "none"]
    /\ target = [c \in Constructors |-> NoTarget]
    /\ readAt = [c \in Constructors |-> 0]
    /\ paths = [c \in Constructors |-> NoPaths]

Becomes(c, from, to) == stage[c] = from /\ stage' = [stage EXCEPT ![c] = to]

\* The constructor returns, and what it knew is forgotten.
Ends(c) ==
    /\ stage' = [stage EXCEPT ![c] = "none"]
    /\ target' = [target EXCEPT ![c] = NoTarget]
    /\ readAt' = [readAt EXCEPT ![c] = 0]
    /\ paths' = [paths EXCEPT ![c] = NoPaths]

-----------------------------------------------------------------------------
(* A constructor *)

\* Resolve returns, and the clock is read for preferredTarget.
Start(c) ==
    /\ Becomes(c, "none", "ordering")
    /\ \E t \in Targets : target' = [target EXCEPT ![c] = t]
    /\ readAt' = [readAt EXCEPT ![c] = clock]
    /\ UNCHANGED <<clock, preferences, paths>>

\* A member with one address has one host to look up.
LookedUp(t, answer) ==
    IF t \in TwoAddressed THEN answer ELSE [answer EXCEPT !.external = <<>>]

\* preferredTarget, and the two lookups, which pgx makes before it dials.
Prefer(c) ==
    /\ Becomes(c, "ordering", "dial")
    /\ LET preferred == readAt[c] < preferences[target[c]]
           network == IF preferred THEN "external" ELSE "internal"
       IN  /\ preferences' = IF preferred THEN preferences
                                          ELSE [preferences EXCEPT ![target[c]] = 0]
           /\ \E answer \in {LookedUp(target[c], a) : a \in Answers} :
                paths' = [paths EXCEPT ![c].answers = answer,
                                       ![c].todo = answer[network] \o answer[Other(network)]]
    /\ UNCHANGED <<clock, target, readAt>>

\* The next address is dialed, through dialPaths.
Dial(c) ==
    /\ Becomes(c, "dial", "dialing")
    /\ paths[c].todo # <<>>
    /\ LET address == Head(paths[c].todo)
       IN  paths' = [paths EXCEPT ![c].todo = Tail(@),
                                  ![c].dialed = address,
                                  ![c].last = Path(c, address)]
    /\ UNCHANGED <<clock, preferences, target, readAt>>

\* It fails: to connect, or after it was established, by a check.
Refused(c) ==
    /\ Becomes(c, "dialing", "dial")
    /\ \E cancels \in {{}, IF c \in CleansUp THEN {paths[c].dialed} ELSE {}} :
         paths' = [paths EXCEPT ![c].cancels = @ \cup cancels]
    /\ UNCHANGED <<clock, preferences, target, readAt>>

\* A CancelRequest for a connection given up goes through the same DialFunc,
\* while the constructor tries another address.
CancelRequest(c) ==
    /\ stage[c] = "dialing"
    /\ \E address \in paths[c].cancels :
         paths' = [paths EXCEPT ![c].cancels = @ \ {address},
                                ![c].last = Path(c, address)]
    /\ UNCHANGED <<clock, preferences, stage, target, readAt>>

\* TLS, role and route were checked; d.last and the clock are read.
Verified(c) ==
    /\ Becomes(c, "dialing", "verified")
    /\ readAt' = [readAt EXCEPT ![c] = clock]
    /\ UNCHANGED <<clock, preferences, target, paths>>

\* Every address failed, or the constructor was cancelled.
Fail(c) ==
    /\ stage[c] \in {"ordering", "dial", "dialing"}
    /\ Ends(c)
    /\ UNCHANGED <<clock, preferences>>

-----------------------------------------------------------------------------
(* rememberPath *)

Expired(now) == {t \in Known : preferences[t] <= now}

\* The entry with the earliest deadline; the range over the map breaks ties.
Oldest(now) ==
    {t \in Known \ Expired(now) :
        \A u \in Known \ Expired(now) : preferences[t] <= preferences[u]}

\* Mutant of Evicted: one entry too many is kept.
EvictedLate(now) ==
    IF Cardinality(Known \ Expired(now)) > MaxPreferences
    THEN {{t} : t \in Oldest(now)}
    ELSE {{}}

\* What has to go to make room.
Evicted(now) ==
    IF Cardinality(Known \ Expired(now)) >= MaxPreferences
    THEN {{t} : t \in Oldest(now)}
    ELSE {{}}

\* Mutant of Learn: a success renews the preference it used.
LearnAgain(t, now) ==
    \E evicted \in Evicted(now) :
      preferences' = [u \in Targets |->
        IF u = t THEN now + PreferenceTTL
        ELSE IF u \in Expired(now) \cup evicted THEN 0 ELSE preferences[u]]

\* A preference that is still good is not renewed.
Learn(t, now) ==
    IF now < preferences[t] THEN UNCHANGED preferences
    ELSE \E evicted \in Evicted(now) :
           preferences' = [u \in Targets |->
             IF u = t THEN now + PreferenceTTL
             ELSE IF u \in Expired(now) \cup evicted THEN 0 ELSE preferences[u]]

\* Mutant of Teaches: a shared address speaks for the external network.
TeachesShared(c) == "external" \in paths[c].last

\* Only an unambiguous external path teaches, and an internal one unteaches.
Teaches(c) == paths[c].last = {"external"}

Remember(c) ==
    /\ stage[c] = "verified"
    /\ LET t == target[c]
       IN  IF t \notin TwoAddressed THEN UNCHANGED preferences
           ELSE IF paths[c].last = {"internal"}
                THEN preferences' = [preferences EXCEPT ![t] = 0]
           ELSE IF Teaches(c) THEN Learn(t, readAt[c])
           ELSE UNCHANGED preferences
    /\ Ends(c)
    /\ UNCHANGED clock

Tick ==
    /\ clock < MaxClock /\ clock' = clock + 1
    /\ UNCHANGED <<preferences, stage, target, readAt, paths>>

Next ==
    \/ \E c \in Constructors :
         \/ Start(c) \/ Prefer(c) \/ Dial(c) \/ Refused(c) \/ CancelRequest(c)
         \/ Verified(c) \/ Fail(c) \/ Remember(c)
    \/ Tick

Spec == Init /\ [][Next]_vars

-----------------------------------------------------------------------------
(* Safety *)

\* The types, and no deadline further away than a TTL.
PreferenceTypeOK ==
    /\ clock \in Nat \ {0}
    /\ preferences \in [Targets -> Nat]
    /\ Known \subseteq TwoAddressed
    /\ \A t \in Targets : preferences[t] <= clock + PreferenceTTL
    /\ stage \in [Constructors -> {"none", "ordering", "dial", "dialing", "verified"}]
    /\ target \in [Constructors -> Targets \cup {NoTarget}]
    /\ \A c \in Constructors : stage[c] # "none" => target[c] \in Targets
    /\ readAt \in [Constructors -> Nat] /\ \A c \in Constructors : readAt[c] <= clock

\* However many constructors learn at once, by clocks they read in another order
\* than they lock, the cache stays within its limit (docs/hardening.md).
CacheIsBounded == Cardinality(Known) <= MaxPreferences

\* A preference that is still good keeps its deadline and is lost only to a
\* connection of its target through the internal address, or as the earliest of
\* a full cache: nobody renews it, and no clock read long ago discards it.
LivePreferencesAreKept ==
    [][\A t \in Targets : clock < preferences[t] /\ preferences'[t] # preferences[t] =>
         /\ preferences'[t] = 0
         /\ \/ \E c \in Constructors :
                 stage[c] = "verified" /\ target[c] = t /\ paths[c].last = {"internal"}
            \/ /\ Cardinality(Known) = MaxPreferences
               /\ \A u \in Known : preferences[t] <= preferences[u]]_vars
=============================================================================
