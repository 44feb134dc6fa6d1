----------------------- MODULE NetworkPreferenceProofs -----------------------
(***************************************************************************)
(* Proofs about NetworkPreference for every number of constructors and     *)
(* targets: the cache keeps its limit, and what it keeps is what is good;  *)
(* and about PreferenceHistory: when preferences end, and, where pgx sends *)
(* no CancelRequest, what taught them.                                     *)
(***************************************************************************)
EXTENDS PreferenceHistory, FiniteSetTheorems, TLAPS

\* A constructor that ends keeps the types of its own variables.
LEMMA StageEnds ==
    ASSUME PreferenceTypeOK, NEW c \in Constructors, Ends(c), UNCHANGED clock
    PROVE  /\ stage' \in [Constructors -> {"none", "ordering", "dial", "dialing", "verified"}]
           /\ target' \in [Constructors -> Targets \cup {NoTarget}]
           /\ \A d \in Constructors : stage'[d] # "none" => target'[d] \in Targets
           /\ readAt' \in [Constructors -> Nat] /\ \A d \in Constructors : readAt'[d] <= clock'
  BY DEF PreferenceTypeOK, Ends

\* What Learn does to the cache.
LEMMA Learning ==
    ASSUME PreferenceTypeOK, NEW t \in TwoAddressed, NEW now \in Nat, now <= clock,
           Learn(t, now), preferences' # preferences
    PROVE  /\ preferences[t] <= now
           /\ \E evicted \in Evicted(now) :
                preferences' = [u \in Targets |->
                  IF u = t THEN now + PreferenceTTL
                  ELSE IF u \in Expired(now) \cup evicted THEN 0 ELSE preferences[u]]
  BY PreferenceAssumption DEF PreferenceTypeOK, Learn

-----------------------------------------------------------------------------
(* Types *)

\* A verified constructor changes preferences within their type.
LEMMA RememberKeepsTypes ==
    ASSUME PreferenceTypeOK, NEW c \in Constructors, Remember(c)
    PROVE  PreferenceTypeOK'
<1>1. clock' = clock /\ target[c] \in Targets /\ readAt[c] \in Nat /\ readAt[c] <= clock
  BY DEF Remember, PreferenceTypeOK
<1>2. /\ preferences' \in [Targets -> Nat]
      /\ Known' \subseteq TwoAddressed
      /\ \A t \in Targets : preferences'[t] <= clock' + PreferenceTTL
  <2>1. CASE preferences' = preferences
    BY <1>1, <2>1 DEF PreferenceTypeOK, Known
  <2>2. CASE preferences' = [preferences EXCEPT ![target[c]] = 0]
    BY <1>1, <2>2, PreferenceAssumption DEF PreferenceTypeOK, Known
  <2>3. CASE target[c] \in TwoAddressed /\ Learn(target[c], readAt[c]) /\ preferences' # preferences
    <3>1. PICK evicted \in Evicted(readAt[c]) :
            preferences' = [u \in Targets |->
              IF u = target[c] THEN readAt[c] + PreferenceTTL
              ELSE IF u \in Expired(readAt[c]) \cup evicted THEN 0 ELSE preferences[u]]
      BY <1>1, <2>3, Learning
    <3> QED
      BY <1>1, <2>3, <3>1, PreferenceAssumption DEF PreferenceTypeOK, Known
  <2> QED
    BY <2>1, <2>2, <2>3 DEF Remember
<1>3. Ends(c)
  BY DEF Remember
<1> QED
  BY <1>1, <1>2, <1>3, StageEnds DEF PreferenceTypeOK

\* Every step keeps the types.
LEMMA PreferenceStep ==
    ASSUME PreferenceTypeOK, [Next]_vars
    PROVE  PreferenceTypeOK'
<1> USE PreferenceAssumption
<1>1. ASSUME NEW c \in Constructors, Start(c) PROVE PreferenceTypeOK'
  BY <1>1 DEF PreferenceTypeOK, Start, Becomes, Known
<1>2. ASSUME NEW c \in Constructors, Prefer(c) PROVE PreferenceTypeOK'
  BY <1>2 DEF PreferenceTypeOK, Prefer, Becomes, Known
<1>3. ASSUME NEW c \in Constructors, Dial(c) PROVE PreferenceTypeOK'
  BY <1>3 DEF PreferenceTypeOK, Dial, Becomes, Known
<1>4. ASSUME NEW c \in Constructors, Refused(c) PROVE PreferenceTypeOK'
  BY <1>4 DEF PreferenceTypeOK, Refused, Becomes, Known
<1>5. ASSUME NEW c \in Constructors, CancelRequest(c) PROVE PreferenceTypeOK'
  BY <1>5 DEF PreferenceTypeOK, CancelRequest, Known
<1>6. ASSUME NEW c \in Constructors, Verified(c) PROVE PreferenceTypeOK'
  BY <1>6 DEF PreferenceTypeOK, Verified, Becomes, Known
<1>7. ASSUME NEW c \in Constructors, Fail(c) PROVE PreferenceTypeOK'
  BY <1>7, StageEnds DEF PreferenceTypeOK, Fail, Known
<1>8. ASSUME NEW c \in Constructors, Remember(c) PROVE PreferenceTypeOK'
  BY <1>8, RememberKeepsTypes
<1>9. CASE Tick
  BY <1>9 DEF PreferenceTypeOK, Tick, Known
<1>10. CASE UNCHANGED vars
  BY <1>10 DEF PreferenceTypeOK, vars, Known
<1> QED
  BY <1>1, <1>2, <1>3, <1>4, <1>5, <1>6, <1>7, <1>8, <1>9, <1>10 DEF Next

\* PreferenceTypeOK is an invariant; with it, that no deadline lies further ahead
\* than a TTL, whichever old clock a constructor adds the TTL to.
THEOREM PreferenceTypes == Spec => []PreferenceTypeOK
<1>1. Init => PreferenceTypeOK
  BY PreferenceAssumption DEF Init, PreferenceTypeOK, Known
<1> QED
  BY <1>1, PreferenceStep, PTL DEF Spec

-----------------------------------------------------------------------------
(* What a step does to the preferences *)

\* To add an element adds at most one to the cardinality.
LEMMA OneMore ==
    ASSUME NEW S, NEW x, IsFiniteSet(S)
    PROVE  IsFiniteSet(S \cup {x}) /\ Cardinality(S \cup {x}) <= Cardinality(S) + 1
<1>1. Cardinality(S) \in Nat
  BY FS_CardinalityType
<1>2. IsFiniteSet(S \cup {x})
      /\ Cardinality(S \cup {x}) = IF x \in S THEN Cardinality(S) ELSE Cardinality(S) + 1
  BY FS_AddElement
<1> QED
  BY <1>1, <1>2

\* A constructor learns after it dropped what has expired and, if that is not
\* enough, the oldest entry: there is room.
LEMMA LearnKeepsBound ==
    ASSUME PreferenceTypeOK, CacheIsBounded, NEW t \in TwoAddressed, NEW now \in Nat,
           now <= clock, Learn(t, now), preferences' # preferences
    PROVE  CacheIsBounded'
<1> DEFINE Live == Known \ Expired(now)
<1>1. PICK evicted \in Evicted(now) :
        preferences' = [u \in Targets |->
          IF u = t THEN now + PreferenceTTL
          ELSE IF u \in Expired(now) \cup evicted THEN 0 ELSE preferences[u]]
  BY Learning
<1>2. Known' \subseteq (Live \ evicted) \cup {t}
  BY <1>1, PreferenceAssumption DEF Known, PreferenceTypeOK
<1>3. IsFiniteSet(Known) /\ IsFiniteSet(Live) /\ Cardinality(Live) <= Cardinality(Known)
  <2>1. Known \subseteq Targets /\ Live \subseteq Known
    BY DEF Known
  <2>2. IsFiniteSet(Known)
    BY <2>1, FS_Subset, PreferenceAssumption
  <2> QED
    BY <2>1, <2>2, FS_Subset
<1>4. Cardinality(Known) \in Nat /\ Cardinality(Live) \in Nat
  BY <1>3, FS_CardinalityType
<1>5. IsFiniteSet(Live \ evicted) /\ Cardinality(Live \ evicted) <= MaxPreferences - 1
  <2>1. CASE Cardinality(Live) >= MaxPreferences
    <3>1. PICK o \in Oldest(now) : evicted = {o}
      BY <1>1, <2>1 DEF Evicted
    <3>2. o \in Live
      BY <3>1 DEF Oldest
    <3>3. IsFiniteSet(Live \ {o}) /\ Cardinality(Live \ {o}) = Cardinality(Live) - 1
      BY <1>3, <3>2, FS_RemoveElement
    <3> QED
      BY <1>3, <1>4, <3>1, <3>3, PreferenceAssumption DEF CacheIsBounded
  <2>2. CASE ~(Cardinality(Live) >= MaxPreferences)
    <3>1. evicted = {}
      BY <1>1, <2>2 DEF Evicted
    <3>2. Live \ evicted = Live
      BY <3>1
    <3>3. Cardinality(Live) <= MaxPreferences - 1
      BY <1>4, <2>2, PreferenceAssumption
    <3> QED
      BY <1>3, <3>2, <3>3
  <2> QED
    BY <2>1, <2>2
<1>6. /\ IsFiniteSet((Live \ evicted) \cup {t})
      /\ Cardinality((Live \ evicted) \cup {t}) <= Cardinality(Live \ evicted) + 1
  BY <1>5, OneMore
<1>7. IsFiniteSet(Known') /\ Cardinality(Known') <= Cardinality((Live \ evicted) \cup {t})
  BY <1>2, <1>6, FS_Subset
<1> HIDE DEF Live
<1>8. /\ Cardinality(Known') \in Nat
      /\ Cardinality((Live \ evicted) \cup {t}) \in Nat
      /\ Cardinality(Live \ evicted) \in Nat
  BY <1>5, <1>6, <1>7, FS_CardinalityType
<1>9. Cardinality(Known') <= MaxPreferences
  BY <1>5, <1>6, <1>7, <1>8, PreferenceAssumption
<1> QED
  BY <1>9 DEF CacheIsBounded

\* No other step adds an entry.
LEMMA OnlyLearningAdds ==
    ASSUME PreferenceTypeOK, Next, Known' \ Known # {}
    PROVE  \E c \in Constructors :
             Remember(c) /\ target[c] \in TwoAddressed /\ Learn(target[c], readAt[c])
<1> USE PreferenceAssumption
<1>1. ~ UNCHANGED preferences
  BY DEF Known
<1>2. ASSUME NEW c \in Constructors PROVE ~ Prefer(c)
  BY <1>2 DEF Prefer, Known, PreferenceTypeOK
<1>3. PICK c \in Constructors : Remember(c)
  <2>1. ASSUME NEW c \in Constructors PROVE
          ~ Start(c) /\ ~ Dial(c) /\ ~ Refused(c) /\ ~ CancelRequest(c) /\ ~ Verified(c) /\ ~ Fail(c)
    BY <1>1 DEF Start, Dial, Refused, CancelRequest, Verified, Fail
  <2>2. ~ Tick
    BY <1>1 DEF Tick
  <2> QED
    BY <1>2, <2>1, <2>2 DEF Next
<1>4. preferences' # [preferences EXCEPT ![target[c]] = 0]
  BY <1>3 DEF Known, PreferenceTypeOK
<1> QED
  BY <1>1, <1>3, <1>4 DEF Remember

\* The cache never exceeds its limit.
THEOREM BoundedCache == Spec => []CacheIsBounded
<1>1. Init => CacheIsBounded
  <2> SUFFICES ASSUME Init PROVE CacheIsBounded
    OBVIOUS
  <2>1. Known = {}
    BY DEF Init, Known
  <2> QED
    BY <2>1, FS_EmptySet, PreferenceAssumption DEF CacheIsBounded
<1>2. PreferenceTypeOK /\ PreferenceTypeOK' /\ CacheIsBounded /\ [Next]_vars => CacheIsBounded'
  <2> SUFFICES ASSUME PreferenceTypeOK, CacheIsBounded, [Next]_vars PROVE CacheIsBounded'
    OBVIOUS
  <2>1. CASE Known' \subseteq Known
    <3>1. IsFiniteSet(Known)
      BY FS_Subset, PreferenceAssumption DEF Known
    <3>2. Cardinality(Known') <= Cardinality(Known) /\ IsFiniteSet(Known')
      BY <2>1, <3>1, FS_Subset
    <3>3. Cardinality(Known') \in Nat /\ Cardinality(Known) \in Nat
      BY <3>1, <3>2, FS_CardinalityType
    <3> QED
      BY <3>2, <3>3, PreferenceAssumption DEF CacheIsBounded
  <2>2. CASE ~(Known' \subseteq Known)
    <3>1. Next
      BY <2>2 DEF vars, Known
    <3>2. PICK c \in Constructors :
            Remember(c) /\ target[c] \in TwoAddressed /\ Learn(target[c], readAt[c])
      BY <2>2, <3>1, OnlyLearningAdds
    <3>3. readAt[c] \in Nat /\ readAt[c] <= clock /\ preferences' # preferences
      BY <2>2 DEF PreferenceTypeOK, Known
    <3> QED
      BY <3>2, <3>3, LearnKeepsBound
  <2> QED
    BY <2>1, <2>2
<1> QED
  BY <1>1, <1>2, PreferenceTypes, PTL DEF Spec
-----------------------------------------------------------------------------
(* Preferences that are still good *)

\* What learning takes away has expired, by any clock, or is the earliest of a
\* full cache.
LEMMA LearnKeepsLive ==
    ASSUME PreferenceTypeOK, CacheIsBounded, NEW s \in TwoAddressed, NEW now \in Nat,
           now <= clock, Learn(s, now),
           NEW t \in Targets, clock < preferences[t], preferences'[t] # preferences[t]
    PROVE  /\ preferences'[t] = 0
           /\ Cardinality(Known) = MaxPreferences
           /\ \A u \in Known : preferences[t] <= preferences[u]
<1> DEFINE Live == Known \ Expired(now)
<1>1. PICK evicted \in Evicted(now) :
        /\ preferences[s] <= now
        /\ preferences' = [u \in Targets |->
             IF u = s THEN now + PreferenceTTL
             ELSE IF u \in Expired(now) \cup evicted THEN 0 ELSE preferences[u]]
  BY Learning
<1>2. t # s /\ t \notin Expired(now)
  BY <1>1, PreferenceAssumption DEF Expired, PreferenceTypeOK
<1>3. t \in evicted /\ preferences'[t] = 0
  BY <1>1, <1>2
<1>4. Cardinality(Live) >= MaxPreferences /\ t \in Oldest(now)
  BY <1>1, <1>3 DEF Evicted
<1>5. IsFiniteSet(Known) /\ Cardinality(Live) <= Cardinality(Known)
      /\ (Cardinality(Known) = Cardinality(Live) => Known = Live)
  <2>1. IsFiniteSet(Known)
    BY FS_Subset, PreferenceAssumption DEF Known
  <2>2. Live \in SUBSET Known
    OBVIOUS
  <2> QED
    BY <2>1, <2>2, FS_Subset
<1>6. IsFiniteSet(Live)
  BY <1>5, FS_Subset
<1>7. Cardinality(Known) \in Nat /\ Cardinality(Live) \in Nat
  BY <1>5, <1>6, FS_CardinalityType
<1>8. Cardinality(Known) = MaxPreferences /\ Cardinality(Known) = Cardinality(Live)
  BY <1>4, <1>5, <1>7, PreferenceAssumption DEF CacheIsBounded
<1>9. \A u \in Known : preferences[t] <= preferences[u]
  BY <1>4, <1>5, <1>8 DEF Oldest
<1> QED
  BY <1>3, <1>8, <1>9

\* A preference that has not expired is neither renewed nor lost, except to a
\* connection through the internal address and to a full cache.
THEOREM LivePreferences == Spec => LivePreferencesAreKept
<1>1. PreferenceTypeOK /\ CacheIsBounded /\ [Next]_vars =>
        [\A t \in Targets : clock < preferences[t] /\ preferences'[t] # preferences[t] =>
           /\ preferences'[t] = 0
           /\ \/ \E c \in Constructors :
                   stage[c] = "verified" /\ target[c] = t /\ paths[c].last = {"internal"}
              \/ /\ Cardinality(Known) = MaxPreferences
                 /\ \A u \in Known : preferences[t] <= preferences[u]]_vars
  <2> SUFFICES ASSUME PreferenceTypeOK, CacheIsBounded, Next,
                      NEW t \in Targets, clock < preferences[t], preferences'[t] # preferences[t]
               PROVE  /\ preferences'[t] = 0
                      /\ \/ \E c \in Constructors :
                              stage[c] = "verified" /\ target[c] = t /\ paths[c].last = {"internal"}
                         \/ /\ Cardinality(Known) = MaxPreferences
                            /\ \A u \in Known : preferences[t] <= preferences[u]
    BY DEF vars
  <2>1. ASSUME NEW c \in Constructors PROVE ~ Prefer(c)
    <3> SUFFICES ASSUME Prefer(c) PROVE FALSE
      OBVIOUS
    <3>1. target[c] = t /\ ~(readAt[c] < preferences[t])
      BY DEF Prefer, PreferenceTypeOK
    <3> QED
      BY <3>1 DEF PreferenceTypeOK
  <2>2. PICK c \in Constructors : Remember(c)
    <3>1. ASSUME NEW c \in Constructors PROVE
            ~ Start(c) /\ ~ Dial(c) /\ ~ Refused(c) /\ ~ CancelRequest(c) /\ ~ Verified(c) /\ ~ Fail(c)
      BY DEF Start, Dial, Refused, CancelRequest, Verified, Fail
    <3>2. ~ Tick
      BY DEF Tick
    <3> QED
      BY <2>1, <3>1, <3>2 DEF Next
  <2>3. CASE target[c] \in TwoAddressed /\ Learn(target[c], readAt[c])
    <3>1. readAt[c] \in Nat /\ readAt[c] <= clock
      BY DEF PreferenceTypeOK
    <3> QED
      BY <2>3, <3>1, LearnKeepsLive
  <2>4. CASE paths[c].last = {"internal"} /\ preferences' = [preferences EXCEPT ![target[c]] = 0]
    <3>1. target[c] = t /\ preferences'[t] = 0
      BY <2>4 DEF PreferenceTypeOK
    <3> QED
      BY <2>2, <2>4, <3>1 DEF Remember
  <2> QED
    BY <2>2, <2>3, <2>4 DEF Remember
<1> QED
  BY <1>1, PreferenceTypes, BoundedCache, PTL DEF Spec, LivePreferencesAreKept

-----------------------------------------------------------------------------
(* The lesson of a preference *)

\* A deadline that a step neither keeps nor clears is set by the end of one
\* constructor, to a later time.
LEMMA OnlyRememberExtends ==
    ASSUME PreferenceTypeOK, Next, NEW t \in Targets, preferences'[t] \notin {0, preferences[t]}
    PROVE  \E c \in Constructors :
             /\ Remember(c) /\ Teaches(c)
             /\ preferences'[t] = readAt[c] + PreferenceTTL
             /\ preferences'[t] > preferences[t]
<1> USE PreferenceAssumption
<1>0. preferences \in [Targets -> Nat]
  BY DEF PreferenceTypeOK
<1>1. ~ UNCHANGED preferences
  BY <1>0
<1>2. ASSUME NEW c \in Constructors PROVE ~ Prefer(c)
  BY <1>0, <1>2 DEF Prefer
<1>3. PICK c \in Constructors : Remember(c)
  <2>1. ASSUME NEW c \in Constructors PROVE
          ~ Start(c) /\ ~ Dial(c) /\ ~ Refused(c) /\ ~ CancelRequest(c) /\ ~ Verified(c) /\ ~ Fail(c)
    BY <1>1 DEF Start, Dial, Refused, CancelRequest, Verified, Fail
  <2>2. ~ Tick
    BY <1>1 DEF Tick
  <2> QED
    BY <1>2, <2>1, <2>2 DEF Next
<1>4. preferences' # [preferences EXCEPT ![target[c]] = 0]
  BY <1>0
<1>5. Teaches(c) /\ Learn(target[c], readAt[c]) /\ target[c] \in TwoAddressed
  BY <1>1, <1>3, <1>4 DEF Remember
<1>6. readAt[c] \in Nat
  BY DEF PreferenceTypeOK
<1>7. PICK evicted \in Evicted(readAt[c]) :
        preferences' = [u \in Targets |->
          IF u = target[c] THEN readAt[c] + PreferenceTTL
          ELSE IF u \in Expired(readAt[c]) \cup evicted THEN 0 ELSE preferences[u]]
  BY <1>1, <1>5 DEF Learn
<1>8. target[c] = t
  BY <1>0, <1>7
<1>9. ~(readAt[c] < preferences[t])
  BY <1>1, <1>5, <1>8 DEF Learn
<1>10. preferences'[t] = readAt[c] + PreferenceTTL
  BY <1>7, <1>8
<1> QED
  BY <1>0, <1>3, <1>5, <1>6, <1>9, <1>10

\* The constructor that ends in this step is known from its stage.
LEMMA EndingConstructor ==
    ASSUME PreferenceTypeOK, NEW c \in Constructors, Remember(c)
    PROVE  Teachers = {c}
<1>1. stage[c] = "verified" /\ stage' = [stage EXCEPT ![c] = "none"]
  BY DEF Remember, Ends
<1>2. stage'[c] = "none" /\ \A d \in Constructors : d # c => stage'[d] = stage[d]
  BY <1>1 DEF PreferenceTypeOK
<1> QED
  BY <1>1, <1>2 DEF Teachers

\* What is remembered of a target changes with its deadline, and only then.
LEMMA LessonStep ==
    ASSUME PreferenceTypeOK, HistoryNext, NEW t \in Targets, preferences'[t] # 0
    PROVE  \/ lesson'[t] = lesson[t] /\ preferences'[t] = preferences[t]
           \/ \E c \in Constructors :
                /\ Remember(c) /\ Teaches(c)
                /\ lesson'[t] = Taught(c)
                /\ preferences'[t] = readAt[c] + PreferenceTTL
<1>1. /\ Next
      /\ lesson'[t] = IF preferences'[t] > preferences[t] /\ Teachers # {}
                      THEN Taught(CHOOSE c \in Teachers : TRUE)
                      ELSE lesson[t]
  BY DEF HistoryNext
<1>2. CASE preferences'[t] # preferences[t]
  <2>1. PICK c \in Constructors :
          /\ Remember(c) /\ Teaches(c) /\ preferences'[t] = readAt[c] + PreferenceTTL
          /\ preferences'[t] > preferences[t]
    BY <1>1, <1>2, OnlyRememberExtends
  <2>2. Teachers = {c} /\ (CHOOSE d \in {c} : TRUE) = c
    BY <2>1, EndingConstructor
  <2> QED
    BY <1>1, <2>1, <2>2
<1>3. CASE preferences'[t] = preferences[t]
  <2>1. ~(preferences'[t] > preferences[t])
    BY <1>3 DEF PreferenceTypeOK
  <2> QED
    BY <1>1, <1>3, <2>1
<1> QED
  BY <1>2, <1>3

\* The history does not disturb the types.
LEMMA HistoryTypes == HistorySpec => []PreferenceTypeOK
<1>1. HistoryInit => PreferenceTypeOK
  BY PreferenceAssumption DEF HistoryInit, Init, PreferenceTypeOK, Known
<1>2. [HistoryNext]_<<vars, lesson>> => [Next]_vars
  BY DEF HistoryNext
<1> QED
  BY <1>1, <1>2, PreferenceStep, PTL DEF HistorySpec

\* However many constructors use a preference, and in whatever order their clock
\* readings reach the lock, it ends a TTL after the connection that taught it.
THEOREM PreferencesEnd == HistorySpec => []PreferencesEndOnTime
<1>1. HistoryInit => PreferencesEndOnTime
  BY DEF HistoryInit, Init, PreferencesEndOnTime, Known
<1>2. ASSUME PreferenceTypeOK, PreferencesEndOnTime, [HistoryNext]_<<vars, lesson>>
      PROVE  PreferencesEndOnTime'
  <2>1. CASE UNCHANGED <<vars, lesson>>
    BY <1>2, <2>1 DEF vars, PreferencesEndOnTime, Known
  <2>2. CASE HistoryNext
    <3> SUFFICES ASSUME NEW t \in Targets, preferences'[t] # 0
                 PROVE  preferences'[t] = lesson'[t].at + PreferenceTTL
      BY DEF PreferencesEndOnTime, Known
    <3>1. CASE lesson'[t] = lesson[t] /\ preferences'[t] = preferences[t]
      BY <1>2, <3>1 DEF PreferencesEndOnTime, Known
    <3>2. CASE \E c \in Constructors :
                  lesson'[t] = Taught(c) /\ preferences'[t] = readAt[c] + PreferenceTTL
      BY <3>2 DEF Taught
    <3> QED
      BY <1>2, <2>2, <3>1, <3>2, LessonStep
  <2> QED
    BY <1>2, <2>1, <2>2
<1> QED
  BY <1>1, <1>2, HistoryTypes, PTL DEF HistorySpec

-----------------------------------------------------------------------------
(* What taught it *)

\* A record of NoPaths' shape.
PathRecord(p) ==
    p = [answers |-> p.answers, todo |-> p.todo, dialed |-> p.dialed,
         last |-> p.last, cancels |-> p.cancels]

LastIsDialedBy(c) ==
    /\ PathRecord(paths[c])
    /\ c \notin CleansUp =>
         /\ paths[c].cancels = {}
         /\ stage[c] \in {"dialing", "verified"} => paths[c].last = Path(c, paths[c].dialed)

\* Without CancelRequests d.last speaks of the address being dialed.
LastIsDialed ==
    /\ paths = [c \in Constructors |-> paths[c]]
    /\ \A c \in Constructors : LastIsDialedBy(c)

\* Only the constructor that takes a step has to be looked at.
LEMMA LastOfOne ==
    ASSUME PreferenceTypeOK, LastIsDialed, NEW c \in Constructors, NEW CONSTANT to,
           stage' = [stage EXCEPT ![c] = to],
           paths' = [paths EXCEPT ![c] = paths'[c]],
           stage'[c] = to => LastIsDialedBy(c)'
    PROVE  LastIsDialed'
<1>1. stage'[c] = to /\ \A d \in Constructors \ {c} : stage'[d] = stage[d]
  BY DEF PreferenceTypeOK
<1>2. DOMAIN paths = Constructors
  BY DEF LastIsDialed
<1>3. paths' = [d \in Constructors |-> paths'[d]]
  BY <1>2
<1>4. \A d \in Constructors \ {c} : paths'[d] = paths[d]
  BY <1>2
<1>5. \A d \in Constructors \ {c} : LastIsDialedBy(d)'
  BY <1>1, <1>4 DEF LastIsDialed, LastIsDialedBy, Path, PathRecord
<1> QED
  BY <1>1, <1>3, <1>5 DEF LastIsDialed

\* Every step leaves d.last the path of the address being tried, without cancellation
\* requests.
LEMMA LastNext ==
    ASSUME PreferenceTypeOK, LastIsDialed, [Next]_vars
    PROVE  LastIsDialed'
<1>0. /\ paths = [c \in Constructors |-> paths[c]]
      /\ \A c \in Constructors :
           PathRecord(paths[c]) /\ (c \notin CleansUp => paths[c].cancels = {})
  BY DEF LastIsDialed, LastIsDialedBy
<1>1. ASSUME NEW c \in Constructors, Start(c) PROVE LastIsDialed'
  <2>1. stage' = [stage EXCEPT ![c] = "ordering"] /\ paths' = paths
    BY <1>1 DEF Start, Becomes
  <2>2. stage'[c] = "ordering" => LastIsDialedBy(c)'
    BY <1>0, <2>1 DEF LastIsDialedBy, PathRecord
  <2> QED
    BY <1>0, <2>1, <2>2, LastOfOne
<1>2. ASSUME NEW c \in Constructors, Prefer(c) PROVE LastIsDialed'
  <2>1. PICK answer, todo :
          paths' = [paths EXCEPT ![c].answers = answer, ![c].todo = todo]
    BY <1>2 DEF Prefer
  <2>2. paths'[c] = [paths[c] EXCEPT !.answers = answer, !.todo = todo]
    BY <1>0, <2>1
  <2>3. PathRecord(paths'[c]) /\ (c \notin CleansUp => paths'[c].cancels = {})
    BY <1>0, <2>2 DEF PathRecord
  <2>4. stage' = [stage EXCEPT ![c] = "dial"]
    BY <1>2 DEF Prefer, Becomes
  <2>5. paths' = [paths EXCEPT ![c] = paths'[c]]
    BY <1>0, <2>1, <2>2
  <2>6. stage'[c] = "dial" => LastIsDialedBy(c)'
    BY <2>3 DEF LastIsDialedBy, PathRecord
  <2> QED
    BY <2>4, <2>5, <2>6, LastOfOne
<1>3. ASSUME NEW c \in Constructors, Dial(c) PROVE LastIsDialed'
  <2>1. PICK address, rest :
          paths' = [paths EXCEPT ![c].todo = rest, ![c].dialed = address,
                                 ![c].last = Path(c, address)]
    BY <1>3 DEF Dial
  <2>2. paths'[c] = [paths[c] EXCEPT !.todo = rest, !.dialed = address,
                                     !.last = Path(c, address)]
    BY <1>0, <2>1
  <2>3. /\ PathRecord(paths'[c]) /\ (c \notin CleansUp => paths'[c].cancels = {})
        /\ paths'[c].dialed = address /\ paths'[c].last = Path(c, address)
        /\ paths'[c].answers = paths[c].answers
    BY <1>0, <2>2 DEF PathRecord
  <2>4. stage' = [stage EXCEPT ![c] = "dialing"]
    BY <1>3 DEF Dial, Becomes
  <2>5. paths' = [paths EXCEPT ![c] = paths'[c]]
    BY <1>0, <2>1, <2>2
  <2>6. LastIsDialedBy(c)'
    BY <2>3 DEF LastIsDialedBy, PathRecord, Path
  <2> QED
    BY <2>4, <2>5, <2>6, LastOfOne
<1>4. ASSUME NEW c \in Constructors, Refused(c) PROVE LastIsDialed'
  <2>1. PICK cancels : /\ paths' = [paths EXCEPT ![c].cancels = @ \cup cancels]
                       /\ c \notin CleansUp => cancels = {}
    BY <1>4 DEF Refused
  <2>2. paths'[c] = [paths[c] EXCEPT !.cancels = @ \cup cancels]
    BY <1>0, <2>1
  <2>3. PathRecord(paths'[c]) /\ (c \notin CleansUp => paths'[c].cancels = {})
    <3>1. PathRecord(paths[c])
      BY <1>0
    <3>2. PathRecord(paths'[c]) /\ paths'[c].cancels = paths[c].cancels \cup cancels
      BY <2>2, <3>1 DEF PathRecord
    <3> QED
      BY <1>0, <2>1, <3>2
  <2>4. stage' = [stage EXCEPT ![c] = "dial"]
    BY <1>4 DEF Refused, Becomes
  <2>5. paths' = [paths EXCEPT ![c] = paths'[c]]
    BY <1>0, <2>1, <2>2
  <2>6. stage'[c] = "dial" => LastIsDialedBy(c)'
    BY <2>3 DEF LastIsDialedBy, PathRecord
  <2> QED
    BY <2>4, <2>5, <2>6, LastOfOne
<1>5. ASSUME NEW c \in Constructors, CancelRequest(c) PROVE LastIsDialed'
  <2>1. PICK address, path :
          paths' = [paths EXCEPT ![c].cancels = @ \ {address}, ![c].last = path]
    BY <1>5 DEF CancelRequest
  <2>2. paths'[c] = [paths[c] EXCEPT !.cancels = @ \ {address}, !.last = path]
    BY <1>0, <2>1
  <2>3. PathRecord(paths'[c])
    BY <1>0, <2>2 DEF PathRecord
  <2>4. c \in CleansUp
    BY <1>0, <1>5 DEF CancelRequest
  <2>5. stage' = [stage EXCEPT ![c] = "dialing"]
    BY <1>5 DEF CancelRequest, PreferenceTypeOK
  <2>6. paths' = [paths EXCEPT ![c] = paths'[c]]
    BY <1>0, <2>1, <2>2
  <2>7. LastIsDialedBy(c)'
    BY <2>3, <2>4 DEF LastIsDialedBy, PathRecord
  <2> QED
    BY <2>5, <2>6, <2>7, LastOfOne
<1>6. ASSUME NEW c \in Constructors, Verified(c) PROVE LastIsDialed'
  <2>1. stage[c] = "dialing" /\ stage' = [stage EXCEPT ![c] = "verified"] /\ paths' = paths
    BY <1>6 DEF Verified, Becomes
  <2>2. LastIsDialedBy(c)'
    BY <2>1 DEF LastIsDialed, LastIsDialedBy, PathRecord, Path
  <2> QED
    BY <1>0, <2>1, <2>2, LastOfOne
<1>7. ASSUME NEW c \in Constructors, Ends(c) PROVE LastIsDialed'
  <2>1. stage' = [stage EXCEPT ![c] = "none"] /\ paths' = [paths EXCEPT ![c] = NoPaths]
    BY <1>7 DEF Ends
  <2>2. paths'[c] = NoPaths
    BY <1>0, <2>1
  <2>3. stage'[c] = "none" => LastIsDialedBy(c)'
    BY <2>2 DEF NoPaths, LastIsDialedBy, PathRecord
  <2> QED
    BY <2>1, <2>2, <2>3, LastOfOne
<1>8. CASE Tick \/ UNCHANGED vars
  <2>1. UNCHANGED <<stage, paths>>
    BY <1>8 DEF Tick, vars
  <2> QED
    BY <2>1 DEF LastIsDialed, LastIsDialedBy, Path, PathRecord
<1> QED
  BY <1>1, <1>2, <1>3, <1>4, <1>5, <1>6, <1>7, <1>8 DEF Next, Fail, Remember

\* Where pgx sends no CancelRequest, every preference was taught by a connection
\* that passed its checks through an address of the external network alone.
THEOREM PreferencesVerified == HistorySpec => []PreferencesAreVerified
<1>1. HistoryInit => LastIsDialed /\ PreferencesAreVerified
  <2> SUFFICES ASSUME HistoryInit
               PROVE  LastIsDialed /\ PreferencesAreVerified
    OBVIOUS
  <2>1. PreferencesAreVerified
    BY DEF HistoryInit, Init, PreferencesAreVerified, Known
  <2>2. paths = [c \in Constructors |-> NoPaths]
    BY DEF HistoryInit, Init
  <2>3. \A c \in Constructors : stage[c] = "none"
    BY DEF HistoryInit, Init
  <2>4. PathRecord(NoPaths) /\ NoPaths.cancels = {}
    BY DEF NoPaths, PathRecord
  <2>5. \A c \in Constructors : LastIsDialedBy(c)
    BY <2>2, <2>3, <2>4 DEF LastIsDialedBy, PathRecord
  <2> QED
    BY <2>1, <2>2, <2>5 DEF LastIsDialed
<1>2. ASSUME PreferenceTypeOK, LastIsDialed, PreferencesAreVerified,
             [HistoryNext]_<<vars, lesson>>
      PROVE  PreferencesAreVerified'
  <2>1. CASE UNCHANGED <<vars, lesson>>
    BY <1>2, <2>1 DEF vars, PreferencesAreVerified, Known
  <2>2. CASE HistoryNext
    <3> SUFFICES ASSUME NEW t \in Targets, preferences'[t] # 0
                 PROVE  lesson'[t].cancels \/ lesson'[t].through = {"external"}
      BY DEF PreferencesAreVerified, Known
    <3>1. CASE lesson'[t] = lesson[t] /\ preferences'[t] = preferences[t]
      BY <1>2, <3>1 DEF PreferencesAreVerified, Known
    <3>2. ASSUME NEW c \in Constructors, Remember(c), Teaches(c), lesson'[t] = Taught(c)
          PROVE  lesson'[t].cancels \/ lesson'[t].through = {"external"}
      <4>1. CASE c \in CleansUp
        <5>1. Taught(c).cancels = (c \in CleansUp)
          BY Zenon DEF Taught
        <5> QED
          BY <3>2, <4>1, <5>1, Zenon
      <4>2. CASE c \notin CleansUp
        <5>1. paths[c].last = Path(c, paths[c].dialed)
          BY <1>2, <3>2, <4>2 DEF LastIsDialed, LastIsDialedBy, Remember
        <5> QED
          BY <3>2, <4>2, <5>1 DEF Teaches, Taught
      <4> QED
        BY <4>1, <4>2
    <3> QED
      BY <1>2, <2>2, <3>1, <3>2, LessonStep
  <2> QED
    BY <1>2, <2>1, <2>2
<1>3. ASSUME PreferenceTypeOK, LastIsDialed, [HistoryNext]_<<vars, lesson>>
      PROVE  LastIsDialed'
  BY <1>3, LastNext DEF HistoryNext, vars
<1> QED
  BY <1>1, <1>2, <1>3, HistoryTypes, PTL DEF HistorySpec
=============================================================================
