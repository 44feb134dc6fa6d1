--------------------------- MODULE EvidenceProofs ---------------------------
(***************************************************************************)
(* Theorems about what DiscoveryClient makes of the evidence it is sent:   *)
(* freshness, withdrawals, and the members a view is assembled from.       *)
(***************************************************************************)
EXTENDS WithdrawalHistory, DiscoveryClientProofs

-----------------------------------------------------------------------------
(* Freshness *)

\* Neither lagging observers nor replays lower the high-water mark or extend the
\* deadline of the observation they repeat.
THEOREM Freshness == Spec => FreshnessIsNotRenewed
<1> DEFINE Fresh == /\ observedAt <= observedAt'
                    /\ observedAt' = observedAt => validUntil' <= validUntil
<1>1. ASSUME TypeOK, NEW s \in Snapshots, NEW now \in Readings, Accept(s, now)
      PROVE  Fresh
  <2>1. CASE Newer(s)
    BY <1>1, <2>1, SnapshotType DEF Accept, Newer, TypeOK
  <2>2. CASE ~Newer(s)
    <3>1. observedAt' = observedAt /\ validUntil' = MinTime(Until(s), validUntil)
      BY <1>1, <2>2 DEF Accept, Deadline
    <3> QED
      BY <1>1, <3>1, UntilType DEF MinTime, TypeOK
  <2> QED
    BY <2>1, <2>2
<1>2. ASSUME TypeOK, NEW s \in Snapshots, NEW now \in Readings, AcceptOlderWithdrawals(s, now)
      PROVE  Fresh
  BY <1>2 DEF AcceptOlderWithdrawals, TypeOK
<1>3. ASSUME TypeOK, [Next]_vars
      PROVE  Fresh
  <2>1. CASE ~ \E s \in Snapshots, now \in Readings :
                  Accept(s, now) \/ AcceptOlderWithdrawals(s, now)
    BY <1>3, <2>1, OtherStepsRevoke DEF TypeOK
  <2> QED
    BY <1>1, <1>2, <1>3, <2>1
<1> QED
  BY <1>3, TypeCorrect, PTL DEF Spec, FreshnessIsNotRenewed

-----------------------------------------------------------------------------
(* Evidence *)

\* A generation does not change who a target is.
LEMMA RestampedDescribed ==
    ASSUME NEW s \in Snapshots, NEW now
    PROVE  Described(Restamped(s, now)) = Admitted(s)
<1>1. \A t \in Restamped(s, now) : t.member \in Admitted(s)
  BY DEF Restamped, Kept
<1>2. ASSUME NEW d \in Admitted(s)
      PROVE  \E t \in Restamped(s, now) : t.member = d
  <2>1. CASE d \in Described(Kept(s, now))
    BY <2>1 DEF Restamped, Described
  <2>2. CASE d \notin Described(Kept(s, now))
    <3> DEFINE t == [member |-> d, generation |-> GenerationAfter(s, now)]
    <3>1. t \in Restamped(s, now)
      BY <1>2, <2>2 DEF Restamped
    <3> QED
      BY <3>1
  <2> QED
    BY <2>1, <2>2
<1> QED
  BY <1>1, <1>2 DEF Described

\* Identities are those of the members, whatever their generation.
LEMMA IdsDescribed ==
    ASSUME NEW targets
    PROVE  Ids(targets) = {d.id : d \in Described(targets)}
  BY DEF Ids, Described

\* The identities of the members Accept leaves.
LEMMA AcceptedIds ==
    ASSUME NEW s \in Snapshots, NEW now \in Readings, Accept(s, now)
    PROVE  /\ Described(members') = Admitted(s)
           /\ Ids(members') = {d.id : d \in Admitted(s)}
<1>1. members' = Restamped(s, now)
  BY DEF Accept
<1>2. Described(members') = Admitted(s)
  BY <1>1, RestampedDescribed
<1>3. Ids(members') = {d.id : d \in Described(members')}
  BY IdsDescribed
<1> QED
  BY <1>2, <1>3

\* An older withdrawal loses exactly the identities it refutes.
LEMMA RefutedIds ==
    ASSUME NEW s \in Snapshots
    PROVE  Ids(members \ Refuted(s)) = Ids(members) \ Ids(Refuted(s))
  BY DEF Ids, Refuted

\* A positive snapshot that is in order belongs to the current sample, or starts
\* a new one.
LEMMA PositiveInOrder ==
    ASSUME TypeOK, NEW s \in Snapshots, InOrder(s), ~Withdrawal(s)
    PROVE  /\ SameSample(s) => ~withdrawn
           /\ ~SameSample(s) => Newer(s) \/ s.uid # clusterUID
  BY SnapshotType DEF InOrder, Older, Newer, SameSample, TypeOK

\* Every step keeps what is remembered and what is routed to in agreement.
LEMMA EvidenceNext ==
    ASSUME TypeOK, EvidenceMatchesMembers, [Next]_vars
    PROVE  EvidenceMatchesMembers'
<1>1. ASSUME NEW s \in Snapshots, NEW now \in Readings, Accept(s, now)
      PROVE  EvidenceMatchesMembers'
  <2>1. /\ Ids(members') = {d.id : d \in Admitted(s)}
        /\ observationMembers' = Observable(s)
        /\ withdrawn' = Withdrawal(s) /\ InOrder(s)
    BY <1>1, AcceptedIds DEF Accept
  <2>2. CASE Withdrawal(s)
    <3>1. Admitted(s) = {}
      BY <2>2 DEF Admitted, Eligible
    <3> QED
      BY <2>1, <2>2, <3>1 DEF EvidenceMatchesMembers
  <2>3. CASE ~Withdrawal(s) /\ SameSample(s)
    <3>1. observationMembers = Ids(members)
      BY <2>1, <2>3, PositiveInOrder DEF EvidenceMatchesMembers
    <3>2. Observable(s) = Ids(members) \cap {d.id : d \in Eligible(s)}
      BY <2>3, <3>1 DEF Observable
    <3>3. {d.id : d \in Admitted(s)} = Observable(s)
      BY <2>3, <3>2 DEF Admitted
    <3> QED
      BY <2>1, <3>3 DEF EvidenceMatchesMembers
  <2>4. CASE ~Withdrawal(s) /\ ~SameSample(s)
    <3>1. Newer(s) \/ s.uid # clusterUID
      BY <2>1, <2>4, PositiveInOrder
    <3>2. Observable(s) = {d.id : d \in Admitted(s)}
      BY <2>4, <3>1 DEF Observable, Admitted
    <3> QED
      BY <2>1, <3>2 DEF EvidenceMatchesMembers
  <2> QED
    BY <2>2, <2>3, <2>4
<1>2. ASSUME NEW s \in Snapshots, NEW now \in Readings, AcceptOlderWithdrawals(s, now)
      PROVE  EvidenceMatchesMembers'
  <2>1. /\ Ids(members') = Ids(members) \ Ids(Refuted(s))
        /\ observationMembers' = observationMembers \ Ids(Refuted(s))
        /\ withdrawn => withdrawn'
    BY <1>2, RefutedIds DEF AcceptOlderWithdrawals
  <2> QED
    BY <2>1 DEF EvidenceMatchesMembers
<1>3. CASE ~ \E s \in Snapshots, now \in Readings :
                Accept(s, now) \/ AcceptOlderWithdrawals(s, now)
  BY <1>3, OtherStepsRevoke DEF EvidenceMatchesMembers, Ids
<1> QED
  BY <1>1, <1>2, <1>3

\* The evidence kept for an observation is that of the members still served.
THEOREM EvidenceMatches == Spec => []EvidenceMatchesMembers
<1>1. Init => EvidenceMatchesMembers
  BY DEF Init, EvidenceMatchesMembers, Ids
<1> QED
  BY <1>1, TypeCorrect, EvidenceNext, PTL DEF Spec

\* A view loses members while its observation stands, and regains none; once it
\* is withdrawn only a newer observation makes it usable.
THEOREM Withdrawals == Spec => WithdrawalNeedsNewerObservation
<1> DEFINE Stands == observedAt' = observedAt =>
                        /\ withdrawn => ~ready'
                        /\ clusterUID' = clusterUID => Ids(members') \subseteq Ids(members)
<1>1. ASSUME TypeOK, EvidenceMatchesMembers,
             NEW s \in Snapshots, NEW now \in Readings, Accept(s, now)
      PROVE  Stands
  <2> SUFFICES ASSUME observedAt' = observedAt
               PROVE  /\ withdrawn => ~ready'
                      /\ clusterUID' = clusterUID => Ids(members') \subseteq Ids(members)
    OBVIOUS
  <2>1. ~Newer(s)
    BY <1>1, SnapshotType DEF Accept, Newer, TypeOK
  <2>2. /\ InOrder(s) /\ clusterUID' = s.uid
        /\ ready' = ReadyAfter(s, now)
        /\ Ids(members') = {d.id : d \in Admitted(s)}
    BY <1>1, AcceptedIds DEF Accept
  <2>3. CASE Withdrawal(s)
    <3>1. ~ReadyAfter(s, now) /\ Admitted(s) = {}
      BY <2>3 DEF ReadyAfter, Admitted, Eligible
    <3> QED
      BY <2>2, <3>1
  <2>4. CASE ~Withdrawal(s)
    <3>1. ~withdrawn
      BY <2>1, <2>2, <2>4 DEF InOrder
    <3>2. ASSUME clusterUID' = clusterUID
          PROVE  Ids(members') \subseteq Ids(members)
      <4>1. SameSample(s)
        BY <1>1, <2>1, <2>2, <2>4, <3>2, PositiveInOrder
      <4>2. Observable(s) \subseteq Ids(members)
        BY <1>1, <3>1, <4>1 DEF Observable, EvidenceMatchesMembers
      <4> QED
        BY <2>2, <4>1, <4>2 DEF Admitted
    <3> QED
      BY <3>1, <3>2
  <2> QED
    BY <2>3, <2>4
<1>2. ASSUME TypeOK, RoutesAreBacked,
             NEW s \in Snapshots, NEW now \in Readings, AcceptOlderWithdrawals(s, now)
      PROVE  Stands
  BY <1>2 DEF AcceptOlderWithdrawals, Alive, RoutesAreBacked, Ids
<1>3. ASSUME TypeOK, RoutesAreBacked, EvidenceMatchesMembers, [Next]_vars
      PROVE  Stands
  <2>1. CASE ~ \E s \in Snapshots, now \in Readings :
                  Accept(s, now) \/ AcceptOlderWithdrawals(s, now)
    BY <1>3, <2>1, OtherStepsRevoke DEF RoutesAreBacked, Ids
  <2> QED
    BY <1>1, <1>2, <1>3, <2>1
<1> QED
  BY <1>3, TypeCorrect, BackedRoutes, EvidenceMatches, PTL
     DEF Spec, WithdrawalNeedsNewerObservation

-----------------------------------------------------------------------------
(* The members of a view *)

\* An eligible member is what the snapshot says of some ready member.
LEMMA EligibleOrigin ==
    ASSUME NEW s \in Snapshots, NEW d \in Eligible(s)
    PROVE  /\ d.clusterUID = s.uid
           /\ \E m \in ReadyMembers(s) :
                /\ m.id = d.id /\ d = Discover(s, m)
                /\ d.role = "primary" <=> m.role = "ROLE_PRIMARY"
<1>1. PICK m \in ReadyMembers(s) : d = Discover(s, m)
  BY DEF Eligible
<1>2. d.id = m.id /\ d.clusterUID = s.uid
  BY <1>1 DEF Discover
<1>3. d.role = IF m.role = "ROLE_PRIMARY" THEN "primary" ELSE "replica"
  BY <1>1 DEF Discover
<1> QED
  BY <1>1, <1>2, <1>3

\* A valid snapshot makes one member of an identity eligible, and one primary.
LEMMA EligibleUnique ==
    ASSUME NEW s \in Snapshots, NEW now, ~Invalid(s, now),
           NEW d \in Eligible(s), NEW e \in Eligible(s),
           d.id = e.id \/ (d.role = "primary" /\ e.role = "primary")
    PROVE  d = e
<1>1. PICK m \in ReadyMembers(s) :
         m.id = d.id /\ d = Discover(s, m) /\ (d.role = "primary" <=> m.role = "ROLE_PRIMARY")
  BY EligibleOrigin
<1>2. PICK n \in ReadyMembers(s) :
         n.id = e.id /\ e = Discover(s, n) /\ (e.role = "primary" <=> n.role = "ROLE_PRIMARY")
  BY EligibleOrigin
<1>3. CASE d.id = e.id
  BY <1>1, <1>2, <1>3 DEF Invalid, ReadyMembers
<1>4. CASE d.role = "primary" /\ e.role = "primary"
  <2>1. m \in Primaries(s) /\ n \in Primaries(s)
    BY <1>1, <1>2, <1>4 DEF Primaries
  <2>2. ~Withdrawal(s)
    BY DEF Eligible
  <2>3. Cardinality(Primaries(s)) = 1
    BY <2>2 DEF Invalid
  <2>4. IsFiniteSet(Primaries(s))
    <3>1. IsFiniteSet(s.members)
      BY ClientAssumption
    <3>2. Primaries(s) \subseteq s.members
      BY DEF Primaries, ReadyMembers
    <3> QED
      BY <3>1, <3>2, FS_Subset
  <2>5. \E x : Primaries(s) = {x}
    BY <2>3, <2>4, FS_Singleton
  <2> QED
    BY <1>1, <1>2, <2>1, <2>5
<1> QED
  BY <1>3, <1>4

\* Every step leaves the members of one Cluster, one primary among them.
LEMMA OneIncarnationNext ==
    ASSUME TypeOK, OneIncarnation, [Next]_vars
    PROVE  OneIncarnation'
<1>1. ASSUME NEW s \in Snapshots, NEW now \in Readings, Accept(s, now)
      PROVE  OneIncarnation'
  <2>1. /\ members' = Restamped(s, now) /\ clusterUID' = s.uid
        /\ ~Invalid(s, now) /\ now \in Nat
    BY <1>1, ReadingType DEF Accept
  <2>2. \A t \in members' : t.member \in Eligible(s)
    <3>1. \A t \in members' : t.member \in Described(members')
      BY DEF Described
    <3>2. Described(members') = Admitted(s)
      BY <1>1, AcceptedIds
    <3>3. Admitted(s) \subseteq Eligible(s)
      BY DEF Admitted
    <3> QED
      BY <3>1, <3>2, <3>3
  <2>3. \A t \in members' : t.member.clusterUID = clusterUID'
    BY <2>1, <2>2, EligibleOrigin
  <2>4. ASSUME NEW t \in members', NEW u \in members',
               t.member.id = u.member.id \/ {t.member.role, u.member.role} = {"primary"}
        PROVE  t = u
    <3>1. t.member = u.member
      BY <2>1, <2>2, <2>4, EligibleUnique
    <3>2. CASE t \in Kept(s, now) /\ u \in Kept(s, now)
      BY <3>1, <3>2 DEF Kept, OneIncarnation
    <3>3. CASE t \notin Kept(s, now) /\ u \notin Kept(s, now)
      BY <2>1, <3>1, <3>3 DEF Restamped
    <3>4. CASE ~(t \in Kept(s, now) <=> u \in Kept(s, now))
      BY <2>1, <3>1, <3>4 DEF Restamped, Described
    <3> QED
      BY <3>2, <3>3, <3>4
  <2> QED
    BY <2>3, <2>4 DEF OneIncarnation
<1>2. ASSUME NEW s \in Snapshots, NEW now \in Readings, AcceptOlderWithdrawals(s, now)
      PROVE  OneIncarnation'
  BY <1>2 DEF AcceptOlderWithdrawals, OneIncarnation
<1>3. CASE ~ \E s \in Snapshots, now \in Readings :
                Accept(s, now) \/ AcceptOlderWithdrawals(s, now)
  BY <1>3, OtherStepsRevoke DEF OneIncarnation
<1> QED
  BY <1>1, <1>2, <1>3

\* A view is about one incarnation of the cluster, names a member once and has
\* at most one primary.
THEOREM Incarnation == Spec => []OneIncarnation
<1>1. Init => OneIncarnation
  BY DEF Init, OneIncarnation
<1> QED
  BY <1>1, TypeCorrect, OneIncarnationNext, PTL DEF Spec

\* A member that stays eligible and unchanged in a view that stays usable keeps
\* its target, whatever happens to the other members.
THEOREM Undisturbed == Spec => HealthyMembersAreUndisturbed
<1> DEFINE Undisturbed0 ==
       Alive(clock) /\ ready' =>
          \A t \in members : t.member \in Described(members') => t \in members'
<1>1. ASSUME TypeOK, NEW s \in Snapshots, NEW now \in Readings, Accept(s, now)
      PROVE  Undisturbed0
  <2> SUFFICES ASSUME Alive(clock), ready', NEW t \in members, t.member \in Described(members')
               PROVE  t \in members'
    OBVIOUS
  <2>1. now \in Nat /\ now <= clock
    BY <1>1, ReadingType
  <2>2. Alive(now)
    BY <1>1, <2>1 DEF Alive, TypeOK
  <2>3. ReadyAfter(s, now) /\ members' = Restamped(s, now)
    BY <1>1 DEF Accept
  <2>4. t.member \in Admitted(s)
    BY <1>1, AcceptedIds
  <2>5. t \in Kept(s, now)
    BY <2>2, <2>3, <2>4 DEF Kept
  <2> QED
    BY <2>3, <2>5 DEF Restamped
<1>2. ASSUME TypeOK, NEW s \in Snapshots, NEW now \in Readings, AcceptOlderWithdrawals(s, now)
      PROVE  Undisturbed0
  BY <1>2 DEF AcceptOlderWithdrawals, Refuted, Described
<1>3. ASSUME TypeOK, [Next]_vars
      PROVE  Undisturbed0
  <2>1. CASE ~ \E s \in Snapshots, now \in Readings :
                  Accept(s, now) \/ AcceptOlderWithdrawals(s, now)
    BY <1>3, <2>1, OtherStepsRevoke
  <2> QED
    BY <1>1, <1>2, <1>3, <2>1
<1> QED
  BY <1>3, TypeCorrect, PTL DEF Spec, HealthyMembersAreUndisturbed

-----------------------------------------------------------------------------
(* Withdrawn identities *)

\* What makes RevocationsStand inductive. What was withdrawn was withdrawn from
\* an observation no newer than the current one, and from the current one nothing
\* is left; unless the view as a whole is withdrawn, which only a newer one ends.
RevocationInv ==
    /\ \A r \in revoked : \E at \in Nat, id \in MemberIDs :
         at <= observedAt /\ r = <<clusterUID, at, id>>
    /\ clusterUID = NoCluster => observedAt = 0 /\ members = {} /\ revoked = {}
    /\ ~withdrawn => \A t \in members : <<clusterUID, observedAt, t.member.id>> \notin revoked

\* Identities of members are identities.
LEMMA MemberIdsType ==
    ASSUME TypeOK
    PROVE  Ids(members) \subseteq MemberIDs
  BY DEF TypeOK, Target, Discovered, Ids

\* A step of the client, with what the other theorems say of it, brings nothing back that
\* was withdrawn from the observation the view is at.
LEMMA RevocationStep ==
    ASSUME NEW u, ClusterUIDs = {u}, TypeOK, TypeOK', RevocationInv, [HistoryNext]_historyVars,
           observedAt' >= observedAt,
           ~withdrawn' => \/ observedAt' > observedAt
                          \/ ~withdrawn /\ Ids(members') \subseteq Ids(members),
           clusterUID' # clusterUID => observedAt' > observedAt,
           clusterUID' = clusterUID \/ clusterUID' # NoCluster,
           clusterUID' = NoCluster => UNCHANGED <<observedAt, members>>
    PROVE  RevocationInv'
<1> DEFINE new == IF clusterUID' = clusterUID /\ observedAt' = observedAt
                  THEN {<<clusterUID, observedAt, id>> : id \in Ids(members) \ Ids(members')}
                  ELSE {}
<1>1. CASE UNCHANGED historyVars
  BY <1>1 DEF historyVars, vars, view, RevocationInv
<1>2. CASE HistoryNext
  <2>1. revoked' = revoked \cup new
    BY <1>2 DEF HistoryNext
  <2>2. clusterUID # clusterUID' => revoked = {}
    BY DEF RevocationInv, TypeOK
  <2>3. observedAt \in Nat /\ observedAt' \in Nat /\ Ids(members) \subseteq MemberIDs
    BY MemberIdsType DEF TypeOK
  <2>4. ASSUME NEW r \in revoked'
        PROVE  \E at \in Nat, id \in MemberIDs : at <= observedAt' /\ r = <<clusterUID', at, id>>
    <3>1. CASE r \in revoked
      <4>1. clusterUID' = clusterUID
        BY <2>2, <3>1
      <4>2. PICK at \in Nat, id \in MemberIDs : at <= observedAt /\ r = <<clusterUID, at, id>>
        BY <3>1 DEF RevocationInv
      <4> QED
        BY <2>3, <4>1, <4>2
    <3>2. CASE r \in new
      BY <2>3, <3>2
    <3> QED
      BY <2>1, <2>4, <3>1, <3>2
  <2>5. clusterUID' = NoCluster => observedAt' = 0 /\ members' = {} /\ revoked' = {}
    <3> SUFFICES ASSUME clusterUID' = NoCluster
                 PROVE  observedAt' = 0 /\ members' = {} /\ revoked' = {}
      OBVIOUS
    <3>1. clusterUID = NoCluster /\ observedAt' = observedAt /\ members' = members
      OBVIOUS
    <3>2. observedAt = 0 /\ members = {} /\ revoked = {}
      BY <3>1 DEF RevocationInv
    <3>3. new = {}
      BY <3>1, <3>2 DEF Ids
    <3> QED
      BY <2>1, <3>1, <3>2, <3>3
  <2>6. ASSUME ~withdrawn', NEW t \in members'
        PROVE  <<clusterUID', observedAt', t.member.id>> \notin revoked'
    <3>1. CASE observedAt' > observedAt
      <4>1. new = {}
        BY <2>3, <3>1
      <4>2. \A r \in revoked : \E at \in Nat, id \in MemberIDs :
              at <= observedAt /\ r = <<clusterUID, at, id>>
        BY DEF RevocationInv
      <4> QED
        BY <2>1, <2>3, <3>1, <4>1, <4>2
    <3>2. CASE ~(observedAt' > observedAt)
      <4>1. observedAt' = observedAt /\ clusterUID' = clusterUID
        BY <2>3, <3>2
      <4>2. ~withdrawn /\ Ids(members') \subseteq Ids(members)
        BY <2>6, <3>2
      <4>3. t.member.id \in Ids(members')
        BY <2>6 DEF Ids
      <4>4. PICK v \in members : v.member.id = t.member.id
        BY <4>2, <4>3 DEF Ids
      <4>5. <<clusterUID, observedAt, t.member.id>> \notin revoked
        BY <4>2, <4>4 DEF RevocationInv
      <4>6. <<clusterUID, observedAt, t.member.id>> \notin new
        BY <4>3
      <4> QED
        BY <2>1, <4>1, <4>5, <4>6
    <3> QED
      BY <3>1, <3>2
  <2> QED
    BY <2>4, <2>5, <2>6 DEF RevocationInv
<1> QED
  BY <1>1, <1>2

\* As long as the cluster keeps its incarnation, no replay restores a member that
\* was withdrawn from an observation, whoever sends what in whichever order.
THEOREM Revocations ==
    ASSUME NEW u, ClusterUIDs = {u}
    PROVE  HistorySpec => []RevocationsStand
<1>1. HistoryInit => RevocationInv
  BY DEF HistoryInit, Init, RevocationInv
<1>2. ASSUME TypeOK, RoutesAreBacked, EvidenceMatchesMembers, RevocationInv,
             [HistoryNext]_historyVars
      PROVE  RevocationInv'
  <2>0. [Next]_vars /\ TypeOK'
    BY <1>2, NextType DEF HistoryNext, historyVars
  <2>1. ASSUME NEW s \in Snapshots, NEW now \in Readings, Accept(s, now)
        PROVE  RevocationInv'
    <3>1. /\ InOrder(s) /\ clusterUID' = s.uid /\ withdrawn' = Withdrawal(s)
          /\ observedAt' = IF Newer(s) THEN s.observedAt ELSE observedAt
          /\ Ids(members') = {d.id : d \in Admitted(s)}
      BY <2>1, AcceptedIds DEF Accept
    <3>2. s.uid = u /\ u # NoCluster /\ s.observedAt \in Nat /\ s.observedAt > 0
      BY SnapshotType, ClientAssumption
    <3>3. observedAt \in Nat
      BY <1>2 DEF TypeOK
    <3>4. clusterUID' # clusterUID => observedAt' > observedAt
      <4>1. clusterUID' # clusterUID => clusterUID = NoCluster
        BY <1>2, <3>1, <3>2 DEF TypeOK
      <4> QED
        BY <1>2, <3>1, <3>2, <3>3, <4>1 DEF RevocationInv, Newer
    <3>5. observedAt' >= observedAt
      BY <3>1, <3>2, <3>3 DEF Newer
    <3>6. ASSUME ~withdrawn', ~(observedAt' > observedAt)
          PROVE  ~withdrawn /\ Ids(members') \subseteq Ids(members)
      <4>1. ~Newer(s) /\ ~Withdrawal(s)
        BY <3>1, <3>2, <3>3, <3>6 DEF Newer
      <4>2. SameSample(s) /\ ~withdrawn
        BY <1>2, <3>1, <3>4, <3>6, <4>1, PositiveInOrder
      <4>3. Observable(s) \subseteq Ids(members)
        BY <1>2, <4>2 DEF Observable, EvidenceMatchesMembers
      <4> QED
        BY <3>1, <4>2, <4>3 DEF Admitted
    <3> QED
      BY <1>2, <2>0, <3>1, <3>2, <3>4, <3>5, <3>6, RevocationStep
  <2>2. ASSUME NEW s \in Snapshots, NEW now \in Readings, AcceptOlderWithdrawals(s, now)
        PROVE  RevocationInv'
    <3>1. /\ UNCHANGED <<observedAt, clusterUID>>
          /\ withdrawn => withdrawn'
          /\ members' \subseteq members
      BY <2>2 DEF AcceptOlderWithdrawals
    <3>2. Ids(members') \subseteq Ids(members)
      BY <3>1 DEF Ids
    <3>0. observedAt \in Nat /\ withdrawn \in BOOLEAN
      BY <1>2 DEF TypeOK
    <3>3. clusterUID # NoCluster
      BY <2>2, SnapshotType, ClientAssumption DEF AcceptOlderWithdrawals, Supplements
    <3>4. observedAt' >= observedAt /\ clusterUID' = clusterUID /\ clusterUID' # NoCluster
      BY <3>0, <3>1, <3>3
    <3>5. ~withdrawn' => ~withdrawn
      BY <3>1
    <3> QED
      BY <1>2, <2>0, <3>2, <3>4, <3>5, RevocationStep
  <2>3. CASE ~ \E s \in Snapshots, now \in Readings :
                  Accept(s, now) \/ AcceptOlderWithdrawals(s, now)
    <3>1. UNCHANGED <<observedAt, members, clusterUID, withdrawn>>
      BY <1>2, <2>0, <2>3, OtherStepsRevoke
    <3>2. observedAt \in Nat /\ Ids(members') = Ids(members)
      BY <1>2, <3>1 DEF TypeOK, Ids
    <3> QED
      BY <1>2, <2>0, <3>1, <3>2, RevocationStep
  <2> QED
    BY <2>1, <2>2, <2>3
<1>3. RevocationInv /\ RoutesAreBacked => RevocationsStand
  BY DEF RevocationInv, RoutesAreBacked, RevocationsStand
<1>4. HistorySpec => Spec
  <2>1. HistoryInit => Init
    BY DEF HistoryInit
  <2>2. [HistoryNext]_historyVars => [Next]_vars
    BY DEF HistoryNext, historyVars
  <2> QED
    BY <2>1, <2>2, PTL DEF HistorySpec, Spec
<1> QED
  BY <1>1, <1>2, <1>3, <1>4, TypeCorrect, BackedRoutes, EvidenceMatches, PTL DEF HistorySpec
=============================================================================
