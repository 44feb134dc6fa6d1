---------------------------- MODULE FunctionProofs ----------------------------
(***************************************************************************)
(* What the functions of FunctionCalls return, for every list of members,  *)
(* policy, configuration and connection string. What a loop over a list    *)
(* computes is shown by induction on how far the loop has come: the least  *)
(* position at which a claim would fail is not the first one, and so the   *)
(* claim would fail before it.                                             *)
(***************************************************************************)
EXTENDS FunctionCalls, FiniteSetTheorems, SequenceTheorems, WellFoundedInduction, TLAPS

-----------------------------------------------------------------------------
(* Induction *)

\* A set of naturals that is not empty has a least element.
LEMMA LeastNatural ==
  ASSUME NEW S \in SUBSET Nat, S # {}
  PROVE  \E n \in S : \A m \in S : n <= m
<1>1. IsWellFoundedOn(OpToRel(<, Nat), Nat)
  BY NatLessThanWellFounded
<1>2. \E n \in S : \A m \in S : ~(<<m, n>> \in OpToRel(<, Nat))
  BY <1>1, WFMin
<1>3. PICK n \in S : \A m \in S : ~(<<m, n>> \in OpToRel(<, Nat))
  BY <1>2
<1>4. \A m \in S : <<m, n>> \in OpToRel(<, Nat) <=> m < n
  BY DEF OpToRel
<1>5. \A m \in S : ~(m < n)
  BY <1>3, <1>4, Zenon
<1>6. \A m \in S : n <= m
  BY <1>5
<1>7. QED
  BY <1>6

\* A set that has zero, and with every number the next, has them all.
LEMMA SetInduction ==
  ASSUME NEW S \in SUBSET Nat, 0 \in S, \A n \in S : n + 1 \in S
  PROVE  S = Nat
<1> SUFFICES ASSUME Nat \ S # {} PROVE FALSE
  OBVIOUS
<1>1. PICK n \in Nat \ S : \A m \in Nat \ S : n <= m
  BY LeastNatural
<1>2. n - 1 \in Nat
  BY <1>1
<1>3. n - 1 \in S
  BY <1>1, <1>2
<1>4. (n - 1) + 1 \in S
  BY <1>3
<1>5. QED
  BY <1>1, <1>4

-----------------------------------------------------------------------------
(* Calls *)

\* An error that is wrapped, or joined with another, is one again.
LEMMA WrappedIsAnError ==
  ASSUME NEW e \in GoError, NEW kind \in Wrappers \cup {"missing"}
  PROVE  Wrapped(kind, e) \in GoError
<1> DEFINE node == [kind |-> kind, causes |-> {Len(e)}]
           more == Wrapped(kind, e)
<1>1. e \in Seq(Node) /\ Len(e) \in Nat /\ Len(e) # 0
  BY DEF GoError
<1>2. \A i \in 1..Len(e) : e[i].causes \subseteq 1..(i - 1)
  BY DEF GoError
<1>3. node \in Node
  BY <1>1 DEF Node, CauseKinds
<1>4. /\ more \in Seq(Node) /\ Len(more) = Len(e) + 1 /\ more # <<>>
      /\ more[Len(e) + 1] = node
      /\ \A i \in 1..Len(e) : more[i] = e[i]
  BY <1>1, <1>3, AppendProperties DEF Wrapped
<1>5. node.causes \subseteq 1..((Len(e) + 1) - 1)
  BY <1>1
<1>6. \A i \in 1..(Len(e) + 1) : i \in 1..Len(e) \/ i = Len(e) + 1
  BY <1>1
<1>7. \A i \in DOMAIN more : more[i].causes \subseteq 1..(i - 1)
  <2> TAKE i \in DOMAIN more
  <2>1. i \in 1..(Len(e) + 1)
    BY <1>4
  <2>2. CASE i \in 1..Len(e)
    BY <1>2, <1>4, <2>2
  <2>3. CASE i = Len(e) + 1
    BY <1>4, <1>5, <2>3
  <2>4. QED
    BY <1>6, <2>1, <2>2, <2>3
<1>8. QED
  BY <1>4, <1>7 DEF GoError

\* So is what two errors are joined to: the nodes of the second move up.
LEMMA JoinedIsAnError ==
  ASSUME NEW e \in GoError, NEW other \in GoError
  PROVE  Joined(e, other) \in GoError
<1> DEFINE n == Len(e)
           m == Len(other)
           moved == [i \in DOMAIN other |-> [other[i] EXCEPT !.causes = {c + n : c \in @}]]
           node == [kind |-> "join", causes |-> {n, n + m}]
           both == e \o moved
           all == Append(both, node)
<1>1. /\ e \in Seq(Node) /\ n \in Nat /\ n # 0 /\ DOMAIN e = 1..n
      /\ other \in Seq(Node) /\ m \in Nat /\ m # 0 /\ DOMAIN other = 1..m
  BY DEF GoError
<1>2. \A i \in 1..n : e[i].causes \subseteq 1..(i - 1)
  BY DEF GoError
<1>3. \A i \in 1..m : other[i] \in Node /\ other[i].causes \subseteq 1..(i - 1)
  BY <1>1 DEF GoError
<1>4. \A i \in 1..m : moved[i] \in Node /\ moved[i].causes \subseteq 1..(n + i - 1)
  <2> TAKE i \in 1..m
  <2>1. moved[i] = [other[i] EXCEPT !.causes = {c + n : c \in other[i].causes}]
    BY <1>1
  <2>2. \A c \in 1..(i - 1) : c + n \in 1..(n + i - 1) /\ c + n \in Nat
    BY <1>1
  <2>3. {c + n : c \in other[i].causes} \subseteq 1..(n + i - 1)
    BY <1>3, <2>2
  <2>4. {c + n : c \in other[i].causes} \subseteq Nat
    BY <1>3, <2>2
  <2>5. QED
    BY <1>3, <2>1, <2>3, <2>4 DEF Node
<1>5. moved \in Seq(Node) /\ Len(moved) = m
  <2>1. moved \in [1..m -> Node]
    BY <1>1, <1>4
  <2>2. QED
    BY <1>1, <2>1
<1>6. node \in Node
  BY <1>1 DEF Node
<1>8. /\ both \in Seq(Node) /\ Len(both) = n + m
      /\ \A i \in 1..(n + m) : both[i] = IF i <= n THEN e[i] ELSE moved[i - n]
  BY <1>1, <1>5, ConcatProperties
<1>9. /\ all \in Seq(Node) /\ Len(all) = n + m + 1
      /\ all[n + m + 1] = node
      /\ \A i \in 1..(n + m) : all[i] = both[i]
  <2>1. /\ all \in Seq(Node) /\ Len(all) = Len(both) + 1
        /\ all[Len(both) + 1] = node
        /\ \A i \in 1..Len(both) : all[i] = both[i]
    BY <1>6, <1>8, AppendProperties
  <2>2. QED
    BY <1>8, <2>1, Zenon
<1>10. ASSUME NEW i \in 1..(n + m + 1)
       PROVE  all[i].causes \subseteq 1..(i - 1)
  <2>1. CASE i <= n
    <3>1. i \in 1..n /\ i <= n + m /\ i \in 1..(n + m)
      BY <1>1, <2>1
    <3>2. all[i] = e[i]
      BY <1>8, <1>9, <3>1
    <3>3. QED
      BY <1>2, <3>1, <3>2
  <2>2. CASE n < i /\ i <= n + m
    <3>1. i \in 1..(n + m) /\ ~(i <= n) /\ i - n \in 1..m /\ n + (i - n) - 1 = i - 1
      BY <1>1, <2>2
    <3>2. all[i] = moved[i - n]
      BY <1>8, <1>9, <2>2, <3>1
    <3>3. moved[i - n].causes \subseteq 1..(n + (i - n) - 1)
      BY <1>4, <3>1
    <3>4. QED
      BY <3>1, <3>2, <3>3
  <2>3. CASE n + m < i
    <3>1. i = n + m + 1 /\ n \in 1..(i - 1) /\ n + m \in 1..(i - 1)
      BY <1>1, <2>3
    <3>2. all[i] = node
      BY <1>9, <3>1, Zenon
    <3>3. all[i].causes = {n, n + m}
      <4>1. node.causes = {n, n + m}
        OBVIOUS
      <4>2. QED
        BY <3>2, <4>1, Zenon
    <3>4. QED
      BY <3>1, <3>3, Zenon
  <2>4. i <= n \/ (n < i /\ i <= n + m) \/ n + m < i
    <3>1. i \in Nat
      BY <1>1
    <3>2. QED
      BY <1>1, <3>1
  <2>5. QED
    BY <2>1, <2>2, <2>3, <2>4, Zenon
<1>11. DOMAIN all = 1..(n + m + 1) /\ all # <<>>
  BY <1>1, <1>9
<1>12. all \in GoError
  BY <1>9, <1>10, <1>11 DEF GoError
<1>13. Joined(e, other) = all
  BY DEF Joined
<1>14. QED
  BY <1>12, <1>13

\* A call is made once, and what is out is the function's of what went in.
Answered ==
    /\ function = "Resolve" =>
         input \in Views /\ output \in {<<>>, <<Draws(input)>>}
    /\ function = "Valid" =>
         /\ input \in Views
         /\ output # <<>> =>
              \E target \in Members :
                output = <<[target |-> target,
                            valid  |-> Valid(input.ready, input.policy, input.members, target)]>>
    /\ function = "normalized" =>
         input \in Given /\ output \in {<<>>, <<normalized(input)>>}
    /\ function = "configureConnection" =>
         /\ input \in Plans
         /\ output \in {<<>>, <<configureConnection(input.automatic, input.cfg, input.target)>>}
    /\ function = "transientConnectError" =>
         /\ input \in GoError
         /\ output \in {<<>>, <<[obsolete \in BOOLEAN |-> transientConnectError(input, obsolete)]>>}

\* Every behaviour of the calls answers like that.
LEMMA CallsAreAnswered == CallSpec => []Answered
<1>1. CallInit => Answered
  BY FailuresAreErrors DEF CallInit, Answered
<1>2. Answered /\ Call => Answered'
  BY DEF Answered, Call, CallResolve, CallValid, CallNormalized, CallConfigureConnection,
         CallTransientConnectError
<1>3. ASSUME Answered, Grow PROVE Answered'
  <2>1. input \in GoError /\ function' = "transientConnectError" /\ output' = <<>>
    BY <1>3 DEF Answered, Grow
  <2>2. input' \in GoError
    BY <1>3, <2>1, WrappedIsAnError, JoinedIsAnError, FailuresAreErrors DEF Grow
  <2>3. QED
    BY <2>1, <2>2 DEF Answered
<1>4. Answered /\ UNCHANGED vars => Answered'
  BY DEF Answered, vars
<1>5. QED
  BY <1>1, <1>2, <1>3, <1>4, PTL DEF CallSpec, CallNext

-----------------------------------------------------------------------------
(* normalized *)

\* What the client uses is the caller's configuration with its defaults, in range and
\* transportable; a duration is the caller's unless that is zero.
LEMMA NormalizedIsInRange ==
  ASSUME NEW c \in Given, normalized(c) # Refused
  PROVE  LET used == normalized(c)
         IN  /\ \A wait \in Waits : used[wait] > 0 /\ c[wait] \in {0, used[wait]}
             /\ used.ReconnectMin <= used.ReconnectMax
             /\ used.MaxSnapshotTTL >= Millisecond
<1>1. InRange(Defaults(c)) /\ Transportable(c) /\ normalized(c) = Transport(Defaults(c))
  BY DEF normalized
<1>2. c \in Config
  BY DEF Given
<1>3. QED
  BY <1>1, <1>2, DurationsAreIntegers
     DEF InRange, Defaults, Or, Config, Transport, Waits, Millisecond, Second

\* The transport is the client's own, and good enough for a token if it carries one.
LEMMA NormalizedIsSecured ==
  ASSUME NEW c \in Given, normalized(c) # Refused
  PROVE  LET used == normalized(c)
         IN  /\ used.insecure => used.token = "none"
             /\ ~used.insecure =>
                  /\ used.TLSConfig.owner = "client"
                  /\ used.TLSConfig.verifies
                  /\ used.TLSConfig.minVersion >= TLS12
                  /\ c.TLSConfig # NoTLS =>
                       used.TLSConfig.minVersion >= c.TLSConfig.minVersion
<1>1. Transportable(c) /\ normalized(c) = Transport(Defaults(c))
  BY DEF normalized
<1>2. c \in Config
  BY DEF Given
<1>3. QED
  BY <1>1, <1>2 DEF Config, TLSConfig, Transportable, Transport, Secured, Clone, TLS12, Defaults

\* Whatever a caller sets, New goes on with waits that are positive and in order, and
\* a token goes over verified TLS 1.2 or later only.
THEOREM ConfigurationsAreSound == CallSpec => []ConfigurationIsSound
<1>1. ASSUME Answered, Called("normalized"), output[1] # Refused
      PROVE  input \in Given /\ output[1] = normalized(input) /\ normalized(input) # Refused
  BY <1>1 DEF Answered, Called
<1>2. Answered => ConfigurationIsSound
  BY <1>1, NormalizedIsInRange, NormalizedIsSecured DEF ConfigurationIsSound
<1>3. QED
  BY <1>2, CallsAreAnswered, PTL

-----------------------------------------------------------------------------
(* Counting and walking *)

\* Positions of a list, and any part of them, are finite, and are counted by naturals.
LEMMA PositionsAreFinite ==
  ASSUME NEW n \in Nat, NEW P \in SUBSET (1..n)
  PROVE  IsFiniteSet(P) /\ Cardinality(P) \in Nat
<1>1. IsFiniteSet(1..n)
  BY FS_Interval
<1>2. IsFiniteSet(P)
  BY <1>1, FS_Subset
<1>3. QED
  BY <1>2, FS_CardinalityType

\* Nothing lies between a position and the next.
LEMMA Apart ==
  ASSUME NEW i \in Nat, NEW j \in Nat
  PROVE  j < i + 1 <=> (j < i \/ j = i)
  OBVIOUS

\* A walk has passed no position before the first, one more behind each position, and
\* never all of them when it is at one.
LEMMA PassedStep ==
  ASSUME NEW n \in Nat, NEW P \in SUBSET (1..n), NEW i \in Nat
  PROVE  /\ Passed(P, i) \in 0..Cardinality(P)
         /\ Passed(P, 0) = 0
         /\ i \in P => Passed(P, i + 1) = Passed(P, i) + 1
         /\ i \notin P => Passed(P, i + 1) = Passed(P, i)
         /\ i > n => Passed(P, i) = Cardinality(P)
<1> DEFINE Before == {j \in P : j < i}
           Until == {j \in P : j < i + 1}
<1>0. \A j \in P : j \in Nat /\ j <= n
  OBVIOUS
<1>a. ~(i < i) /\ \A j \in P : ~(j < 0)
  BY <1>0
<1>b. \A j \in P : j < i + 1 <=> (j < i \/ j = i)
  BY <1>0, Apart
<1>c. i > n => \A j \in P : j < i
  BY <1>0
<1>1. /\ IsFiniteSet(P) /\ IsFiniteSet(Before) /\ IsFiniteSet(Until)
      /\ Cardinality(Before) \in Nat /\ Cardinality(P) \in Nat
  BY PositionsAreFinite
<1>2. Cardinality(Before) <= Cardinality(P)
  BY <1>1, FS_Subset
<1>3. Passed(P, 0) = 0
  <2>1. {j \in P : j < 0} = {}
    BY <1>a, Zenon
  <2>2. QED
    BY <2>1, FS_EmptySet DEF Passed
<1>4. i \in P => Cardinality(Until) = Cardinality(Before) + 1
  <2>1. ASSUME i \in P PROVE Until = Before \cup {i} /\ i \notin Before
    BY <1>a, <1>b, <2>1, Zenon
  <2>2. QED
    BY <1>1, <2>1, FS_AddElement
<1>5. i \notin P => Until = Before
  BY <1>b, Zenon
<1>6. i > n => Before = P
  BY <1>c, Zenon
<1>7. QED
  BY <1>1, <1>2, <1>3, <1>4, <1>5, <1>6 DEF Passed

\* It has passed more at a later position, so two positions are never reached alike.
LEMMA PassedGrows ==
  ASSUME NEW n \in Nat, NEW P \in SUBSET (1..n), NEW i \in P, NEW k \in P, i < k
  PROVE  Passed(P, i) < Passed(P, k)
<1> DEFINE Before == {j \in P : j < i}
           Later == {j \in P : j < k}
<1>0. /\ \A j \in P : j < i => j < k
      /\ ~(i < i)
  <2>1. i \in Nat /\ k \in Nat /\ \A j \in P : j \in Nat
    OBVIOUS
  <2>2. QED
    BY <2>1
<1>1. IsFiniteSet(Before) /\ IsFiniteSet(Later) /\ Cardinality(Before) \in Nat /\ Cardinality(Later) \in Nat
  BY PositionsAreFinite
<1>2. Before \subseteq Later /\ i \in Later /\ i \notin Before
  BY <1>0
<1>3. Cardinality(Before) < Cardinality(Later)
  BY <1>1, <1>2, FS_Subset
<1>4. QED
  BY <1>3 DEF Passed

\* Every index below their number is that of one of the positions.
LEMMA PassedReaches ==
  ASSUME NEW n \in Nat, NEW P \in SUBSET (1..n), NEW index \in 0..(Cardinality(P) - 1)
  PROVE  \E i \in P : Passed(P, i) = index
<1> DEFINE S == {i \in Nat : Passed(P, i) > index}
<1>1. Cardinality(P) \in Nat
  BY PositionsAreFinite
<1>2. n + 1 \in S
  BY <1>1, PassedStep
<1>3. PICK k \in S : \A m \in S : k <= m
  BY <1>2, LeastNatural
<1>4. k # 0
  BY <1>1, <1>3, PassedStep
<1>5. k - 1 \in Nat /\ k - 1 \notin S
  BY <1>3, <1>4
<1>6. Passed(P, k - 1) <= index /\ Passed(P, k) > index
  BY <1>1, <1>3, <1>5, PassedStep
<1>7. (k - 1) + 1 = k
  BY <1>3
<1>8. k - 1 \in P /\ Passed(P, k) = Passed(P, k - 1) + 1
  BY <1>5, <1>6, <1>7, PassedStep
<1>9. Passed(P, k - 1) = index
  BY <1>1, <1>5, <1>6, <1>8, PassedStep
<1>10. QED
  BY <1>8, <1>9

-----------------------------------------------------------------------------
(* Resolve and Valid *)

Selected(view) == selectionLocked(view.ready, view.policy, view.members)

AdmittedOf(view) == Admitted(Selected(view), view.policy, view.members)

\* The roles of the chain that have a member in the list.
Counting(view) ==
    {k \in DOMAIN view.policy.chain :
       \E t \in Range(view.members) : Matches(view.policy.chain[k], t.member)}

\* What a view's list and policy are, by the assumptions on the constants.
LEMMA ViewsAreTyped ==
  ASSUME NEW view \in Views
  PROVE  /\ view.members \in Seq(Members)
         /\ Len(view.members) \in Nat
         /\ DOMAIN view.members = 1..Len(view.members)
         /\ IsInjective(view.members)
         /\ DOMAIN view.policy.chain \subseteq Nat
<1>1. view.members \in Lists /\ view.policy \in Policies
  BY DEF Views
<1>2. view.members \in Seq(Members) /\ IsInjective(view.members)
  BY <1>1, ListsAreInjective
<1>3. view.policy.chain \in Seq(PolicyRole)
  BY <1>1, PoliciesAreValid
<1>4. DOMAIN view.policy.chain = 1..Len(view.policy.chain)
  BY <1>3
<1>5. DOMAIN view.policy.chain \subseteq Nat
  BY <1>4
<1>6. QED
  BY <1>2, <1>5

\* A count is positive when there is something to count.
LEMMA CountsSome ==
  ASSUME NEW n \in Nat, NEW P \in SUBSET (1..n)
  PROVE  Cardinality(P) > 0 <=> P # {}
<1>1. IsFiniteSet(P) /\ Cardinality(P) \in Nat
  BY PositionsAreFinite
<1>2. Cardinality(P) = 0 <=> P = {}
  BY <1>1, FS_EmptySet
<1>3. \A count \in Nat : count > 0 <=> count # 0
  OBVIOUS
<1>4. QED
  BY <1>1, <1>2, <1>3, Zenon

\* What the loop over a role counts: members of the class, those of the zone among them.
LEMMA PositionsOfMembers ==
  ASSUME NEW view \in Views, NEW role
  PROVE  /\ Matching(role, view.members) \in SUBSET (1..Len(view.members))
         /\ Local(view.policy, role, view.members) \in SUBSET (1..Len(view.members))
         /\ Cardinality(Matching(role, view.members)) > 0
              <=> \E t \in Range(view.members) : Matches(role, t.member)
         /\ Cardinality(Local(view.policy, role, view.members)) > 0
              <=> /\ view.policy.preferZone # NoZone
                  /\ \E t \in Range(view.members) :
                       Matches(role, t.member) /\ t.member.zone = view.policy.preferZone
<1> DEFINE matching == Matching(role, view.members)
           local == Local(view.policy, role, view.members)
<1>1. /\ matching \in SUBSET (1..Len(view.members))
      /\ local \in SUBSET (1..Len(view.members))
  BY ViewsAreTyped DEF Matching, Local
<1>2. matching # {} <=> \E t \in Range(view.members) : Matches(role, t.member)
  BY DEF Matching, Range
<1>3. local # {} <=> /\ view.policy.preferZone # NoZone
                     /\ \E t \in Range(view.members) :
                          Matches(role, t.member) /\ t.member.zone = view.policy.preferZone
  BY DEF Matching, Local, Range
<1>4. /\ Cardinality(matching) > 0 <=> matching # {}
      /\ Cardinality(local) > 0 <=> local # {}
  BY <1>1, CountsSome, ViewsAreTyped
<1>5. QED
  BY <1>1, <1>2, <1>3, <1>4, Zenon

\* The class Routing admits is that of the first role that counts a member.
LEMMA LeadingIsFirstCounted ==
  ASSUME NEW view \in Views, Counting(view) # {}
  PROVE  LET k == CHOOSE k \in Counting(view) : \A l \in Counting(view) : k <= l
         IN  /\ k \in Counting(view)
             /\ Leading(view.policy.chain, Range(view.members)) =
                  {t \in Range(view.members) : Matches(view.policy.chain[k], t.member)}
<1> DEFINE first == CHOOSE k \in Counting(view) : \A l \in Counting(view) : k <= l
           Class(k) == {t \in Range(view.members) : Matches(view.policy.chain[k], t.member)}
<1>1. Counting(view) \in SUBSET Nat
  BY ViewsAreTyped DEF Counting
<1>2. \E k \in Counting(view) : \A l \in Counting(view) : k <= l
  BY <1>1, LeastNatural
<1>3. first \in Counting(view) /\ \A l \in Counting(view) : first <= l
  BY <1>2, Zenon
<1>4. \A k \in Counting(view) : (\A l \in Counting(view) : k <= l) <=> k = first
  <2> TAKE k \in Counting(view)
  <2>1. k \in Nat /\ first \in Nat
    BY <1>1, <1>3
  <2>2. (k <= first /\ first <= k) => k = first
    BY <2>1
  <2>3. QED
    BY <1>3, <2>2, Zenon
<1>5. Leading(view.policy.chain, Range(view.members)) =
        {t \in Range(view.members) :
           \E k \in Counting(view) : /\ \A l \in Counting(view) : k <= l
                                     /\ Matches(view.policy.chain[k], t.member)}
  BY DEF Leading, Counting
<1>6. Leading(view.policy.chain, Range(view.members)) = Class(first)
  BY <1>3, <1>4, <1>5
<1>7. QED
  BY <1>3, <1>6

\* The turn a view's selection is from; no turn counts and nothing is served.
LEMMA SelectionIsATurn ==
  ASSUME NEW view \in Views
  PROVE  /\ ~(view.ready /\ Counting(view) # {}) =>
              Selected(view) = Nothing /\ Served(view) = {}
         /\ view.ready /\ Counting(view) # {} =>
              \E k \in Counting(view) :
                /\ Selected(view) = Turn(view.policy, view.members, view.policy.chain[k])
                /\ Leading(view.policy.chain, Range(view.members)) =
                     {t \in Range(view.members) : Matches(view.policy.chain[k], t.member)}
<1>1. Counting(view) = {k \in DOMAIN view.policy.chain :
                          Cardinality(Matching(view.policy.chain[k], view.members)) > 0}
  BY PositionsOfMembers DEF Counting
<1>2. CASE view.ready /\ Counting(view) # {}
  BY <1>1, <1>2, LeadingIsFirstCounted DEF Selected, selectionLocked
<1>3. CASE ~view.ready
  BY <1>3 DEF Selected, selectionLocked, Served
<1>4. CASE view.ready /\ Counting(view) = {}
  <2>1. Leading(view.policy.chain, Range(view.members)) = {}
    BY <1>4 DEF Leading, Counting
  <2>2. Served(view) = {}
    BY <1>4, <2>1 DEF Served, Candidates
  <2>3. Selected(view) = Nothing
    BY <1>1, <1>4 DEF Selected, selectionLocked
  <2>4. QED
    BY <1>4, <2>2, <2>3
<1>5. QED
  BY <1>2, <1>3, <1>4

\* The count of a selection is that of the members it admits, and they are the
\* candidates of the policy.
LEMMA SelectionServes ==
  ASSUME NEW view \in Views
  PROVE  /\ Selected(view).count \in Nat
         /\ Served(view) \subseteq Range(view.members)
         /\ Selected(view).count = 0 => Served(view) = {}
         /\ Selected(view).count # 0 =>
              /\ Selected(view).count = Cardinality(AdmittedOf(view))
              /\ \A t \in Range(view.members) :
                   t \in Served(view) <=> Admits(Selected(view), view.policy, t)
<1>1. CASE ~(view.ready /\ Counting(view) # {})
  BY <1>1, SelectionIsATurn DEF Nothing
<1>2. CASE view.ready /\ Counting(view) # {}
  <2>1. PICK k \in Counting(view) :
          /\ Selected(view) = Turn(view.policy, view.members, view.policy.chain[k])
          /\ Leading(view.policy.chain, Range(view.members)) =
               {t \in Range(view.members) : Matches(view.policy.chain[k], t.member)}
    BY <1>2, SelectionIsATurn
  <2> DEFINE role == view.policy.chain[k]
             matching == Matching(role, view.members)
             local == Local(view.policy, role, view.members)
             near == {t \in Range(view.members) :
                        Matches(role, t.member) /\ t.member.zone = view.policy.preferZone}
             class == {t \in Range(view.members) : Matches(role, t.member)}
  <2>2. Served(view) = IF view.policy.preferZone # NoZone /\ near # {} THEN near ELSE class
    BY <1>2, <2>1 DEF Served, Candidates
  <2>3. class # {}
    BY DEF Counting
  <2>4. /\ Cardinality(matching) \in Nat /\ Cardinality(local) \in Nat
        /\ Cardinality(matching) > 0
        /\ Cardinality(local) > 0 <=> view.policy.preferZone # NoZone /\ near # {}
    BY <2>3, PositionsOfMembers, PositionsAreFinite, ViewsAreTyped
  <2>5. CASE Cardinality(local) > 0
    <3>1. Selected(view) = [role |-> role, local |-> TRUE, count |-> Cardinality(local)]
      BY <2>1, <2>5 DEF Turn
    <3>2. AdmittedOf(view) = local
      BY <2>4, <2>5, <3>1 DEF AdmittedOf, Admitted, Admits, Local, Matching
    <3>3. \A t \in Range(view.members) : t \in near <=> Admits(Selected(view), view.policy, t)
      BY <3>1 DEF Admits
    <3>4. Served(view) = near /\ near \subseteq Range(view.members)
      BY <2>2, <2>4, <2>5, Zenon
    <3>5. Selected(view).count = Cardinality(local)
      BY <3>1
    <3>6. Cardinality(local) \in Nat /\ Cardinality(local) # 0
      BY <2>4, <2>5
    <3>7. QED
      BY <3>2, <3>3, <3>4, <3>5, <3>6, Zenon
  <2>6. CASE ~(Cardinality(local) > 0)
    <3>1. Selected(view) = [role |-> role, local |-> FALSE, count |-> Cardinality(matching)]
      BY <2>1, <2>6 DEF Turn
    <3>2. AdmittedOf(view) = matching
      BY <3>1 DEF AdmittedOf, Admitted, Admits, Matching
    <3>3. \A t \in Range(view.members) : t \in class <=> Admits(Selected(view), view.policy, t)
      BY <3>1 DEF Admits
    <3>4. Served(view) = class /\ class \subseteq Range(view.members)
      BY <2>2, <2>4, <2>6, Zenon
    <3>5. Selected(view).count = Cardinality(matching)
      BY <3>1
    <3>6. Cardinality(matching) \in Nat /\ Cardinality(matching) # 0
      BY <2>4, <2>6
    <3>7. QED
      BY <3>2, <3>3, <3>4, <3>5, <3>6, Zenon
  <2>7. QED
    BY <2>5, <2>6
<1>3. QED
  BY <1>1, <1>2

\* Every index below the count is the one at which exactly one admitted member is
\* drawn.
LEMMA DrawsAMember ==
  ASSUME NEW view \in Views, NEW index \in 0..(Selected(view).count - 1)
  PROVE  \E i \in AdmittedOf(view) :
           /\ Passed(AdmittedOf(view), i) = index
           /\ Pick(Selected(view), view.policy, view.members, index) = view.members[i]
<1> DEFINE admitted == AdmittedOf(view)
           stops == {i \in admitted : Passed(admitted, i) = index}
<1>1. admitted \in SUBSET (1..Len(view.members)) /\ Len(view.members) \in Nat
  BY ViewsAreTyped DEF AdmittedOf, Admitted
<1>2. Selected(view).count \in Nat /\ Selected(view).count # 0
  BY SelectionServes
<1>3. index \in 0..(Cardinality(admitted) - 1)
  BY <1>2, SelectionServes
<1>4. stops # {}
  BY <1>1, <1>3, PassedReaches
<1>5. Pick(Selected(view), view.policy, view.members, index) =
        view.members[CHOOSE i \in stops : TRUE]
  BY <1>4 DEF Pick, AdmittedOf
<1>6. (CHOOSE i \in stops : TRUE) \in stops
  BY <1>4, Zenon
<1>7. QED
  BY <1>5, <1>6

\* The position of an admitted member is reached at an index below the count, and
\* at no other.
LEMMA DrawnAtOneIndex ==
  ASSUME NEW view \in Views, Selected(view).count # 0, NEW i \in AdmittedOf(view)
  PROVE  /\ Passed(AdmittedOf(view), i) \in 0..(Selected(view).count - 1)
         /\ \A k \in AdmittedOf(view) :
              Passed(AdmittedOf(view), k) = Passed(AdmittedOf(view), i) => k = i
<1> DEFINE admitted == AdmittedOf(view)
<1>1. admitted \in SUBSET (1..Len(view.members)) /\ Len(view.members) \in Nat
  BY ViewsAreTyped DEF AdmittedOf, Admitted
<1>2. \A k \in admitted : k \in Nat
  BY <1>1
<1>3. /\ \A k \in Nat : Passed(admitted, k) \in 0..Cardinality(admitted)
      /\ Passed(admitted, i + 1) = Passed(admitted, i) + 1
      /\ Cardinality(admitted) \in Nat
  <2>1. i \in Nat
    BY <1>2
  <2>2. Passed(admitted, i + 1) = Passed(admitted, i) + 1
    BY <1>1, <2>1, PassedStep
  <2>3. \A k \in Nat : Passed(admitted, k) \in 0..Cardinality(admitted)
    BY <1>1, PassedStep
  <2>4. Cardinality(admitted) \in Nat
    BY <1>1, PositionsAreFinite
  <2>5. QED
    BY <2>2, <2>3, <2>4
<1>4. Passed(admitted, i) \in 0..(Cardinality(admitted) - 1)
  <2>1. i \in Nat /\ i + 1 \in Nat
    BY <1>2
  <2>2. Passed(admitted, i) \in 0..Cardinality(admitted)
    BY <1>3, <2>1
  <2>3. Passed(admitted, i + 1) \in 0..Cardinality(admitted)
    BY <1>3, <2>1
  <2>4. QED
    BY <1>3, <2>2, <2>3
<1>5. ASSUME NEW k \in admitted, Passed(admitted, k) = Passed(admitted, i), k # i
      PROVE  FALSE
  <2>1. Passed(admitted, k) \in 0..Cardinality(admitted)
    BY <1>2, <1>3
  <2>2. k < i \/ i < k
    BY <1>2, <1>5
  <2>3. Passed(admitted, k) < Passed(admitted, i) \/ Passed(admitted, i) < Passed(admitted, k)
    BY <1>1, <2>2, PassedGrows
  <2>4. QED
    BY <1>3, <1>5, <2>1, <2>3
<1>6. QED
  BY <1>4, <1>5, SelectionServes

\* Resolve draws each candidate at one index.
LEMMA DrawsAreFair ==
  ASSUME NEW view \in Views
  PROVE  IsInjective(Draws(view)) /\ Range(Draws(view)) = Served(view)
<1> DEFINE indexes == 0..(Selected(view).count - 1)
           admitted == AdmittedOf(view)
           draws == Draws(view)
<1>1. /\ DOMAIN draws = indexes
      /\ \A index \in indexes :
           draws[index] = Pick(Selected(view), view.policy, view.members, index)
  BY DEF Draws, Selected
<1>2. \A index \in indexes :
        \E i \in admitted : Passed(admitted, i) = index /\ draws[index] = view.members[i]
  BY <1>1, DrawsAMember
<1>3. admitted \subseteq DOMAIN view.members
  BY DEF AdmittedOf, Admitted
<1>4. IsInjective(draws)
  <2> SUFFICES ASSUME NEW a \in indexes, NEW b \in indexes, draws[a] = draws[b]
               PROVE  a = b
    BY <1>1 DEF IsInjective
  <2>1. PICK i \in admitted : Passed(admitted, i) = a /\ draws[a] = view.members[i]
    BY <1>2
  <2>2. PICK k \in admitted : Passed(admitted, k) = b /\ draws[b] = view.members[k]
    BY <1>2
  <2>3. i = k
    BY <1>3, <2>1, <2>2, ViewsAreTyped DEF IsInjective
  <2>4. QED
    BY <2>1, <2>2, <2>3
<1>5. CASE Selected(view).count = 0
  <2>1. indexes = {}
    BY <1>5
  <2>2. Range(draws) = {}
    BY <1>1, <2>1 DEF Range
  <2>3. QED
    BY <1>4, <1>5, <2>2, SelectionServes
<1>6. CASE Selected(view).count # 0
  <2>1. Served(view) = {view.members[i] : i \in admitted}
    <3>1. \A i \in DOMAIN view.members :
            i \in admitted <=> Admits(Selected(view), view.policy, view.members[i])
      BY DEF AdmittedOf, Admitted
    <3>2. Served(view) = {t \in Range(view.members) : Admits(Selected(view), view.policy, t)}
      BY <1>6, SelectionServes
    <3>3. QED
      BY <1>3, <3>1, <3>2 DEF Range
  <2>2. Range(draws) \subseteq {view.members[i] : i \in admitted}
    BY <1>1, <1>2 DEF Range
  <2>3. ASSUME NEW i \in admitted
        PROVE  view.members[i] \in Range(draws)
    <3>1. /\ Passed(admitted, i) \in indexes
          /\ \A k \in admitted : Passed(admitted, k) = Passed(admitted, i) => k = i
      BY <1>6, DrawnAtOneIndex
    <3>2. draws[Passed(admitted, i)] = view.members[i]
      BY <1>2, <3>1
    <3>3. QED
      BY <1>1, <3>1, <3>2 DEF Range
  <2>4. QED
    BY <1>4, <2>1, <2>2, <2>3
<1>7. QED
  BY <1>5, <1>6

\* Valid admits the candidates and nothing else.
LEMMA ValidAdmitsCandidates ==
  ASSUME NEW view \in Views, NEW target
  PROVE  Valid(view.ready, view.policy, view.members, target) <=> target \in Served(view)
<1>1. Valid(view.ready, view.policy, view.members, target) <=>
        /\ Selected(view).count # 0
        /\ Admits(Selected(view), view.policy, target)
        /\ target \in Range(view.members)
  BY DEF Valid, Selected
<1>2. QED
  BY <1>1, SelectionServes

\* For every list of members and every policy, the walk of Resolve and the check of
\* Valid agree with each other and with the policy.
THEOREM SelectionAgrees == CallSpec => []SelectionAndEligibilityAgree
<1>1. ASSUME Answered, Called("Resolve")
      PROVE  input \in Views /\ output[1] = Draws(input)
  BY <1>1 DEF Answered, Called
<1>2. ASSUME Answered, Called("Valid")
      PROVE  output[1].valid <=> output[1].target \in Served(input)
  BY <1>2, ValidAdmitsCandidates DEF Answered, Called
<1>3. Answered => SelectionAndEligibilityAgree
  BY <1>1, <1>2, DrawsAreFair DEF SelectionAndEligibilityAgree
<1>4. QED
  BY <1>3, CallsAreAnswered, PTL

-----------------------------------------------------------------------------
(* configureConnection *)

\* What the loop over the application's attempts has kept after each of them.
Keeps(cfg, kept) ==
    kept = [i \in 0..Len(cfg) |->
              IF i = 0 THEN <<>>
              ELSE IF cfg[i].address = cfg[1].address THEN Append(kept[i - 1], cfg[i])
              ELSE kept[i - 1]]

\* There is such a function: it is built one attempt after the other.
LEMMA LoopKeeps ==
  ASSUME NEW cfg \in ConnConfig
  PROVE  \E kept : Keeps(cfg, kept) /\ Kept(cfg) = kept[Len(cfg)]
<1> DEFINE After(kept, i) == IF i = 0 THEN <<>>
                             ELSE IF cfg[i].address = cfg[1].address
                                  THEN Append(kept[i - 1], cfg[i])
                             ELSE kept[i - 1]
           S == {n \in Nat : \E kept : kept = [i \in 0..n |-> After(kept, i)]}
<1>1. 0 \in S
  <2>1. [i \in 0..0 |-> <<>>] = [i \in 0..0 |-> After([k \in 0..0 |-> <<>>], i)]
    OBVIOUS
  <2>2. QED
    BY <2>1
<1>2. \A n \in S : n + 1 \in S
  <2> TAKE n \in S
  <2>1. PICK kept : kept = [i \in 0..n |-> After(kept, i)]
    OBVIOUS
  <2> DEFINE more == [i \in 0..(n + 1) |-> IF i = n + 1 THEN After(kept, n + 1) ELSE kept[i]]
  <2>2. ASSUME NEW i \in 0..(n + 1) PROVE more[i] = After(more, i)
    <3>1. CASE i = n + 1
      <4>1. i - 1 \in 0..(n + 1) /\ i - 1 # n + 1 /\ i = n + 1 /\ i \in 0..(n + 1)
        BY <3>1
      <4>2. more[i - 1] = kept[i - 1] /\ more[i] = After(kept, i)
        BY <4>1
      <4>3. After(more, i) = After(kept, i)
        BY <4>2
      <4>4. QED
        BY <4>2, <4>3
    <3>2. CASE i = 0
      <4>1. i # n + 1 /\ i \in 0..n /\ i \in 0..(n + 1)
        BY <3>2
      <4>2. more[i] = kept[i] /\ kept[i] = After(kept, i)
        BY <4>1, <2>1
      <4>3. After(kept, i) = <<>> /\ After(more, i) = <<>>
        BY <3>2
      <4>4. QED
        BY <4>2, <4>3
    <3>3. CASE i # n + 1 /\ i # 0
      <4>1. /\ i # n + 1 /\ i \in 0..n /\ i \in 0..(n + 1)
            /\ i - 1 # n + 1 /\ i - 1 \in 0..(n + 1)
        BY <3>3
      <4>2. more[i] = kept[i] /\ kept[i] = After(kept, i) /\ more[i - 1] = kept[i - 1]
        BY <4>1, <2>1
      <4>3. After(more, i) = After(kept, i)
        BY <4>2
      <4>4. QED
        BY <4>2, <4>3
    <3>4. QED
      BY <3>1, <3>2, <3>3
  <2>3. more = [i \in 0..(n + 1) |-> After(more, i)]
    BY <2>2, Zenon
  <2>4. \E f : f = [i \in 0..(n + 1) |-> After(f, i)]
    BY <2>3, Zenon
  <2>5. n + 1 \in Nat
    OBVIOUS
  <2>6. QED
    BY <2>4, <2>5, Zenon
<1>3. S \in SUBSET Nat
  OBVIOUS
<1>4. S = Nat
  BY <1>1, <1>2, <1>3, SetInduction, Zenon
<1>5. Len(cfg) \in Nat
  BY DEF ConnConfig
<1>6. QED
  BY <1>4, <1>5 DEF Kept, Keeps

\* The rank of an attempt is what a walk has passed behind it.
LEMMA FirstsArePositions ==
  ASSUME NEW cfg \in ConnConfig
  PROVE  /\ cfg \in Seq(Attempt) /\ Len(cfg) \in Nat
         /\ Firsts(cfg) \in SUBSET (1..Len(cfg))
         /\ \A p \in Firsts(cfg) : Rank(cfg, p) = Passed(Firsts(cfg), p + 1)
<1>1. cfg \in Seq(Attempt) /\ Len(cfg) \in Nat /\ DOMAIN cfg = 1..Len(cfg)
  BY DEF ConnConfig
<1>2. Firsts(cfg) \in SUBSET (1..Len(cfg))
  BY <1>1 DEF Firsts
<1>3. ASSUME NEW p \in Firsts(cfg)
      PROVE  Rank(cfg, p) = Passed(Firsts(cfg), p + 1)
  <2>1. p \in Nat /\ \A q \in Firsts(cfg) : q \in Nat
    BY <1>2
  <2>2. \A q \in Firsts(cfg) : q <= p <=> q < p + 1
    BY <2>1
  <2>3. {q \in Firsts(cfg) : q <= p} = {q \in Firsts(cfg) : q < p + 1}
    BY <2>2, Zenon
  <2>4. QED
    BY <2>3 DEF Rank, Passed
<1>4. QED
  BY <1>1, <1>2, <1>3

\* The attempts kept are those at the first address, in their order.
LEMMA KeptAreFirsts ==
  ASSUME NEW cfg \in ConnConfig
  PROVE  /\ Kept(cfg) \in Seq(Attempt)
         /\ Len(Kept(cfg)) = Cardinality(Firsts(cfg))
         /\ \A p \in Firsts(cfg) : /\ Rank(cfg, p) \in 1..Len(Kept(cfg))
                                   /\ Kept(cfg)[Rank(cfg, p)] = cfg[p]
<1> DEFINE F == Firsts(cfg)
           L == Len(cfg)
<1>1. /\ cfg \in Seq(Attempt) /\ L \in Nat /\ F \in SUBSET (1..L)
      /\ \A p \in F : p \in Nat /\ Rank(cfg, p) = Passed(F, p + 1)
  BY FirstsArePositions
<1>2. PICK kept : Keeps(cfg, kept) /\ Kept(cfg) = kept[L]
  BY LoopKeeps
<1> DEFINE Good(i) == /\ kept[i] \in Seq(Attempt)
                      /\ Len(kept[i]) = Passed(F, i + 1)
                      /\ \A p \in F : p <= i =>
                           /\ Passed(F, p + 1) \in 1..Len(kept[i])
                           /\ kept[i][Passed(F, p + 1)] = cfg[p]
           S == {i \in Nat : i <= L => Good(i)}
<1>3. \A i \in Nat : /\ Passed(F, i) \in Nat
                     /\ i \in F => Passed(F, i + 1) = Passed(F, i) + 1
                     /\ i \notin F => Passed(F, i + 1) = Passed(F, i)
                     /\ i > L => Passed(F, i) = Cardinality(F)
  <2> TAKE i \in Nat
  <2>1. /\ Passed(F, i) \in 0..Cardinality(F)
        /\ i \in F => Passed(F, i + 1) = Passed(F, i) + 1
        /\ i \notin F => Passed(F, i + 1) = Passed(F, i)
        /\ i > L => Passed(F, i) = Cardinality(F)
    BY <1>1, PassedStep
  <2>2. QED
    BY <2>1
<1>4. 0 \in S
  <2>1. kept[0] = <<>>
    BY <1>1, <1>2 DEF Keeps
  <2>2. 0 \notin F /\ \A p \in F : ~(p <= 0)
    BY <1>1
  <2>3. Passed(F, 0) = 0
    BY <1>1, PassedStep
  <2>4. Passed(F, 0 + 1) = 0
    BY <1>3, <2>2, <2>3
  <2>5. kept[0] \in Seq(Attempt) /\ Len(kept[0]) = 0
    BY <2>1
  <2>6. Good(0)
    BY <2>2, <2>4, <2>5
  <2>7. QED
    BY <2>6
<1>5. \A i \in S : i + 1 \in S
  <2> SUFFICES ASSUME NEW i \in Nat, Good(i), i + 1 <= L
               PROVE  Good(i + 1)
    <3>1. ASSUME NEW i \in Nat, i <= L => Good(i), i + 1 <= L PROVE i <= L
      BY <1>1, <3>1
    <3>2. QED
      BY <3>1
  <2>1. /\ (i + 1) \in 0..L /\ (i + 1) # 0 /\ (i + 1) - 1 = i /\ i + 1 \in Nat
        /\ \A p \in F : p <= i + 1 <=> p <= i \/ p = i + 1
    <3>1. /\ (i + 1) \in 0..L /\ (i + 1) # 0 /\ (i + 1) - 1 = i /\ i + 1 \in Nat
      BY <1>1
    <3>2. \A p \in Nat : p <= i + 1 <=> p <= i \/ p = i + 1
      OBVIOUS
    <3>3. QED
      BY <1>1, <3>1, <3>2
  <2>2. i + 1 \in F <=> cfg[i + 1].address = cfg[1].address
    BY <1>1, <2>1 DEF Firsts
  <2>3. kept[i + 1] = IF i + 1 \in F THEN Append(kept[i], cfg[i + 1]) ELSE kept[i]
    BY <1>2, <2>1, <2>2 DEF Keeps
  <2>4. CASE i + 1 \in F
    <3>1. Passed(F, (i + 1) + 1) = Len(kept[i]) + 1 /\ Len(kept[i]) \in Nat
      BY <1>3, <2>1, <2>4
    <3>2. kept[i + 1] = Append(kept[i], cfg[i + 1]) /\ cfg[i + 1] \in Attempt
      BY <1>1, <2>1, <2>3, <2>4
    <3>3. /\ kept[i + 1] \in Seq(Attempt)
          /\ Len(kept[i + 1]) = Len(kept[i]) + 1
          /\ kept[i + 1][Len(kept[i]) + 1] = cfg[i + 1]
          /\ \A k \in 1..Len(kept[i]) : kept[i + 1][k] = kept[i][k]
      BY <3>2, AppendProperties
    <3>4. \A p \in F : p <= i + 1 =>
            /\ Passed(F, p + 1) \in 1..Len(kept[i + 1])
            /\ kept[i + 1][Passed(F, p + 1)] = cfg[p]
      <4> TAKE p \in F
      <4>1. CASE p = i + 1
        BY <3>1, <3>3, <4>1
      <4>2. CASE p <= i
        <5>1. Passed(F, p + 1) \in 1..Len(kept[i]) /\ kept[i][Passed(F, p + 1)] = cfg[p]
          BY <4>2
        <5>2. Passed(F, p + 1) \in 1..Len(kept[i + 1])
          BY <3>1, <3>3, <5>1
        <5>3. QED
          BY <3>3, <5>1, <5>2
      <4>3. QED
        BY <2>1, <4>1, <4>2
    <3>5. QED
      BY <3>1, <3>3, <3>4
  <2>5. CASE i + 1 \notin F
    <3>1. Passed(F, (i + 1) + 1) = Passed(F, i + 1)
      BY <1>3, <2>1, <2>5
    <3>2. kept[i + 1] = kept[i]
      BY <2>3, <2>5
    <3>3. \A p \in F : p <= i + 1 => p <= i
      BY <2>1, <2>5
    <3>4. QED
      BY <3>1, <3>2, <3>3
  <2>6. QED
    BY <2>4, <2>5
<1>6. S \in SUBSET Nat
  OBVIOUS
<1>7. S = Nat
  BY <1>4, <1>5, <1>6, SetInduction, Zenon
<1>8. Good(L)
  BY <1>1, <1>7
<1>9. Passed(F, L + 1) = Cardinality(F)
  BY <1>1, <1>3
<1>10. \A p \in F : p <= L
  BY <1>1
<1>11. QED
  BY <1>1, <1>2, <1>8, <1>9, <1>10

Transports == TLS \cup {PlainText}

\* A transport given to an endpoint is an attempt at its address.
LEMMA AtIsThere ==
  ASSUME NEW tls, NEW endpoint
  PROVE  At(tls, endpoint).address = endpoint.address
  BY DEF At

\* A transport given to an endpoint is as it was, under the endpoint's name, and stays
\* so when it is given to the next.
LEMMA AtCarries ==
  ASSUME NEW tls \in Transports, NEW endpoint \in Endpoints
  PROVE  /\ At(tls, endpoint) \in Attempt
         /\ At(tls, endpoint).tls \in Transports
         /\ At(tls, endpoint).address = endpoint.address
         /\ Carries(At(tls, endpoint), tls, endpoint)
         /\ \A other \in Endpoints : Carries(At(At(tls, endpoint).tls, other), tls, other)
<1>1. endpoint \in Endpoint /\ \A other \in Endpoints : other \in Endpoint
  BY EndpointsAreValid
<1>2. CASE tls = PlainText
  BY <1>1, <1>2 DEF At, endpointTLS, Carries, Transports, Attempt, Endpoint
<1>3. CASE tls # PlainText
  <2>1. tls \in TLS
    BY <1>3 DEF Transports
  <2>2. \A e \in Endpoint : Name(e) \in Names \cup {NoName} /\ e.address \in Addresses
    BY DEF Endpoint, Name
  <2>3. \A e \in Endpoint, t \in TLS :
          /\ endpointTLS(t, e) \in TLS
          /\ endpointTLS(t, e) # PlainText
          /\ endpointTLS(t, e).trust = t.trust
          /\ endpointTLS(t, e).serverName = Name(e)
    <3> TAKE e \in Endpoint, t \in TLS
    <3>1. t # PlainText
      BY PlainTextIsNoTLS
    <3>2. endpointTLS(t, e) = [t EXCEPT !.serverName = Name(e)]
      BY <3>1 DEF endpointTLS, Name
    <3>3. endpointTLS(t, e) \in TLS
      BY <2>2, <3>2 DEF TLS
    <3>4. endpointTLS(t, e) # PlainText
      BY <3>3, PlainTextIsNoTLS
    <3>5. QED
      BY <3>2, <3>3, <3>4 DEF TLS
  <2>4. At(tls, endpoint).tls = endpointTLS(tls, endpoint)
    BY DEF At
  <2>5. At(tls, endpoint) \in Attempt /\ At(tls, endpoint).address = endpoint.address
    BY <1>1, <2>1, <2>2, <2>3 DEF At, Attempt
  <2>6. Carries(At(tls, endpoint), tls, endpoint)
    BY <1>1, <1>3, <2>1, <2>3, <2>4 DEF Carries
  <2>7. \A other \in Endpoints :
          At(At(tls, endpoint).tls, other).tls = endpointTLS(endpointTLS(tls, endpoint), other)
    BY DEF At
  <2>8. \A other \in Endpoints : Carries(At(At(tls, endpoint).tls, other), tls, other)
    BY <1>1, <1>3, <2>1, <2>3, <2>7 DEF Carries
  <2>9. QED
    BY <1>1, <2>1, <2>3, <2>4, <2>5, <2>6, <2>8 DEF Transports
<1>4. QED
  BY <1>2, <1>3

\* A route is the one endpoint of a member, or both.
LEMMA RoutesAreEndpoints ==
  ASSUME NEW target \in Targets
  PROVE  /\ target.endpoint \in Endpoints
         /\ target.fallback # NoEndpoint => target.fallback \in Endpoints
         /\ target.fallback = NoEndpoint => Route(target) = <<target.endpoint>>
         /\ target.fallback # NoEndpoint => Route(target) = <<target.endpoint, target.fallback>>
  BY DEF Targets, Route

\* Attempts at the first endpoint, followed by the same at the second if there is one.
LEMMA AttemptsAreRepeated ==
  ASSUME NEW target \in Targets, NEW first \in Seq(Attempt)
  PROVE  LET plan == appendEndpointFallback(first, target.fallback)
             route == Route(target)
             n == Len(first)
         IN  /\ Len(plan) = Len(route) * n
             /\ \A i \in DOMAIN route, j \in 1..n :
                  plan[(i - 1) * n + j] = IF i = 1 THEN first[j] ELSE At(first[j].tls, route[i])
<1> DEFINE plan == appendEndpointFallback(first, target.fallback)
           route == Route(target)
           n == Len(first)
           second == [j \in DOMAIN first |-> At(first[j].tls, target.fallback)]
<1>1. n \in Nat /\ DOMAIN first = 1..n
  OBVIOUS
<1>2. \A j \in 1..n : (1 - 1) * n + j = j /\ (2 - 1) * n + j = n + j
  BY <1>1
<1>3. 1 * n = n /\ 2 * n = n + n
  <2>1. \A m \in Nat : 1 * m = m /\ 2 * m = m + m
    OBVIOUS
  <2>2. QED
    BY <1>1, <2>1, Zenon
<1>4. CASE target.fallback = NoEndpoint
  <2>1. plan = first /\ route = <<target.endpoint>>
    BY <1>4, RoutesAreEndpoints DEF appendEndpointFallback
  <2>2. Len(route) = 1 /\ DOMAIN route = {1}
    BY <2>1
  <2>3. \A i \in DOMAIN route : i = 1
    BY <2>2
  <2>4. QED
    BY <1>2, <1>3, <2>1, <2>2, <2>3
<1>5. CASE target.fallback # NoEndpoint
  <2>1. /\ plan = first \o second
        /\ route = <<target.endpoint, target.fallback>>
        /\ target.fallback \in Endpoints
    BY <1>5, RoutesAreEndpoints DEF appendEndpointFallback
  <2>2. Len(route) = 2 /\ DOMAIN route = {1, 2} /\ route[2] = target.fallback
    BY <2>1
  <2>3. second \in Seq(Attempt) /\ Len(second) = n
    <3>1. \A j \in 1..n : first[j] \in Attempt
      BY <1>1
    <3>2. \A j \in 1..n : At(first[j].tls, target.fallback) \in Attempt
      BY <2>1, <3>1, AtCarries DEF Attempt, Transports
    <3>3. second \in [1..n -> Attempt]
      BY <1>1, <3>2
    <3>4. QED
      BY <1>1, <3>3
  <2>4. /\ Len(plan) = n + n
        /\ \A j \in 1..n : plan[j] = first[j] /\ plan[n + j] = second[j]
    <3>1. /\ Len(plan) = n + n
          /\ \A k \in 1..(n + n) : plan[k] = IF k <= n THEN first[k] ELSE second[k - n]
      <4>1. /\ Len(first \o second) = Len(first) + Len(second)
            /\ \A k \in 1..(Len(first) + Len(second)) :
                 (first \o second)[k] = IF k <= Len(first) THEN first[k]
                                       ELSE second[k - Len(first)]
        BY <2>3, ConcatProperties, Zenon
      <4>2. QED
        BY <2>1, <2>3, <4>1, Zenon
    <3>2. \A j \in 1..n : /\ j \in 1..(n + n) /\ j <= n
                          /\ n + j \in 1..(n + n) /\ ~(n + j <= n) /\ (n + j) - n = j
      BY <1>1
    <3>3. QED
      BY <3>1, <3>2
  <2>5. \A j \in 1..n : second[j] = At(first[j].tls, route[2])
    BY <1>1, <2>2
  <2>6. \A i \in DOMAIN route : i = 1 \/ i = 2
    BY <2>2
  <2>7. ASSUME NEW i \in DOMAIN route, NEW j \in 1..n
        PROVE  plan[(i - 1) * n + j] = IF i = 1 THEN first[j] ELSE At(first[j].tls, route[i])
    <3>1. CASE i = 1
      BY <1>2, <2>4, <3>1
    <3>2. CASE i = 2
      BY <1>2, <2>4, <2>5, <3>2
    <3>3. QED
      BY <2>6, <3>1, <3>2
  <2>8. QED
    BY <1>3, <2>2, <2>4, <2>7
<1>6. QED
  BY <1>4, <1>5

\* The kept attempts, at the first endpoint.
LEMMA EndpointIsSet ==
  ASSUME NEW cfg \in ConnConfig, NEW endpoint \in Endpoints
  PROVE  LET first == setEndpoint(cfg, endpoint)
         IN  /\ first \in Seq(Attempt)
             /\ Len(first) = Cardinality(Firsts(cfg))
             /\ \A j \in 1..Len(first) : first[j].address = endpoint.address
             /\ \A p \in Firsts(cfg) :
                  /\ cfg[p].tls \in Transports
                  /\ Rank(cfg, p) \in 1..Len(first)
                  /\ first[Rank(cfg, p)] = At(cfg[p].tls, endpoint)
<1> DEFINE kept == Kept(cfg)
           first == setEndpoint(cfg, endpoint)
<1>1. kept \in Seq(Attempt) /\ DOMAIN kept = 1..Len(kept) /\ Len(kept) \in Nat
  BY KeptAreFirsts
<1>2. first = [j \in 1..Len(kept) |-> At(kept[j].tls, endpoint)]
  BY <1>1 DEF setEndpoint
<1>3. \A j \in 1..Len(kept) : /\ At(kept[j].tls, endpoint) \in Attempt
                              /\ At(kept[j].tls, endpoint).address = endpoint.address
  <2> TAKE j \in 1..Len(kept)
  <2>1. kept[j] \in Attempt
    BY <1>1
  <2>2. kept[j].tls \in Transports
    BY <2>1 DEF Attempt, Transports
  <2>3. QED
    BY <2>2, AtCarries
<1>4. first \in [1..Len(kept) -> Attempt]
  BY <1>2, <1>3
<1>5. first \in Seq(Attempt) /\ Len(first) = Len(kept)
  BY <1>1, <1>4
<1>6. \A p \in Firsts(cfg) : cfg[p] \in Attempt
  BY FirstsArePositions
<1>7. \A p \in Firsts(cfg) : cfg[p].tls \in Transports
  BY <1>6 DEF Attempt, Transports
<1>8. QED
  BY <1>2, <1>3, <1>5, <1>7, KeptAreFirsts

\* A plan of n attempts at each endpoint of a route: with the application's
\* transports, or with the discovered one.
AsApplied(plan, route, cfg, n) ==
    /\ Len(plan) = Len(route) * n
    /\ \A i \in DOMAIN route, j \in 1..n : plan[(i - 1) * n + j].address = route[i].address
    /\ \A i \in DOMAIN route, p \in Firsts(cfg) :
         Carries(plan[(i - 1) * n + Rank(cfg, p)], cfg[p].tls, route[i])

AsDiscovered(plan, route, n) ==
    /\ Len(plan) = Len(route) * n
    /\ \A i \in DOMAIN route, j \in 1..n :
         /\ plan[(i - 1) * n + j].address = route[i].address
         /\ Carries(plan[(i - 1) * n + j], DiscoveredTLS, route[i])

\* The plan a constructor makes of the application's configuration.
LEMMA PlanOfApplication ==
  ASSUME NEW cfg \in ConnConfig, NEW target \in Targets
  PROVE  AsApplied(configureConnection(FALSE, cfg, target), Route(target), cfg,
                   Cardinality(Firsts(cfg)))
<1> DEFINE first == setEndpoint(cfg, target.endpoint)
           plan == configureConnection(FALSE, cfg, target)
           route == Route(target)
           n == Cardinality(Firsts(cfg))
<1>1. /\ first \in Seq(Attempt) /\ Len(first) = n
      /\ \A j \in 1..n : first[j].address = target.endpoint.address
      /\ \A p \in Firsts(cfg) :
           /\ cfg[p].tls \in Transports
           /\ Rank(cfg, p) \in 1..n
           /\ first[Rank(cfg, p)] = At(cfg[p].tls, target.endpoint)
  BY EndpointIsSet, RoutesAreEndpoints
<1>2. plan = appendEndpointFallback(first, target.fallback)
  BY DEF configureConnection
<1>3. /\ Len(plan) = Len(route) * n
      /\ \A i \in DOMAIN route, j \in 1..n :
           plan[(i - 1) * n + j] = IF i = 1 THEN first[j] ELSE At(first[j].tls, route[i])
  <2>1. /\ Len(appendEndpointFallback(first, target.fallback)) = Len(route) * Len(first)
        /\ \A i \in DOMAIN route, j \in 1..Len(first) :
             appendEndpointFallback(first, target.fallback)[(i - 1) * Len(first) + j] =
               IF i = 1 THEN first[j] ELSE At(first[j].tls, route[i])
    BY <1>1, AttemptsAreRepeated, Zenon
  <2>2. QED
    BY <1>1, <1>2, <2>1, Zenon
<1>4. /\ \A i \in DOMAIN route : route[i] \in Endpoints
      /\ route[1] = target.endpoint
  BY RoutesAreEndpoints
<1>5. ASSUME NEW i \in DOMAIN route, NEW j \in 1..n
      PROVE  plan[(i - 1) * n + j].address = route[i].address
  <2>1. CASE i = 1
    BY <1>1, <1>3, <1>4, <2>1
  <2>2. CASE i # 1
    <3>1. plan[(i - 1) * n + j] = At(first[j].tls, route[i])
      BY <1>3, <2>2
    <3>2. QED
      BY <3>1, AtIsThere, Zenon
  <2>3. QED
    BY <2>1, <2>2
<1>6. ASSUME NEW i \in DOMAIN route, NEW p \in Firsts(cfg)
      PROVE  Carries(plan[(i - 1) * n + Rank(cfg, p)], cfg[p].tls, route[i])
  <2>1. /\ Rank(cfg, p) \in 1..n
        /\ cfg[p].tls \in Transports
        /\ first[Rank(cfg, p)] = At(cfg[p].tls, target.endpoint)
    BY <1>1
  <2>2. /\ plan[(i - 1) * n + Rank(cfg, p)] =
             IF i = 1 THEN At(cfg[p].tls, target.endpoint)
             ELSE At(At(cfg[p].tls, target.endpoint).tls, route[i])
        /\ target.endpoint \in Endpoints /\ route[i] \in Endpoints
    BY <1>3, <1>4, <2>1, RoutesAreEndpoints
  <2>3. QED
    BY <1>4, <2>1, <2>2, AtCarries
<1>7. QED
  BY <1>3, <1>5, <1>6 DEF AsApplied

\* The plan it makes of what was discovered.
LEMMA PlanOfDiscovery ==
  ASSUME NEW cfg \in ConnConfig, NEW target \in Targets
  PROVE  AsDiscovered(configureConnection(TRUE, cfg, target), Route(target),
                      IF target.described THEN 1 ELSE 0)
<1> DEFINE plan == configureConnection(TRUE, cfg, target)
           route == Route(target)
           first == <<At(DiscoveredTLS, target.endpoint)>>
<1>1. CASE ~target.described
  <2>1. plan = <<>>
    BY <1>1 DEF configureConnection, setDiscoveredConnection
  <2>2. Len(route) \in Nat
    BY RoutesAreEndpoints
  <2>3. \A m \in Nat : m * 0 = 0
    OBVIOUS
  <2>4. Len(plan) = Len(route) * 0
    BY <2>1, <2>2, <2>3
  <2>5. 1..0 = {}
    OBVIOUS
  <2>6. QED
    BY <1>1, <2>4, <2>5 DEF AsDiscovered
<1>2. CASE target.described
  <2>1. plan = appendEndpointFallback(first, target.fallback)
    BY <1>2 DEF configureConnection, setDiscoveredConnection
  <2>2. DiscoveredTLS \in Transports
    BY DEF DiscoveredTLS, Transports, TLS
  <2>3. /\ At(DiscoveredTLS, target.endpoint) \in Attempt
        /\ target.endpoint \in Endpoints
    BY <2>2, AtCarries, RoutesAreEndpoints
  <2>4. first \in Seq(Attempt) /\ Len(first) = 1 /\ first[1] = At(DiscoveredTLS, target.endpoint)
    BY <2>3
  <2>5. /\ Len(plan) = Len(route) * 1
        /\ \A i \in DOMAIN route, j \in 1..1 :
             plan[(i - 1) * 1 + j] = IF i = 1 THEN first[j] ELSE At(first[j].tls, route[i])
    <3>1. /\ Len(appendEndpointFallback(first, target.fallback)) = Len(route) * Len(first)
          /\ \A i \in DOMAIN route, j \in 1..Len(first) :
               appendEndpointFallback(first, target.fallback)[(i - 1) * Len(first) + j] =
                 IF i = 1 THEN first[j] ELSE At(first[j].tls, route[i])
      BY <2>4, AttemptsAreRepeated, Zenon
    <3>2. QED
      BY <2>1, <2>4, <3>1, Zenon
  <2>6. /\ \A i \in DOMAIN route : route[i] \in Endpoints
        /\ route[1] = target.endpoint
    BY RoutesAreEndpoints
  <2>7. ASSUME NEW i \in DOMAIN route, NEW j \in 1..1
        PROVE  /\ plan[(i - 1) * 1 + j].address = route[i].address
               /\ Carries(plan[(i - 1) * 1 + j], DiscoveredTLS, route[i])
    <3>1. j = 1
      OBVIOUS
    <3>2. plan[(i - 1) * 1 + j] = IF i = 1 THEN At(DiscoveredTLS, target.endpoint)
                                  ELSE At(At(DiscoveredTLS, target.endpoint).tls, route[i])
      BY <2>4, <2>5, <3>1
    <3>3. CASE i = 1
      BY <2>2, <2>3, <2>6, <3>2, <3>3, AtCarries
    <3>4. CASE i # 1
      <4>1. plan[(i - 1) * 1 + j] = At(At(DiscoveredTLS, target.endpoint).tls, route[i])
        BY <3>2, <3>4
      <4>2. Carries(At(At(DiscoveredTLS, target.endpoint).tls, route[i]), DiscoveredTLS, route[i])
        BY <2>2, <2>3, <2>6, AtCarries, Zenon
      <4>3. QED
        BY <4>1, <4>2, AtIsThere, Zenon
    <3>5. QED
      BY <3>3, <3>4
  <2>8. QED
    BY <1>2, <2>5, <2>7 DEF AsDiscovered
<1>3. QED
  BY <1>1, <1>2

\* For every connection string and every member, a constructor tries the member's
\* endpoints and no other, in order, over the transports the application asked for or
\* over the discovered CA's alone.
THEOREM PlansAreTheMembers == CallSpec => []PlanIsTheMembers
<1>1. ASSUME Answered, Called("configureConnection")
      PROVE  /\ input.cfg \in ConnConfig /\ input.target \in Targets
             /\ input.automatic \in BOOLEAN
             /\ output[1] = configureConnection(input.automatic, input.cfg, input.target)
  BY <1>1, ConfigsAreParsed DEF Answered, Called, Plans
<1>2. ASSUME Answered PROVE PlanIsTheMembers
  <2> SUFFICES ASSUME Called("configureConnection") PROVE PlanIsTheMembers
    BY DEF PlanIsTheMembers
  <2>0. input.cfg \in ConnConfig /\ input.target \in Targets
    BY <1>1, <1>2
  <2>1. CASE input.automatic
    <3>1. output[1] = configureConnection(TRUE, input.cfg, input.target)
      BY <1>1, <1>2, <2>1
    <3>2. Tries(input) = IF input.target.described THEN 1 ELSE 0
      BY <2>1 DEF Tries
    <3>3. AsDiscovered(output[1], Route(input.target), Tries(input))
      BY <2>0, <3>1, <3>2, PlanOfDiscovery
    <3>4. QED
      BY <2>1, <3>3, Zenon DEF PlanIsTheMembers, AsDiscovered
  <2>2. CASE ~input.automatic
    <3>1. output[1] = configureConnection(FALSE, input.cfg, input.target)
      BY <1>1, <1>2, <2>2
    <3>2. Tries(input) = Cardinality(Firsts(input.cfg))
      BY <2>2 DEF Tries
    <3>3. AsApplied(output[1], Route(input.target), input.cfg, Tries(input))
      BY <2>0, <3>1, <3>2, PlanOfApplication
    <3>4. QED
      BY <2>2, <3>3, Zenon DEF PlanIsTheMembers, AsApplied
  <2>3. QED
    BY <2>1, <2>2
<1>3. QED
  BY <1>2, CallsAreAnswered, PTL

-----------------------------------------------------------------------------
(* transientConnectError *)

\* The verdict on a node, and its causes, from those of the nodes before it.
VerdictFrom(e, topologyCanceled, verdict, i) ==
    [optionalLookup \in BOOLEAN |->
       IF e[i].kind \in {"hook", "certificate"} THEN Veto
       ELSE IF e[i].causes = {} THEN VerdictAlone(e[i].kind, optionalLookup, topologyCanceled)
       ELSE Combined({verdict[c][optionalLookup \/ e[i].kind = "optional"] : c \in e[i].causes})]

CausesFrom(e, causes, i) ==
    IF e[i].causes = {} THEN Leaf(e[i].kind)
    ELSE Wrap(e[i].kind, UNION {causes[c] : c \in e[i].causes})

\* They look at nothing else.
LEMMA VerdictLooksBack ==
  ASSUME NEW e \in GoError, NEW topologyCanceled \in BOOLEAN, NEW i \in 1..Len(e),
         NEW v, NEW w, \A j \in 1..(i - 1) : v[j] = w[j]
  PROVE  VerdictFrom(e, topologyCanceled, v, i) = VerdictFrom(e, topologyCanceled, w, i)
<1>1. e[i].causes \subseteq 1..(i - 1)
  BY DEF GoError
<1>2. \A optionalLookup \in BOOLEAN :
        {v[c][optionalLookup \/ e[i].kind = "optional"] : c \in e[i].causes} =
        {w[c][optionalLookup \/ e[i].kind = "optional"] : c \in e[i].causes}
  BY <1>1
<1>3. QED
  BY <1>2, Zenon DEF VerdictFrom

\* Nor does the collection of the causes.
LEMMA CausesLookBack ==
  ASSUME NEW e \in GoError, NEW i \in 1..Len(e),
         NEW v, NEW w, \A j \in 1..(i - 1) : v[j] = w[j]
  PROVE  CausesFrom(e, v, i) = CausesFrom(e, w, i)
<1>1. e[i].causes \subseteq 1..(i - 1)
  BY DEF GoError
<1>2. {v[c] : c \in e[i].causes} = {w[c] : c \in e[i].causes}
  BY <1>1
<1>3. QED
  BY <1>2, Zenon DEF CausesFrom

\* The recursion defines a verdict on every node: it is built from the first to the last.
LEMMA NodesHaveVerdicts ==
  ASSUME NEW e \in GoError, NEW topologyCanceled \in BOOLEAN
  PROVE  \A i \in 1..Len(e) :
           classifyConnectError(e, topologyCanceled)[i] =
             VerdictFrom(e, topologyCanceled, classifyConnectError(e, topologyCanceled), i)
<1> DEFINE From(v, i) == VerdictFrom(e, topologyCanceled, v, i)
           S == {n \in Nat : n <= Len(e) => \E v : v = [i \in 1..n |-> From(v, i)]}
<1>1. e \in Seq(Node) /\ Len(e) \in Nat /\ DOMAIN e = 1..Len(e)
  BY DEF GoError
<1>2. 0 \in S
  <2>1. [i \in 1..0 |-> 0] = [i \in 1..0 |-> From([k \in 1..0 |-> 0], i)]
    OBVIOUS
  <2>2. \E v : v = [i \in 1..0 |-> From(v, i)]
    BY <2>1, Zenon
  <2>3. 0 \in Nat
    OBVIOUS
  <2>4. QED
    BY <2>2, <2>3, Zenon
<1>3. \A n \in S : n + 1 \in S
  <2> SUFFICES ASSUME NEW n \in Nat, n + 1 <= Len(e),
                      NEW v, v = [i \in 1..n |-> From(v, i)]
               PROVE  \E w : w = [i \in 1..(n + 1) |-> From(w, i)]
    BY <1>1
  <2> DEFINE w == [i \in 1..(n + 1) |-> IF i = n + 1 THEN From(v, n + 1) ELSE v[i]]
  <2>1. \A i \in 1..n : w[i] = v[i] /\ v[i] = From(v, i)
    OBVIOUS
  <2>2. w[n + 1] = From(v, n + 1)
    OBVIOUS
  <2>3. \A i \in 1..(n + 1) : From(v, i) = From(w, i)
    <3> TAKE i \in 1..(n + 1)
    <3>1. i \in 1..Len(e)
      BY <1>1
    <3>2. \A j \in 1..(i - 1) : j \in 1..n
      OBVIOUS
    <3>3. \A j \in 1..(i - 1) : v[j] = w[j]
      BY <2>1, <3>2
    <3>4. QED
      BY <3>1, <3>3, VerdictLooksBack
  <2>4. \A i \in 1..(n + 1) : i \in 1..n \/ i = n + 1
    OBVIOUS
  <2>5. \A i \in 1..(n + 1) : w[i] = From(w, i)
    BY <2>1, <2>2, <2>3, <2>4, Zenon
  <2>6. w = [i \in 1..(n + 1) |-> From(w, i)]
    BY <2>5, Zenon
  <2>7. QED
    BY <2>6, Zenon
<1>4. S \in SUBSET Nat
  OBVIOUS
<1>5. S = Nat
  BY <1>2, <1>3, <1>4, SetInduction, Zenon
<1>6. \E v : v = [i \in DOMAIN e |-> From(v, i)]
  BY <1>1, <1>5
<1>7. classifyConnectError(e, topologyCanceled) =
        [i \in DOMAIN e |-> From(classifyConnectError(e, topologyCanceled), i)]
  BY <1>6, Zenon DEF classifyConnectError, VerdictFrom
<1>8. QED
  BY <1>1, <1>7, Zenon

\* The causes of every node are defined the same way.
LEMMA NodesHaveCauses ==
  ASSUME NEW e \in GoError
  PROVE  \A i \in 1..Len(e) : CausesOf(e)[i] = CausesFrom(e, CausesOf(e), i)
<1> DEFINE From(v, i) == CausesFrom(e, v, i)
           S == {n \in Nat : n <= Len(e) => \E v : v = [i \in 1..n |-> From(v, i)]}
<1>1. e \in Seq(Node) /\ Len(e) \in Nat /\ DOMAIN e = 1..Len(e)
  BY DEF GoError
<1>2. 0 \in S
  <2>1. [i \in 1..0 |-> 0] = [i \in 1..0 |-> From([k \in 1..0 |-> 0], i)]
    OBVIOUS
  <2>2. \E v : v = [i \in 1..0 |-> From(v, i)]
    BY <2>1, Zenon
  <2>3. 0 \in Nat
    OBVIOUS
  <2>4. QED
    BY <2>2, <2>3, Zenon
<1>3. \A n \in S : n + 1 \in S
  <2> SUFFICES ASSUME NEW n \in Nat, n + 1 <= Len(e),
                      NEW v, v = [i \in 1..n |-> From(v, i)]
               PROVE  \E w : w = [i \in 1..(n + 1) |-> From(w, i)]
    BY <1>1
  <2> DEFINE w == [i \in 1..(n + 1) |-> IF i = n + 1 THEN From(v, n + 1) ELSE v[i]]
  <2>1. \A i \in 1..n : w[i] = v[i] /\ v[i] = From(v, i)
    OBVIOUS
  <2>2. w[n + 1] = From(v, n + 1)
    OBVIOUS
  <2>3. \A i \in 1..(n + 1) : From(v, i) = From(w, i)
    <3> TAKE i \in 1..(n + 1)
    <3>1. i \in 1..Len(e)
      BY <1>1
    <3>2. \A j \in 1..(i - 1) : j \in 1..n
      OBVIOUS
    <3>3. \A j \in 1..(i - 1) : v[j] = w[j]
      BY <2>1, <3>2
    <3>4. QED
      BY <3>1, <3>3, CausesLookBack
  <2>4. \A i \in 1..(n + 1) : i \in 1..n \/ i = n + 1
    OBVIOUS
  <2>5. \A i \in 1..(n + 1) : w[i] = From(w, i)
    BY <2>1, <2>2, <2>3, <2>4, Zenon
  <2>6. w = [i \in 1..(n + 1) |-> From(w, i)]
    BY <2>5, Zenon
  <2>7. QED
    BY <2>6, Zenon
<1>4. S \in SUBSET Nat
  OBVIOUS
<1>5. S = Nat
  BY <1>2, <1>3, <1>4, SetInduction, Zenon
<1>6. \E v : v = [i \in DOMAIN e |-> From(v, i)]
  BY <1>1, <1>5
<1>7. CausesOf(e) = [i \in DOMAIN e |-> From(CausesOf(e), i)]
  BY <1>6, Zenon DEF CausesOf, CausesFrom
<1>8. QED
  BY <1>1, <1>7, Zenon

\* What holds of a node if it holds of all before it, holds of every node.
LEMMA NodeInduction ==
  ASSUME NEW n \in Nat, NEW S, \A i \in 1..n : (\A j \in 1..(i - 1) : j \in S) => i \in S
  PROVE  \A i \in 1..n : i \in S
<1> DEFINE T == {k \in Nat : k <= n => \A j \in 1..k : j \in S}
<1>1. 0 \in T
  OBVIOUS
<1>2. \A k \in T : k + 1 \in T
  <2> SUFFICES ASSUME NEW k \in Nat, k + 1 <= n, \A j \in 1..k : j \in S
               PROVE  \A j \in 1..(k + 1) : j \in S
    OBVIOUS
  <2>1. k + 1 \in 1..n /\ (k + 1) - 1 = k
    OBVIOUS
  <2>2. k + 1 \in S
    BY <2>1
  <2>3. QED
    BY <2>2
<1>3. T \in SUBSET Nat
  OBVIOUS
<1>4. T = Nat
  BY <1>1, <1>2, <1>3, SetInduction, Zenon
<1>5. n \in T
  BY <1>4
<1>6. QED
  BY <1>5

Verdicts == [retryable : BOOLEAN, permanent : BOOLEAN]

NodeKinds == CauseKinds \cup Wrappers \cup {"join"}

NodeCauses == [kind : NodeKinds, in : SUBSET NodeKinds]

\* The verdict on a cause below a node that belongs to an optional lookup, or not.
VerdictBelow(cause, optionalLookup, topologyCanceled) ==
    IF cause.in \cap {"hook", "certificate"} # {} THEN Veto
    ELSE VerdictAlone(cause.kind, optionalLookup \/ "optional" \in cause.in, topologyCanceled)

\* There are three verdicts.
LEMMA VerdictsAreVerdicts ==
  /\ \A kind, optionalLookup, topologyCanceled :
       VerdictAlone(kind, optionalLookup, topologyCanceled) \in {Retry, Veto, Neutral}
  /\ \A cause, optionalLookup, topologyCanceled :
       VerdictBelow(cause, optionalLookup, topologyCanceled) \in {Retry, Veto, Neutral}
  /\ {Retry, Veto, Neutral} \subseteq Verdicts
  BY DEF VerdictAlone, VerdictBelow, Retry, Veto, Neutral, Verdicts

\* A wrapper vetoes, or makes the lookup an optional one, or leaves the verdict alone.
LEMMA WrappersInherit ==
  ASSUME NEW cause \in NodeCauses, NEW kind \in NodeKinds,
         NEW optionalLookup \in BOOLEAN, NEW topologyCanceled \in BOOLEAN
  PROVE  LET wrapped == [cause EXCEPT !.in = @ \cup {kind}]
         IN  /\ wrapped \in NodeCauses
             /\ VerdictBelow(wrapped, optionalLookup, topologyCanceled) =
                  IF kind \in {"hook", "certificate"} THEN Veto
                  ELSE VerdictBelow(cause, optionalLookup \/ kind = "optional", topologyCanceled)
<1> DEFINE wrapped == [cause EXCEPT !.in = @ \cup {kind}]
<1>1. /\ wrapped \in NodeCauses
      /\ wrapped.kind = cause.kind
      /\ wrapped.in = cause.in \cup {kind}
  BY DEF NodeCauses
<1>2. wrapped.in \cap {"hook", "certificate"} # {} <=>
        cause.in \cap {"hook", "certificate"} # {} \/ kind \in {"hook", "certificate"}
  BY <1>1
<1>3. (optionalLookup \/ "optional" \in wrapped.in) =
        ((optionalLookup \/ kind = "optional") \/ "optional" \in cause.in)
  BY <1>1
<1>4. QED
  BY <1>1, <1>2, <1>3 DEF VerdictBelow

\* The verdict on a node is that of its causes: retryable if one of them is, permanent
\* if one of them is.
Judged(e, topologyCanceled, i) ==
    LET verdict == classifyConnectError(e, topologyCanceled)
        causes == CausesOf(e)
    IN  /\ causes[i] \subseteq NodeCauses /\ causes[i] # {}
        /\ \A optionalLookup \in BOOLEAN :
             /\ verdict[i][optionalLookup] \in Verdicts
             /\ verdict[i][optionalLookup].retryable <=>
                  \E cause \in causes[i] :
                    VerdictBelow(cause, optionalLookup, topologyCanceled).retryable
             /\ verdict[i][optionalLookup].permanent <=>
                  \E cause \in causes[i] :
                    VerdictBelow(cause, optionalLookup, topologyCanceled).permanent

\* Every node is of a kind.
LEMMA KindsOfNodes ==
  ASSUME NEW e \in GoError, NEW i \in 1..Len(e)
  PROVE  e[i].kind \in NodeKinds
<1>1. e[i] \in Node
  BY DEF GoError
<1>2. QED
  BY <1>1 DEF Node, NodeKinds

\* An error without causes is judged as its own cause.
LEMMA LeavesAreJudged ==
  ASSUME NEW e \in GoError, NEW topologyCanceled \in BOOLEAN, NEW i \in 1..Len(e),
         e[i].causes = {}
  PROVE  Judged(e, topologyCanceled, i)
<1> DEFINE verdict == classifyConnectError(e, topologyCanceled)
           causes == CausesOf(e)
           leaf == [kind |-> e[i].kind, in |-> {}]
<1>1. e[i].kind \in NodeKinds
  BY KindsOfNodes
<1>2. causes[i] = {leaf} /\ leaf \in NodeCauses
  BY <1>1, NodesHaveCauses DEF CausesFrom, Leaf, NodeCauses
<1>3. \A optionalLookup \in BOOLEAN :
        verdict[i][optionalLookup] = VerdictAlone(e[i].kind, optionalLookup, topologyCanceled)
  <2> TAKE optionalLookup \in BOOLEAN
  <2>1. e[i].kind \in {"hook", "certificate"} =>
          VerdictAlone(e[i].kind, optionalLookup, topologyCanceled) = Veto
    BY DEF VerdictAlone, Transient
  <2>2. verdict[i] = VerdictFrom(e, topologyCanceled, verdict, i)
    BY NodesHaveVerdicts
  <2>3. QED
    BY <2>1, <2>2 DEF VerdictFrom
<1>4. \A optionalLookup \in BOOLEAN :
        VerdictBelow(leaf, optionalLookup, topologyCanceled) =
          VerdictAlone(e[i].kind, optionalLookup, topologyCanceled)
  BY DEF VerdictBelow
<1>5. causes[i] \subseteq NodeCauses /\ causes[i] # {}
  BY <1>2
<1>6. ASSUME NEW optionalLookup \in BOOLEAN
      PROVE  LET v == verdict[i][optionalLookup]
             IN  /\ v \in Verdicts
                 /\ \A cause \in causes[i] :
                      VerdictBelow(cause, optionalLookup, topologyCanceled) = v
  BY <1>2, <1>3, <1>4, VerdictsAreVerdicts
<1>7. QED
  BY <1>2, <1>5, <1>6, Zenon DEF Judged

\* An error is judged as what it wraps or joins.
LEMMA WrappersAreJudged ==
  ASSUME NEW e \in GoError, NEW topologyCanceled \in BOOLEAN, NEW i \in 1..Len(e),
         e[i].causes # {}, \A c \in e[i].causes : Judged(e, topologyCanceled, c)
  PROVE  Judged(e, topologyCanceled, i)
<1> DEFINE verdict == classifyConnectError(e, topologyCanceled)
           causes == CausesOf(e)
           kind == e[i].kind
           below == UNION {causes[c] : c \in e[i].causes}
           In(cause) == [cause EXCEPT !.in = @ \cup {kind}]
           Below(cause, optionalLookup) == VerdictBelow(cause, optionalLookup, topologyCanceled)
<1>1. kind \in NodeKinds
  BY KindsOfNodes
<1>2. below \subseteq NodeCauses /\ below # {}
  BY DEF Judged
<1>3. causes[i] = {In(cause) : cause \in below}
  BY NodesHaveCauses DEF CausesFrom, Wrap
<1>4. /\ \A cause \in below : In(cause) \in NodeCauses
      /\ \A cause \in below, optionalLookup \in BOOLEAN :
           Below(In(cause), optionalLookup) =
             IF kind \in {"hook", "certificate"} THEN Veto
             ELSE Below(cause, optionalLookup \/ kind = "optional")
  BY <1>1, <1>2, WrappersInherit
<1>5. causes[i] \subseteq NodeCauses /\ causes[i] # {}
  <2>1. \A cause \in below : In(cause) \in NodeCauses
    BY <1>4
  <2>2. PICK cause : cause \in below
    BY <1>2
  <2>3. In(cause) \in causes[i]
    BY <1>3, <2>2
  <2>4. \A other \in causes[i] : other \in NodeCauses
    <3> TAKE other \in causes[i]
    <3>1. PICK from \in below : other = In(from)
      BY <1>3
    <3>2. QED
      BY <2>1, <3>1
  <2>5. QED
    BY <2>3, <2>4
<1>6. ASSUME NEW optionalLookup \in BOOLEAN
      PROVE  /\ verdict[i][optionalLookup] \in Verdicts
             /\ verdict[i][optionalLookup].retryable <=>
                  \E cause \in causes[i] : Below(cause, optionalLookup).retryable
             /\ verdict[i][optionalLookup].permanent <=>
                  \E cause \in causes[i] : Below(cause, optionalLookup).permanent
  <2> DEFINE inner == optionalLookup \/ kind = "optional"
             joined == {verdict[c][inner] : c \in e[i].causes}
  <2>1. verdict[i][optionalLookup] =
          IF kind \in {"hook", "certificate"} THEN Veto ELSE Combined(joined)
    <3>1. verdict[i] = VerdictFrom(e, topologyCanceled, verdict, i)
      BY NodesHaveVerdicts
    <3>2. QED
      BY <3>1 DEF VerdictFrom
  <2>2. CASE kind \in {"hook", "certificate"}
    <3>1. \A cause \in causes[i] : Below(cause, optionalLookup) = Veto
      BY <1>3, <1>4, <2>2
    <3>2. verdict[i][optionalLookup] = Veto
      BY <2>1, <2>2
    <3>3. Veto \in Verdicts /\ Veto.retryable = FALSE /\ Veto.permanent = TRUE
      BY DEF Veto, Verdicts
    <3>4. QED
      BY <1>5, <3>1, <3>2, <3>3
  <2>3. CASE kind \notin {"hook", "certificate"}
    <3>1. inner \in BOOLEAN
      OBVIOUS
    <3>2. verdict[i][optionalLookup] = Combined(joined)
      BY <2>1, <2>3
    <3>3. /\ Combined(joined) \in Verdicts
          /\ Combined(joined).retryable <=> \E c \in e[i].causes : verdict[c][inner].retryable
          /\ Combined(joined).permanent <=> \E c \in e[i].causes : verdict[c][inner].permanent
      BY DEF Combined, Verdicts
    <3>4. /\ (\E c \in e[i].causes : verdict[c][inner].retryable) <=>
               \E cause \in below : Below(cause, inner).retryable
          /\ (\E c \in e[i].causes : verdict[c][inner].permanent) <=>
               \E cause \in below : Below(cause, inner).permanent
      BY <3>1, Zenon DEF Judged
    <3>5. \A cause \in below : Below(In(cause), optionalLookup) = Below(cause, inner)
      BY <1>4, <2>3
    <3>6. /\ (\E cause \in causes[i] : Below(cause, optionalLookup).retryable) <=>
               \E cause \in below : Below(cause, inner).retryable
          /\ (\E cause \in causes[i] : Below(cause, optionalLookup).permanent) <=>
               \E cause \in below : Below(cause, inner).permanent
      BY <1>3, <3>5
    <3>7. QED
      BY <3>2, <3>3, <3>4, <3>6
  <2>4. QED
    BY <2>2, <2>3
<1>7. QED
  BY <1>5, <1>6 DEF Judged

\* By induction, every node of an error is.
LEMMA NodesAreJudged ==
  ASSUME NEW e \in GoError, NEW topologyCanceled \in BOOLEAN
  PROVE  \A i \in 1..Len(e) : Judged(e, topologyCanceled, i)
<1> DEFINE S == {i \in 1..Len(e) : Judged(e, topologyCanceled, i)}
<1>1. Len(e) \in Nat
  BY DEF GoError
<1>2. ASSUME NEW i \in 1..Len(e), \A j \in 1..(i - 1) : j \in S
      PROVE  i \in S
  <2>1. e[i].causes \subseteq 1..(i - 1)
    BY DEF GoError
  <2>2. \A c \in e[i].causes : Judged(e, topologyCanceled, c)
    BY <1>2, <2>1
  <2>3. Judged(e, topologyCanceled, i)
    BY <2>2, LeavesAreJudged, WrappersAreJudged
  <2>4. QED
    BY <2>3
<1>3. \A i \in 1..Len(e) : i \in S
  BY <1>1, <1>2, NodeInduction
<1>4. QED
  BY <1>3

\* For every tree of errors, however deep and in whatever order its errors are joined,
\* the recursion of the startup retry comes to what the causes at its leaves call for.
THEOREM Classification == CallSpec => []ClassifiesAsDocumented
<1>1. ASSUME NEW e \in GoError, NEW obsolete \in BOOLEAN
      PROVE  transientConnectError(e, obsolete) <=> CallsForRetry(CausesOf(e)[Len(e)], obsolete)
  <2> DEFINE verdict == classifyConnectError(e, obsolete)[Len(e)][FALSE]
             causes == CausesOf(e)[Len(e)]
  <2>1. Len(e) \in 1..Len(e)
    BY DEF GoError
  <2>2. \A cause : Verdict(cause, obsolete) = VerdictBelow(cause, FALSE, obsolete)
    BY DEF Verdict, VerdictBelow
  <2>3. /\ verdict.retryable <=> \E cause \in causes : Verdict(cause, obsolete).retryable
        /\ verdict.permanent <=> \E cause \in causes : Verdict(cause, obsolete).permanent
    <3>1. Judged(e, obsolete, Len(e)) /\ FALSE \in BOOLEAN
      BY <2>1, NodesAreJudged
    <3>2. QED
      BY <2>2, <3>1, Zenon DEF Judged
  <2>4. \A cause : Verdict(cause, obsolete) \in {Retry, Veto, Neutral}
    BY <2>2, VerdictsAreVerdicts
  <2>5. \A cause : /\ Verdict(cause, obsolete).retryable <=> Verdict(cause, obsolete) = Retry
                   /\ Verdict(cause, obsolete).permanent <=> Verdict(cause, obsolete) = Veto
    BY <2>4 DEF Retry, Veto, Neutral
  <2>6. QED
    BY <2>3, <2>5 DEF transientConnectError, CallsForRetry
<1>2. ASSUME Answered, Called("transientConnectError")
      PROVE  /\ input \in GoError
             /\ \A obsolete \in BOOLEAN :
                  output[1][obsolete] = transientConnectError(input, obsolete)
  BY <1>2 DEF Answered, Called
<1>3. Answered => ClassifiesAsDocumented
  BY <1>1, <1>2 DEF ClassifiesAsDocumented
<1>4. QED
  BY <1>3, CallsAreAnswered, PTL

=============================================================================
