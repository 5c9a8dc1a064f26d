--------------------------- MODULE Clusters_proofs ---------------------------
(* Proofs about clusters and pointers, for any records and links.          *)
EXTENDS Clusters, FiniteSetTheorems, WellFoundedInduction, TLAPS

-----------------------------------------------------------------------------
(* Least and greatest members of sets of naturals                          *)

LEMMA LessIsWellFounded ==
    IsWellFoundedOn({ss \in Nat \X Nat : ss[1] < ss[2]}, Nat)
BY NatLessThanWellFounded, Zenon DEF OpToRel

LEMMA LeastMember ==
    ASSUME NEW S \in SUBSET Nat, S # {}
    PROVE  \E m \in S : \A n \in S : m <= n
<1> DEFINE R == {ss \in Nat \X Nat : ss[1] < ss[2]}
           T == S
<1>1. T \subseteq Nat /\ T # {}
  OBVIOUS
<1>2. PICK t \in T : \A u \in T : ~ (<<u, t>> \in R)
  <2> HIDE DEF T, R
  <2>1. IsWellFoundedOn(R, Nat)
    BY LessIsWellFounded DEF R
  <2> QED BY <1>1, <2>1, WFMin, Zenon
<1>3. ASSUME NEW u \in S PROVE t <= u
  <2>1. <<u, t>> \in Nat \X Nat /\ ~ (<<u, t>> \in R)
    BY <1>1, <1>2
  <2>2. ~ (u < t)
    BY <2>1
  <2> QED BY <1>1, <2>2
<1> QED BY <1>3

LEMMA GreatestMember ==
    ASSUME NEW N \in Nat, NEW S \in SUBSET (0..N), S # {}
    PROVE  \E m \in S : \A n \in S : n <= m
<1> DEFINE T == {N - x : x \in S}
<1>1. T \in SUBSET Nat /\ T # {}
  <2>1. \A x \in S : N - x \in Nat
    OBVIOUS
  <2> QED BY <2>1, Zenon
<1>2. PICK t \in T : \A u \in T : t <= u
  <2> HIDE DEF T
  <2> QED BY <1>1, LeastMember, Zenon
<1>3. PICK m \in S : t = N - m
  OBVIOUS
<1>4. \A n \in S : t <= N - n
  BY <1>2
<1> QED BY <1>3, <1>4

-----------------------------------------------------------------------------
(* Components                                                              *)

Closed(graph, S) == \A p \in DOMAIN graph : p \cap S # {} => p \subseteq S

LEMMA ComponentIsClosed ==
    ASSUME NEW records, NEW graph, \A p \in DOMAIN graph : p \subseteq records,
           NEW x \in records
    PROVE  /\ x \in Component(records, graph, x)
           /\ Component(records, graph, x) \subseteq records
           /\ Closed(graph, Component(records, graph, x))
<1>1. ASSUME NEW p \in DOMAIN graph, NEW y \in p \cap Component(records, graph, x), NEW z \in p
      PROVE  z \in Component(records, graph, x)
  <2>1. ASSUME NEW S \in SUBSET records, x \in S, Closed(graph, S)
        PROVE  z \in S
    <3>1. y \in S
      BY <1>1, <2>1 DEF Component, Closed
    <3> QED BY <1>1, <2>1, <3>1 DEF Closed
  <2> QED BY <1>1, <2>1 DEF Component, Closed
<1> QED BY <1>1 DEF Component, Closed

\* What a closed set without y leaves is closed too, so that components part the
\* records.
LEMMA SameComponent ==
    ASSUME NEW records, NEW graph, \A p \in DOMAIN graph : p \subseteq records,
           NEW x \in records, NEW y \in Component(records, graph, x)
    PROVE  y \in records /\ Component(records, graph, y) = Component(records, graph, x)
<1>1. y \in records
  BY DEF Component
<1>2. ASSUME NEW u \in records, NEW v \in Component(records, graph, u), NEW w \in Component(records, graph, v)
      PROVE  w \in Component(records, graph, u)
  BY <1>2 DEF Component
<1>3. x \in Component(records, graph, y)
  <2>1. ASSUME NEW S \in SUBSET records, y \in S, Closed(graph, S), x \notin S
        PROVE  FALSE
    <3> DEFINE T == records \ S
    <3>1. T \in SUBSET records /\ x \in T /\ y \notin T
      BY <2>1
    <3>2. \A p \in DOMAIN graph : p \cap T # {} => p \subseteq T
      BY <2>1 DEF Closed
    <3> HIDE DEF T
    <3> QED BY <3>1, <3>2 DEF Component
  <2> QED BY <2>1 DEF Component, Closed
<1> QED BY <1>1, <1>2, <1>3 DEF Component

-----------------------------------------------------------------------------
(* The order of records, and the same-source guard                         *)

LEMMA BeforeIsOrder ==
    ASSUME NEW x \in Record, NEW y \in Record
    PROVE  /\ Before(x, y) \/ Before(y, x)
           /\ Before(x, y) /\ Before(y, x) => x = y
BY ClustersConstants DEF Before

LEMMA FirstRecord ==
    ASSUME NEW S \in SUBSET Record, S # {}
    PROVE  \E x \in S : \A y \in S : Before(x, y)
<1> DEFINE P == {x.provider : x \in S}
<1>1. P \in SUBSET Nat /\ P # {}
  BY ClustersConstants
<1>2. PICK p \in P : \A q \in P : p <= q
  <2> HIDE DEF P
  <2> QED BY <1>1, LeastMember
<1> DEFINE I == {x.id : x \in Of(S, p)}
<1>3. I \in SUBSET Nat /\ I # {}
  BY <1>2, ClustersConstants DEF Of
<1>4. PICK i \in I : \A j \in I : i <= j
  <2> HIDE DEF I
  <2> QED BY <1>3, LeastMember
<1>5. PICK x \in Of(S, p) : x.id = i
  BY <1>4
<1>6. ASSUME NEW y \in S PROVE Before(x, y)
  <2>1. p <= y.provider /\ (y.provider = p => x.id <= y.id)
    BY <1>2, <1>4, <1>5 DEF Of
  <2>2. x.provider = p /\ p \in Nat /\ y.provider \in Nat
    BY <1>1, <1>2, <1>5, ClustersConstants DEF Of
  <2> QED BY <2>1, <2>2 DEF Before
<1>7. x \in S
  BY <1>5 DEF Of
<1> QED BY <1>6, <1>7

LEMMA CanonicalIsFirst ==
    ASSUME NEW S \in SUBSET Record, S # {}
    PROVE  Canonical(S) \in S /\ \A y \in S : Before(Canonical(S), y)
BY FirstRecord, Zenon DEF Canonical

\* Two records of a provider are one provider less than records.
LEMMA ConflictIsTwice ==
    ASSUME NEW S \in SUBSET Record
    PROVE  Conflicted(S) <=> \E x, y \in S : x # y /\ x.provider = y.provider
<1> DEFINE f == [x \in S |-> x.provider]
<1>1. IsFiniteSet(S)
  BY ClustersConstants, FS_Subset
<1>2. f \in Surjection(S, ProvidersOf(S))
  BY DEF Surjection, ProvidersOf
<1>3. IsFiniteSet(ProvidersOf(S)) /\ Cardinality(ProvidersOf(S)) <= Cardinality(S)
      /\ (Cardinality(ProvidersOf(S)) = Cardinality(S) <=> f \in Injection(S, ProvidersOf(S)))
  BY <1>1, <1>2, FS_Surjection
<1> QED BY <1>3 DEF Conflicted, Injection, IsInjective, ProvidersOf

-----------------------------------------------------------------------------
(* The anchors of a split                                                  *)

\* Links of records, with confidences.
Weighted(graph, records) ==
    /\ \A p \in DOMAIN graph : p \subseteq records /\ graph[p] \in 1..MaxConfidence

\* The records that choose before x, what x then chooses, and the choices of all.
Turn(graph, members, x) == Earlier(graph, Anchors(members), Of(members, x.provider), x)

Choice(graph, members, f, x) ==
    Join(graph, Anchors(members) \ {f[y] : y \in Turn(graph, members, x)}, x)

Placement(graph, members, f) ==
    f = [x \in members |->
            IF x \in Anchors(members) THEN x ELSE Choice(graph, members, f, x)]

LEMMA PlacedIs ==
    ASSUME NEW graph, NEW members
    PROVE  Placed(graph, members) = CHOOSE f : Placement(graph, members, f)
BY Zenon DEF Placed, Placement, Choice, Turn

LEMMA ConfidenceIsBounded ==
    ASSUME NEW graph, NEW records, Weighted(graph, records), NEW x, NEW a
    PROVE  Confidence(graph, x, a) \in 0..MaxConfidence
BY ClustersConstants DEF Weighted, Confidence

LEMMA StrongestIsBounded ==
    ASSUME NEW graph, NEW records, Weighted(graph, records), NEW x, NEW anchors, anchors # {}
    PROVE  Strongest(graph, x, anchors) \in 0..MaxConfidence
<1> DEFINE C == {Confidence(graph, x, a) : a \in anchors}
<1>1. C \in SUBSET (0..MaxConfidence) /\ C # {}
  BY ConfidenceIsBounded
<1>2. \E c \in C : \A a \in anchors : Confidence(graph, x, a) <= c
  <2>1. PICK c \in C : \A d \in C : d <= c
    <3> HIDE DEF C
    <3> QED BY <1>1, ClustersConstants, GreatestMember
  <2> QED BY <2>1
<1>3. Strongest(graph, x, anchors) \in C
  BY <1>2, Zenon DEF Strongest
<1> QED BY <1>1, <1>3

LEMMA TurnIsOfOthers ==
    ASSUME NEW graph, NEW members, NEW x \in members \ Anchors(members)
    PROVE  /\ Turn(graph, members, x) \subseteq members \ Anchors(members)
           /\ \A y \in Turn(graph, members, x) : y # x /\ y.provider = x.provider
BY DEF Turn, Earlier, Anchors, Of

\* Of two records of a provider one chooses first, and of some records the first.
LEMMA TurnsDiffer ==
    ASSUME NEW graph, NEW records, Weighted(graph, records),
           NEW members \in SUBSET Record, Anchors(members) # {},
           NEW x \in members, NEW y \in members, x # y, x.provider = y.provider
    PROVE  x \in Turn(graph, members, y) \/ y \in Turn(graph, members, x)
<1> DEFINE best(r) == Strongest(graph, r, Anchors(members))
<1>1. best(x) \in Nat /\ best(y) \in Nat
  BY StrongestIsBounded, ClustersConstants
<1>2. Before(x, y) \/ Before(y, x)
  BY BeforeIsOrder
<1>3. x \in Of(members, y.provider) \ {y} /\ y \in Of(members, x.provider) \ {x}
  BY DEF Of
<1>4. best(x) > best(y) \/ best(y) > best(x) \/ best(x) = best(y)
  <2> HIDE DEF best
  <2> QED BY <1>1
<1> QED BY <1>2, <1>3, <1>4 DEF Turn, Earlier

LEMMA FirstInTurn ==
    ASSUME NEW graph, NEW records, Weighted(graph, records),
           NEW members \in SUBSET Record, Anchors(members) # {},
           NEW T \in SUBSET members, T # {}
    PROVE  \E m \in T : Turn(graph, members, m) \cap T = {}
<1> DEFINE best(r) == Strongest(graph, r, Anchors(members))
           B == {best(y) : y \in T}
<1>1. \A y \in T : best(y) \in 0..MaxConfidence
  BY StrongestIsBounded
<1>2. B \in SUBSET (0..MaxConfidence) /\ B # {}
  BY <1>1
<1>3. PICK b \in B : \A c \in B : c <= b
  <2> HIDE DEF B
  <2> QED BY <1>2, ClustersConstants, GreatestMember
<1> DEFINE S == {y \in T : best(y) = b}
<1>4. S \in SUBSET Record /\ S # {}
  BY <1>3
<1>5. PICK m \in S : \A y \in S : Before(m, y)
  <2> HIDE DEF S
  <2> QED BY <1>4, FirstRecord
<1>6. m \in T /\ m \in Record /\ best(m) = b
  BY <1>4, <1>5
<1>7. ASSUME NEW y \in T, y \in Turn(graph, members, m) PROVE FALSE
  <2>1. y # m /\ (best(y) > best(m) \/ (best(y) = best(m) /\ Before(y, m)))
    BY <1>7 DEF Turn, Earlier
  <2>2. best(y) \in Nat /\ best(m) \in Nat /\ best(y) <= best(m)
    <3>1. best(y) <= b
      BY <1>3
    <3> QED BY <1>1, <1>6, <3>1, ClustersConstants
  <2>3. best(y) = best(m) /\ Before(y, m)
    <3> HIDE DEF best
    <3> QED BY <2>1, <2>2
  <2>4. y \in S /\ y \in Record
    BY <1>6, <2>3
  <2> QED BY <1>5, <1>6, <2>1, <2>3, <2>4, BeforeIsOrder
<1> QED BY <1>6, <1>7

-----------------------------------------------------------------------------
(* What each record of a split chooses: there is one way                    *)

LEMMA ChoiceFollowsTurn ==
    ASSUME NEW graph, NEW members, NEW x, NEW f, NEW g,
           \A y \in Turn(graph, members, x) : f[y] = g[y]
    PROVE  Choice(graph, members, f, x) = Choice(graph, members, g, x)
<1>1. {f[y] : y \in Turn(graph, members, x)} = {g[y] : y \in Turn(graph, members, x)}
  OBVIOUS
<1> QED BY <1>1, Zenon DEF Choice

LEMMA NoAnchorNoChoice ==
    ASSUME NEW graph, NEW members, NEW x, NEW f, Anchors(members) = {}
    PROVE  Choice(graph, members, f, x) = x
BY DEF Choice, Join

LEMMA PlacementIsUnique ==
    ASSUME NEW graph, NEW records, Weighted(graph, records), NEW members \in SUBSET Record,
           NEW f, NEW g, Placement(graph, members, f), Placement(graph, members, g)
    PROVE  f = g
<1> DEFINE D == {x \in members : f[x] # g[x]}
<1>1. /\ \A x \in members : f[x] = IF x \in Anchors(members) THEN x ELSE Choice(graph, members, f, x)
      /\ \A x \in members : g[x] = IF x \in Anchors(members) THEN x ELSE Choice(graph, members, g, x)
  BY DEF Placement
<1>2. D = {}
  <2>1. CASE Anchors(members) = {}
    BY <1>1, <2>1, NoAnchorNoChoice
  <2>2. CASE Anchors(members) # {} /\ D # {}
    <3>1. D \in SUBSET members
      OBVIOUS
    <3>2. PICK m \in D : Turn(graph, members, m) \cap D = {}
      <4> HIDE DEF D
      <4> QED BY <2>2, <3>1, FirstInTurn
    <3>3. m \in members \ Anchors(members)
      BY <1>1
    <3>4. Turn(graph, members, m) \subseteq members
      BY <3>3, TurnIsOfOthers
    <3>5. \A y \in Turn(graph, members, m) : f[y] = g[y]
      BY <3>2, <3>4
    <3>6. Choice(graph, members, f, m) = Choice(graph, members, g, m)
      BY <3>5, ChoiceFollowsTurn
    <3>7. f[m] = g[m]
      BY <1>1, <3>3, <3>6
    <3> QED BY <3>2, <3>7
  <2> QED BY <2>1, <2>2
<1>3. \A x \in members : f[x] = g[x]
  BY <1>2
<1>4. f = [x \in members |-> f[x]] /\ g = [x \in members |-> g[x]]
  BY DEF Placement
<1> QED BY <1>3, <1>4

\* A choice for the first records of each provider, which a further record joins.
Begun(graph, members, T) ==
    /\ T \subseteq members \ Anchors(members)
    /\ \A x \in T : Turn(graph, members, x) \subseteq T
    /\ \E f : \A x \in T : f[x] = Choice(graph, members, f, x)

LEMMA BegunGoesOn ==
    ASSUME NEW graph, NEW members, NEW T, Begun(graph, members, T),
           NEW m \in (members \ Anchors(members)) \ T, Turn(graph, members, m) \subseteq T
    PROVE  Begun(graph, members, T \cup {m})
<1>1. PICK f : \A x \in T : f[x] = Choice(graph, members, f, x)
  BY DEF Begun
<1> DEFINE g == [x \in T \cup {m} |-> IF x = m THEN Choice(graph, members, f, m) ELSE f[x]]
<1>2. \A x \in T : g[x] = f[x]
  OBVIOUS
<1>3. g[m] = Choice(graph, members, f, m)
  OBVIOUS
<1> HIDE DEF g
<1>4. ASSUME NEW x \in T \cup {m} PROVE g[x] = Choice(graph, members, g, x)
  <2>1. Turn(graph, members, x) \subseteq T
    BY DEF Begun
  <2>2. \A y \in Turn(graph, members, x) : f[y] = g[y]
    BY <1>2, <2>1
  <2>3. Choice(graph, members, f, x) = Choice(graph, members, g, x)
    BY <2>2, ChoiceFollowsTurn
  <2> QED BY <1>1, <1>2, <1>3, <2>3
<1>5. \E h : \A x \in T \cup {m} : h[x] = Choice(graph, members, h, x)
  BY <1>4
<1> QED BY <1>5 DEF Begun

LEMMA PlacementExists ==
    ASSUME NEW graph, NEW records, Weighted(graph, records), NEW members \in SUBSET Record
    PROVE  \E f : Placement(graph, members, f)
<1> DEFINE others == members \ Anchors(members)
           Sets == {T \in SUBSET others : Begun(graph, members, T)}
           Sizes == {Cardinality(T) : T \in Sets}
<1>1. ASSUME Begun(graph, members, others) PROVE \E f : Placement(graph, members, f)
  <2>1. PICK f : \A x \in others : f[x] = Choice(graph, members, f, x)
    BY <1>1 DEF Begun
  <2> DEFINE g == [x \in members |-> IF x \in Anchors(members) THEN x ELSE f[x]]
  <2>2. \A x \in others : g[x] = f[x]
    OBVIOUS
  <2>3. \A x \in members \cap Anchors(members) : g[x] = x
    OBVIOUS
  <2>4. g = [x \in members |-> g[x]]
    OBVIOUS
  <2> HIDE DEF g
  <2>5. ASSUME NEW x \in others PROVE g[x] = Choice(graph, members, g, x)
    <3>1. \A y \in Turn(graph, members, x) : f[y] = g[y]
      BY <2>2, TurnIsOfOthers
    <3>2. Choice(graph, members, f, x) = Choice(graph, members, g, x)
      BY <3>1, ChoiceFollowsTurn
    <3> QED BY <2>1, <2>2, <3>2
  <2>6. Placement(graph, members, g)
    BY <2>3, <2>4, <2>5 DEF Placement
  <2> QED BY <2>6
<1>2. CASE Anchors(members) = {}
  <2> DEFINE g == [x \in members |-> x]
  <2>1. \A x \in others : g[x] = Choice(graph, members, g, x)
    BY <1>2, NoAnchorNoChoice
  <2>2. \A x \in others : Turn(graph, members, x) \subseteq others
    BY TurnIsOfOthers
  <2> HIDE DEF g
  <2> QED BY <1>1, <2>1, <2>2 DEF Begun
<1>3. CASE Anchors(members) # {}
  <2>1. IsFiniteSet(others) /\ others \in SUBSET Record
    BY ClustersConstants, FS_Subset
  <2>2. \A T \in SUBSET others : IsFiniteSet(T) /\ Cardinality(T) \in 0..Cardinality(others)
    <3> HIDE DEF others
    <3> QED BY <2>1, FS_Subset, FS_CardinalityType
  <2>3. Begun(graph, members, {})
    BY DEF Begun
  <2>4. Sizes \in SUBSET (0..Cardinality(others)) /\ Sizes # {}
    <3> HIDE DEF others
    <3> QED BY <2>2, <2>3
  <2>5. PICK n \in Sizes : \A k \in Sizes : k <= n
    <3>1. Cardinality(others) \in Nat
      BY <2>1, FS_CardinalityType
    <3> HIDE DEF Sizes, others
    <3> QED BY <2>4, <3>1, GreatestMember
  <2>6. PICK T \in Sets : n = Cardinality(T)
    BY <2>5
  <2>7. ASSUME T # others PROVE FALSE
    <3> DEFINE left == others \ T
    <3>1. left \in SUBSET members /\ left # {}
      BY <2>6, <2>7
    <3>2. PICK m \in left : Turn(graph, members, m) \cap left = {}
      <4> HIDE DEF left
      <4> QED BY <1>3, <3>1, FirstInTurn
    <3>3. Turn(graph, members, m) \subseteq T
      BY <3>2, TurnIsOfOthers
    <3>4. Begun(graph, members, T \cup {m})
      BY <2>6, <3>2, <3>3, BegunGoesOn
    <3>5. Cardinality(T \cup {m}) \in Sizes
      BY <2>6, <3>2, <3>4
    <3>6. Cardinality(T \cup {m}) = Cardinality(T) + 1 /\ Cardinality(T) \in Nat
      BY <2>2, <2>6, <3>2, FS_AddElement, FS_CardinalityType
    <3> HIDE DEF Sizes
    <3> QED BY <2>5, <2>6, <3>5, <3>6
  <2> QED BY <1>1, <2>6, <2>7
<1> QED BY <1>2, <1>3

\* _split places each record once: an anchor with itself, each other record with
\* its best anchor of those that no earlier record of its provider took.
LEMMA PlacedIsPlacement ==
    ASSUME NEW graph, NEW records, Weighted(graph, records), NEW members \in SUBSET Record
    PROVE  /\ Placement(graph, members, Placed(graph, members))
           /\ \A f : Placement(graph, members, f) => f = Placed(graph, members)
<1>1. Placement(graph, members, CHOOSE f : Placement(graph, members, f))
  BY PlacementExists, Zenon
<1>2. Placement(graph, members, Placed(graph, members))
  BY <1>1, PlacedIs
<1> QED BY <1>2, PlacementIsUnique

-----------------------------------------------------------------------------
(* What a split promises                                                    *)

PlacedWith(graph, members, x) ==
    {y \in members : Placed(graph, members)[y] = Placed(graph, members)[x]}

LEMMA PlacedEach ==
    ASSUME NEW graph, NEW records, Weighted(graph, records), NEW members \in SUBSET Record,
           NEW x \in members
    PROVE  Placed(graph, members)[x] =
             IF x \in Anchors(members) THEN x
             ELSE Choice(graph, members, Placed(graph, members), x)
<1>1. Placement(graph, members, Placed(graph, members))
  BY PlacedIsPlacement
<1> HIDE DEF Placed
<1> QED BY <1>1 DEF Placement

\* The best anchor with room exists, and is the choice.
LEMMA JoinIsBest ==
    ASSUME NEW graph, NEW records, Weighted(graph, records), NEW room \in SUBSET Record, NEW x
    PROVE  \/ room = {} /\ Join(graph, room, x) = x
           \/ Join(graph, room, x) \in room
              /\ \A b \in room : Better(graph, x, Join(graph, room, x), b)
<1>1. CASE room = {}
  BY <1>1 DEF Join
<1>2. CASE room # {}
  <2> DEFINE C == {Confidence(graph, x, a) : a \in room}
  <2>1. C \in SUBSET (0..MaxConfidence) /\ C # {}
    BY <1>2, ConfidenceIsBounded
  <2>2. PICK c \in C : \A d \in C : d <= c
    <3> HIDE DEF C
    <3> QED BY <2>1, ClustersConstants, GreatestMember
  <2> DEFINE S == {a \in room : Confidence(graph, x, a) = c}
  <2>3. S \in SUBSET Record /\ S # {}
    BY <2>2
  <2>4. PICK a \in S : \A b \in S : Before(a, b)
    <3> HIDE DEF S
    <3> QED BY <2>3, FirstRecord
  <2>5. a \in room /\ Confidence(graph, x, a) = c
    BY <2>4
  <2>6. ASSUME NEW b \in room PROVE Better(graph, x, a, b)
    <3>1. Confidence(graph, x, b) <= c /\ c \in Nat /\ Confidence(graph, x, b) \in Nat
      BY <2>1, <2>2
    <3>2. CASE Confidence(graph, x, b) = c
      BY <2>4, <2>5, <3>2 DEF Better
    <3>3. CASE Confidence(graph, x, b) # c
      BY <2>5, <3>1, <3>3 DEF Better
    <3> QED BY <3>2, <3>3
  <2>7. \E r \in room : \A b \in room : Better(graph, x, r, b)
    BY <2>5, <2>6
  <2> QED BY <1>2, <2>7, Zenon DEF Join
<1> QED BY <1>1, <1>2

\* Where a record of a split is: with itself alone, or with an anchor.
LEMMA ChoiceIsAnchor ==
    ASSUME NEW graph, NEW records, Weighted(graph, records), NEW members \in SUBSET Record,
           NEW x \in members \ Anchors(members)
    PROVE  LET place == Placed(graph, members)
               room == Anchors(members) \ {place[y] : y \in Turn(graph, members, x)}
           IN  \/ room = {} /\ place[x] = x
               \/ place[x] \in room /\ \A b \in room : Better(graph, x, place[x], b)
<1> DEFINE place == Placed(graph, members)
           room == Anchors(members) \ {place[y] : y \in Turn(graph, members, x)}
<1>1. place[x] = Join(graph, room, x)
  BY PlacedEach DEF Choice
<1>2. room \in SUBSET Record
  BY DEF Anchors, Of
<1> HIDE DEF place, room
<1>3. \/ room = {} /\ place[x] = x
      \/ place[x] \in room /\ \A b \in room : Better(graph, x, place[x], b)
  BY <1>1, <1>2, JoinIsBest
<1> QED BY <1>3 DEF place, room

LEMMA AnchorsHaveOneProvider ==
    ASSUME NEW members, NEW x \in members, NEW y \in members, x.provider = y.provider
    PROVE  x \in Anchors(members) => y \in Anchors(members)
BY DEF Anchors, Of

\* The same-source guard holds: the assertion at the end of resolve_clusters.
LEMMA SplitKeepsProvidersApart ==
    ASSUME NEW graph, NEW records, Weighted(graph, records), NEW members \in SUBSET Record,
           NEW x \in members, NEW y \in members, x # y, x.provider = y.provider
    PROVE  Placed(graph, members)[x] # Placed(graph, members)[y]
<1> DEFINE place == Placed(graph, members)
<1>1. ASSUME NEW u \in members \ Anchors(members), NEW v \in members \ Anchors(members),
             u \in Turn(graph, members, v), place[u] = place[v]
      PROVE  FALSE
  <2>1. u # v
    BY <1>1, TurnIsOfOthers
  <2>2. place[v] = v
    BY <1>1, ChoiceIsAnchor
  <2>3. place[u] = u \/ place[u] \in Anchors(members)
    BY ChoiceIsAnchor
  <2> QED BY <1>1, <2>1, <2>2, <2>3
<1>2. CASE x \in Anchors(members)
  <2>1. y \in Anchors(members)
    BY <1>2, AnchorsHaveOneProvider
  <2> QED BY <1>2, <2>1, PlacedEach
<1>3. CASE x \notin Anchors(members)
  <2>1. y \notin Anchors(members)
    BY <1>3, AnchorsHaveOneProvider
  <2>2. CASE Anchors(members) = {}
    BY <1>3, <2>1, <2>2, ChoiceIsAnchor
  <2>3. CASE Anchors(members) # {}
    <3>1. x \in Turn(graph, members, y) \/ y \in Turn(graph, members, x)
      BY <2>3, TurnsDiffer
    <3> HIDE DEF place
    <3>2. place[x] # place[y]
      BY <1>1, <1>3, <2>1, <3>1
    <3> QED BY <3>2 DEF place
  <2> QED BY <2>2, <2>3
<1> QED BY <1>2, <1>3

-----------------------------------------------------------------------------
(* The cluster of a record                                                 *)

Cluster(records, graph, x) ==
    LET all == Component(records, graph, x)
    IN  IF Conflicted(all) THEN PlacedWith(graph, all, x) ELSE all

LEMMA ClusterIsOfComponent ==
    ASSUME NEW graph, NEW records \in SUBSET Record, Weighted(graph, records), NEW x \in records
    PROVE  /\ x \in Cluster(records, graph, x)
           /\ Cluster(records, graph, x) \subseteq Component(records, graph, x)
           /\ Component(records, graph, x) \subseteq records
           /\ \A y \in Cluster(records, graph, x) :
                y \in records /\ Cluster(records, graph, y) = Cluster(records, graph, x)
<1> DEFINE all == Component(records, graph, x)
<1>1. x \in all /\ all \subseteq records
  BY ComponentIsClosed DEF Weighted
<1>2. \A y \in all : Component(records, graph, y) = all
  BY SameComponent DEF Weighted
<1> HIDE DEF all
<1>3. \A y \in all : Cluster(records, graph, y) =
                         IF Conflicted(all) THEN PlacedWith(graph, all, y) ELSE all
  BY <1>2 DEF Cluster
<1>4. x \in Cluster(records, graph, x) /\ Cluster(records, graph, x) \subseteq all
  BY <1>1, <1>3 DEF PlacedWith
<1>5. \A y \in Cluster(records, graph, x) : Cluster(records, graph, y) = Cluster(records, graph, x)
  BY <1>1, <1>3 DEF PlacedWith
<1> QED BY <1>1, <1>4, <1>5 DEF all

LEMMA SplitHas ==
    ASSUME NEW graph, NEW members, NEW m
    PROVE  m \in Split(graph, members) <=> \E x \in members : m = PlacedWith(graph, members, x)
<1> DEFINE place == Placed(graph, members)
<1>1. Split(graph, members) = {{y \in members : place[y] = a} : a \in {place[x] : x \in members}}
  BY DEF Split
<1> HIDE DEF place
<1>2. m \in Split(graph, members) <=> \E x \in members : m = {y \in members : place[y] = place[x]}
  BY <1>1
<1> QED BY <1>2 DEF PlacedWith, place

LEMMA ClusterIsTheOne ==
    ASSUME NEW graph, NEW records \in SUBSET Record, Weighted(graph, records), NEW x \in records,
           NEW m
    PROVE  (m \in ClustersOf(records, graph) /\ x \in m) <=> m = Cluster(records, graph, x)
<1>1. m \in ClustersOf(records, graph) <=>
        \E u \in records : LET c == Component(records, graph, u)
                           IN  m \in IF Conflicted(c) THEN Split(graph, c) ELSE {c}
  BY Zenon DEF ClustersOf
<1>2. ASSUME NEW u \in records PROVE
        LET c == Component(records, graph, u)
        IN  m \in (IF Conflicted(c) THEN Split(graph, c) ELSE {c})
              <=> \E v \in c : m = Cluster(records, graph, v)
  <2> DEFINE c == Component(records, graph, u)
  <2>1. \A v \in c : Component(records, graph, v) = c
    BY SameComponent DEF Weighted
  <2>2. u \in c
    BY ComponentIsClosed DEF Weighted
  <2> HIDE DEF c
  <2>3. \A v \in c : Cluster(records, graph, v) = IF Conflicted(c) THEN PlacedWith(graph, c, v) ELSE c
    BY <2>1 DEF Cluster
  <2>4. m \in (IF Conflicted(c) THEN Split(graph, c) ELSE {c}) <=> \E v \in c : m = Cluster(records, graph, v)
    BY <2>2, <2>3, SplitHas
  <2> QED BY <2>4 DEF c
<1>3. \A u \in records : u \in Component(records, graph, u) /\ Component(records, graph, u) \subseteq records
  BY ComponentIsClosed DEF Weighted
<1>4. m \in ClustersOf(records, graph) <=> \E v \in records : m = Cluster(records, graph, v)
  BY <1>1, <1>2, <1>3
<1>5. \A v \in records : x \in Cluster(records, graph, v) =>
          Cluster(records, graph, x) = Cluster(records, graph, v)
  BY ClusterIsOfComponent
<1>6. x \in Cluster(records, graph, x)
  BY ClusterIsOfComponent
<1> QED BY <1>4, <1>5, <1>6

LEMMA PointersAre ==
    ASSUME NEW graph, NEW records \in SUBSET Record, Weighted(graph, records)
    PROVE  /\ DOMAIN Pointers(records, graph) = records
           /\ \A x \in records :
                Pointers(records, graph)[x] = Canonical(Cluster(records, graph, x))
<1>1. ASSUME NEW x \in records
      PROVE  (CHOOSE m \in ClustersOf(records, graph) : x \in m) = Cluster(records, graph, x)
  <2>1. \A m : (m \in ClustersOf(records, graph) /\ x \in m) <=> m = Cluster(records, graph, x)
    BY ClusterIsTheOne
  <2> QED BY <2>1, Zenon
<1>2. \A x \in records : Pointers(records, graph)[x] = Canonical(CHOOSE m \in ClustersOf(records, graph) : x \in m)
  BY DEF Pointers
<1>3. DOMAIN Pointers(records, graph) = records
  BY DEF Pointers
<1> QED BY <1>1, <1>2, <1>3

\* The guard: no cluster has two records of a provider.
LEMMA ClusterIsApart ==
    ASSUME NEW graph, NEW records \in SUBSET Record, Weighted(graph, records), NEW x \in records,
           NEW y \in Cluster(records, graph, x), NEW z \in Cluster(records, graph, x),
           y.provider = z.provider
    PROVE  y = z
<1> DEFINE all == Component(records, graph, x)
<1>1. all \in SUBSET Record /\ y \in all /\ z \in all
  BY ClusterIsOfComponent
<1>2. CASE Conflicted(all)
  <2>1. Placed(graph, all)[y] = Placed(graph, all)[x] /\ Placed(graph, all)[z] = Placed(graph, all)[x]
    BY <1>2 DEF Cluster, PlacedWith
  <2> HIDE DEF all
  <2> QED BY <1>1, <2>1, SplitKeepsProvidersApart
<1>3. CASE ~ Conflicted(all)
  <2> HIDE DEF all
  <2> QED BY <1>1, <1>3, ConflictIsTwice
<1> QED BY <1>2, <1>3

-----------------------------------------------------------------------------
(* The inductive invariant                                                 *)

\* A pass leaves the pointers of its records and links, the first included.
ClustersInv ==
    /\ Known \subseteq Record
    /\ Weighted(links, Known) /\ DOMAIN links \subseteq PairsOf(Known)
    /\ pointer = Pointers(Known, links)

LEMMA GraphsAreWeighted ==
    ASSUME NEW records, NEW graph \in Graphs(records)
    PROVE  Weighted(graph, records) /\ DOMAIN graph \subseteq PairsOf(records)
BY DEF Graphs, Weighted, PairsOf

LEMMA InitInv == Init => ClustersInv
<1> SUFFICES ASSUME Init PROVE ClustersInv
  OBVIOUS
<1>1. DOMAIN links = {} /\ DOMAIN pointer = {}
  BY DEF Init
<1>2. pointer = Pointers({}, links)
  <2>1. pointer = [x \in {} |-> x]
    BY DEF Init
  <2> QED BY <2>1 DEF Pointers
<1> QED BY <1>1, <1>2 DEF ClustersInv, Known, Weighted

LEMMA NextInv == ClustersInv /\ [Next]_vars => ClustersInv'
<1> SUFFICES ASSUME ClustersInv, [Next]_vars PROVE ClustersInv'
  OBVIOUS
<1>1. CASE UNCHANGED vars
  BY <1>1 DEF vars, ClustersInv, Known, Weighted
<1>2. ASSUME NEW records \in SUBSET Record, NEW graph \in Graphs(records), Pass(records, graph)
      PROVE  ClustersInv'
  <2>1. Weighted(graph, records) /\ DOMAIN graph \subseteq PairsOf(records)
    BY GraphsAreWeighted
  <2>2. links' = graph /\ pointer' = Pointers(records, graph)
    BY <1>2 DEF Pass
  <2>3. Known' = records
    BY <2>1, <2>2, PointersAre DEF Known
  <2>4. Weighted(links', Known')
    BY <2>1, <2>2, <2>3
  <2> QED BY <2>1, <2>2, <2>3, <2>4 DEF ClustersInv, Weighted
<1> QED BY <1>1, <1>2 DEF Next

LEMMA InvHolds == Spec => []ClustersInv
BY InitInv, NextInv, PTL DEF Spec

\* A record points to the canonical record of its cluster, and shares its pointer
\* with the records of its cluster alone.
LEMMA PointerIsOfCluster ==
    ASSUME NEW graph, NEW records \in SUBSET Record, Weighted(graph, records), NEW x \in records
    PROVE  LET p == Pointers(records, graph)
               c == Cluster(records, graph, x)
           IN  /\ p[x] \in c /\ \A y \in c : Before(p[x], y)
               /\ c = {y \in records : p[y] = p[x]}
<1> DEFINE p == Pointers(records, graph)
<1>1. \A y \in records : p[y] = Canonical(Cluster(records, graph, y))
  BY PointersAre
<1> HIDE DEF p
<1>2. ASSUME NEW y \in records
      PROVE  /\ p[y] \in Cluster(records, graph, y)
             /\ \A z \in Cluster(records, graph, y) : Before(p[y], z)
  <2>1. Cluster(records, graph, y) \in SUBSET Record /\ Cluster(records, graph, y) # {}
    BY ClusterIsOfComponent
  <2> QED BY <1>1, <2>1, CanonicalIsFirst
<1>3. ASSUME NEW y \in records, p[y] = p[x] PROVE y \in Cluster(records, graph, x)
  <2>1. p[x] \in Cluster(records, graph, x) /\ p[x] \in Cluster(records, graph, y)
    BY <1>2, <1>3
  <2>2. Cluster(records, graph, x) = Cluster(records, graph, y)
    BY <2>1, ClusterIsOfComponent
  <2> QED BY <2>2, ClusterIsOfComponent
<1>4. ASSUME NEW y \in Cluster(records, graph, x) PROVE y \in records /\ p[y] = p[x]
  BY <1>1, ClusterIsOfComponent
<1>5. Cluster(records, graph, x) = {y \in records : p[y] = p[x]}
  BY <1>3, <1>4
<1> QED BY <1>2, <1>5 DEF p

LEMMA TogetherIsCluster ==
    ASSUME ClustersInv, NEW x \in Known
    PROVE  /\ Known \in SUBSET Record /\ Weighted(links, Known)
           /\ Together(x) = Cluster(Known, links, x)
           /\ pointer[x] \in Together(x)
           /\ \A y \in Together(x) : Before(pointer[x], y)
<1>1. Known \in SUBSET Record /\ Weighted(links, Known) /\ pointer = Pointers(Known, links)
  BY DEF ClustersInv
<1>2. /\ pointer[x] \in Cluster(Known, links, x)
      /\ \A y \in Cluster(Known, links, x) : Before(pointer[x], y)
      /\ Cluster(Known, links, x) = {y \in Known : pointer[y] = pointer[x]}
  BY <1>1, PointerIsOfCluster
<1>3. Together(x) = Cluster(Known, links, x)
  BY <1>2 DEF Together
<1> QED BY <1>1, <1>2, <1>3

-----------------------------------------------------------------------------
(* The theorems                                                            *)

\* resolve_clusters makes one cluster of each component of the links, unless two
\* records of a provider are in it; those never share a canonical pointer.
THEOREM ClustersAreOfLinks == Spec => []ClustersFollowLinks
<1>1. ASSUME ClustersInv, NEW x \in Known
      PROVE  LET all == Component(Known, links, x)
             IN  /\ Together(x) \subseteq all /\ (~Conflicted(all) => Together(x) = all)
                 /\ ~Conflicted(Together(x))
                 /\ pointer[x] \in Together(x)
                 /\ \A y \in Together(x) : Before(pointer[x], y)
  <2> DEFINE all == Component(Known, links, x)
  <2>1. /\ Known \in SUBSET Record /\ Weighted(links, Known)
        /\ Together(x) = Cluster(Known, links, x)
        /\ pointer[x] \in Together(x)
        /\ \A y \in Together(x) : Before(pointer[x], y)
    BY <1>1, TogetherIsCluster
  <2>2. Together(x) \subseteq all /\ all \subseteq Known
    BY <2>1, ClusterIsOfComponent
  <2>3. ~Conflicted(all) => Together(x) = all
    BY <2>1 DEF Cluster
  <2>4. ~Conflicted(Together(x))
    <3>1. \A y, z \in Together(x) : y.provider = z.provider => y = z
      BY <2>1, ClusterIsApart
    <3>2. Together(x) \in SUBSET Record
      BY <2>1, <2>2
    <3> QED BY <3>1, <3>2, ConflictIsTwice
  <2> QED BY <2>1, <2>2, <2>3, <2>4
<1>2. ClustersInv => ClustersFollowLinks
  BY <1>1 DEF ClustersFollowLinks
<1> QED BY <1>2, InvHolds, PTL

\* _split passes over a stronger anchor only when that anchor holds another
\* record of the same provider.
THEOREM AnchorsArePassedWhenTaken == Spec => []PassedOverWhenTaken
<1>1. ASSUME ClustersInv, NEW x \in Known, Conflicted(Component(Known, links, x)),
             x \notin Anchors(Component(Known, links, x)),
             NEW b \in Anchors(Component(Known, links, x)) \ Together(x)
      PROVE  \/ \E y \in Together(b) : y # x /\ y.provider = x.provider
             \/ \E a \in Anchors(Component(Known, links, x)) \cap Together(x) :
                    Confidence(links, x, a) >= Confidence(links, x, b)
  <2> DEFINE all == Component(Known, links, x)
             place == Placed(links, all)
             room == Anchors(all) \ {place[y] : y \in Turn(links, all, x)}
  <2>1. Known \in SUBSET Record /\ Weighted(links, Known) /\ \A y \in Known : Together(y) = Cluster(Known, links, y)
    BY <1>1, TogetherIsCluster
  <2>2. x \in all /\ all \in SUBSET Record /\ all \subseteq Known
    BY <2>1, ClusterIsOfComponent
  <2>3. \A y \in all : Component(Known, links, y) = all
    BY <2>1, SameComponent DEF Weighted
  <2>4. Anchors(all) \subseteq all
    BY DEF Anchors, Of
  <2> HIDE DEF all
  <2>5. ASSUME NEW y \in all PROVE Together(y) = {z \in all : place[z] = place[y]}
    <3>1. Conflicted(Component(Known, links, y))
      BY <1>1, <2>3 DEF all
    <3> QED BY <2>1, <2>2, <2>3, <3>1 DEF Cluster, PlacedWith
  <2>6. \A a \in Anchors(all) : place[a] = a
    BY <2>1, <2>2, <2>4, PlacedEach
  <2>7. \/ room = {} /\ place[x] = x
        \/ place[x] \in room /\ \A r \in room : Better(links, x, place[x], r)
    BY <1>1, <2>1, <2>2, ChoiceIsAnchor DEF all
  <2>8. b \in Anchors(all) /\ b \in all
    BY <2>4 DEF all
  <2>9. Turn(links, all, x) \subseteq all /\ \A y \in Turn(links, all, x) : y # x /\ y.provider = x.provider
    BY <1>1, <2>2, TurnIsOfOthers DEF all
  <2>10. \A r, s : Better(links, x, r, s) => Confidence(links, x, r) >= Confidence(links, x, s)
    <3>1. \A r : Confidence(links, x, r) \in Nat
      BY <2>1, ConfidenceIsBounded
    <3> QED BY <3>1 DEF Better
  <2> HIDE DEF place
  <2>11. CASE b \in room
    <3>1. place[x] \in Anchors(all) /\ place[x] \in all /\ Better(links, x, place[x], b)
      BY <2>4, <2>7, <2>11
    <3>2. place[x] \in Together(x)
      BY <2>2, <2>5, <2>6, <3>1
    <3> QED BY <2>10, <3>1, <3>2 DEF all
  <2>12. CASE b \notin room
    <3>1. PICK y \in Turn(links, all, x) : b = place[y]
      BY <2>8, <2>12
    <3>2. y \in Together(b)
      BY <2>5, <2>6, <2>8, <2>9, <3>1
    <3> QED BY <2>9, <3>2
  <2> QED BY <2>11, <2>12
<1>2. ClustersInv => PassedOverWhenTaken
  BY <1>1 DEF PassedOverWhenTaken
<1> QED BY <1>2, InvHolds, PTL

\* The links of a component decide its clusters.
LEMMA SamePlaces ==
    ASSUME NEW graph, NEW records, Weighted(graph, records),
           NEW graph2, NEW records2, Weighted(graph2, records2),
           NEW members \in SUBSET Record,
           \A x, y \in members : Confidence(graph, x, y) = Confidence(graph2, x, y)
    PROVE  Placed(graph, members) = Placed(graph2, members)
<1> DEFINE place == Placed(graph, members)
<1>1. Anchors(members) \subseteq members
  BY DEF Anchors, Of
<1>2. ASSUME NEW x \in members
      PROVE  Strongest(graph, x, Anchors(members)) = Strongest(graph2, x, Anchors(members))
  <2>1. \A a \in Anchors(members) : Confidence(graph, x, a) = Confidence(graph2, x, a)
    BY <1>1
  <2>2. {Confidence(graph, x, a) : a \in Anchors(members)} = {Confidence(graph2, x, a) : a \in Anchors(members)}
    BY <2>1
  <2>3. \A c : (\A a \in Anchors(members) : Confidence(graph, x, a) <= c)
                 <=> (\A a \in Anchors(members) : Confidence(graph2, x, a) <= c)
    BY <2>1
  <2> QED BY <2>2, <2>3, Zenon DEF Strongest
<1>3. ASSUME NEW x \in members PROVE Turn(graph, members, x) = Turn(graph2, members, x)
  <2>1. Of(members, x.provider) \subseteq members
    BY DEF Of
  <2> QED BY <1>2, <2>1 DEF Turn, Earlier
<1>4. ASSUME NEW x \in members, NEW room \in SUBSET members
      PROVE  Join(graph, room, x) = Join(graph2, room, x)
  <2>1. \A a, b \in room : Better(graph, x, a, b) <=> Better(graph2, x, a, b)
    BY DEF Better
  <2>2. \A a \in room : (\A b \in room : Better(graph, x, a, b)) <=> (\A b \in room : Better(graph2, x, a, b))
    BY <2>1
  <2> DEFINE best(g) == CHOOSE a \in room : \A b \in room : Better(g, x, a, b)
  <2>3. best(graph) = best(graph2)
    BY <2>2, Zenon
  <2>4. Join(graph, room, x) = IF room = {} THEN x ELSE best(graph)
    BY Zenon DEF Join
  <2>5. Join(graph2, room, x) = IF room = {} THEN x ELSE best(graph2)
    BY Zenon DEF Join
  <2> HIDE DEF best
  <2> QED BY <2>3, <2>4, <2>5
<1>5. Placement(graph, members, place)
  BY PlacedIsPlacement
<1> HIDE DEF place
<1>6. ASSUME NEW x \in members PROVE Choice(graph, members, place, x) = Choice(graph2, members, place, x)
  <2> DEFINE room == Anchors(members) \ {place[y] : y \in Turn(graph, members, x)}
  <2>1. room \in SUBSET members
    BY <1>1
  <2>2. Choice(graph, members, place, x) = Join(graph, room, x)
    BY DEF Choice
  <2>3. Choice(graph2, members, place, x) = Join(graph2, room, x)
    BY <1>3 DEF Choice
  <2> HIDE DEF room
  <2> QED BY <1>4, <2>1, <2>2, <2>3
<1>7. Placement(graph2, members, place)
  BY <1>5, <1>6 DEF Placement
<1>8. \A f : Placement(graph2, members, f) => f = Placed(graph2, members)
  BY PlacedIsPlacement
<1> QED BY <1>7, <1>8 DEF place

\* A pass that finds a component with the records and the links of the last one
\* leaves its pointers where they are: links.py logs no move of it.
THEOREM UntouchedComponentsStay == Spec => UntouchedStays
<1>1. ASSUME ClustersInv, ClustersInv', NEW x \in Known \cap Known',
             Component(Known, links, x) = Component(Known', links', x),
             \A p \in PairsOf(Component(Known, links, x)) : p \in DOMAIN links \cup DOMAIN links' =>
                    p \in DOMAIN links \cap DOMAIN links' /\ links[p] = links'[p]
      PROVE  pointer'[x] = pointer[x]
  <2> DEFINE all == Component(Known, links, x)
  <2>1. /\ Known \in SUBSET Record /\ Weighted(links, Known) /\ pointer = Pointers(Known, links)
        /\ DOMAIN links \subseteq PairsOf(Known)
    BY <1>1 DEF ClustersInv
  <2>2. /\ Known' \in SUBSET Record /\ Weighted(links', Known') /\ pointer' = Pointers(Known', links')
        /\ DOMAIN links' \subseteq PairsOf(Known')
    BY <1>1 DEF ClustersInv, Weighted, PairsOf, Pointers, Conflicted, ProvidersOf
  <2>3. all \in SUBSET Record
    BY <2>1, ClusterIsOfComponent
  <2>4. ASSUME NEW y \in all, NEW z \in all PROVE Confidence(links, y, z) = Confidence(links', y, z)
    <3>1. {y, z} \in DOMAIN links \cup DOMAIN links' => {y, z} \in PairsOf(all)
      <4> HIDE DEF all
      <4> QED BY <2>1, <2>2 DEF PairsOf
    <3> QED BY <1>1, <3>1 DEF Confidence
  <2>5. Placed(links, all) = Placed(links', all)
    <3> HIDE DEF all
    <3> QED BY <2>1, <2>2, <2>3, <2>4, SamePlaces
  <2>6. Cluster(Known, links, x) = Cluster(Known', links', x)
    BY <1>1, <2>5 DEF Cluster, PlacedWith
  <2>7. pointer[x] = Canonical(Cluster(Known, links, x)) /\ pointer'[x] = Canonical(Cluster(Known', links', x))
    BY <2>1, <2>2, PointersAre
  <2> QED BY <2>6, <2>7
<1>2. ClustersInv /\ ClustersInv' => [\A x \in Known \cap Known' :
        LET all == Component(Known, links, x)
        IN  /\ all = Component(Known', links', x)
            /\ \A p \in PairsOf(all) : p \in DOMAIN links \cup DOMAIN links' =>
                    p \in DOMAIN links \cap DOMAIN links' /\ links[p] = links'[p]
            => pointer'[x] = pointer[x]]_vars
  BY <1>1
<1> QED BY <1>2, InvHolds, PTL DEF UntouchedStays

\* _move_reason tells the truth: a record that "joined" was not in the cluster
\* before, and "changed", the reason of the last resort, is never logged.
THEOREM MovesAreTold == Spec => MovesTellTrue
<1>1. ASSUME ClustersInv, ClustersInv', NEW x \in Known \cap Known', pointer'[x] # pointer[x]
      PROVE  LET reason == MoveReason(pointer[x], pointer'[x], x)
             IN  /\ reason # "changed"
                 /\ reason = "joined" => pointer'[x] \notin Together(x)
  <2> DEFINE old == pointer[x]
             new == pointer'[x]
             kept == old \in DOMAIN pointer' /\ pointer'[old] = new
  <2>1. /\ Known \in SUBSET Record /\ Weighted(links, Known)
        /\ Together(x) = Cluster(Known, links, x)
        /\ old \in Together(x) /\ \A y \in Together(x) : Before(old, y)
    BY <1>1, TogetherIsCluster
  <2>2. Together(x) \in SUBSET Record
    BY <2>1 DEF Together
  <2>3. Known' \in SUBSET Record /\ Weighted(links', Known') /\ pointer' = Pointers(Known', links')
    BY <1>1 DEF ClustersInv, Weighted
  <2> DEFINE c == Cluster(Known', links', x)
  <2>4. new \in c /\ (\A y \in c : Before(new, y)) /\ c = {y \in Known' : pointer'[y] = pointer'[x]}
    BY <2>3, PointerIsOfCluster
  <2>5. c \in SUBSET Record
    BY <2>3, <2>4
  <2>6. \A y, z \in c : y.provider = z.provider => y = z
    BY <2>3, ClusterIsApart
  <2>7. old \in Record /\ new \in Record /\ old.provider \in Nat /\ new.provider \in Nat
    <3>1. old \in Record /\ new \in Record
      BY <2>1, <2>2, <2>4, <2>5
    <3> QED BY <3>1, ClustersConstants
  <2> HIDE DEF c
  <2>8. kept => new.provider < old.provider
    <3>1. kept => old \in c /\ old # new
      BY <1>1, <2>4 DEF Known
    <3>2. kept => Before(new, old) /\ new.provider # old.provider
      BY <2>4, <2>6, <3>1
    <3> HIDE DEF kept, old, new
    <3> QED BY <3>2 DEF Before
  <2>9. new.provider < old.provider => new \notin Together(x)
    <3>1. new \in Together(x) => Before(old, new)
      BY <2>1
    <3> HIDE DEF kept, old, new
    <3> QED BY <2>7, <3>1 DEF Before
  <2>10. MoveReason(old, new, x) = IF ~kept THEN "left"
                                  ELSE IF new.provider < old.provider THEN "joined" ELSE "changed"
    BY DEF MoveReason
  <2> HIDE DEF kept, old, new
  <2>11. /\ MoveReason(old, new, x) # "changed"
         /\ MoveReason(old, new, x) = "joined" => new \notin Together(x)
    BY <2>8, <2>9, <2>10
  <2> QED BY <2>11 DEF old, new
<1>2. ClustersInv /\ ClustersInv' => [\A x \in Known \cap Known' : pointer'[x] # pointer[x] =>
        LET reason == MoveReason(pointer[x], pointer'[x], x)
        IN  /\ reason # "changed"
            /\ reason = "joined" => pointer'[x] \notin Together(x)]_vars
  BY <1>1
<1> QED BY <1>2, InvHolds, PTL DEF MovesTellTrue
=============================================================================
