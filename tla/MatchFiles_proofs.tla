------------------------- MODULE MatchFiles_proofs -------------------------
(* Proofs about the files of a match, for any number of write ids and      *)
(* versions, and whatever the faults.                                      *)
EXTENDS MatchFiles, FiniteSetTheorems, WellFoundedInduction, TLAPS

-----------------------------------------------------------------------------
(* Least and greatest members of sets of naturals                          *)

LEMMA LessIsWellFounded ==
    IsWellFoundedOn({ss \in Nat \X Nat : ss[1] < ss[2]}, Nat)
BY NatLessThanWellFounded, Zenon DEF OpToRel

LEMMA LeastMember ==
    ASSUME NEW S \in SUBSET Nat, S # {}
    PROVE  \E m \in S : \A n \in S : m <= n
<1> DEFINE R == {ss \in Nat \X Nat : ss[1] < ss[2]}
           T == S
<1>1. T \subseteq Nat /\ T # {}
  OBVIOUS
<1>2. PICK t \in T : \A u \in T : ~ (<<u, t>> \in R)
  <2> HIDE DEF T, R
  <2>1. IsWellFoundedOn(R, Nat)
    BY LessIsWellFounded DEF R
  <2> QED BY <1>1, <2>1, WFMin, Zenon
<1>3. ASSUME NEW u \in S PROVE t <= u
  <2>1. <<u, t>> \in Nat \X Nat /\ ~ (<<u, t>> \in R)
    BY <1>1, <1>2
  <2>2. ~ (u < t)
    BY <2>1
  <2> QED BY <1>1, <2>2
<1> QED BY <1>3

LEMMA GreatestMember ==
    ASSUME NEW N \in Nat, NEW S \in SUBSET (0..N), S # {}
    PROVE  \E m \in S : \A n \in S : n <= m
<1> DEFINE T == {N - x : x \in S}
<1>1. T \in SUBSET Nat /\ T # {}
  <2>1. \A x \in S : N - x \in Nat
    OBVIOUS
  <2> QED BY <2>1, Zenon
<1>2. PICK t \in T : \A u \in T : t <= u
  <2> HIDE DEF T
  <2> QED BY <1>1, LeastMember, Zenon
<1>3. PICK m \in S : t = N - m
  OBVIOUS
<1>4. \A n \in S : t <= N - n
  BY <1>2
<1> QED BY <1>3, <1>4

LEMMA MinIsLeast ==
    ASSUME NEW S \in SUBSET Nat, S # {}
    PROVE  Min(S) \in S
BY LeastMember, Zenon DEF Min

LEMMA MaxIsGreatest ==
    ASSUME NEW N \in Nat, NEW S \in SUBSET (0..N), S # {}
    PROVE  Max(S) \in S /\ \A n \in S : n <= Max(S)
<1>1. \E m \in S : \A n \in S : m >= n
  BY GreatestMember
<1>2. Max(S) \in S /\ \A n \in S : Max(S) >= n
  BY <1>1, Zenon DEF Max
<1> QED BY <1>2

-----------------------------------------------------------------------------
(* Copies and records                                                      *)

LEMMA KeysAreFinite ==
    ASSUME NEW S \in SUBSET Key
    PROVE  IsFiniteSet(S) /\ Cardinality(S) \in Nat
<1> DEFINE Roots == {"lake", "restricted"}
           Pairs == Roots \X (1..MaxFile)
           f == [k \in Key |-> <<k.root, k.id>>]
<1>1. IsFiniteSet(Roots)
  <2>1. Roots = {"lake"} \cup {"restricted"}
    OBVIOUS
  <2>2. IsFiniteSet({"lake"}) /\ IsFiniteSet({"restricted"})
    BY FS_Singleton, Zenon
  <2> HIDE DEF Roots
  <2> QED BY <2>1, <2>2, FS_Union
<1>2. IsFiniteSet(1..MaxFile)
  BY FS_Interval, MatchFilesConstants
<1>3. IsFiniteSet(Pairs)
  BY <1>1, <1>2, FS_Product
<1>4. f \in Injection(Key, Pairs)
  <2>1. f \in [Key -> Pairs]
    BY DEF Key
  <2>2. \A k, l \in DOMAIN f : f[k] = f[l] => k = l
    <3>1. SUFFICES ASSUME NEW k \in Key, NEW l \in Key, f[k] = f[l] PROVE k = l
      BY Zenon
    <3>2. k.root = l.root /\ k.id = l.id
      BY <3>1
    <3> QED BY <3>2 DEF Key
  <2>3. IsInjective(f)
    BY <2>2, Zenon DEF IsInjective
  <2> QED BY <2>1, <2>3, Zenon DEF Injection
<1>5. IsFiniteSet(Key)
  BY <1>3, <1>4, FS_Injection
<1>6. IsFiniteSet(S)
  BY <1>5, FS_Subset
<1> QED BY <1>6, FS_CardinalityType

\* The copies are in their root, and their write ids new.
LEMMA CopiesAreNew ==
    ASSUME fresh \in 1..(MaxFile + 1),
           NEW root \in {"lake", "restricted"},
           NEW olds \in SUBSET Key, MayCopy(olds)
    PROVE  /\ fresh + Cardinality(olds) \in 1..(MaxFile + 1)
           /\ fresh <= fresh + Cardinality(olds)
           /\ DOMAIN Copies(olds, root) = olds
           /\ \A k \in olds :
                /\ Copies(olds, root)[k] \in In(root)
                /\ fresh <= Copies(olds, root)[k].id
                /\ Copies(olds, root)[k].id < fresh + Cardinality(olds)
           /\ Image(Copies(olds, root)) \subseteq In(root)
           /\ \A k \in Image(Copies(olds, root)) :
                fresh <= k.id /\ k.id < fresh + Cardinality(olds)
<1>1. IsFiniteSet(olds) /\ Cardinality(olds) \in Nat
  BY KeysAreFinite
<1>2. ASSUME NEW k \in olds
      PROVE  /\ Copies(olds, root)[k] \in In(root)
             /\ fresh <= Copies(olds, root)[k].id
             /\ Copies(olds, root)[k].id < fresh + Cardinality(olds)
  <2> DEFINE S == {o \in olds : o.id < k.id}
  <2>1. k.id \in Nat
    BY DEF Key
  <2>2. S \in SUBSET olds /\ S # olds
    BY <2>1
  <2>3. Cardinality(S) <= Cardinality(olds) /\ Cardinality(S) # Cardinality(olds)
    BY <1>1, <2>2, FS_Subset
  <2>4. Cardinality(S) \in Nat
    BY <2>2, KeysAreFinite
  <2>5. Copies(olds, root)[k] = [root |-> root, id |-> fresh + Cardinality(S)]
    BY DEF Copies
  <2> HIDE DEF S
  <2> QED BY <1>1, <2>3, <2>4, <2>5, MatchFilesConstants DEF In, Key, MayCopy
<1>3. DOMAIN Copies(olds, root) = olds
  BY DEF Copies
<1>4. fresh + Cardinality(olds) \in 1..(MaxFile + 1)
  BY <1>1, MatchFilesConstants DEF MayCopy
<1> QED BY <1>1, <1>2, <1>3, <1>4 DEF Image

\* The old keys of to_private records are all that is moved away.
LEMMA MovedIsUnion ==
    ASSUME NEW moves, NEW new
    PROVE  /\ Moved(moves \cup Records("to_public", new)) = Moved(moves)
           /\ Moved(moves \cup Records("to_private", new)) = Moved(moves) \cup DOMAIN new
<1>1. ASSUME NEW dir
      PROVE  Moved(moves \cup Records(dir, new)) =
                 Moved(moves) \cup (IF dir = "to_private" THEN DOMAIN new ELSE {})
  <2>1. \A k \in DOMAIN new : \E r \in Records(dir, new) : r.old = k /\ r.dir = dir
    <3>1. ASSUME NEW k \in DOMAIN new
          PROVE  [dir |-> dir, old |-> k, new |-> new[k], at |-> fresh] \in Records(dir, new)
      BY Zenon DEF Records
    <3> QED BY <3>1
  <2>2. \A r \in Records(dir, new) : r.old \in DOMAIN new /\ r.dir = dir
    BY DEF Records
  <2> QED BY <2>1, <2>2 DEF Moved, ToPrivate
<1> QED BY <1>1

LEMMA MovedIsOfLake ==
    ASSUME NEW moves \in SUBSET MoveRecord
    PROVE  Moved(moves) \subseteq In("lake")
BY DEF Moved, ToPrivate, MoveRecord

\* Keys that are not moved away, and copies in the restricted root.
LEMMA ReplacedIsMovedAway ==
    ASSUME NEW moves \in SUBSET MoveRecord, NEW keys \in SUBSET Key,
           NEW records \in SUBSET ToPrivate(moves)
    PROVE  /\ Replaced(keys, moves, records) \subseteq
                 (keys \ Moved(moves)) \cup In("restricted") \cup {NoKey}
           /\ Replaced(keys, moves, records) \subseteq Key \cup {NoKey}
BY DEF Replaced, ToPrivate, MoveRecord, In

-----------------------------------------------------------------------------
(* The inductive invariant                                                 *)

\* A catalog made when n was the next write id: it registers no key that was
\* moved away, no lake key of a private match, and names no key still to come.
Sound(c, n) ==
    /\ c \in CatalogType
    /\ Moved(c.moves) \cap c.head = {}
    /\ c.flag = "private" => InRoot("lake", c.head) = {}
    /\ \A k \in InRoot("lake", Tracked(c)) \cup Moved(c.moves) : k.id < n

CatalogsSound ==
    /\ Sound(cat, fresh)
    /\ \A s \in Stored : Sound(version[s].cat, fresh)

\* The version that CURRENT names is never in a list of versions to delete.
CurrentStays ==
    /\ version[current] # Missing
    /\ pc \in {"versions", "drop"} => current \notin pruning
    /\ pc = "restore" => pruning \subseteq Stored

LakeKeysAreOld == \A k \in InRoot("lake", objects) : k.id < fresh

MatchFilesInv == TypeOK /\ CatalogsSound /\ CurrentStays /\ LakeKeysAreOld

LEMMA OlderIsSound ==
    ASSUME NEW c, NEW m \in Nat, NEW n \in Nat, m <= n, Sound(c, m)
    PROVE  Sound(c, n)
<1>1. Tracked(c) \subseteq Key
  BY DEF Sound, CatalogType, Tracked
<1>2. Moved(c.moves) \subseteq Key
  BY MovedIsOfLake DEF Sound, CatalogType, In
<1>3. \A k \in InRoot("lake", Tracked(c)) \cup Moved(c.moves) : k.id \in Nat /\ k.id < m
  BY <1>1, <1>2 DEF Sound, InRoot, Key
<1>4. \A k \in InRoot("lake", Tracked(c)) \cup Moved(c.moves) : k.id < n
  BY <1>3
<1> QED BY <1>4 DEF Sound

LEMMA EmptyIsSound ==
    ASSUME NEW n \in Nat
    PROVE  Sound(NoCat, n)
<1>1. NoCat \in CatalogType
  BY DEF NoCat, CatalogType
<1>2. Moved(NoCat.moves) = {} /\ Tracked(NoCat) = {} /\ NoCat.flag = "public"
  BY DEF Moved, ToPrivate, NoCat, Tracked
<1> QED BY <1>1, <1>2 DEF Sound, InRoot, NoCat

\* A stored version's catalog is sound and CURRENT is stored.
LEMMA StoredIsSound ==
    ASSUME MatchFilesInv
    PROVE  /\ current \in Stored /\ Sound(version[current].cat, fresh)
           /\ \A s \in Stored : /\ version[s] \in VersionType
                                /\ Sound(version[s].cat, fresh)
           /\ Named({}) \subseteq Key
           /\ \A k \in InRoot("lake", Named({})) : k.id < fresh
           /\ fresh \in Nat /\ started \in Nat
<1>1. current \in Stored
  BY DEF MatchFilesInv, TypeOK, CurrentStays, Stored
<1>2. \A s \in Stored : version[s] \in VersionType
  BY DEF MatchFilesInv, TypeOK, Stored
<1>3. \A s \in Stored : Sound(version[s].cat, fresh)
  BY DEF MatchFilesInv, CatalogsSound
<1>4. \A k \in Named({}) : \E s \in Stored : k \in version[s].cat.head
  BY DEF Named
<1>5. \A s \in Stored : version[s].cat.head \subseteq Key
                          /\ \A k \in InRoot("lake", version[s].cat.head) : k.id < fresh
  BY <1>3 DEF Sound, CatalogType, Tracked, InRoot
<1>6. Named({}) \subseteq Key /\ \A k \in InRoot("lake", Named({})) : k.id < fresh
  BY <1>4, <1>5 DEF InRoot
<1> QED BY <1>1, <1>2, <1>3, <1>6 DEF MatchFilesInv, TypeOK

\* Steps that store no version.
LEMMA SameVersions ==
    ASSUME MatchFilesInv, version' = version, fresh' \in Nat, fresh <= fresh'
    PROVE  /\ Stored' = Stored
           /\ \A s \in Stored' : Sound(version'[s].cat, fresh')
<1>1. Stored' = Stored
  BY DEF Stored
<1>2. ASSUME NEW s \in Stored PROVE Sound(version[s].cat, fresh')
  BY StoredIsSound, OlderIsSound
<1> QED BY <1>1, <1>2

LEMMA NextSeqIsNew ==
    ASSUME MatchFilesInv
    PROVE  /\ NextSeq \in Nat /\ NextSeq - 1 \in Seqs /\ NextSeq \notin Stored
           /\ \A s \in Stored : s < NextSeq
<1> DEFINE S == Stored \cup {current}
<1>1. MaxSeq \in Nat /\ S \in SUBSET (0..MaxSeq) /\ S # {} /\ S \subseteq Seqs
  BY MatchFilesConstants DEF MatchFilesInv, TypeOK, Stored, Seqs
<1>2. Max(S) \in S /\ \A n \in S : n <= Max(S)
  BY <1>1, MaxIsGreatest
<1> QED BY <1>1, <1>2, MatchFilesConstants DEF NextSeq, Seqs

\* A commit's version.
LEMMA StoreIsSound ==
    ASSUME MatchFilesInv, Store, fresh' = fresh
    PROVE  /\ version' \in [Seqs -> VersionType \cup {Missing}]
           /\ NextSeq \in Seqs /\ Stored' = Stored \cup {NextSeq}
           /\ NextSeq \notin Stored
           /\ version'[current] # Missing /\ version'[NextSeq] # Missing
           /\ \A s \in Stored' : Sound(version'[s].cat, fresh')
<1> DEFINE v == [kind |-> Kind, cat |-> cat]
<1>1. v \in VersionType /\ v # Missing
  BY MatchFilesConstants DEF VersionType, Kind, MatchFilesInv, TypeOK
<1>2. NextSeq \in Seqs /\ version' = [version EXCEPT ![NextSeq] = v]
  BY DEF Store
<1>3. NextSeq \notin Stored
  BY NextSeqIsNew
<1>4. version \in [Seqs -> VersionType \cup {Missing}] /\ current \in Stored
  BY StoredIsSound DEF MatchFilesInv, TypeOK
<1>5. /\ \A s \in Seqs : version'[s] = IF s = NextSeq THEN v ELSE version[s]
      /\ version' \in [Seqs -> VersionType \cup {Missing}]
  BY <1>1, <1>2, <1>4
<1>6. Stored' = Stored \cup {NextSeq}
  BY <1>1, <1>2, <1>5 DEF Stored
<1>7. \A s \in Stored' : version'[s].cat = IF s = NextSeq THEN cat ELSE version[s].cat
  BY <1>5, <1>6 DEF Stored
<1>8. Sound(cat, fresh)
  BY DEF MatchFilesInv, CatalogsSound
<1>9. \A s \in Stored' : Sound(version'[s].cat, fresh')
  BY <1>3, <1>6, <1>7, <1>8, StoredIsSound
<1> HIDE DEF v
<1> QED BY <1>1, <1>2, <1>3, <1>4, <1>5, <1>6, <1>9 DEF Stored

-----------------------------------------------------------------------------
(* Steps                                                                   *)

LEMMA StepIsSound ==
    ASSUME MatchFilesInv, TypeOK', LakeKeysAreOld', UNCHANGED <<version, current>>,
           fresh <= fresh', Sound(cat', fresh'),
           pc' \in {"versions", "drop"} => current \notin pruning',
           pc' = "restore" => pruning' \subseteq Stored
    PROVE  MatchFilesInv'
<1>1. fresh' \in Nat
  BY DEF TypeOK
<1>2. Stored' = Stored /\ \A s \in Stored' : Sound(version'[s].cat, fresh')
  BY <1>1, SameVersions
<1>3. CatalogsSound'
  BY <1>2 DEF CatalogsSound
<1>4. CurrentStays'
  BY <1>2 DEF MatchFilesInv, CurrentStays
<1> QED BY <1>3, <1>4 DEF MatchFilesInv

\* A commit that CURRENT names.
LEMMA PublishIsSound ==
    ASSUME MatchFilesInv, Publish, TypeOK', UNCHANGED <<objects, fresh, cat>>,
           pc' \in {"versions", "drop"} => current' \notin pruning',
           pc' # "restore"
    PROVE  MatchFilesInv'
<1>1. Store /\ current' = NextSeq
  BY DEF Publish
<1>2. version'[current'] # Missing /\ \A s \in Stored' : Sound(version'[s].cat, fresh')
  BY <1>1, StoreIsSound
<1>3. CatalogsSound'
  BY <1>2 DEF MatchFilesInv, CatalogsSound
<1>4. CurrentStays' /\ LakeKeysAreOld'
  BY <1>2 DEF MatchFilesInv, CurrentStays, LakeKeysAreOld
<1> QED BY <1>3, <1>4 DEF MatchFilesInv

\* Steps on the local variables that leave the working copy alone.
LEMMA WalkIsSound ==
    ASSUME MatchFilesInv,
           Settled \/ Finished \/ VersionsDeleted \/ LateDelete
             \/ (\E at \in {"settle", "finish", "scheduled", "sweep"} : DeleteKey(at))
    PROVE  MatchFilesInv'
<1>1. /\ UNCHANGED <<version, current, fresh, cat, started, pruning, kept, was>>
      /\ objects' \subseteq objects /\ late' \subseteq late /\ todo' \subseteq todo
      /\ pc' \in PC
      /\ pc' \in {"versions", "drop", "restore"} => pc' = pc
  BY DEF Settled, Finished, VersionsDeleted, LateDelete, DeleteKey, Move, local, PC,
         MatchFilesInv, TypeOK
<1>2. TypeOK'
  BY <1>1 DEF MatchFilesInv, TypeOK
<1>3. LakeKeysAreOld' /\ Sound(cat', fresh') /\ fresh <= fresh'
  BY <1>1 DEF MatchFilesInv, LakeKeysAreOld, CatalogsSound, InRoot, TypeOK
<1> QED BY <1>1, <1>2, <1>3, StepIsSound DEF MatchFilesInv, CurrentStays

LEMMA RestIsTyped ==
    ASSUME Rest, fresh \in Nat
    PROVE  /\ pc' = "idle" /\ pc' \in PC /\ cat' \in CatalogType /\ Sound(cat', fresh)
           /\ started' \in 1..(MaxFile + 1)
           /\ todo' \subseteq Key /\ pruning' \subseteq Seqs /\ kept' \subseteq Key
<1>1. Sound(NoCat, fresh)
  BY EmptyIsSound
<1> QED BY <1>1, MatchFilesConstants DEF Rest, Sound, PC

LEMMA LoseIsSound ==
    ASSUME MatchFilesInv, Lose \/ Release
    PROVE  MatchFilesInv'
<1>1. Rest /\ UNCHANGED <<objects, version, current, fresh, was>>
  BY DEF Lose, Release
<1>2. late' \subseteq Key
  BY DEF Lose, Release, InFlight, MatchFilesInv, TypeOK
<1>3. TypeOK' /\ LakeKeysAreOld' /\ fresh <= fresh'
  BY <1>1, <1>2, RestIsTyped, StoredIsSound DEF MatchFilesInv, TypeOK, LakeKeysAreOld
<1> QED BY <1>1, <1>3, RestIsTyped, StoredIsSound, StepIsSound

LEMMA LoseCommitIsSound ==
    ASSUME MatchFilesInv, LoseCommit
    PROVE  MatchFilesInv'
<1>1. Rest /\ Store /\ UNCHANGED <<objects, current, fresh, late, was>>
  BY DEF LoseCommit
<1>2. TypeOK'
  BY <1>1, RestIsTyped, StoredIsSound, StoreIsSound DEF MatchFilesInv, TypeOK
<1>3. CatalogsSound'
  BY <1>1, RestIsTyped, StoredIsSound, StoreIsSound DEF CatalogsSound
<1>4. CurrentStays' /\ LakeKeysAreOld'
  BY <1>1, RestIsTyped, StoredIsSound, StoreIsSound
     DEF MatchFilesInv, CurrentStays, LakeKeysAreOld
<1> QED BY <1>2, <1>3, <1>4 DEF MatchFilesInv

LEMMA StartRunIsSound ==
    ASSUME MatchFilesInv, StartRun
    PROVE  MatchFilesInv'
<1>1. /\ pc' = "settle" /\ cat' = version[current].cat /\ started' = fresh
      /\ todo' \subseteq objects
      /\ UNCHANGED <<objects, version, current, fresh, pruning, kept, late, was>>
  BY DEF StartRun, Move, Leftovers
<1>2. Sound(cat', fresh') /\ fresh <= fresh'
  BY <1>1, StoredIsSound
<1>3. TypeOK' /\ LakeKeysAreOld'
  BY <1>1, <1>2 DEF MatchFilesInv, TypeOK, LakeKeysAreOld, PC, Sound
<1> QED BY <1>1, <1>2, <1>3, StepIsSound

LEMMA DeleteVersionIsSound ==
    ASSUME MatchFilesInv, NEW at \in {"versions", "drop"}, DeleteVersion(at)
    PROVE  MatchFilesInv'
<1> DEFINE m == Min(pruning)
<1>1. m \in pruning
  BY MinIsLeast DEF DeleteVersion, MatchFilesInv, TypeOK, Seqs
<1>2. m # current /\ m \in Seqs
  BY <1>1 DEF DeleteVersion, MatchFilesInv, CurrentStays, TypeOK
<1>3. /\ version' = [version EXCEPT ![m] = Missing] /\ pruning' \subseteq pruning
      /\ UNCHANGED <<objects, current, fresh, pc, cat, started, todo, kept, late, was>>
  BY DEF DeleteVersion
<1> HIDE DEF m
<1>4. TypeOK'
  BY <1>2, <1>3 DEF MatchFilesInv, TypeOK
<1>5. Stored' \subseteq Stored /\ \A s \in Stored' : version'[s] = version[s]
  BY <1>2, <1>3 DEF MatchFilesInv, TypeOK, Stored
<1>6. CatalogsSound'
  BY <1>3, <1>5 DEF MatchFilesInv, CatalogsSound
<1>7. CurrentStays'
  <2>1. version'[current] = version[current]
    BY <1>2, <1>3 DEF MatchFilesInv, TypeOK
  <2>2. pc' \in {"versions", "drop"}
    BY <1>3 DEF DeleteVersion
  <2> QED BY <1>3, <2>1, <2>2 DEF MatchFilesInv, CurrentStays
<1> QED BY <1>3, <1>4, <1>6, <1>7 DEF MatchFilesInv, LakeKeysAreOld

LEMMA PublishesAreSound ==
    ASSUME MatchFilesInv, PublishMove \/ Checkpoint \/ RestoreCommit
    PROVE  MatchFilesInv'
<1>1. Publish /\ UNCHANGED <<objects, fresh, local, late>>
  BY DEF PublishMove, Checkpoint, RestoreCommit
<1>2. Store /\ current' = NextSeq /\ was' = was \cup {NextSeq}
  BY <1>1 DEF Publish
<1>3. /\ pc' \in PC /\ pc' # "restore" /\ pc' # "versions"
      /\ pc' = "drop" => pc = "restore"
  BY DEF PublishMove, Checkpoint, RestoreCommit, Move, PC
<1>4. TypeOK'
  BY <1>1, <1>2, <1>3, StoreIsSound DEF MatchFilesInv, TypeOK, local
<1>5. pc' = "drop" => current' \notin pruning'
  BY <1>1, <1>2, <1>3, StoreIsSound DEF MatchFilesInv, CurrentStays, local
<1> QED BY <1>1, <1>3, <1>4, <1>5, PublishIsSound DEF local

LEMMA RunEndIsSound ==
    ASSUME MatchFilesInv, RunEnd
    PROVE  MatchFilesInv'
<1>1. Publish /\ pc' = "drop" /\ UNCHANGED <<objects, fresh, cat, started, todo, kept, late>>
  BY DEF RunEnd, Move
<1>2. Store /\ current' = NextSeq /\ was' = was \cup {NextSeq}
  BY <1>1 DEF Publish
<1>3. current' \notin pruning' /\ pruning' \subseteq Seqs
  BY DEF RunEnd, Outdated
<1>4. TypeOK'
  BY <1>1, <1>2, <1>3, StoreIsSound DEF MatchFilesInv, TypeOK, PC
<1> QED BY <1>1, <1>3, <1>4, PublishIsSound

LEMMA PublishMoveFailsIsSound ==
    ASSUME MatchFilesInv, PublishMoveFails
    PROVE  MatchFilesInv'
<1>1. /\ pc' = "work" /\ todo' = {}
      /\ UNCHANGED <<objects, current, fresh, cat, started, pruning, kept, late, was>>
  BY DEF PublishMoveFails, Move
<1>2. CASE Store
  <2>1. TypeOK'
    BY <1>1, <1>2, StoreIsSound DEF MatchFilesInv, TypeOK, PC
  <2>2. CatalogsSound' /\ CurrentStays' /\ LakeKeysAreOld'
    BY <1>1, <1>2, StoreIsSound
       DEF MatchFilesInv, CatalogsSound, CurrentStays, LakeKeysAreOld
  <2> QED BY <2>1, <2>2 DEF MatchFilesInv
<1>3. CASE UNCHANGED version
  <2>1. TypeOK' /\ LakeKeysAreOld' /\ Sound(cat', fresh') /\ fresh <= fresh'
    BY <1>1, <1>3, StoredIsSound
       DEF MatchFilesInv, CatalogsSound, TypeOK, LakeKeysAreOld, PC
  <2> QED BY <1>1, <1>3, <2>1, StepIsSound
<1> QED BY <1>2, <1>3 DEF PublishMoveFails

-----------------------------------------------------------------------------
(* Steps that make files, move them and release them                       *)

\* The swap, for files that are new or in the restricted root.
LEMMA SwapIsSound ==
    ASSUME NEW c, NEW n \in Nat, NEW m \in Nat, n <= m, Sound(c, n),
           NEW files \in SUBSET Key, NEW flag \in {"public", "private"},
           NEW moves \in SUBSET MoveRecord,
           \A k \in InRoot("lake", files) : n <= k.id /\ k.id < m,
           flag = "private" => InRoot("lake", files) = {},
           flag = "public" => Moved(moves) = Moved(c.moves),
           \A k \in Moved(moves) : k.id < m
    PROVE  Sound([Swap(c, files) EXCEPT !.flag = flag, !.moves = moves], m)
<1> DEFINE d == [Swap(c, files) EXCEPT !.flag = flag, !.moves = moves]
<1>1. /\ c \in CatalogType /\ d \in CatalogType
      /\ d.head = files /\ d.ended = c.ended \cup c.head /\ d.scheduled = c.scheduled
      /\ d.moves = moves /\ d.flag = flag
  BY DEF Sound, CatalogType, Swap
<1>2. \A k \in InRoot("lake", Tracked(d)) \cup Moved(d.moves) : k.id < m
  <2>1. \A k \in InRoot("lake", Tracked(c)) : k.id \in Nat /\ k.id < n
    BY <1>1 DEF Sound, CatalogType, Tracked, InRoot, Key
  <2>2. InRoot("lake", Tracked(d)) \subseteq InRoot("lake", Tracked(c)) \cup InRoot("lake", files)
    BY <1>1 DEF Tracked, InRoot
  <2>3. \A k \in InRoot("lake", Tracked(c)) : k.id < m
    BY <2>1
  <2> QED BY <1>1, <2>2, <2>3
<1>3. Moved(d.moves) \cap d.head = {}
  <2>1. SUFFICES ASSUME NEW k \in Moved(moves), k \in files PROVE FALSE
    BY <1>1
  <2>2. k \in In("lake")
    BY MovedIsOfLake
  <2>3. flag = "public"
    BY <2>1, <2>2 DEF InRoot
  <2>4. k.id < n /\ n <= k.id /\ k.id \in Nat
    BY <2>1, <2>2, <2>3 DEF Sound, InRoot, Key
  <2> QED BY <2>4
<1>4. d.flag = "private" => InRoot("lake", d.head) = {}
  BY <1>1
<1>5. Sound(d, m)
  <2> HIDE DEF d
  <2> QED BY <1>1, <1>2, <1>3, <1>4 DEF Sound
<1> QED BY <1>5

\* New objects whose lake keys have new write ids.
LEMMA NewObjects ==
    ASSUME MatchFilesInv, fresh' \in Nat, fresh <= fresh',
           NEW new \in SUBSET Key, objects' = objects \cup new,
           \A k \in new : k.id < fresh'
    PROVE  LakeKeysAreOld' /\ objects' \subseteq Key
<1>1. \A k \in InRoot("lake", objects) : k.id \in Nat /\ k.id < fresh
  BY DEF MatchFilesInv, TypeOK, LakeKeysAreOld, InRoot, Key
<1>2. \A k \in InRoot("lake", objects) : k.id < fresh'
  BY <1>1, StoredIsSound
<1> QED BY <1>2 DEF LakeKeysAreOld, InRoot, MatchFilesInv, TypeOK

LEMMA WriteIsSound ==
    ASSUME MatchFilesInv, Write
    PROVE  MatchFilesInv'
<1>1. /\ pc = "work" /\ fresh <= MaxFile /\ fresh' = fresh + 1
      /\ UNCHANGED <<version, current, pc, started, todo, pruning, kept, late, was>>
  BY DEF Write
<1>2. fresh \in Nat /\ fresh' \in 1..(MaxFile + 1) /\ fresh <= fresh' /\ fresh' \in Nat
  BY <1>1, MatchFilesConstants DEF MatchFilesInv, TypeOK
<1>3. PICK flag \in {"public", "private"} :
        LET k == [root |-> IF flag = "public" THEN "lake" ELSE "restricted", id |-> fresh]
        IN  /\ objects' = objects \cup {k}
            /\ \/ cat' = [Swap(cat, {k}) EXCEPT !.flag = flag]
               \/ UNCHANGED cat
  BY DEF Write
<1> DEFINE k == [root |-> IF flag = "public" THEN "lake" ELSE "restricted", id |-> fresh]
<1>4. /\ k \in Key /\ k.id = fresh
      /\ k.root = IF flag = "public" THEN "lake" ELSE "restricted"
  BY <1>1, MatchFilesConstants DEF MatchFilesInv, TypeOK, Key
<1>5. /\ objects' = objects \cup {k}
      /\ cat' = [Swap(cat, {k}) EXCEPT !.flag = flag] \/ cat' = cat
  BY <1>3
<1> HIDE DEF k
<1>6. LakeKeysAreOld' /\ objects' \subseteq Key
  <2>1. {k} \in SUBSET Key /\ \A r \in {k} : r.id < fresh'
    BY <1>1, <1>2, <1>4
  <2> QED BY <1>2, <1>5, <2>1, NewObjects
<1>7. Sound(cat, fresh)
  BY DEF MatchFilesInv, CatalogsSound
<1>8. Sound([Swap(cat, {k}) EXCEPT !.flag = flag, !.moves = cat.moves], fresh')
  <2>1. cat.moves \in SUBSET MoveRecord
    BY DEF MatchFilesInv, TypeOK, CatalogType
  <2>2. \A r \in Moved(cat.moves) : r.id \in Nat /\ r.id < fresh
    BY <1>7, <2>1, MovedIsOfLake DEF Sound, In, Key
  <2>3. \A r \in InRoot("lake", {k}) : fresh <= r.id /\ r.id < fresh'
    BY <1>1, <1>2, <1>4 DEF InRoot
  <2>4. flag = "private" => InRoot("lake", {k}) = {}
    BY <1>4 DEF InRoot, In
  <2>5. \A r \in Moved(cat.moves) : r.id < fresh'
    BY <1>1, <1>2, <2>2
  <2> QED BY <1>2, <1>4, <1>7, <2>1, <2>3, <2>4, <2>5, SwapIsSound
<1>9. Sound(cat', fresh')
  <2>1. CASE cat' = cat
    BY <1>2, <1>7, <2>1, OlderIsSound
  <2>2. CASE cat' = [Swap(cat, {k}) EXCEPT !.flag = flag]
    <3>1. [Swap(cat, {k}) EXCEPT !.flag = flag, !.moves = cat.moves] = cat'
      BY <2>2 DEF Swap, MatchFilesInv, TypeOK, CatalogType
    <3> QED BY <1>8, <3>1
  <2> QED BY <1>5, <2>1, <2>2
<1>10. TypeOK'
  BY <1>1, <1>2, <1>6, <1>9 DEF MatchFilesInv, TypeOK, Sound
<1> QED BY <1>1, <1>2, <1>6, <1>9, <1>10, StepIsSound

LEMMA RecordsAreTyped ==
    ASSUME NEW dir \in {"to_private", "to_public"}, NEW new, fresh \in Nat,
           \A k \in DOMAIN new :
               \/ /\ dir = "to_private" /\ k \in In("lake")
                  /\ new[k] \in In("restricted") \cup {NoKey}
               \/ dir = "to_public" /\ k \in In("restricted") /\ new[k] \in In("lake")
    PROVE  Records(dir, new) \in SUBSET MoveRecord
<1>1. ASSUME NEW r \in Records(dir, new) PROVE r \in MoveRecord
  <2>1. PICK k \in DOMAIN new :
            r = [dir |-> dir, old |-> k, new |-> new[k], at |-> fresh]
    BY Zenon DEF Records
  <2> QED BY <2>1 DEF MoveRecord
<1> QED BY <1>1

LEMMA StagePrivateIsSound ==
    ASSUME MatchFilesInv, StagePrivate
    PROVE  MatchFilesInv'
<1> DEFINE new == Copies(ToCopy, "restricted")
           none == [k \in ToForget |-> NoKey]
           files == {new[k] : k \in InRoot("lake", cat.head)}
           moves == cat.moves \cup Records("to_private", new) \cup Records("to_private", none)
<1>1. /\ pc' = "move" /\ MayCopy(ToCopy) /\ todo' = ToCopy \cup ToForget
      /\ objects' = objects \cup Image(new)
      /\ cat' = [Swap(cat, files) EXCEPT !.flag = "private",
                    !.moves = @ \cup Records("to_private", new)
                                \cup Records("to_private", none)]
      /\ fresh' = fresh + Cardinality(ToCopy)
      /\ UNCHANGED <<version, current, started, pruning, kept, late, was>>
  BY Zenon DEF StagePrivate, Move
<1>2. /\ ToCopy \in SUBSET Key /\ ToForget \in SUBSET Key
      /\ ToCopy \subseteq In("lake") /\ ToForget \subseteq In("lake")
      /\ InRoot("lake", cat.head) \subseteq ToCopy
  BY StoredIsSound
     DEF ToCopy, ToForget, InRoot, Tracked, MatchFilesInv, TypeOK, CatalogType
<1>3. \A k \in ToCopy \cup ToForget : k.id < fresh
  <2>1. \A k \in InRoot("lake", Tracked(cat)) \cup InRoot("lake", objects)
                   \cup InRoot("lake", Named({})) : k.id < fresh
    BY StoredIsSound DEF MatchFilesInv, CatalogsSound, LakeKeysAreOld, Sound
  <2>2. ToCopy \cup ToForget \subseteq InRoot("lake", Tracked(cat)) \cup
            InRoot("lake", objects) \cup InRoot("lake", Named({}))
    BY DEF ToCopy, ToForget, InRoot, Tracked
  <2> QED BY <2>1, <2>2
<1>4. /\ fresh' \in 1..(MaxFile + 1) /\ fresh <= fresh' /\ DOMAIN new = ToCopy
      /\ \A k \in ToCopy : new[k] \in In("restricted")
      /\ Image(new) \subseteq In("restricted")
      /\ \A k \in Image(new) : fresh <= k.id /\ k.id < fresh'
  <2>1. fresh \in 1..(MaxFile + 1)
    BY DEF MatchFilesInv, TypeOK
  <2> QED BY <1>1, <1>2, <2>1, CopiesAreNew
<1>5. fresh \in Nat /\ fresh' \in Nat
  BY <1>4, MatchFilesConstants, StoredIsSound
<1>6. DOMAIN none = ToForget /\ \A k \in ToForget : none[k] = NoKey
  OBVIOUS
<1>7. files \in SUBSET Key /\ files \subseteq In("restricted")
  BY <1>2, <1>4 DEF In
<1>8. moves \in SUBSET MoveRecord
  <2> HIDE DEF new, none
  <2>1. Records("to_private", new) \in SUBSET MoveRecord
    BY <1>2, <1>4, <1>5, RecordsAreTyped
  <2>2. Records("to_private", none) \in SUBSET MoveRecord
    BY <1>2, <1>5, <1>6, RecordsAreTyped
  <2>3. cat.moves \in SUBSET MoveRecord
    BY DEF MatchFilesInv, TypeOK, CatalogType
  <2> QED BY <2>1, <2>2, <2>3
<1>9. Moved(moves) = Moved(cat.moves) \cup ToCopy \cup ToForget
  <2> DEFINE copied == cat.moves \cup Records("to_private", new)
  <2> HIDE DEF new, none
  <2>1. Moved(copied) = Moved(cat.moves) \cup ToCopy
    BY <1>4, MovedIsUnion
  <2>2. moves = copied \cup Records("to_private", none)
    OBVIOUS
  <2> HIDE DEF copied, moves
  <2>3. Moved(moves) = Moved(copied) \cup ToForget
    BY <1>6, <2>2, MovedIsUnion
  <2> QED BY <2>1, <2>3
<1>10. \A k \in Moved(moves) : k.id < fresh'
  <2>1. \A k \in Moved(cat.moves) \cup ToCopy \cup ToForget : k \in Key /\ k.id < fresh
    BY <1>2, <1>3, MovedIsOfLake
       DEF MatchFilesInv, TypeOK, CatalogType, CatalogsSound, Sound, In
  <2>2. \A k \in Key : k.id \in Nat
    BY DEF Key
  <2> HIDE DEF moves
  <2> QED BY <1>4, <1>5, <1>9, <2>1, <2>2
<1>11. cat' = [Swap(cat, files) EXCEPT !.flag = "private", !.moves = moves]
  BY <1>1 DEF Swap, MatchFilesInv, TypeOK, CatalogType
<1> HIDE DEF new, none, files, moves
<1>12. Sound(cat', fresh')
  <2>1. Sound(cat, fresh)
    BY DEF MatchFilesInv, CatalogsSound
  <2>2. InRoot("lake", files) = {}
    BY <1>7 DEF InRoot, In
  <2>3. Sound([Swap(cat, files) EXCEPT !.flag = "private", !.moves = moves], fresh')
    BY <1>4, <1>5, <1>7, <1>8, <1>10, <2>1, <2>2, SwapIsSound
  <2> QED BY <1>11, <2>3
<1>13. LakeKeysAreOld' /\ objects' \subseteq Key
  <2>1. Image(new) \in SUBSET Key
    BY <1>4 DEF In
  <2> QED BY <1>1, <1>4, <1>5, <2>1, NewObjects
<1>14. TypeOK'
  BY <1>1, <1>2, <1>4, <1>12, <1>13 DEF MatchFilesInv, TypeOK, Sound, PC
<1> QED BY <1>1, <1>4, <1>12, <1>13, <1>14, StepIsSound

LEMMA StagePublicIsSound ==
    ASSUME MatchFilesInv, StagePublic
    PROVE  MatchFilesInv'
<1> DEFINE new == Copies(cat.head, "lake")
           moves == cat.moves \cup Records("to_public", new)
<1>1. /\ pc' = "move" /\ cat.flag = "private" /\ MayCopy(cat.head)
      /\ objects' = objects \cup Image(new)
      /\ cat' = [Swap(cat, Image(new)) EXCEPT !.flag = "public",
                    !.moves = @ \cup Records("to_public", new)]
      /\ fresh' = fresh + Cardinality(cat.head)
      /\ UNCHANGED <<version, current, started, todo, pruning, kept, late, was>>
  BY Zenon DEF StagePublic, Move
<1>2. Sound(cat, fresh) /\ cat \in CatalogType
  BY DEF MatchFilesInv, CatalogsSound, Sound
<1>3. cat.head \in SUBSET Key /\ cat.head \subseteq In("restricted")
      /\ cat.moves \in SUBSET MoveRecord
  BY <1>1, <1>2 DEF Sound, CatalogType, InRoot, In, Key
<1>4. /\ fresh' \in 1..(MaxFile + 1) /\ fresh <= fresh' /\ DOMAIN new = cat.head
      /\ \A k \in cat.head : new[k] \in In("lake")
      /\ Image(new) \subseteq In("lake")
      /\ \A k \in Image(new) : fresh <= k.id /\ k.id < fresh'
  <2>1. fresh \in 1..(MaxFile + 1)
    BY DEF MatchFilesInv, TypeOK
  <2> QED BY <1>1, <1>3, <2>1, CopiesAreNew
<1>5. fresh \in Nat /\ fresh' \in Nat
  BY <1>4, MatchFilesConstants, StoredIsSound
<1>6. moves \in SUBSET MoveRecord
  <2> HIDE DEF new
  <2>1. Records("to_public", new) \in SUBSET MoveRecord
    BY <1>3, <1>4, <1>5, RecordsAreTyped
  <2> QED BY <1>3, <2>1
<1>7. Moved(moves) = Moved(cat.moves)
  BY MovedIsUnion
<1>8. cat' = [Swap(cat, Image(new)) EXCEPT !.flag = "public", !.moves = moves]
  BY <1>1, <1>2 DEF Swap, CatalogType
<1> HIDE DEF new, moves
<1>9. \A k \in Moved(moves) : k.id < fresh'
  <2>1. \A k \in Moved(cat.moves) : k.id \in Nat /\ k.id < fresh
    BY <1>2, <1>3, MovedIsOfLake DEF Sound, In, Key
  <2> QED BY <1>4, <1>5, <1>7, <2>1
<1>10. Image(new) \in SUBSET Key
  BY <1>4 DEF In
<1>11. Sound(cat', fresh')
  <2>1. \A k \in InRoot("lake", Image(new)) : fresh <= k.id /\ k.id < fresh'
    BY <1>4 DEF InRoot
  <2>2. Sound([Swap(cat, Image(new)) EXCEPT !.flag = "public", !.moves = moves], fresh')
    BY <1>2, <1>4, <1>5, <1>6, <1>7, <1>9, <1>10, <2>1, SwapIsSound
  <2> QED BY <1>8, <2>2
<1>12. LakeKeysAreOld' /\ objects' \subseteq Key
  BY <1>1, <1>4, <1>5, <1>10, NewObjects
<1>13. TypeOK'
  BY <1>1, <1>4, <1>11, <1>12 DEF MatchFilesInv, TypeOK, Sound, PC
<1> QED BY <1>1, <1>4, <1>11, <1>12, <1>13, StepIsSound

LEMMA StageFailsIsSound ==
    ASSUME MatchFilesInv, StageFails
    PROVE  MatchFilesInv'
<1>1. pc = "work" /\ UNCHANGED <<version, current, pc, local, late, was>>
  BY DEF StageFails
<1>2. PICK S \in SUBSET (IF cat.flag = "public" THEN ToCopy ELSE cat.head),
           root \in {"lake", "restricted"} :
        /\ S \subseteq objects /\ MayCopy(S)
        /\ objects' = objects \cup Image(Copies(S, root))
        /\ fresh' = fresh + Cardinality(S)
  <2>1. PICK S \in SUBSET (IF cat.flag = "public" THEN ToCopy ELSE cat.head) :
        /\ S \subseteq objects /\ MayCopy(S)
        /\ objects' = objects \cup
               Image(Copies(S, IF cat.flag = "public" THEN "restricted" ELSE "lake"))
        /\ fresh' = fresh + Cardinality(S)
    BY DEF StageFails
  <2> QED BY <2>1
<1>3. fresh \in 1..(MaxFile + 1) /\ S \in SUBSET Key
  BY <1>2 DEF MatchFilesInv, TypeOK
<1> DEFINE copies == Image(Copies(S, root))
<1>4. /\ fresh' \in 1..(MaxFile + 1) /\ fresh <= fresh'
      /\ copies \subseteq In(root) /\ \A k \in copies : k.id < fresh'
  BY <1>2, <1>3, CopiesAreNew
<1>5. fresh \in Nat /\ fresh' \in Nat /\ copies \in SUBSET Key
      /\ objects' = objects \cup copies
  BY <1>2, <1>3, <1>4, MatchFilesConstants DEF In
<1> HIDE DEF copies
<1>6. LakeKeysAreOld' /\ objects' \subseteq Key
  BY <1>4, <1>5, NewObjects
<1>7. Sound(cat', fresh')
  <2>1. Sound(cat, fresh)
    BY DEF MatchFilesInv, CatalogsSound
  <2> QED BY <1>1, <1>4, <1>5, <2>1, OlderIsSound DEF local
<1>8. TypeOK'
  BY <1>1, <1>4, <1>6 DEF MatchFilesInv, TypeOK, local
<1> QED BY <1>1, <1>4, <1>6, <1>7, <1>8, StepIsSound

-----------------------------------------------------------------------------
(* Cleanups and restores                                                   *)

LEMMA CleanupIsSound ==
    ASSUME MatchFilesInv, Cleanup
    PROVE  MatchFilesInv'
<1>1. /\ pc' = "versions" /\ todo' = cat'.scheduled \ kept'
      /\ UNCHANGED <<objects, version, current, fresh, started, late, was>>
  BY DEF Cleanup, Move
<1>2. PICK expired \in SUBSET cat.ended :
        /\ cat' = [cat EXCEPT !.ended = @ \ expired, !.scheduled = @ \cup expired]
        /\ \E grace, cut \in 0..MaxSeq :
              pruning' = Outdated(version, current, cat.dropped, grace, cut)
        /\ kept' = KeptFileSet(cat.moves, pruning')
  BY DEF Cleanup
<1>3. pruning' \subseteq Seqs /\ current \notin pruning'
  BY <1>2 DEF Outdated
<1>4. Sound(cat, fresh) /\ cat \in CatalogType
  BY DEF MatchFilesInv, CatalogsSound, Sound
<1>5. /\ cat' \in CatalogType /\ cat'.head = cat.head /\ cat'.moves = cat.moves
      /\ cat'.flag = cat.flag /\ Tracked(cat') = Tracked(cat)
  BY <1>2, <1>4 DEF CatalogType, Tracked
<1>6. Sound(cat', fresh') /\ fresh <= fresh'
  BY <1>1, <1>4, <1>5, StoredIsSound DEF Sound
<1>7. kept' \subseteq Key
  <2>1. Named(pruning') \in SUBSET Key
    BY StoredIsSound DEF Named, VersionType, CatalogType
  <2>2. cat.moves \in SUBSET MoveRecord
    BY <1>4 DEF CatalogType
  <2>3. Last(ToPrivate(cat.moves)) \in SUBSET ToPrivate(cat.moves)
    BY DEF Last
  <2>4. Replaced(Named(pruning'), cat.moves, Last(ToPrivate(cat.moves)))
            \subseteq Key \cup {NoKey}
    BY <2>1, <2>2, <2>3, ReplacedIsMovedAway
  <2> QED BY <1>2, <2>4 DEF KeptFileSet
<1>8. TypeOK' /\ LakeKeysAreOld'
  <2>1. todo' \subseteq Key
    BY <1>1, <1>5 DEF CatalogType
  <2> QED BY <1>1, <1>3, <1>5, <1>7, <2>1
          DEF MatchFilesInv, TypeOK, LakeKeysAreOld, PC
<1> QED BY <1>1, <1>3, <1>6, <1>8, StepIsSound

\* What only forgets keys and records leaves a catalog sound.
LEMMA ForgettingIsSound ==
    ASSUME NEW c, NEW n \in Nat, Sound(c, n),
           NEW scheduled \in SUBSET c.scheduled, NEW moves \in SUBSET c.moves
    PROVE  Sound([c EXCEPT !.scheduled = scheduled, !.moves = moves], n)
<1> DEFINE d == [c EXCEPT !.scheduled = scheduled, !.moves = moves]
<1>1. /\ d \in CatalogType /\ d.head = c.head /\ d.ended = c.ended /\ d.flag = c.flag
      /\ d.scheduled = scheduled /\ d.moves = moves
  BY DEF Sound, CatalogType
<1>2. Moved(d.moves) \subseteq Moved(c.moves) /\ Tracked(d) \subseteq Tracked(c)
  BY <1>1 DEF Moved, ToPrivate, Tracked
<1>3. Sound(d, n)
  <2> HIDE DEF d
  <2> QED BY <1>1, <1>2 DEF Sound, InRoot
<1> QED BY <1>3

LEMMA SweepIsSound ==
    ASSUME MatchFilesInv, Sweep \/ Swept
    PROVE  MatchFilesInv'
<1>1. /\ pc' \in {"sweep", "run_end"} /\ todo' \subseteq objects \cup todo
      /\ kept' \subseteq kept
      /\ UNCHANGED <<objects, version, current, fresh, started, pruning, late, was>>
  BY DEF Sweep, Swept, Move, Doomed
<1>2. Sound(cat, fresh) /\ cat \in CatalogType
  BY DEF MatchFilesInv, CatalogsSound, Sound
<1>3. \E scheduled \in SUBSET cat.scheduled, moves \in SUBSET cat.moves :
          cat' = [cat EXCEPT !.scheduled = scheduled, !.moves = moves]
  <2>1. CASE Sweep
    <3>1. cat' = [cat EXCEPT !.scheduled = cat.scheduled \cap kept, !.moves = cat.moves]
      BY <1>2, <2>1 DEF Sweep, CatalogType
    <3> QED BY <3>1
  <2>2. CASE Swept
    <3> DEFINE moves == {r \in cat.moves : NeedsRecord(r.old)}
    <3>1. cat' = [cat EXCEPT !.scheduled = cat.scheduled, !.moves = moves]
      BY <1>2, <2>2 DEF Swept, CatalogType
    <3>2. moves \in SUBSET cat.moves
      OBVIOUS
    <3> HIDE DEF moves
    <3> QED BY <3>1, <3>2
  <2> QED BY <2>1, <2>2
<1>4. Sound(cat', fresh') /\ fresh <= fresh'
  <2>1. PICK scheduled \in SUBSET cat.scheduled, moves \in SUBSET cat.moves :
            cat' = [cat EXCEPT !.scheduled = scheduled, !.moves = moves]
    BY <1>3
  <2>2. fresh \in Nat /\ fresh' = fresh
    BY <1>1, StoredIsSound
  <2>3. Sound([cat EXCEPT !.scheduled = scheduled, !.moves = moves], fresh)
    BY <1>2, <2>2, ForgettingIsSound
  <2> QED BY <2>1, <2>2, <2>3
<1>5. TypeOK' /\ LakeKeysAreOld'
  BY <1>1, <1>4 DEF MatchFilesInv, TypeOK, LakeKeysAreOld, Sound, PC
<1> QED BY <1>1, <1>4, <1>5, StepIsSound

LEMMA RestoreIsSound ==
    ASSUME MatchFilesInv, Restore
    PROVE  MatchFilesInv'
<1>1. pc' = "restore" /\ UNCHANGED <<version, current, started, todo, kept, late, was>>
  BY DEF Restore, Move
<1> DEFINE now == version[current].cat
<1>2. PICK t \in (Stored \cap was) \ {current} :
        LET files == Resolve(now.moves, version[t].cat.head)
            flag == IF now.moves = {} THEN version[t].cat.flag ELSE Latest(now.moves)
            hidden == IF now.moves = {} \/ flag = "private" THEN {}
                      ELSE InRoot("restricted", files)
            new == Copies(hidden, "lake")
        IN  /\ NoKey \notin files
            /\ (now.moves # {} /\ flag = "private") => InRoot("lake", files) = {}
            /\ MayCopy(hidden)
            /\ objects' = objects \cup Image(new)
            /\ fresh' = fresh + Cardinality(hidden)
            /\ cat' = [version[t].cat EXCEPT
                          !.head = (files \ hidden) \cup Image(new),
                          !.flag = flag,
                          !.moves = now.moves \cup Records("to_public", new),
                          !.dropped = now.dropped \cup (t + 1)..(NextSeq - 1)]
            /\ pruning' = Stored \cap (t + 1)..(NextSeq - 1)
  BY Zenon DEF Restore
<1> DEFINE old == version[t].cat
           files == Resolve(now.moves, old.head)
           flag == IF now.moves = {} THEN old.flag ELSE Latest(now.moves)
           hidden == IF now.moves = {} \/ flag = "private" THEN {}
                     ELSE InRoot("restricted", files)
           new == Copies(hidden, "lake")
           moves == now.moves \cup Records("to_public", new)
           drops == (t + 1)..(NextSeq - 1)
<1>3. /\ NoKey \notin files
      /\ (now.moves # {} /\ flag = "private") => InRoot("lake", files) = {}
      /\ MayCopy(hidden) /\ objects' = objects \cup Image(new)
      /\ fresh' = fresh + Cardinality(hidden)
      /\ cat' = [old EXCEPT !.head = (files \ hidden) \cup Image(new), !.flag = flag,
                            !.moves = moves, !.dropped = now.dropped \cup drops]
      /\ pruning' = Stored \cap drops
  BY <1>2, Zenon
<1>4. /\ Sound(now, fresh) /\ now \in CatalogType /\ Sound(old, fresh) /\ old \in CatalogType
      /\ fresh \in 1..(MaxFile + 1) /\ fresh \in Nat
  BY StoredIsSound DEF Sound, MatchFilesInv, TypeOK
<1>5. /\ now.moves \in SUBSET MoveRecord /\ now.dropped \in SUBSET Seqs
      /\ old.head \in SUBSET Key
  BY <1>4 DEF CatalogType
<1>6. flag \in {"public", "private"}
  BY <1>4 DEF CatalogType, Latest
<1>7. /\ files \in SUBSET Key
      /\ files \cap Moved(now.moves) = {}
      /\ InRoot("lake", files) \subseteq InRoot("lake", old.head)
  <2>1. First(ToPrivate(now.moves)) \in SUBSET ToPrivate(now.moves)
    BY DEF First
  <2>2. files \subseteq (old.head \ Moved(now.moves)) \cup In("restricted") \cup {NoKey}
    BY <1>5, <2>1, ReplacedIsMovedAway DEF Resolve
  <2>3. Moved(now.moves) \subseteq In("lake") /\ In("lake") \cap In("restricted") = {}
    BY <1>5, MovedIsOfLake DEF In
  <2>4. In("restricted") \subseteq Key
    BY DEF In
  <2> HIDE DEF files, now, old
  <2> QED BY <1>3, <1>5, <2>2, <2>3, <2>4 DEF InRoot
<1>8. hidden \in SUBSET Key /\ hidden \subseteq In("restricted")
  <2> HIDE DEF files
  <2> QED BY <1>7 DEF InRoot
<1> HIDE DEF hidden
<1>9. /\ fresh' \in 1..(MaxFile + 1) /\ fresh <= fresh' /\ DOMAIN new = hidden
      /\ \A k \in hidden : new[k] \in In("lake")
      /\ Image(new) \subseteq In("lake")
      /\ \A k \in Image(new) : fresh <= k.id /\ k.id < fresh'
  BY <1>3, <1>4, <1>8, CopiesAreNew
<1>10. fresh' \in Nat
  BY <1>9, MatchFilesConstants
<1>11. Image(new) \in SUBSET Key
  BY <1>9 DEF In
<1>12. moves \in SUBSET MoveRecord /\ Moved(moves) = Moved(now.moves)
  <2> HIDE DEF new, now
  <2>1. Records("to_public", new) \in SUBSET MoveRecord
    BY <1>4, <1>8, <1>9, RecordsAreTyped
  <2> QED BY <1>5, <2>1, MovedIsUnion
<1>13. drops \subseteq Seqs
  <2>1. t \in Nat /\ t + 1 >= 1 /\ NextSeq - 1 <= MaxSeq
    BY NextSeqIsNew, MatchFilesConstants DEF Seqs, Stored
  <2> QED BY <2>1, NextSeqIsNew, MatchFilesConstants DEF Seqs
<1>14. flag = "private" => InRoot("lake", files) = {} /\ Image(new) = {}
  <2>1. ASSUME flag = "private" PROVE InRoot("lake", files) = {}
    <3>1. CASE now.moves # {}
      BY <1>3, <2>1, <3>1
    <3>2. CASE now.moves = {}
      BY <1>4, <1>7, <2>1, <3>2 DEF Sound
    <3> QED BY <3>1, <3>2
  <2>2. ASSUME flag = "private" PROVE Image(new) = {}
    <3>1. hidden = {}
      BY <2>2 DEF hidden
    <3>2. DOMAIN new = {}
      BY <1>9, <3>1
    <3> HIDE DEF new
    <3> QED BY <3>2 DEF Image
  <2> QED BY <2>1, <2>2
<1> DEFINE head == (files \ hidden) \cup Image(new)
<1> HIDE DEF new, moves, drops, flag, files, now, old
<1>15. head \in SUBSET Key
  BY <1>7, <1>11
<1>16. /\ cat' \in CatalogType /\ cat'.head = head /\ cat'.flag = flag
       /\ cat'.moves = moves /\ cat'.ended = old.ended /\ cat'.scheduled = old.scheduled
  <2>1. now.dropped \cup drops \in SUBSET Seqs
    BY <1>5, <1>13
  <2>2. cat' = [old EXCEPT !.head = head, !.flag = flag,
                           !.moves = moves, !.dropped = now.dropped \cup drops]
    BY <1>3
  <2> HIDE DEF head
  <2> QED BY <1>4, <1>6, <1>12, <1>15, <2>1, <2>2 DEF CatalogType
<1>17. Sound(cat', fresh')
  <2>1. \A k \in Moved(moves) \cup InRoot("lake", Tracked(old)) :
            k.id \in Nat /\ k.id < fresh
    BY <1>4, <1>5, <1>12, MovedIsOfLake
       DEF Sound, CatalogType, Tracked, InRoot, In, Key
  <2>2. \A k \in Image(new) : k.id \in Nat /\ fresh <= k.id /\ k.id < fresh'
    BY <1>9, <1>11 DEF Key
  <2>3. Moved(cat'.moves) \cap cat'.head = {}
    <3>1. \A k \in Image(new) : k \notin Moved(moves)
      BY <1>4, <2>1, <2>2
    <3> QED BY <1>7, <1>12, <1>16, <3>1
  <2>4. cat'.flag = "private" => InRoot("lake", cat'.head) = {}
    BY <1>14, <1>16 DEF InRoot
  <2>5. InRoot("lake", Tracked(cat')) \subseteq InRoot("lake", Tracked(old)) \cup Image(new)
    BY <1>7, <1>16 DEF InRoot, Tracked
  <2>6. \A k \in Moved(moves) \cup InRoot("lake", Tracked(old)) : k.id < fresh'
    BY <1>4, <1>9, <1>10, <2>1
  <2>7. \A k \in InRoot("lake", Tracked(cat')) \cup Moved(cat'.moves) : k.id < fresh'
    BY <1>16, <2>2, <2>5, <2>6
  <2> QED BY <1>16, <2>3, <2>4, <2>7 DEF Sound
<1>18. LakeKeysAreOld' /\ objects' \subseteq Key
  BY <1>3, <1>9, <1>10, <1>11, NewObjects
<1>19. TypeOK'
  BY <1>1, <1>3, <1>9, <1>13, <1>16, <1>18 DEF MatchFilesInv, TypeOK, PC
<1> QED BY <1>1, <1>3, <1>9, <1>17, <1>18, <1>19, StepIsSound

-----------------------------------------------------------------------------
(* Theorems                                                                *)

LEMMA InitIsSound == Init => MatchFilesInv
<1> SUFFICES ASSUME Init PROVE MatchFilesInv
  OBVIOUS
<1>1. PICK flag \in {"public", "private"} :
        /\ objects = {[root |-> IF flag = "public" THEN "lake" ELSE "restricted", id |-> 1]}
        /\ version = [s \in Seqs |-> IF s > 1 THEN Missing ELSE
               [kind |-> "run_end",
                cat |-> [NoCat EXCEPT !.head = objects, !.flag = flag]]]
  BY DEF Init
<1> DEFINE c == [NoCat EXCEPT !.head = objects, !.flag = flag]
           v == [kind |-> "run_end", cat |-> c]
<1>2. /\ current = 1 /\ fresh = 2 /\ was = {1} /\ pc = "idle" /\ cat = NoCat
      /\ started = 1 /\ todo = {} /\ pruning = {} /\ kept = {} /\ late = {}
  BY DEF Init
<1>3. /\ objects \subseteq Key /\ \A k \in objects : k.id = 1
      /\ flag = "private" => InRoot("lake", objects) = {}
  BY <1>1, MatchFilesConstants DEF Key, InRoot, In
<1>4. /\ c \in CatalogType /\ c.head = objects /\ c.flag = flag /\ c.moves = {}
      /\ Tracked(c) = objects
  BY <1>3 DEF NoCat, CatalogType, Tracked
<1>5. Sound(c, fresh)
  <2>1. Moved(c.moves) = {}
    BY <1>4 DEF Moved, ToPrivate
  <2> HIDE DEF c
  <2> QED BY <1>2, <1>3, <1>4, <2>1 DEF Sound, InRoot
<1>6. Sound(cat, fresh) /\ cat \in CatalogType
  BY <1>2, EmptyIsSound DEF Sound
<1>7. v \in VersionType /\ v.cat = c /\ v # Missing
  BY <1>4, MatchFilesConstants DEF VersionType
<1> HIDE DEF c, v
<1>8. 1 \in Seqs /\ version = [s \in Seqs |-> IF s > 1 THEN Missing ELSE v]
  BY <1>1, MatchFilesConstants DEF Seqs, c, v
<1>9. Stored = {1} /\ version[1] = v
  BY <1>7, <1>8, MatchFilesConstants DEF Stored, Seqs
<1>10. TypeOK
  <2>1. version \in [Seqs -> VersionType \cup {Missing}]
    BY <1>7, <1>8
  <2>2. fresh \in 1..(MaxFile + 1) /\ started \in 1..(MaxFile + 1)
    BY <1>2, MatchFilesConstants
  <2> QED BY <1>2, <1>3, <1>6, <1>8, <2>1, <2>2 DEF TypeOK, PC
<1> QED BY <1>2, <1>3, <1>5, <1>6, <1>7, <1>9, <1>10
        DEF MatchFilesInv, CatalogsSound, CurrentStays, LakeKeysAreOld, InRoot

LEMMA StutterIsSound ==
    ASSUME MatchFilesInv, UNCHANGED vars
    PROVE  MatchFilesInv'
<1>1. /\ UNCHANGED <<objects, version, current, fresh, pc, cat, started, todo>>
      /\ UNCHANGED <<pruning, kept, late, was>>
  BY DEF vars, state, local
<1>2. TypeOK' /\ LakeKeysAreOld' /\ fresh <= fresh'
  BY <1>1 DEF MatchFilesInv, TypeOK, LakeKeysAreOld
<1> QED BY <1>1, <1>2, StepIsSound DEF MatchFilesInv, CatalogsSound, CurrentStays

LEMMA NextIsSound == MatchFilesInv /\ [Next]_vars => MatchFilesInv'
<1> SUFFICES ASSUME MatchFilesInv, [Next]_vars PROVE MatchFilesInv'
  OBVIOUS
<1>1. CASE Visit
  <2>1. CASE StartRun
    BY <2>1, StartRunIsSound
  <2>2. CASE Settled \/ Finished \/ DeleteKey("settle") \/ DeleteKey("finish")
    BY <2>2, WalkIsSound
  <2>3. CASE Write
    BY <2>3, WriteIsSound
  <2>4. CASE StagePrivate
    BY <2>4, StagePrivateIsSound
  <2>5. CASE StagePublic
    BY <2>5, StagePublicIsSound
  <2>6. CASE StageFails
    BY <2>6, StageFailsIsSound
  <2>7. CASE PublishMove \/ Checkpoint
    BY <2>7, PublishesAreSound
  <2>8. CASE PublishMoveFails
    BY <2>8, PublishMoveFailsIsSound
  <2> QED BY <1>1, <2>1, <2>2, <2>3, <2>4, <2>5, <2>6, <2>7, <2>8 DEF Visit
<1>2. CASE EndOfRun
  <2>1. CASE Cleanup
    BY <2>1, CleanupIsSound
  <2>2. CASE DeleteVersion("versions") \/ DeleteVersion("drop")
    BY <2>2, DeleteVersionIsSound
  <2>3. CASE VersionsDeleted \/ DeleteKey("scheduled") \/ DeleteKey("sweep")
    BY <2>3, WalkIsSound
  <2>4. CASE Sweep \/ Swept
    BY <2>4, SweepIsSound
  <2>5. CASE RunEnd
    BY <2>5, RunEndIsSound
  <2>6. CASE Release
    BY <2>6, LoseIsSound
  <2> QED BY <1>2, <2>1, <2>2, <2>3, <2>4, <2>5, <2>6 DEF EndOfRun
<1>3. CASE Restore
  BY <1>3, RestoreIsSound
<1>4. CASE RestoreCommit
  BY <1>4, PublishesAreSound
<1>5. CASE Lose
  BY <1>5, LoseIsSound
<1>6. CASE LoseCommit
  BY <1>6, LoseCommitIsSound
<1>7. CASE LateDelete
  BY <1>7, WalkIsSound
<1>8. CASE UNCHANGED vars
  BY <1>8, StutterIsSound
<1> QED BY <1>1, <1>2, <1>3, <1>4, <1>5, <1>6, <1>7, <1>8 DEF Next

LEMMA InvHolds == Spec => []MatchFilesInv
BY InitIsSound, NextIsSound, PTL DEF Spec

\* The files of a match, their records and the versions are well typed: a move
\* record leads from the root that the match left to the other one, since of a
\* private match stage_match_move finds restricted files only.
THEOREM MatchFilesTypeCorrect == Spec => []TypeOK
<1>1. MatchFilesInv => TypeOK
  BY DEF MatchFilesInv
<1> QED BY <1>1, InvHolds, PTL

\* assert_no_moved_key_registered never fires: write ids are used once, so that
\* no write, move or restore registers a key that a record says was moved away.
THEOREM MovedKeysStayGone == Spec => []MovedKeyNeverReturns
<1>1. MatchFilesInv => MovedKeyNeverReturns
  BY DEF MatchFilesInv, CatalogsSound, Sound, MovedKeyNeverReturns
<1> QED BY <1>1, InvHolds, PTL

\* Neither a cleanup, nor the pruning after a run end, nor a restore deletes the
\* version that CURRENT names.
THEOREM CurrentVersionStays == Spec => [](version[current] # Missing)
<1>1. MatchFilesInv => version[current] # Missing
  BY DEF MatchFilesInv, CurrentStays
<1> QED BY <1>1, InvHolds, PTL

\* In every CURRENT a private match registers no file in the public root.
THEOREM PrivateHeadIsRestricted ==
    Spec => [](version[current].cat.flag = "private"
                 => InRoot("lake", version[current].cat.head) = {})
<1>1. MatchFilesInv => (version[current].cat.flag = "private"
                          => InRoot("lake", version[current].cat.head) = {})
  BY StoredIsSound DEF Sound
<1> QED BY <1>1, InvHolds, PTL

-----------------------------------------------------------------------------
(* The working copy and CURRENT                                            *)

Now == version[current].cat
CatPoints == (Stored \cap was) \ cat.dropped
Running == {"settle", "work", "move", "finish", "versions", "scheduled", "sweep", "run_end"}

-----------------------------------------------------------------------------
(* Public copies of a private match                                        *)

Hides(c) == c.flag = "private" /\ c.moves # {}

\* The lake objects that c has to have a record of, when "pub" are the versions
\* that were published and "points" the restore points: what a private version
\* tracks or a version that a private one's restore keeps names; and, while c is
\* private and tells so by its records, what any version tracks.
Secret(objs, v, pub, c, points) ==
    {k \in InRoot("lake", objs) : \E t \in pub :
        \/ k \in Tracked(v[t].cat) /\ (v[t].cat.flag = "private" \/ Hides(c))
        \/ v[t].cat.flag = "private" /\ \E s \in points : s <= t /\ k \in v[s].cat.head}

\* And what c itself tracks, or a restore point names, when c is private.
Own(objs, v, c, points) ==
    {k \in InRoot("lake", objs) : c.flag = "private" /\
        (k \in Tracked(c) \/ \E s \in points : k \in v[s].cat.head)}

NowCovers ==
    /\ current \in was /\ \A s \in was : s <= current
    /\ Secret(objects, version, Stored \cap was, Now, RestorePoints) \subseteq Moved(Now.moves)

HeirCovers ==
    /\ Secret(objects, version, Stored \cap was, cat, CatPoints) \subseteq Moved(cat.moves)
    /\ Own(objects, version, cat, CatPoints) \subseteq Moved(cat.moves)

\* A run's working copy tracks the newer lake objects of every version.
Older ==
    \A s \in Stored : \A k \in InRoot("lake", objects) :
        k \in Tracked(version[s].cat) => k.id < started \/ k \in Tracked(cat)

PhaseCovers ==
    /\ pc \in Running => Older
    /\ pc \in {"versions", "scheduled"} =>
         /\ cat.scheduled \cap objects \subseteq kept \cup todo
         /\ kept \cap Moved(cat.moves) = {}
    /\ pc = "sweep" =>
         \A k \in objects \cap Moved(cat.moves) :
             k.id < started => k \in todo \cup Tracked(cat)

CopiesInv ==
    /\ MatchFilesInv /\ NowCovers /\ PhaseCovers
    /\ pc \notin {"idle", "drop"} => HeirCovers

LEMMA SecretShrinks ==
    ASSUME NEW objs, NEW more, NEW v, NEW w, NEW pub, NEW wide, NEW c, NEW d,
           NEW points, NEW many,
           pub \subseteq wide, points \subseteq many, points \subseteq pub,
           \A s \in pub : v[s] = w[s],
           \A s \in pub : \A k \in InRoot("lake", objs) : k \in Tracked(v[s].cat) => k \in more,
           Hides(c) => Hides(d)
    PROVE  Secret(objs, v, pub, c, points) \subseteq Secret(more, w, wide, d, many)
<1>1. SUFFICES ASSUME NEW k \in Secret(objs, v, pub, c, points)
               PROVE  k \in Secret(more, w, wide, d, many)
  OBVIOUS
<1>2. k \in InRoot("lake", objs)
  BY <1>1 DEF Secret
<1>3. PICK t \in pub :
        \/ k \in Tracked(v[t].cat) /\ (v[t].cat.flag = "private" \/ Hides(c))
        \/ v[t].cat.flag = "private" /\ \E s \in points : s <= t /\ k \in v[s].cat.head
  BY <1>1 DEF Secret
<1>4. k \in InRoot("lake", more)
  <2>1. \E s \in pub : k \in Tracked(v[s].cat)
    BY <1>3 DEF Tracked
  <2>2. k \in more
    BY <1>2, <2>1
  <2> QED BY <1>2, <2>2 DEF InRoot
<1>5. t \in wide /\ v[t] = w[t] /\ \A s \in points : s \in many /\ v[s] = w[s]
  BY <1>3
<1> QED BY <1>3, <1>4, <1>5 DEF Secret

\* A lake key that a version or the working copy tracks is no new object.
LEMMA KnownAreOld ==
    ASSUME MatchFilesInv, NEW k \in In("lake"),
           \/ \E s \in Stored : k \in Tracked(version[s].cat)
           \/ k \in Tracked(cat)
    PROVE  ~ (fresh <= k.id)
<1>1. k.id < fresh
  BY StoredIsSound DEF MatchFilesInv, CatalogsSound, Sound, InRoot, Tracked
<1>2. k.id \in Nat /\ fresh \in Nat
  BY StoredIsSound DEF In, Key
<1> QED BY <1>1, <1>2

-----------------------------------------------------------------------------
(* Steps that publish nothing                                              *)

\* No version that CURRENT named comes or changes, and lake objects are old or new.
Quiet ==
    /\ current' = current /\ was' = was
    /\ \A s \in Stored' \cap was : s \in Stored /\ version'[s] = version[s]
    /\ \A k \in InRoot("lake", objects') : k \in objects \/ fresh <= k.id

LEMMA QuietSecret ==
    ASSUME MatchFilesInv, Quiet, NEW c, NEW d, NEW points, NEW many,
           points \subseteq Stored' \cap was, points \subseteq many, Hides(c) => Hides(d)
    PROVE  Secret(objects', version', Stored' \cap was', c, points)
             \subseteq Secret(objects, version, Stored \cap was, d, many)
<1> DEFINE pub == Stored' \cap was
<1>1. pub \subseteq Stored \cap was /\ was' = was /\ \A s \in pub : version'[s] = version[s]
  BY DEF Quiet
<1>2. ASSUME NEW s \in pub, NEW k \in InRoot("lake", objects'), k \in Tracked(version'[s].cat)
      PROVE  k \in objects
  <2>1. s \in Stored /\ k \in Tracked(version[s].cat) /\ k \in In("lake")
    BY <1>1, <1>2 DEF InRoot
  <2>2. ~ (fresh <= k.id)
    BY <2>1, KnownAreOld
  <2> QED BY <1>2, <2>2 DEF Quiet
<1> HIDE DEF pub
<1>3. points \subseteq pub
  BY DEF pub
<1>4. Secret(objects', version', pub, c, points) \subseteq Secret(objects, version, Stored \cap was, d, many)
  BY <1>1, <1>2, <1>3, SecretShrinks
<1> QED BY <1>1, <1>4 DEF pub

LEMMA NowCoversOn ==
    ASSUME MatchFilesInv, MatchFilesInv', NowCovers, Quiet
    PROVE  NowCovers'
<1>1. current' = current /\ was' = was /\ current \in was
  BY DEF Quiet, NowCovers
<1>2. current' \in Stored'
  BY DEF MatchFilesInv, CurrentStays, TypeOK, Stored
<1>3. version'[current] = version[current] /\ Now' = Now
  BY <1>1, <1>2 DEF Quiet, Now
<1>4. RestorePoints' \subseteq RestorePoints /\ RestorePoints' \subseteq Stored' \cap was
  BY <1>1, <1>3 DEF Quiet, RestorePoints
<1>5. Secret(objects', version', Stored' \cap was', Now, RestorePoints')
        \subseteq Secret(objects, version, Stored \cap was, Now, RestorePoints)
  BY <1>4, QuietSecret
<1> QED BY <1>1, <1>3, <1>5 DEF NowCovers

\* The working copy: what it has to have records of grows by nothing.
LEMMA HeirKeeps ==
    ASSUME MatchFilesInv, HeirCovers, Quiet, cat'.dropped = cat.dropped,
           Hides(cat') => Hides(cat),
           cat'.flag = "private" =>
               cat.flag = "private" /\ InRoot("lake", Tracked(cat')) \subseteq Tracked(cat)
    PROVE  /\ Secret(objects', version', Stored' \cap was', cat', CatPoints')
                \subseteq Secret(objects, version, Stored \cap was, cat, CatPoints)
           /\ Own(objects', version', cat', CatPoints')
                \subseteq Own(objects, version, cat, CatPoints)
<1>1. CatPoints' \subseteq CatPoints /\ CatPoints' \subseteq Stored' \cap was
      /\ \A s \in CatPoints' : s \in Stored /\ version'[s] = version[s]
  BY DEF Quiet, CatPoints
<1>2. Secret(objects', version', Stored' \cap was', cat', CatPoints')
        \subseteq Secret(objects, version, Stored \cap was, cat, CatPoints)
  BY <1>1, QuietSecret
<1>3. ASSUME NEW k \in Own(objects', version', cat', CatPoints')
      PROVE  k \in Own(objects, version, cat, CatPoints)
  <2>1. /\ k \in InRoot("lake", objects') /\ k \in In("lake") /\ cat'.flag = "private"
        /\ k \in Tracked(cat') \/ \E s \in CatPoints' : k \in version'[s].cat.head
    BY <1>3 DEF Own, InRoot
  <2>2. cat.flag = "private"
        /\ (k \in Tracked(cat) \/ \E s \in CatPoints : k \in version[s].cat.head)
    BY <1>1, <2>1 DEF InRoot
  <2>3. k \in Tracked(cat) \/ \E s \in Stored : k \in Tracked(version[s].cat)
    BY <2>2 DEF CatPoints, Tracked
  <2>4. ~ (fresh <= k.id)
    BY <2>1, <2>3, KnownAreOld
  <2>5. k \in objects
    BY <2>1, <2>4 DEF Quiet
  <2> QED BY <2>1, <2>2, <2>5 DEF Own, InRoot
<1> QED BY <1>2, <1>3

LEMMA HeirCoversOn ==
    ASSUME MatchFilesInv, HeirCovers, Quiet, cat'.dropped = cat.dropped,
           Hides(cat') => Hides(cat), Moved(cat.moves) \subseteq Moved(cat'.moves),
           cat'.flag = "private" =>
               cat.flag = "private" /\ InRoot("lake", Tracked(cat')) \subseteq Tracked(cat)
    PROVE  HeirCovers'
BY HeirKeeps DEF HeirCovers

LEMMA OlderStays ==
    ASSUME MatchFilesInv, Older, started' = started,
           \A k \in InRoot("lake", objects') : k \in objects \/ fresh <= k.id,
           \A s \in Stored' : \/ s \in Stored /\ version'[s] = version[s]
                              \/ version'[s].cat = cat,
           \A k \in InRoot("lake", objects) : k \in Tracked(cat) => k \in Tracked(cat')
    PROVE  Older'
<1>1. SUFFICES ASSUME NEW s \in Stored', NEW k \in InRoot("lake", objects'),
                      k \in Tracked(version'[s].cat)
               PROVE  k.id < started \/ k \in Tracked(cat')
  BY DEF Older
<1>2. k \in In("lake") /\ (k \in Tracked(cat) \/ \E t \in Stored : k \in Tracked(version[t].cat))
  BY <1>1 DEF InRoot
<1>3. ~ (fresh <= k.id)
  BY <1>2, KnownAreOld
<1>4. k \in InRoot("lake", objects)
  BY <1>1, <1>3 DEF InRoot
<1>5. k \in Tracked(cat) \/ k.id < started
  BY <1>2, <1>4 DEF Older
<1> QED BY <1>4, <1>5

\* Steps that leave the versions, or those that CURRENT named, and cat alone.
LEMMA SameCopyStays ==
    ASSUME CopiesInv, MatchFilesInv', Quiet, cat' = cat, started' = started,
           \A s \in Stored' : \/ s \in Stored /\ version'[s] = version[s]
                              \/ version'[s].cat = cat,
           pc' \in Running => pc \in Running,
           pc' \notin {"idle", "drop"} => pc \notin {"idle", "drop"}
    PROVE  /\ NowCovers'
           /\ pc' \in Running => Older'
           /\ pc' \notin {"idle", "drop"} => HeirCovers'
<1>1. NowCovers'
  BY NowCoversOn DEF CopiesInv
<1>2. ASSUME pc' \in Running PROVE Older'
  BY <1>2, OlderStays DEF CopiesInv, PhaseCovers, Quiet
<1>3. ASSUME pc' \notin {"idle", "drop"} PROVE HeirCovers'
  BY <1>3, HeirCoversOn DEF CopiesInv, InRoot
<1> QED BY <1>1, <1>2, <1>3

-----------------------------------------------------------------------------
(* Commits                                                                 *)

\* The version of a commit, whether CURRENT names it or not.
LEMMA VersionStored ==
    ASSUME MatchFilesInv, \A s \in was : s <= current, Store
    PROVE  /\ NextSeq \in Nat /\ NextSeq \notin Stored /\ NextSeq \notin was
           /\ Stored' = Stored \cup {NextSeq}
           /\ version'[NextSeq].cat = cat
           /\ \A s \in Stored : version'[s] = version[s] /\ s \in Nat /\ s < NextSeq
           /\ current < NextSeq
<1>1. NextSeq \in Seqs /\ version' = [version EXCEPT ![NextSeq] = [kind |-> Kind, cat |-> cat]]
  BY DEF Store
<1>2. version \in [Seqs -> VersionType \cup {Missing}]
  BY DEF MatchFilesInv, TypeOK
<1>3. NextSeq \in Nat /\ NextSeq \notin Stored /\ \A s \in Stored : s < NextSeq
  BY NextSeqIsNew
<1>4. current \in Stored /\ \A s \in Stored : s \in Nat
  BY StoredIsSound DEF Stored, Seqs
<1>5. was \subseteq Nat
  BY DEF MatchFilesInv, TypeOK, Seqs
<1>6. NextSeq \notin was
  BY <1>3, <1>4, <1>5
<1>7. version'[NextSeq].cat = cat /\ \A s \in Stored : version'[s] = version[s]
  BY <1>1, <1>2, <1>3 DEF Stored
<1>8. [kind |-> Kind, cat |-> cat] # Missing
  <2>1. [kind |-> Kind, cat |-> cat] \in VersionType
    BY DEF VersionType, Kind, MatchFilesInv, TypeOK
  <2> QED BY <2>1, MatchFilesConstants
<1>9. Stored' = Stored \cup {NextSeq}
  BY <1>1, <1>2, <1>8 DEF Stored
<1> QED BY <1>3, <1>4, <1>6, <1>7, <1>9

LEMMA TornIsQuiet ==
    ASSUME MatchFilesInv, NowCovers, Store, UNCHANGED <<objects, current, was>>
    PROVE  /\ Quiet
           /\ \A s \in Stored' : \/ s \in Stored /\ version'[s] = version[s]
                                 \/ version'[s].cat = cat
BY VersionStored DEF NowCovers, Quiet, InRoot

\* What the working copy, and what it leaves of the restore points, have to have
\* records of is what CURRENT has to have records of once it is published.
LEMMA PublishCovers ==
    ASSUME MatchFilesInv, NowCovers, HeirCovers, Publish, UNCHANGED <<objects, cat>>
    PROVE  NowCovers' /\ HeirCovers'
<1>1. Store /\ current' = NextSeq /\ was' = was \cup {NextSeq}
  BY DEF Publish
<1>2. /\ NextSeq \in Nat /\ NextSeq \notin Stored /\ NextSeq \notin was
      /\ Stored' = Stored \cup {NextSeq}
      /\ version'[NextSeq].cat = cat
      /\ \A s \in Stored : version'[s] = version[s] /\ s \in Nat /\ s < NextSeq
      /\ current < NextSeq
  BY <1>1, VersionStored DEF NowCovers
<1> DEFINE pub == Stored \cap was
           wide == CatPoints \cup {NextSeq}
<1>3. /\ Now' = cat /\ Stored' \cap was' = pub \cup {NextSeq}
      /\ RestorePoints' = CatPoints' /\ CatPoints' \subseteq wide /\ CatPoints \subseteq Stored
  BY <1>1, <1>2 DEF Now, RestorePoints, CatPoints
<1>4. ASSUME NEW k \in Secret(objects', version', pub \cup {NextSeq}, cat, CatPoints')
      PROVE  k \in Moved(cat.moves)
  <2>1. PICK t \in pub \cup {NextSeq} :
          \/ k \in Tracked(version'[t].cat) /\ (version'[t].cat.flag = "private" \/ Hides(cat))
          \/ /\ version'[t].cat.flag = "private"
             /\ \E s \in CatPoints' : s <= t /\ k \in version'[s].cat.head
    BY <1>4 DEF Secret
  <2>2. k \in InRoot("lake", objects)
    BY <1>4 DEF Secret
  <2>3. CASE t = NextSeq
    <3>1. cat.flag = "private"
      BY <1>2, <2>1, <2>3 DEF Hides
    <3>2. k \in Tracked(cat) \/ \E s \in CatPoints : k \in version[s].cat.head
      BY <1>2, <1>3, <2>1, <2>3 DEF Tracked
    <3>3. k \in Own(objects, version, cat, CatPoints)
      BY <2>2, <3>1, <3>2 DEF Own
    <3> QED BY <3>3 DEF HeirCovers
  <2>4. CASE t # NextSeq
    <3>1. t \in pub /\ version'[t] = version[t] /\ t \in Nat /\ t < NextSeq
      BY <1>2, <2>1, <2>4
    <3>2. ASSUME NEW s \in CatPoints', s <= t
          PROVE  s \in CatPoints /\ version'[s] = version[s]
      BY <1>2, <1>3, <3>1, <3>2
    <3>3. k \in Secret(objects, version, pub, cat, CatPoints)
      BY <2>1, <2>2, <3>1, <3>2 DEF Secret
    <3> QED BY <3>3 DEF HeirCovers
  <2> QED BY <2>3, <2>4
<1>5. ASSUME NEW k \in Own(objects', version', cat, CatPoints')
      PROVE  k \in Moved(cat.moves)
  <2>1. k \in InRoot("lake", objects) /\ cat.flag = "private"
        /\ (k \in Tracked(cat) \/ \E s \in CatPoints' : k \in version'[s].cat.head)
    BY <1>5 DEF Own
  <2>2. k \in Tracked(cat) \/ \E s \in CatPoints : k \in version[s].cat.head
    BY <1>2, <1>3, <2>1 DEF Tracked
  <2>3. k \in Own(objects, version, cat, CatPoints)
    BY <2>1, <2>2 DEF Own
  <2> QED BY <2>3 DEF HeirCovers
<1>6. current' \in was' /\ \A s \in was' : s <= current'
  <2>1. current \in Nat /\ was \subseteq Nat
    BY DEF MatchFilesInv, TypeOK, Seqs
  <2>2. \A s \in was : s <= NextSeq
    BY <1>2, <2>1 DEF NowCovers
  <2> QED BY <1>1, <1>2, <2>2
<1> HIDE DEF pub
<1>7. Secret(objects', version', Stored' \cap was', cat, CatPoints') \subseteq Moved(cat.moves)
  BY <1>3, <1>4
<1> QED BY <1>3, <1>5, <1>6, <1>7 DEF NowCovers, HeirCovers

-----------------------------------------------------------------------------
(* Runs                                                                    *)

LEMMA StartRunCovers ==
    ASSUME CopiesInv, MatchFilesInv', StartRun
    PROVE  CopiesInv'
<1>1. /\ pc = "idle" /\ pc' = "settle" /\ cat' = Now /\ started' = fresh
      /\ UNCHANGED <<objects, version, current, fresh, was>>
  BY DEF StartRun, Move, Now
<1>2. Quiet /\ NowCovers /\ MatchFilesInv
  BY <1>1 DEF Quiet, CopiesInv, InRoot, Stored
<1>3. NowCovers'
  BY <1>2, NowCoversOn
<1>4. Stored' = Stored /\ CatPoints' = RestorePoints
  BY <1>1 DEF Stored, CatPoints, RestorePoints, Now
<1>5. Own(objects, version, Now, RestorePoints)
        \subseteq Secret(objects, version, Stored \cap was, Now, RestorePoints)
  <2>1. current \in Stored \cap was /\ \A s \in RestorePoints : s <= current
    BY <1>2, StoredIsSound DEF NowCovers, RestorePoints
  <2> QED BY <2>1 DEF Own, Secret, Now
<1>6. HeirCovers'
  BY <1>1, <1>2, <1>4, <1>5 DEF HeirCovers, NowCovers
<1>7. Older'
  BY <1>1, <1>2, <1>4, StoredIsSound DEF Older, Sound, InRoot
<1> QED BY <1>1, <1>3, <1>6, <1>7 DEF CopiesInv, PhaseCovers

\* Steps that leave the versions and the working copy alone.
LEMMA WalkCovers ==
    ASSUME CopiesInv, MatchFilesInv',
           Settled \/ Finished \/ VersionsDeleted \/ StageFails \/ LateDelete
             \/ (\E at \in {"settle", "finish", "scheduled", "sweep"} : DeleteKey(at))
             \/ (UNCHANGED vars)
    PROVE  CopiesInv'
<1>1. /\ UNCHANGED <<version, current, cat, started, kept, was>>
      /\ todo' \subseteq todo
      /\ pc' \in Running => pc \in Running
      /\ pc' \notin {"idle", "drop"} => pc \notin {"idle", "drop"}
      /\ pc' = "versions" => pc = "versions"
      /\ pc' = "scheduled" => pc \in {"versions", "scheduled"}
      /\ pc' = "sweep" => pc = "sweep"
  BY DEF Settled, Finished, VersionsDeleted, StageFails, LateDelete, DeleteKey, Move, local,
         vars, state, Running
<1>2. \A k \in objects' \cap todo : k \in todo'
  BY DEF Settled, Finished, VersionsDeleted, StageFails, LateDelete, DeleteKey, Move, local,
         vars, state
<1>3. \A k \in InRoot("lake", objects') : k \in objects \/ fresh <= k.id
  <2>1. CASE objects' \subseteq objects
    BY <2>1 DEF InRoot
  <2>2. CASE StageFails
    <3>1. PICK S \in SUBSET (IF cat.flag = "public" THEN ToCopy ELSE cat.head),
               root \in {"lake", "restricted"} :
            S \subseteq objects /\ MayCopy(S) /\ objects' = objects \cup Image(Copies(S, root))
      BY <2>2 DEF StageFails
    <3>2. fresh \in 1..(MaxFile + 1) /\ S \in SUBSET Key
      BY <3>1 DEF CopiesInv, MatchFilesInv, TypeOK
    <3>3. \A k \in Image(Copies(S, root)) : fresh <= k.id
      BY <3>1, <3>2, CopiesAreNew
    <3> QED BY <3>1, <3>3 DEF InRoot
  <2> QED BY <2>1, <2>2 DEF Settled, Finished, VersionsDeleted, LateDelete, DeleteKey, local, state, vars
<1>4. Quiet
  BY <1>1, <1>3 DEF Quiet, Stored
<1>5. \A s \in Stored' : s \in Stored /\ version'[s] = version[s]
  BY <1>1 DEF Stored
<1>6. /\ NowCovers'
      /\ pc' \in Running => Older'
      /\ pc' \notin {"idle", "drop"} => HeirCovers'
  BY <1>1, <1>4, <1>5, SameCopyStays
<1>7. ASSUME pc' \in {"versions", "scheduled"}
      PROVE  cat'.scheduled \cap objects' \subseteq kept' \cup todo'
             /\ kept' \cap Moved(cat'.moves) = {}
  <2>1. pc \in {"versions", "scheduled"} /\ objects' \subseteq objects
    BY <1>1, <1>7 DEF Settled, Finished, VersionsDeleted, StageFails, LateDelete, DeleteKey, Move,
                      local, state, vars
  <2> QED BY <1>1, <1>2, <2>1 DEF CopiesInv, PhaseCovers
<1>8. ASSUME pc' = "sweep", NEW k \in objects' \cap Moved(cat'.moves), k.id < started'
      PROVE  k \in todo' \cup Tracked(cat')
  <2>1. pc = "sweep" /\ objects' \subseteq objects
    BY <1>1, <1>8 DEF Settled, Finished, VersionsDeleted, StageFails, LateDelete, DeleteKey, Move,
                      local, state, vars
  <2> QED BY <1>1, <1>2, <1>8, <2>1 DEF CopiesInv, PhaseCovers
<1>9. PhaseCovers'
  BY <1>6, <1>7, <1>8 DEF PhaseCovers
<1> QED BY <1>6, <1>9 DEF CopiesInv

\* What a run's work adds to the working copy is new or restricted; a match that
\* becomes private loses the copies of its files with the move alone.
LEMMA WorkCovers ==
    ASSUME CopiesInv, MatchFilesInv', pc = "work", pc' \in {"work", "move"},
           UNCHANGED <<version, current, started, was>>,
           \A k \in InRoot("lake", objects') : k \in objects \/ fresh <= k.id,
           cat'.dropped = cat.dropped, Moved(cat'.moves) = Moved(cat.moves),
           Tracked(cat) \subseteq Tracked(cat'),
           cat'.flag = "private" => cat.flag = "private" /\ cat'.moves = cat.moves
               /\ InRoot("lake", Tracked(cat')) \subseteq Tracked(cat)
    PROVE  CopiesInv'
<1>1. Quiet /\ Stored' = Stored
  BY DEF Quiet, Stored
<1>2. NowCovers'
  BY <1>1, NowCoversOn DEF CopiesInv
<1>3. Hides(cat') => Hides(cat)
  BY DEF Hides
<1>4. HeirCovers'
  BY <1>1, <1>3, HeirCoversOn DEF CopiesInv
<1>5. Older'
  <2>1. Older /\ \A s \in Stored' : s \in Stored /\ version'[s] = version[s]
    BY <1>1 DEF CopiesInv, PhaseCovers, Running
  <2> QED BY <2>1, OlderStays DEF CopiesInv
<1> QED BY <1>2, <1>4, <1>5 DEF CopiesInv, PhaseCovers

LEMMA WriteCovers ==
    ASSUME CopiesInv, MatchFilesInv', Write
    PROVE  CopiesInv'
<1>1. /\ pc = "work" /\ UNCHANGED <<version, current, pc, started, was>>
  BY DEF Write
<1>2. PICK flag \in {"public", "private"} :
        /\ cat.flag = "private" \/ flag = "public"
        /\ LET k == [root |-> IF flag = "public" THEN "lake" ELSE "restricted", id |-> fresh]
           IN  /\ objects' = objects \cup {k}
               /\ \/ cat' = [Swap(cat, {k}) EXCEPT !.flag = flag]
                  \/ UNCHANGED cat
  BY DEF Write
<1> DEFINE k == [root |-> IF flag = "public" THEN "lake" ELSE "restricted", id |-> fresh]
<1>3. /\ objects' = objects \cup {k} /\ k.id = fresh /\ (flag = "private" => k \notin In("lake"))
      /\ cat' = [Swap(cat, {k}) EXCEPT !.flag = flag] \/ cat' = cat
  BY <1>2 DEF In
<1> HIDE DEF k
<1>4. \A l \in InRoot("lake", objects') : l \in objects \/ fresh <= l.id
  BY <1>3, StoredIsSound DEF CopiesInv, InRoot
<1>5. /\ cat'.dropped = cat.dropped /\ cat'.moves = cat.moves /\ Tracked(cat) \subseteq Tracked(cat')
      /\ cat'.flag = "private" =>
           cat.flag = "private" /\ InRoot("lake", Tracked(cat')) \subseteq Tracked(cat)
  <2>1. CASE cat' = cat
    BY <2>1 DEF InRoot
  <2>2. CASE cat' = [Swap(cat, {k}) EXCEPT !.flag = flag]
    <3>1. cat \in CatalogType
      BY DEF CopiesInv, MatchFilesInv, TypeOK
    <3>2. /\ cat'.head = {k} /\ cat'.ended = cat.ended \cup cat.head
          /\ cat'.scheduled = cat.scheduled /\ cat'.flag = flag
          /\ cat'.moves = cat.moves /\ cat'.dropped = cat.dropped
      BY <2>2, <3>1 DEF Swap, CatalogType
    <3> QED BY <1>2, <1>3, <3>2 DEF Tracked, InRoot
  <2> QED BY <1>3, <2>1, <2>2
<1> QED BY <1>1, <1>4, <1>5, WorkCovers

LEMMA StagePublicCovers ==
    ASSUME CopiesInv, MatchFilesInv', StagePublic
    PROVE  CopiesInv'
<1> DEFINE new == Copies(cat.head, "lake")
           moves == cat.moves \cup Records("to_public", new)
<1>1. /\ pc = "work" /\ pc' = "move" /\ MayCopy(cat.head)
      /\ objects' = objects \cup Image(new)
      /\ cat' = [Swap(cat, Image(new)) EXCEPT !.flag = "public",
                    !.moves = @ \cup Records("to_public", new)]
      /\ UNCHANGED <<version, current, started, was>>
  BY Zenon DEF StagePublic, Move
<1>2. cat \in CatalogType /\ cat.head \in SUBSET Key /\ fresh \in 1..(MaxFile + 1)
  BY DEF CopiesInv, MatchFilesInv, TypeOK, CatalogType
<1>3. \A k \in Image(new) : fresh <= k.id
  BY <1>1, <1>2, CopiesAreNew
<1>4. Moved(moves) = Moved(cat.moves)
  BY MovedIsUnion
<1>5. /\ cat'.head = Image(new) /\ cat'.ended = cat.ended \cup cat.head
      /\ cat'.scheduled = cat.scheduled /\ cat'.flag = "public"
      /\ cat'.moves = moves /\ cat'.dropped = cat.dropped
  BY <1>1, <1>2 DEF Swap, CatalogType
<1> HIDE DEF new, moves
<1>6. Tracked(cat) \subseteq Tracked(cat')
  BY <1>5 DEF Tracked
<1>7. \A k \in InRoot("lake", objects') : k \in objects \/ fresh <= k.id
  BY <1>1, <1>3 DEF InRoot
<1> QED BY <1>1, <1>4, <1>5, <1>6, <1>7, WorkCovers

\* match_lake_objects finds every lake object of the match.
LEMMA StagePrivateCovers ==
    ASSUME CopiesInv, MatchFilesInv', StagePrivate
    PROVE  CopiesInv'
<1> DEFINE new == Copies(ToCopy, "restricted")
           none == [k \in ToForget |-> NoKey]
           files == {new[k] : k \in InRoot("lake", cat.head)}
           copied == cat.moves \cup Records("to_private", new)
<1>1. /\ pc = "work" /\ pc' = "move" /\ MayCopy(ToCopy)
      /\ objects' = objects \cup Image(new)
      /\ cat' = [Swap(cat, files) EXCEPT !.flag = "private",
                    !.moves = @ \cup Records("to_private", new)
                                \cup Records("to_private", none)]
      /\ UNCHANGED <<version, current, started, was>>
  BY Zenon DEF StagePrivate, Move
<1>2. /\ cat \in CatalogType /\ ToCopy \in SUBSET Key /\ fresh \in 1..(MaxFile + 1)
  BY StoredIsSound DEF CopiesInv, MatchFilesInv, TypeOK, CatalogType, ToCopy, InRoot
<1>3. /\ DOMAIN new = ToCopy /\ DOMAIN none = ToForget
      /\ Image(new) \subseteq In("restricted") /\ \A k \in Image(new) : fresh <= k.id
  BY <1>1, <1>2, CopiesAreNew
<1>4. /\ cat'.head = files /\ cat'.ended = cat.ended \cup cat.head
      /\ cat'.scheduled = cat.scheduled /\ cat'.flag = "private"
      /\ cat'.moves = copied \cup Records("to_private", none) /\ cat'.dropped = cat.dropped
  BY <1>1, <1>2 DEF Swap, CatalogType
<1> HIDE DEF files
<1>5. Moved(cat'.moves) = Moved(cat.moves) \cup ToCopy \cup ToForget
  <2> HIDE DEF new, none
  <2>1. Moved(copied) = Moved(cat.moves) \cup ToCopy
    BY <1>3, MovedIsUnion
  <2> HIDE DEF copied
  <2>2. Moved(copied \cup Records("to_private", none)) = Moved(copied) \cup ToForget
    BY <1>3, MovedIsUnion
  <2> QED BY <1>4, <2>1, <2>2
<1>6. InRoot("lake", objects') \subseteq objects
  BY <1>1, <1>3 DEF InRoot, In
<1> HIDE DEF new, none, copied
<1>7. InRoot("lake", objects') \subseteq Moved(cat'.moves)
  <2>1. InRoot("lake", objects) \subseteq ToCopy \cup ToForget
    BY DEF ToForget, InRoot
  <2> QED BY <1>5, <1>6, <2>1 DEF InRoot
<1>8. HeirCovers'
  BY <1>7 DEF HeirCovers, Secret, Own
<1>9. Quiet /\ Stored' = Stored
  BY <1>1, <1>6 DEF Quiet, Stored
<1>10. NowCovers'
  BY <1>9, NowCoversOn DEF CopiesInv
<1>11. Older'
  <2>1. Tracked(cat) \subseteq Tracked(cat')
    BY <1>4 DEF Tracked
  <2>2. Older /\ \A s \in Stored' : s \in Stored /\ version'[s] = version[s]
    BY <1>1, <1>9 DEF CopiesInv, PhaseCovers, Running
  <2> QED BY <1>1, <1>6, <2>1, <2>2, OlderStays DEF CopiesInv
<1> QED BY <1>1, <1>8, <1>10, <1>11 DEF CopiesInv, PhaseCovers

LEMMA PublishesCover ==
    ASSUME CopiesInv, MatchFilesInv', PublishMove \/ Checkpoint \/ RunEnd \/ RestoreCommit
    PROVE  CopiesInv'
<1>1. /\ Publish /\ UNCHANGED <<objects, fresh, cat, started>>
      /\ pc \notin {"idle", "drop"} /\ pc' \in {"finish", "work", "drop"}
      /\ pc' # "drop" => pc \in {"move", "work"}
  BY DEF PublishMove, Checkpoint, RunEnd, RestoreCommit, Move, local
<1>2. NowCovers' /\ HeirCovers'
  BY <1>1, PublishCovers DEF CopiesInv
<1>3. ASSUME pc' # "drop" PROVE Older'
  <2>1. Older
    BY <1>1, <1>3 DEF CopiesInv, PhaseCovers, Running
  <2>2. \A s \in Stored' : \/ s \in Stored /\ version'[s] = version[s]
                           \/ version'[s].cat = cat
    BY <1>1, VersionStored DEF Publish, CopiesInv, NowCovers
  <2> QED BY <1>1, <2>1, <2>2, OlderStays DEF CopiesInv, InRoot
<1> QED BY <1>1, <1>2, <1>3 DEF CopiesInv, PhaseCovers, Running

LEMMA PublishMoveFailsCovers ==
    ASSUME CopiesInv, MatchFilesInv', PublishMoveFails
    PROVE  CopiesInv'
<1>1. /\ pc = "move" /\ pc' = "work"
      /\ Store \/ UNCHANGED version
      /\ UNCHANGED <<objects, current, fresh, cat, started, was>>
  BY DEF PublishMoveFails, Move
<1>2. /\ Quiet
      /\ \A s \in Stored' : \/ s \in Stored /\ version'[s] = version[s]
                            \/ version'[s].cat = cat
  <2>1. CASE Store
    BY <1>1, <2>1, TornIsQuiet DEF CopiesInv
  <2>2. CASE UNCHANGED version
    BY <1>1, <2>2 DEF Quiet, Stored, InRoot
  <2> QED BY <1>1, <2>1, <2>2
<1>3. NowCovers' /\ Older' /\ HeirCovers'
  BY <1>1, <1>2, SameCopyStays DEF Running
<1> QED BY <1>1, <1>3 DEF CopiesInv, PhaseCovers

\* A process ends, its commit torn or not.
LEMMA EndCovers ==
    ASSUME CopiesInv, MatchFilesInv', Lose \/ LoseCommit \/ Release
    PROVE  CopiesInv'
<1>1. /\ pc' = "idle" /\ UNCHANGED <<objects, current, was>>
      /\ Store \/ UNCHANGED version
  BY DEF Lose, LoseCommit, Release, Rest
<1>2. Quiet
  <2>1. CASE Store
    BY <1>1, <2>1, TornIsQuiet DEF CopiesInv
  <2>2. CASE UNCHANGED version
    BY <1>1, <2>2 DEF Quiet, Stored, InRoot
  <2> QED BY <1>1, <2>1, <2>2
<1>3. NowCovers'
  BY <1>2, NowCoversOn DEF CopiesInv
<1> QED BY <1>1, <1>3 DEF CopiesInv, PhaseCovers, Running

-----------------------------------------------------------------------------
(* Cleanups                                                                *)

\* No key that was moved away is in the kept_file_set.
LEMMA KeptIsNotMoved ==
    ASSUME MatchFilesInv, NEW without
    PROVE  KeptFileSet(cat.moves, without) \cap Moved(cat.moves) = {}
<1>1. cat.moves \in SUBSET MoveRecord
  BY DEF MatchFilesInv, TypeOK, CatalogType
<1>2. Named(without) \in SUBSET Key
  BY StoredIsSound DEF Named, VersionType, CatalogType
<1>3. Last(ToPrivate(cat.moves)) \in SUBSET ToPrivate(cat.moves)
  BY DEF Last
<1>4. KeptFileSet(cat.moves, without) \subseteq
        (Named(without) \ Moved(cat.moves)) \cup In("restricted")
  BY <1>1, <1>2, <1>3, ReplacedIsMovedAway DEF KeptFileSet
<1>5. Moved(cat.moves) \subseteq In("lake") /\ In("lake") \cap In("restricted") = {}
  BY <1>1, MovedIsOfLake DEF In
<1> QED BY <1>4, <1>5

LEMMA CleanupCovers ==
    ASSUME CopiesInv, MatchFilesInv', Cleanup
    PROVE  CopiesInv'
<1>1. /\ pc = "work" /\ pc' = "versions" /\ todo' = cat'.scheduled \ kept'
      /\ UNCHANGED <<objects, version, current, fresh, started, was>>
  BY DEF Cleanup, Move
<1>2. PICK expired \in SUBSET cat.ended :
        /\ cat' = [cat EXCEPT !.ended = @ \ expired, !.scheduled = @ \cup expired]
        /\ kept' = KeptFileSet(cat.moves, pruning')
  BY DEF Cleanup
<1>3. cat \in CatalogType
  BY DEF CopiesInv, MatchFilesInv, TypeOK
<1>4. /\ cat'.moves = cat.moves /\ cat'.flag = cat.flag /\ cat'.dropped = cat.dropped
      /\ Tracked(cat') = Tracked(cat)
  BY <1>2, <1>3 DEF CatalogType, Tracked
<1>5. Quiet /\ Stored' = Stored
  BY <1>1 DEF Quiet, Stored, InRoot
<1>6. NowCovers'
  BY <1>5, NowCoversOn DEF CopiesInv
<1>7. HeirCovers'
  BY <1>1, <1>4, <1>5, HeirCoversOn DEF CopiesInv, Hides, InRoot
<1>8. Older'
  <2>1. Older
    BY <1>1 DEF CopiesInv, PhaseCovers, Running
  <2> QED BY <1>1, <1>4, <1>5, <2>1, OlderStays DEF CopiesInv, InRoot
<1>9. kept' \cap Moved(cat.moves) = {}
  BY <1>2, KeptIsNotMoved DEF CopiesInv
<1> QED BY <1>1, <1>4, <1>6, <1>7, <1>8, <1>9 DEF CopiesInv, PhaseCovers

LEMMA DeleteVersionCovers ==
    ASSUME CopiesInv, MatchFilesInv', NEW at \in {"versions", "drop"}, DeleteVersion(at)
    PROVE  CopiesInv'
<1>1. /\ version' = [version EXCEPT ![Min(pruning)] = Missing]
      /\ UNCHANGED <<objects, current, fresh, pc, cat, started, todo, kept, was>>
      /\ pc \in {"versions", "drop"}
  BY DEF DeleteVersion
<1>2. \A s \in Stored' : s \in Stored /\ version'[s] = version[s]
  BY <1>1 DEF CopiesInv, MatchFilesInv, TypeOK, Stored
<1>3. Quiet
  BY <1>1, <1>2 DEF Quiet, InRoot
<1>4. /\ NowCovers'
      /\ pc' \in Running => Older'
      /\ pc' \notin {"idle", "drop"} => HeirCovers'
  BY <1>1, <1>2, <1>3, SameCopyStays
<1> QED BY <1>1, <1>4 DEF CopiesInv, PhaseCovers

\* The rows that the sweep takes off the list are of keys that are no objects;
\* what it leaves of the moved keys is tracked, or newer than the run.
LEMMA SweepCovers ==
    ASSUME CopiesInv, MatchFilesInv', Sweep
    PROVE  CopiesInv'
<1>1. /\ pc = "scheduled" /\ pc' = "sweep" /\ todo = {}
      /\ cat' = [cat EXCEPT !.scheduled = @ \cap kept] /\ todo' = Doomed(cat')
      /\ UNCHANGED <<objects, version, current, fresh, started, was>>
  BY DEF Sweep, Move
<1>2. /\ Older /\ cat.scheduled \cap objects \subseteq kept
      /\ kept \cap Moved(cat.moves) = {}
  BY <1>1 DEF CopiesInv, PhaseCovers, Running
<1>3. cat \in CatalogType
  BY DEF CopiesInv, MatchFilesInv, TypeOK
<1>4. /\ cat'.moves = cat.moves /\ cat'.flag = cat.flag /\ cat'.dropped = cat.dropped
      /\ Tracked(cat') \subseteq Tracked(cat)
      /\ \A k \in objects : k \in Tracked(cat) => k \in Tracked(cat')
  BY <1>1, <1>2, <1>3 DEF CatalogType, Tracked
<1>5. Quiet /\ Stored' = Stored
  BY <1>1 DEF Quiet, Stored, InRoot
<1>6. NowCovers'
  BY <1>5, NowCoversOn DEF CopiesInv
<1>7. HeirCovers'
  BY <1>1, <1>4, <1>5, HeirCoversOn DEF CopiesInv, Hides, InRoot
<1>8. Older'
  BY <1>1, <1>2, <1>4, <1>5, OlderStays DEF CopiesInv, InRoot
<1>9. \A k \in objects' \cap Moved(cat'.moves) :
          k.id < started' => k \in todo' \cup Tracked(cat')
  BY <1>1, <1>2, <1>4 DEF Doomed
<1> QED BY <1>1, <1>6, <1>7, <1>8, <1>9 DEF CopiesInv, PhaseCovers

\* prune_move_records keeps the records of every public copy that is left: one
\* that a version tracks is named by it, or DuckLake still tracks it, or the
\* sweep found it without either and deleted it.
LEMMA SweptCovers ==
    ASSUME CopiesInv, MatchFilesInv', Swept
    PROVE  CopiesInv'
<1> DEFINE moves == {r \in cat.moves : NeedsRecord(r.old)}
<1>1. /\ pc = "sweep" /\ pc' = "run_end" /\ todo = {}
      /\ cat' = [cat EXCEPT !.moves = moves]
      /\ UNCHANGED <<objects, version, current, fresh, started, was>>
  BY DEF Swept, Move
<1>2. /\ Older
      /\ \A k \in objects \cap Moved(cat.moves) : k.id < started => k \in Tracked(cat)
  BY <1>1 DEF CopiesInv, PhaseCovers, Running
<1>3. cat \in CatalogType /\ moves \subseteq cat.moves
  BY DEF CopiesInv, MatchFilesInv, TypeOK
<1>4. /\ cat'.moves = moves /\ cat'.flag = cat.flag /\ cat'.dropped = cat.dropped
      /\ Tracked(cat') = Tracked(cat)
  BY <1>1, <1>3 DEF CatalogType, Tracked
<1>5. Quiet /\ Stored' = Stored /\ CatPoints' = CatPoints
  BY <1>1, <1>4 DEF Quiet, Stored, InRoot, CatPoints
<1>6. NowCovers'
  BY <1>5, NowCoversOn DEF CopiesInv
<1>7. /\ Secret(objects', version', Stored' \cap was', cat', CatPoints')
           \subseteq Secret(objects, version, Stored \cap was, cat, CatPoints)
      /\ Own(objects', version', cat', CatPoints')
           \subseteq Own(objects, version, cat, CatPoints)
  <2>1. Hides(cat') => Hides(cat)
    BY <1>3, <1>4 DEF Hides
  <2> QED BY <1>1, <1>4, <1>5, <2>1, HeirKeeps DEF CopiesInv, InRoot
<1>8. ASSUME NEW k \in Moved(cat.moves), k \in Named({}) \cup Tracked(cat)
      PROVE  k \in Moved(cat'.moves)
  <2>1. PICK r \in ToPrivate(cat.moves) : r.old = k
    BY <1>8 DEF Moved
  <2>2. r \in ToPrivate(cat'.moves)
    BY <1>4, <1>8, <2>1 DEF NeedsRecord, ToPrivate
  <2> QED BY <2>1, <2>2 DEF Moved
<1>9. HeirCovers /\ \A s \in CatPoints : version[s].cat.head \subseteq Named({})
  BY <1>1 DEF CopiesInv, CatPoints, Named
<1>10. Own(objects, version, cat, CatPoints) \subseteq Moved(cat'.moves)
  BY <1>8, <1>9 DEF HeirCovers, Own
<1>11. ASSUME NEW k \in Secret(objects, version, Stored \cap was, cat, CatPoints)
       PROVE  k \in Moved(cat'.moves)
  <2>1. k \in Moved(cat.moves) /\ k \in InRoot("lake", objects)
    BY <1>9, <1>11 DEF HeirCovers, Secret
  <2>2. \/ \E s \in CatPoints : k \in version[s].cat.head
        \/ \E s \in Stored : k \in Tracked(version[s].cat)
    BY <1>11 DEF Secret
  <2>3. CASE \E s \in CatPoints : k \in version[s].cat.head
    BY <1>8, <1>9, <2>1, <2>3
  <2>4. CASE \E s \in Stored : k \in Tracked(version[s].cat)
    <3>1. k.id < started \/ k \in Tracked(cat)
      BY <1>2, <2>1, <2>4 DEF Older
    <3>2. k \in Tracked(cat)
      BY <1>2, <2>1, <3>1 DEF InRoot
    <3> QED BY <1>8, <2>1, <3>2
  <2> QED BY <2>2, <2>3, <2>4
<1>12. HeirCovers'
  BY <1>7, <1>10, <1>11 DEF HeirCovers
<1>13. Older'
  BY <1>1, <1>2, <1>4, <1>5, OlderStays DEF CopiesInv, InRoot
<1> QED BY <1>1, <1>6, <1>12, <1>13 DEF CopiesInv, PhaseCovers

-----------------------------------------------------------------------------
(* Restores                                                                *)

\* A restored copy keeps the restore points up to its version.  While the match
\* is private without records it is the version's own copy; with records, CURRENT
\* has those of whatever its version tracks, and _check_flags of what it names.
LEMMA RestoreCovers ==
    ASSUME CopiesInv, MatchFilesInv', Restore
    PROVE  CopiesInv'
<1>1. pc' = "restore" /\ UNCHANGED <<version, current, started, was>>
  BY DEF Restore, Move
<1>2. PICK t \in (Stored \cap was) \ {current} :
        LET now == version[current].cat
            files == Resolve(now.moves, version[t].cat.head)
            flag == IF now.moves = {} THEN version[t].cat.flag ELSE Latest(now.moves)
            hidden == IF now.moves = {} \/ flag = "private" THEN {}
                      ELSE InRoot("restricted", files)
            new == Copies(hidden, "lake")
        IN  /\ now.moves # {} => flag = now.flag
            /\ (now.moves # {} /\ flag = "private") => InRoot("lake", files) = {}
            /\ hidden \subseteq objects /\ MayCopy(hidden)
            /\ objects' = objects \cup Image(new)
            /\ cat' = [version[t].cat EXCEPT
                          !.head = (files \ hidden) \cup Image(new),
                          !.flag = flag,
                          !.moves = now.moves \cup Records("to_public", new),
                          !.dropped = now.dropped \cup (t + 1)..(NextSeq - 1)]
  BY Zenon DEF Restore
<1> DEFINE old == version[t].cat
           files == Resolve(Now.moves, old.head)
           flag == IF Now.moves = {} THEN old.flag ELSE Latest(Now.moves)
           hidden == IF Now.moves = {} \/ flag = "private" THEN {}
                     ELSE InRoot("restricted", files)
           new == Copies(hidden, "lake")
           moves == Now.moves \cup Records("to_public", new)
           drops == Now.dropped \cup (t + 1)..(NextSeq - 1)
           head == (files \ hidden) \cup Image(new)
<1>3. /\ Now.moves # {} => flag = Now.flag
      /\ (Now.moves # {} /\ flag = "private") => InRoot("lake", files) = {}
      /\ hidden \subseteq objects /\ MayCopy(hidden) /\ objects' = objects \cup Image(new)
      /\ cat' = [old EXCEPT !.head = head, !.flag = flag, !.moves = moves, !.dropped = drops]
  BY <1>2, Zenon DEF Now
<1>4. MatchFilesInv /\ NowCovers /\ objects \subseteq Key
      /\ old \in CatalogType /\ fresh \in 1..(MaxFile + 1)
  BY StoredIsSound DEF CopiesInv, MatchFilesInv, TypeOK, Sound
<1>5. \A k \in Image(new) : fresh <= k.id
  <2>1. hidden \in SUBSET Key
    BY <1>3, <1>4
  <2> HIDE DEF hidden
  <2> QED BY <1>3, <1>4, <2>1, CopiesAreNew
<1>6. Now.moves = {} \/ flag = "private" => new = <<>> /\ Image(new) = {} /\ moves = Now.moves
  <2>1. ASSUME Now.moves = {} \/ flag = "private"
        PROVE  DOMAIN new = {}
    BY <2>1 DEF Copies
  <2>2. ASSUME DOMAIN new = {} PROVE Image(new) = {} /\ Records("to_public", new) = {}
    <3> HIDE DEF new
    <3> QED BY <2>2 DEF Image, Records
  <2> QED BY <2>1, <2>2
<1>7. Moved(moves) = Moved(Now.moves)
  BY MovedIsUnion
<1>8. Now.moves = {} => files = old.head
  BY DEF Resolve, Replaced, First, Moved, ToPrivate
<1> HIDE DEF new, flag, files, moves
<1>9. flag = "private" => hidden = {} /\ head = files
  BY <1>6
<1>10. /\ cat'.head = head /\ cat'.ended = old.ended /\ cat'.scheduled = old.scheduled
       /\ cat'.flag = flag /\ cat'.moves = moves /\ cat'.dropped = drops
  <2> HIDE DEF head, drops, old
  <2> QED BY <1>3, <1>4 DEF CatalogType
<1> HIDE DEF head, hidden
<1>11. Stored' = Stored /\ Quiet
  BY <1>1, <1>3, <1>5 DEF Stored, Quiet, InRoot
<1>12. /\ CatPoints' \subseteq RestorePoints /\ CatPoints' \subseteq Stored \cap was
       /\ \A s \in CatPoints' : s <= t
  <2>1. ASSUME NEW s \in CatPoints' PROVE s \in RestorePoints /\ s \in Stored \cap was /\ s <= t
    <3>1. s \in Stored \cap was /\ s \notin Now.dropped /\ s \notin (t + 1)..(NextSeq - 1)
      BY <1>1, <1>10, <1>11 DEF CatPoints
    <3>2. s \in Nat /\ t \in Nat /\ NextSeq \in Nat /\ s < NextSeq
      BY <1>4, <3>1, NextSeqIsNew DEF Stored, Seqs
    <3> QED BY <3>1, <3>2 DEF RestorePoints, Now
  <2> QED BY <2>1
<1>13. NowCovers'
  BY <1>4, <1>11, NowCoversOn
<1>14. Hides(cat') => Hides(Now)
  BY <1>3, <1>6, <1>10 DEF Hides
<1>15. Secret(objects', version', Stored' \cap was', cat', CatPoints')
         \subseteq Secret(objects, version, Stored \cap was, Now, RestorePoints)
  BY <1>4, <1>11, <1>12, <1>14, QuietSecret
<1>16. ASSUME NEW k \in Own(objects', version', cat', CatPoints')
       PROVE  k \in Secret(objects, version, Stored \cap was, Now, RestorePoints)
  <2>1. /\ flag = "private" /\ k \in InRoot("lake", objects')
        /\ k \in head \cup old.ended \cup old.scheduled
             \/ \E s \in CatPoints' : k \in version[s].cat.head
    BY <1>1, <1>10, <1>16 DEF Own, Tracked
  <2>2. k \in InRoot("lake", objects)
    BY <1>3, <1>6, <2>1
  <2>3. CASE Now.moves = {}
    <3>1. old.flag = "private" /\ head = old.head
      BY <1>8, <1>9, <2>1, <2>3 DEF flag
    <3>2. k \in Tracked(old) \/ \E s \in RestorePoints : s <= t /\ k \in version[s].cat.head
      BY <1>12, <2>1, <3>1 DEF Tracked
    <3> QED BY <2>2, <3>1, <3>2 DEF Secret
  <2>4. CASE Now.moves # {}
    <3>1. Hides(Now) /\ k \notin head
      BY <1>3, <1>9, <2>1, <2>2, <2>4 DEF Hides, InRoot
    <3>2. \E s \in Stored \cap was : k \in Tracked(version[s].cat)
      BY <1>12, <2>1, <3>1 DEF Tracked
    <3> QED BY <2>2, <3>1, <3>2 DEF Secret
  <2> QED BY <2>3, <2>4
<1>17. HeirCovers'
  BY <1>4, <1>7, <1>10, <1>15, <1>16 DEF HeirCovers, NowCovers
<1> QED BY <1>1, <1>13, <1>17 DEF CopiesInv, PhaseCovers, Running

-----------------------------------------------------------------------------
(* Theorem about public copies                                             *)

LEMMA InitCovers == Init => CopiesInv
<1> SUFFICES ASSUME Init PROVE CopiesInv
  OBVIOUS
<1>1. PICK flag \in {"public", "private"} :
        /\ objects = {[root |-> IF flag = "public" THEN "lake" ELSE "restricted", id |-> 1]}
        /\ version = [s \in Seqs |-> IF s > 1 THEN Missing ELSE
               [kind |-> "run_end",
                cat |-> [NoCat EXCEPT !.head = objects, !.flag = flag]]]
  BY DEF Init
<1> DEFINE c == [NoCat EXCEPT !.head = objects, !.flag = flag]
<1>2. current = 1 /\ was = {1} /\ pc = "idle" /\ 1 \in Seqs
  BY MatchFilesConstants DEF Init, Seqs
<1>3. version[1].cat.flag = flag
  <2>1. version[1].cat = c
    BY <1>1, <1>2
  <2>2. c.flag = flag
    BY SMT DEF NoCat
  <2> QED BY <2>1, <2>2
<1>4. flag = "private" => InRoot("lake", objects) = {}
  BY <1>1 DEF InRoot, In
<1>5. Stored \cap was \subseteq {1}
  BY <1>2
<1>6. Secret(objects, version, Stored \cap was, Now, RestorePoints) = {}
  BY <1>2, <1>3, <1>4, <1>5 DEF Secret, Hides, Now
<1> QED BY <1>2, <1>6, InitIsSound DEF CopiesInv, NowCovers, PhaseCovers, Running

LEMMA NextCovers == CopiesInv /\ [Next]_vars => CopiesInv'
<1> SUFFICES ASSUME CopiesInv, [Next]_vars PROVE CopiesInv'
  OBVIOUS
<1>1. MatchFilesInv'
  BY NextIsSound DEF CopiesInv
<1>2. CASE Visit
  <2>1. CASE StartRun
    BY <1>1, <2>1, StartRunCovers
  <2>2. CASE Settled \/ Finished \/ StageFails \/ DeleteKey("settle") \/ DeleteKey("finish")
    BY <1>1, <2>2, WalkCovers
  <2>3. CASE Write
    BY <1>1, <2>3, WriteCovers
  <2>4. CASE StagePrivate
    BY <1>1, <2>4, StagePrivateCovers
  <2>5. CASE StagePublic
    BY <1>1, <2>5, StagePublicCovers
  <2>6. CASE PublishMove \/ Checkpoint
    BY <1>1, <2>6, PublishesCover
  <2>7. CASE PublishMoveFails
    BY <1>1, <2>7, PublishMoveFailsCovers
  <2> QED BY <1>2, <2>1, <2>2, <2>3, <2>4, <2>5, <2>6, <2>7 DEF Visit
<1>3. CASE EndOfRun
  <2>1. CASE Cleanup
    BY <1>1, <2>1, CleanupCovers
  <2>2. CASE DeleteVersion("versions") \/ DeleteVersion("drop")
    BY <1>1, <2>2, DeleteVersionCovers
  <2>3. CASE VersionsDeleted \/ DeleteKey("scheduled") \/ DeleteKey("sweep")
    BY <1>1, <2>3, WalkCovers
  <2>4. CASE Sweep
    BY <1>1, <2>4, SweepCovers
  <2>5. CASE Swept
    BY <1>1, <2>5, SweptCovers
  <2>6. CASE RunEnd
    BY <1>1, <2>6, PublishesCover
  <2>7. CASE Release
    BY <1>1, <2>7, EndCovers
  <2> QED BY <1>3, <2>1, <2>2, <2>3, <2>4, <2>5, <2>6, <2>7 DEF EndOfRun
<1>4. CASE Restore
  BY <1>1, <1>4, RestoreCovers
<1>5. CASE RestoreCommit
  BY <1>1, <1>5, PublishesCover
<1>6. CASE Lose \/ LoseCommit
  BY <1>1, <1>6, EndCovers
<1>7. CASE LateDelete \/ UNCHANGED vars
  BY <1>1, <1>7, WalkCovers
<1> QED BY <1>2, <1>3, <1>4, <1>5, <1>6, <1>7 DEF Next

LEMMA CopiesInvHolds == Spec => []CopiesInv
BY InitCovers, NextCovers, PTL DEF Spec

\* settle_moves finds every public copy of a private match: whatever crashed,
\* failed, was torn or came late, CURRENT has the to_private record of each lake
\* object that DuckLake tracks or a restore point names while the match is private.
THEOREM PublicCopiesHaveRecords == Spec => []PublicCopyHasRecord
<1>1. ASSUME CopiesInv PROVE PublicCopyHasRecord
  <2>1. current \in Stored \cap was /\ \A s \in RestorePoints : s <= current
    BY <1>1, StoredIsSound DEF CopiesInv, NowCovers, RestorePoints
  <2>2. Now.flag \in {"public", "private"}
    BY <1>1, StoredIsSound DEF CopiesInv, Sound, CatalogType, Now
  <2>3. PublicCopies \subseteq Secret(objects, version, Stored \cap was, Now, RestorePoints)
    BY <2>1, <2>2 DEF PublicCopies, Secret, InRoot, Now
  <2> QED BY <1>1, <2>3 DEF CopiesInv, NowCovers, PublicCopyHasRecord, Now
<1> QED BY <1>1, CopiesInvHolds, PTL
=============================================================================
