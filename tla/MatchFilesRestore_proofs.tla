---------------------- MODULE MatchFilesRestore_proofs ----------------------
(* Proof that the restore points work, for any number of write ids and     *)
(* versions, when no process deletes after it lost its lease.              *)
EXTENDS MatchFiles_proofs

-----------------------------------------------------------------------------
(* The inductive invariant                                                 *)

\* Where the keys are when none of them has two records.
Found(moves, keys) == Replaced(keys, moves, ToPrivate(moves))

\* A catalog's records lead from the keys to objects, and out of the public root.
Reaches(c, keys, objs) ==
    /\ Found(c.moves, keys) \subseteq objs
    /\ c.flag = "private" => InRoot("lake", keys) \subseteq Moved(c.moves)

\* A catalog made when n was the next write id: it registers a file, a public
\* match none in the restricted root, and what it tracks besides is other files.
Fit(c, n) ==
    /\ c.head # {} /\ c.head \cap (c.ended \cup c.scheduled) = {}
    /\ c.flag = "public" => c.head \subseteq In("lake")
    /\ \A k \in Tracked(c) : k.id < n
    /\ \A r \in ToPrivate(c.moves) : r.new # NoKey => r.new.id < n

\* Each key of the catalog has at most one record, made after the catalog.
Recorded(moves, c) ==
    \A r \in ToPrivate(moves) : r.old \in c.head =>
        /\ r.new \notin c.ended \cup c.scheduled
        /\ \A q \in ToPrivate(moves) : q.old = r.old => q = r

\* The records of the catalog's keys are not lost.
Carried(from, to, c) == \A r \in ToPrivate(from) : r.old \in c.head => r \in to

\* A version that a restore may bring back as private was published after the
\* older restore points were moved: the first move to private is after them all.
PrivateOnce ==
    \A t \in Stored \cap was, s \in RestorePoints :
        s <= t /\ version[t].cat.flag = "private" =>
            InRoot("lake", version[s].cat.head) \subseteq Moved(Now.moves)

\* What holds of CURRENT between any two steps.
NowInv ==
    /\ late = {}
    /\ \A s \in Stored : Fit(version[s].cat, fresh) /\ Recorded(Now.moves, version[s].cat)
    /\ \A s \in RestorePoints : Reaches(Now, version[s].cat.head, objects)
    /\ PrivateOnce
    /\ current \in was /\ \A s \in was : s <= current
    /\ \A d \in Now.dropped : d < current

\* The working copy may become CURRENT.
HeirInv ==
    /\ Fit(cat, fresh) /\ cat.head \cap Moved(Now.moves) = {}
    /\ \A s \in Stored : /\ Recorded(cat.moves, version[s].cat)
                         /\ Carried(Now.moves, cat.moves, version[s].cat)
    /\ \A s \in CatPoints : Reaches(cat, version[s].cat.head, objects)

\* The working copy has no new record of a restore point's file.
Published ==
    \A s \in RestorePoints :
        version[s].cat.head \cap Moved(cat.moves) \subseteq Moved(Now.moves)

PhaseInv ==
    /\ pc \in Running => cat.dropped = Now.dropped /\ cat.head \subseteq objects
    /\ pc = "restore" =>
         Now.dropped \subseteq cat.dropped /\ \A d \in cat.dropped : d < NextSeq
    /\ pc \in {"settle", "finish"} => cat = Now
    /\ pc \in {"settle", "move", "finish"} => todo \subseteq Moved(cat.moves)
    /\ pc = "work" => todo = {}
    /\ pc \in {"work", "move"} => Published \/ Now.head \cap Moved(cat.moves) # {}
    /\ pc \in {"versions", "scheduled", "sweep"} => Published
    /\ pc = "scheduled" => pruning = {}
    /\ pc \in {"versions", "scheduled"} =>
         /\ todo \cap (kept \cup cat.head) = {}
         /\ \A s \in RestorePoints \ pruning :
              Found(cat.moves, version[s].cat.head) \subseteq kept
    /\ pc = "sweep" =>
         /\ todo \cap cat.head = {}
         /\ \A s \in RestorePoints : todo \cap Found(cat.moves, version[s].cat.head) = {}

RestoreInv ==
    /\ MatchFilesInv /\ NowInv /\ PhaseInv
    /\ pc \notin {"idle", "drop"} => HeirInv

-----------------------------------------------------------------------------
(* Keys and records                                                        *)

LEMMA FoundHas ==
    ASSUME NEW moves, NEW keys
    PROVE  /\ \A k \in Found(moves, keys) :
                \/ k \in keys /\ k \notin Moved(moves)
                \/ \E r \in ToPrivate(moves) : r.old \in keys /\ k = r.new
           /\ keys \ Moved(moves) \subseteq Found(moves, keys)
           /\ \A r \in ToPrivate(moves) : r.old \in keys => r.new \in Found(moves, keys)
BY DEF Found, Replaced

\* Keys that were not moved are where they were.
LEMMA FoundUnmoved ==
    ASSUME NEW moves, NEW keys, keys \cap Moved(moves) = {}
    PROVE  Found(moves, keys) = keys
BY DEF Found, Replaced, Moved

\* No copy is where a moved key was.
LEMMA MovedIsNotFound ==
    ASSUME NEW moves \in SUBSET MoveRecord, NEW keys \in SUBSET Key
    PROVE  Found(moves, keys) \cap Moved(moves) = {}
<1>1. ToPrivate(moves) \in SUBSET ToPrivate(moves)
  OBVIOUS
<1>2. Found(moves, keys) \subseteq (keys \ Moved(moves)) \cup In("restricted") \cup {NoKey}
  BY <1>1, ReplacedIsMovedAway DEF Found
<1>3. Moved(moves) \subseteq In("lake")
  BY MovedIsOfLake
<1>4. In("lake") \cap In("restricted") = {} /\ NoKey \notin In("lake")
  BY MatchFilesConstants DEF In
<1> QED BY <1>2, <1>3, <1>4

\* With one record for each key, the first and the last are the same.
LEMMA OneRecord ==
    ASSUME NEW moves \in SUBSET MoveRecord, NEW c, Recorded(moves, c), NEW r \in ToPrivate(moves),
           r.old \in c.head
    PROVE  r \in First(ToPrivate(moves)) /\ r \in Last(ToPrivate(moves))
<1>1. \A q \in ToPrivate(moves) : q.old = r.old => q = r
  BY DEF Recorded
<1>2. r.at \in Nat
  BY DEF ToPrivate, MoveRecord
<1> QED BY <1>1, <1>2 DEF First, Last

LEMMA ResolvedIsFound ==
    ASSUME NEW moves \in SUBSET MoveRecord, NEW c, Recorded(moves, c)
    PROVE  Resolve(moves, c.head) = Found(moves, c.head)
<1>1. \A r \in ToPrivate(moves) : r.old \in c.head => r \in First(ToPrivate(moves))
  BY OneRecord
<1>2. First(ToPrivate(moves)) \subseteq ToPrivate(moves)
  BY DEF First
<1> QED BY <1>1, <1>2 DEF Resolve, Found, Replaced

\* Records that a catalog carries over, and none that is new to these keys.
LEMMA SameFound ==
    ASSUME NEW from, NEW to, NEW c, Carried(from, to, c), Recorded(to, c),
           c.head \cap Moved(to) \subseteq Moved(from)
    PROVE  Found(to, c.head) = Found(from, c.head)
<1>1. \A r \in ToPrivate(from) : r.old \in c.head => r \in ToPrivate(to)
  BY DEF Carried, ToPrivate
<1>2. \A r \in ToPrivate(to) : r.old \in c.head => r \in ToPrivate(from)
  <2>1. SUFFICES ASSUME NEW r \in ToPrivate(to), r.old \in c.head PROVE r \in ToPrivate(from)
    OBVIOUS
  <2>2. r.old \in Moved(from)
    BY <2>1 DEF Moved
  <2>3. PICK q \in ToPrivate(from) : q.old = r.old
    BY <2>2 DEF Moved
  <2>4. q \in ToPrivate(to)
    BY <1>1, <2>1, <2>3
  <2> QED BY <2>1, <2>3, <2>4 DEF Recorded
<1>3. c.head \cap Moved(to) = c.head \cap Moved(from)
  BY <1>1 DEF Moved
<1> QED BY <1>1, <1>2, <1>3 DEF Found, Replaced

LEMMA ReachesMore ==
    ASSUME NEW c, NEW keys, NEW objs, NEW more, Reaches(c, keys, objs), objs \subseteq more
    PROVE  Reaches(c, keys, more)
BY DEF Reaches

LEMMA FitLater ==
    ASSUME NEW c, NEW m \in Nat, NEW n \in Nat, m <= n, c \in CatalogType, Fit(c, m)
    PROVE  Fit(c, n)
<1>1. \A k \in Tracked(c) : k.id \in Nat
  BY DEF CatalogType, Tracked, Key
<1>2. \A r \in ToPrivate(c.moves) : r.new # NoKey => r.new.id \in Nat
  BY DEF CatalogType, ToPrivate, MoveRecord, In, Key
<1> QED BY <1>1, <1>2 DEF Fit

-----------------------------------------------------------------------------
(* Steps that leave the versions alone                                     *)

\* CURRENT is a restore point, and its files are in storage.
LEMMA NowIsPoint ==
    ASSUME MatchFilesInv, NowInv
    PROVE  /\ current \in Stored /\ current \in RestorePoints
           /\ Now \in CatalogType /\ Sound(Now, fresh) /\ Fit(Now, fresh)
           /\ Now.head \subseteq objects
<1>1. current \in Stored /\ Sound(Now, fresh)
  BY StoredIsSound DEF Now
<1>2. Now \in CatalogType /\ Now.head \cap Moved(Now.moves) = {}
  BY <1>1 DEF Sound
<1>3. current \in Nat /\ ~ (current < current)
  BY DEF MatchFilesInv, TypeOK, Seqs
<1>4. current \in RestorePoints /\ Fit(Now, fresh)
  BY <1>1, <1>3 DEF RestorePoints, NowInv, Now
<1>5. Reaches(Now, Now.head, objects)
  BY <1>4 DEF NowInv, Now
<1>6. Found(Now.moves, Now.head) = Now.head
  BY <1>2, FoundUnmoved
<1> QED BY <1>1, <1>2, <1>4, <1>5, <1>6 DEF Reaches

LEMMA NowStays ==
    ASSUME MatchFilesInv, NowInv, UNCHANGED <<version, current, was, late>>,
           fresh' \in Nat, fresh <= fresh',
           \A s \in RestorePoints : Reaches(Now, version[s].cat.head, objects')
    PROVE  NowInv'
<1>1. Now' = Now /\ Stored' = Stored /\ RestorePoints' = RestorePoints
  BY DEF Now, Stored, RestorePoints
<1>2. ASSUME NEW s \in Stored PROVE Fit(version[s].cat, fresh')
  <2>1. Fit(version[s].cat, fresh)
    BY DEF NowInv
  <2>2. version[s].cat \in CatalogType /\ fresh \in Nat
    BY StoredIsSound DEF Sound
  <2> QED BY <2>1, <2>2, FitLater
<1>3. PrivateOnce'
  BY <1>1 DEF NowInv, PrivateOnce
<1> QED BY <1>1, <1>2, <1>3 DEF NowInv

LEMMA HeirStays ==
    ASSUME MatchFilesInv, HeirInv, UNCHANGED <<version, current, was, cat>>,
           fresh' \in Nat, fresh <= fresh',
           \A s \in CatPoints : Reaches(cat, version[s].cat.head, objects')
    PROVE  HeirInv'
<1>1. Now' = Now /\ Stored' = Stored /\ CatPoints' = CatPoints
  BY DEF Now, Stored, CatPoints
<1>2. Fit(cat, fresh')
  <2>1. Fit(cat, fresh) /\ cat \in CatalogType /\ fresh \in Nat
    BY StoredIsSound DEF HeirInv, MatchFilesInv, CatalogsSound, Sound
  <2> QED BY <2>1, FitLater
<1> QED BY <1>1, <1>2 DEF HeirInv

\* More objects and write ids do no harm.
LEMMA GrowthIsFine ==
    ASSUME MatchFilesInv, NowInv, UNCHANGED <<version, current, was, late>>,
           fresh' \in Nat, fresh <= fresh', objects \subseteq objects'
    PROVE  NowInv' /\ (HeirInv /\ cat' = cat => HeirInv')
<1>1. \A s \in RestorePoints : Reaches(Now, version[s].cat.head, objects')
  BY ReachesMore DEF NowInv
<1>2. NowInv'
  BY <1>1, NowStays
<1>3. ASSUME HeirInv, cat' = cat PROVE HeirInv'
  <2>1. \A s \in CatPoints : Reaches(cat, version[s].cat.head, objects')
    BY <1>3, ReachesMore DEF HeirInv
  <2> QED BY <1>3, <2>1, HeirStays
<1> QED BY <1>2, <1>3

\* What the working copy finds of a restore point is what CURRENT finds.
LEMMA PublishedFindsTheSame ==
    ASSUME HeirInv, Published, NEW s \in RestorePoints
    PROVE  Found(cat.moves, version[s].cat.head) = Found(Now.moves, version[s].cat.head)
<1>1. s \in Stored
  BY DEF RestorePoints
<1>2. version[s].cat.head \cap Moved(cat.moves) \subseteq Moved(Now.moves)
  BY DEF Published
<1>3. Recorded(cat.moves, version[s].cat) /\ Carried(Now.moves, cat.moves, version[s].cat)
  BY <1>1 DEF HeirInv
<1> QED BY <1>2, <1>3, SameFound

\* A delete of a key that nobody finds.
LEMMA DeleteIsFine ==
    ASSUME MatchFilesInv, NowInv, HeirInv, NEW k, objects' = objects \ {k},
           UNCHANGED <<version, current, was, late, fresh, cat>>,
           cat.dropped = Now.dropped, Published,
           \A s \in RestorePoints : k \notin Found(cat.moves, version[s].cat.head)
    PROVE  NowInv' /\ HeirInv'
<1>1. fresh \in Nat /\ fresh' = fresh /\ fresh <= fresh'
  BY StoredIsSound
<1>2. ASSUME NEW s \in RestorePoints PROVE Reaches(Now, version[s].cat.head, objects')
  <2>1. Found(cat.moves, version[s].cat.head) = Found(Now.moves, version[s].cat.head)
    BY PublishedFindsTheSame
  <2>2. Reaches(Now, version[s].cat.head, objects)
    BY DEF NowInv
  <2> QED BY <2>1, <2>2 DEF Reaches
<1>3. NowInv'
  BY <1>1, <1>2, NowStays
<1>4. CatPoints = RestorePoints
  BY DEF CatPoints, RestorePoints, Now
<1>5. ASSUME NEW s \in CatPoints PROVE Reaches(cat, version[s].cat.head, objects')
  <2>1. k \notin Found(cat.moves, version[s].cat.head)
    BY <1>4
  <2>2. Reaches(cat, version[s].cat.head, objects)
    BY DEF HeirInv
  <2> QED BY <2>1, <2>2 DEF Reaches
<1>6. HeirInv'
  BY <1>1, <1>5, HeirStays
<1> QED BY <1>3, <1>6

-----------------------------------------------------------------------------
(* Commits                                                                 *)

\* A catalog registers none of the keys it moved away.
LEMMA RecordedForItself ==
    ASSUME NEW moves, NEW c, c.head \cap Moved(moves) = {}
    PROVE  Recorded(moves, c) /\ \A to : Carried(moves, to, c)
BY DEF Recorded, Carried, Moved

\* A torn commit.
LEMMA TornIsFine ==
    ASSUME MatchFilesInv, NowInv, HeirInv, Store,
           UNCHANGED <<objects, current, fresh, was, late>>
    PROVE  /\ NowInv' /\ RestorePoints' = RestorePoints /\ Now' = Now
           /\ \A s \in RestorePoints : version'[s] = version[s]
           /\ cat' = cat => HeirInv'
<1>1. /\ NextSeq \notin Stored /\ NextSeq \notin was /\ Stored' = Stored \cup {NextSeq}
      /\ version'[NextSeq].cat = cat /\ \A s \in Stored : version'[s] = version[s]
  BY VersionStored DEF NowInv
<1>2. current \in Stored /\ Sound(cat, fresh)
  BY StoredIsSound DEF MatchFilesInv, CatalogsSound
<1>3. Now' = Now /\ Stored' \cap was' = Stored \cap was
  BY <1>1, <1>2 DEF Now
<1>4. /\ RestorePoints' = RestorePoints
      /\ \A s \in Stored' \cap was' : s \in Stored /\ version'[s] = version[s]
  BY <1>1, <1>3 DEF RestorePoints, Now
<1>5. PrivateOnce'
  <2>1. PrivateOnce
    BY DEF NowInv
  <2>2. \A s \in RestorePoints : s \in Stored
    BY DEF RestorePoints
  <2> QED BY <1>1, <1>3, <1>4, <2>1, <2>2 DEF PrivateOnce
<1>6. Recorded(Now.moves, cat) /\ Recorded(cat.moves, cat)
      /\ Carried(Now.moves, cat.moves, cat)
  BY <1>2, RecordedForItself DEF HeirInv, Sound
<1>7. NowInv'
  BY <1>1, <1>3, <1>4, <1>5, <1>6 DEF NowInv, HeirInv, RestorePoints
<1>8. ASSUME cat' = cat PROVE HeirInv'
  <2>1. CatPoints' = CatPoints /\ \A s \in CatPoints : version'[s] = version[s]
    BY <1>1, <1>3, <1>8 DEF CatPoints
  <2> QED BY <1>1, <1>3, <1>6, <1>8, <2>1 DEF HeirInv
<1> QED BY <1>1, <1>3, <1>4, <1>7, <1>8 DEF RestorePoints

\* The working copy becomes CURRENT.
LEMMA PublishIsFine ==
    ASSUME MatchFilesInv, NowInv, HeirInv, Publish, UNCHANGED <<objects, fresh, cat, late>>,
           cat.head \subseteq objects, Now.dropped \subseteq cat.dropped,
           \A d \in cat.dropped : d < NextSeq
    PROVE  NowInv' /\ HeirInv' /\ Now' = cat
<1>1. Store /\ current' = NextSeq /\ was' = was \cup {NextSeq}
  BY DEF Publish
<1>2. /\ NextSeq \in Nat /\ NextSeq \notin Stored /\ NextSeq \notin was
      /\ Stored' = Stored \cup {NextSeq}
      /\ version'[NextSeq].cat = cat
      /\ \A s \in Stored : version'[s] = version[s] /\ s \in Nat /\ s < NextSeq
      /\ current < NextSeq
  BY <1>1, VersionStored DEF NowInv
<1>3. Now' = cat
  BY <1>1, <1>2 DEF Now
<1>4. /\ CatPoints' = CatPoints \cup ({NextSeq} \ cat.dropped)
      /\ RestorePoints' = CatPoints' /\ CatPoints \subseteq RestorePoints
      /\ CatPoints \subseteq Stored
  BY <1>1, <1>2, <1>3 DEF CatPoints, RestorePoints, Now
<1>5. Sound(cat, fresh)
  BY DEF MatchFilesInv, CatalogsSound
<1>6. /\ Recorded(cat.moves, cat) /\ Carried(cat.moves, cat.moves, cat)
      /\ Carried(Now.moves, cat.moves, cat)
  BY <1>5, RecordedForItself DEF HeirInv, Sound
<1>7. Reaches(cat, cat.head, objects)
  <2>1. Found(cat.moves, cat.head) = cat.head
    BY <1>5, FoundUnmoved DEF Sound
  <2> QED BY <1>5, <2>1 DEF Sound, Reaches
<1>8. \A s \in CatPoints' : Reaches(cat, version'[s].cat.head, objects)
  BY <1>2, <1>4, <1>7 DEF HeirInv
<1>9. PrivateOnce'
  <2>1. SUFFICES ASSUME NEW t \in Stored' \cap was', NEW s \in RestorePoints',
                        s <= t, version'[t].cat.flag = "private"
                 PROVE  InRoot("lake", version'[s].cat.head) \subseteq Moved(cat.moves)
    BY <1>3 DEF PrivateOnce
  <2>2. CASE t = NextSeq
    <3>1. cat.flag = "private"
      BY <1>2, <2>1, <2>2
    <3> QED BY <1>4, <1>8, <2>1, <3>1 DEF Reaches
  <2>3. CASE t # NextSeq
    <3>1. t \in Stored \cap was /\ t < NextSeq /\ t \in Nat /\ version'[t] = version[t]
      BY <1>1, <1>2, <2>1, <2>3
    <3>2. s # NextSeq
      BY <1>2, <2>1, <3>1
    <3>3. s \in CatPoints /\ s \in RestorePoints /\ s \in Stored /\ version'[s] = version[s]
      BY <1>2, <1>4, <2>1, <3>2
    <3>4. InRoot("lake", version[s].cat.head) \subseteq Moved(Now.moves)
      BY <2>1, <3>1, <3>3 DEF NowInv, PrivateOnce
    <3>5. Carried(Now.moves, cat.moves, version[s].cat)
      BY <3>3 DEF HeirInv
    <3>6. \A k \in version[s].cat.head : k \in Moved(Now.moves) => k \in Moved(cat.moves)
      BY <3>5 DEF Carried, Moved, ToPrivate
    <3> QED BY <3>3, <3>4, <3>6 DEF InRoot
  <2> QED BY <2>2, <2>3
<1>10. NowInv'
  <2>1. \A s \in Stored' : Fit(version'[s].cat, fresh) /\ Recorded(cat.moves, version'[s].cat)
    BY <1>2, <1>6 DEF NowInv, HeirInv
  <2>2. current' \in was' /\ \A s \in was' : s <= current'
    <3>1. current \in Nat /\ was \subseteq Nat
      BY DEF MatchFilesInv, TypeOK, Seqs
    <3>2. \A s \in was : s <= current
      BY DEF NowInv
    <3> QED BY <1>1, <1>2, <3>1, <3>2
  <2>3. late' = {} /\ \A d \in Now'.dropped : d < current'
    BY <1>1, <1>3 DEF NowInv
  <2> QED BY <1>3, <1>4, <1>8, <1>9, <2>1, <2>2, <2>3 DEF NowInv
<1>11. HeirInv'
  <2>1. \A s \in Stored' : Recorded(cat.moves, version'[s].cat)
    BY <1>2, <1>6 DEF HeirInv
  <2>2. \A s \in Stored' : Carried(cat.moves, cat.moves, version'[s].cat)
    BY DEF Carried, ToPrivate
  <2> QED BY <1>3, <1>5, <1>8, <2>1, <2>2 DEF HeirInv, Sound
<1> QED BY <1>3, <1>10, <1>11

-----------------------------------------------------------------------------
(* The start of a run, the deletes of moves, and the ends of processes     *)

LEMMA StartRunRestores ==
    ASSUME RestoreInv, MatchFilesInv', StartRun
    PROVE  RestoreInv'
<1>1. /\ pc' = "settle" /\ cat' = Now /\ todo' \subseteq Moved(cat'.moves)
      /\ UNCHANGED <<objects, version, current, fresh, pruning, kept, late, was>>
  BY DEF StartRun, Move, Leftovers, Now
<1>2. /\ Now \in CatalogType /\ Sound(Now, fresh) /\ Fit(Now, fresh)
      /\ Now.head \subseteq objects
  BY NowIsPoint DEF RestoreInv
<1>3. fresh \in Nat /\ fresh' = fresh /\ fresh <= fresh' /\ objects \subseteq objects'
  BY <1>1, StoredIsSound DEF RestoreInv
<1>4. NowInv'
  BY <1>1, <1>3, GrowthIsFine DEF RestoreInv
<1>5. /\ Now' = Now /\ Stored' = Stored /\ RestorePoints' = RestorePoints
      /\ CatPoints' = RestorePoints
  BY <1>1 DEF Now, Stored, RestorePoints, CatPoints
<1>6. HeirInv'
  <2>1. Fit(cat', fresh') /\ cat'.head \cap Moved(Now.moves) = {}
    BY <1>1, <1>2 DEF Sound
  <2>2. \A s \in Stored : /\ Recorded(cat'.moves, version[s].cat)
                          /\ Carried(Now.moves, cat'.moves, version[s].cat)
    BY <1>1 DEF RestoreInv, NowInv, Carried, ToPrivate
  <2>3. \A s \in CatPoints' : Reaches(cat', version[s].cat.head, objects)
    BY <1>1, <1>5 DEF RestoreInv, NowInv
  <2> QED BY <1>1, <1>5, <2>1, <2>2, <2>3 DEF HeirInv
<1>7. PhaseInv'
  BY <1>1, <1>2, <1>5 DEF PhaseInv, Running
<1> QED BY <1>4, <1>6, <1>7 DEF RestoreInv

LEMMA SettledRestores ==
    ASSUME RestoreInv, MatchFilesInv', Settled \/ Finished
    PROVE  RestoreInv'
<1>1. /\ pc \in {"settle", "finish"} /\ pc' = "work" /\ todo = {}
      /\ UNCHANGED <<objects, version, current, fresh, cat, started, todo>>
      /\ UNCHANGED <<pruning, kept, late, was>>
  BY DEF Settled, Finished, Move, local
<1>2. fresh \in Nat /\ fresh' = fresh /\ fresh <= fresh' /\ objects \subseteq objects'
  BY <1>1, StoredIsSound DEF RestoreInv
<1>3. NowInv' /\ HeirInv'
  BY <1>1, <1>2, GrowthIsFine DEF RestoreInv
<1>4. Now' = Now /\ RestorePoints' = RestorePoints /\ cat = Now
  BY <1>1 DEF Now, RestorePoints, Stored, RestoreInv, PhaseInv
<1>5. Published'
  BY <1>1, <1>4 DEF Published
<1>6. cat.dropped = Now.dropped /\ cat.head \subseteq objects
  BY <1>1 DEF RestoreInv, PhaseInv, Running
<1>7. PhaseInv'
  BY <1>1, <1>4, <1>5, <1>6 DEF PhaseInv, Running
<1> QED BY <1>3, <1>7 DEF RestoreInv

\* The deletes of a run start and of a finished move: of keys moved away.
LEMMA DeleteMovedRestores ==
    ASSUME RestoreInv, MatchFilesInv', NEW at \in {"settle", "finish"}, DeleteKey(at)
    PROVE  RestoreInv'
<1>1. PICK k \in todo : objects' = objects \ {k} /\ todo' = todo \ {k}
  BY DEF DeleteKey
<1>2. /\ pc = at /\ pc' = pc /\ late' = {} /\ late = {}
      /\ UNCHANGED <<version, current, fresh, cat, started, pruning, kept, was>>
  BY DEF DeleteKey, RestoreInv, NowInv
<1>3. /\ cat = Now /\ k \in Moved(cat.moves) /\ todo' \subseteq Moved(cat.moves)
      /\ cat.dropped = Now.dropped /\ cat.head \subseteq objects
  BY <1>1, <1>2 DEF RestoreInv, PhaseInv, Running
<1>4. Published
  BY <1>3 DEF Published
<1>5. ASSUME NEW s \in RestorePoints PROVE k \notin Found(cat.moves, version[s].cat.head)
  <2>1. s \in Stored
    BY DEF RestorePoints
  <2>2. version[s].cat.head \in SUBSET Key /\ cat.moves \in SUBSET MoveRecord
    BY <2>1, StoredIsSound DEF RestoreInv, MatchFilesInv, TypeOK, CatalogType, Sound
  <2> QED BY <1>3, <2>2, MovedIsNotFound
<1>6. NowInv' /\ HeirInv'
  BY <1>1, <1>2, <1>3, <1>4, <1>5, DeleteIsFine DEF RestoreInv
<1>7. Now' = Now
  BY <1>2 DEF Now
<1>8. k \notin cat.head
  BY <1>3 DEF RestoreInv, MatchFilesInv, CatalogsSound, Sound
<1>9. PhaseInv'
  BY <1>1, <1>2, <1>3, <1>7, <1>8 DEF PhaseInv, Running
<1> QED BY <1>6, <1>9 DEF RestoreInv

\* A process that ends leaves the lake as it is.
LEMMA LoseRestores ==
    ASSUME RestoreInv, MatchFilesInv', "late" \notin faults, Lose \/ Release
    PROVE  RestoreInv'
<1>1. /\ pc' = "idle" /\ late' = late
      /\ UNCHANGED <<objects, version, current, fresh, was>>
  BY DEF Lose, Release, Rest
<1>2. fresh \in Nat /\ fresh' = fresh /\ fresh <= fresh' /\ objects \subseteq objects'
  BY <1>1, StoredIsSound DEF RestoreInv
<1>3. NowInv'
  BY <1>1, <1>2, GrowthIsFine DEF RestoreInv
<1>4. PhaseInv'
  BY <1>1 DEF PhaseInv, Running
<1> QED BY <1>1, <1>3, <1>4 DEF RestoreInv

LEMMA LoseCommitRestores ==
    ASSUME RestoreInv, MatchFilesInv', LoseCommit
    PROVE  RestoreInv'
<1>1. /\ pc' = "idle" /\ Store /\ pc \notin {"idle", "drop"}
      /\ UNCHANGED <<objects, current, fresh, late, was>>
  BY DEF LoseCommit, Rest
<1>2. NowInv'
  BY <1>1, TornIsFine DEF RestoreInv
<1>3. PhaseInv'
  BY <1>1 DEF PhaseInv, Running
<1> QED BY <1>1, <1>2, <1>3 DEF RestoreInv

-----------------------------------------------------------------------------
(* Publishes                                                               *)

\* A run's working copy has the drops of CURRENT, and they are older.
LEMMA RunMayPublish ==
    ASSUME RestoreInv, pc \in Running
    PROVE  /\ cat.head \subseteq objects /\ Now.dropped \subseteq cat.dropped
           /\ \A d \in cat.dropped : d < NextSeq
<1>1. cat.head \subseteq objects /\ cat.dropped = Now.dropped
  BY DEF RestoreInv, PhaseInv
<1>2. \A d \in Now.dropped : d < current
  BY DEF RestoreInv, NowInv
<1>3. current \in Nat /\ NextSeq \in Nat /\ current < NextSeq
  BY StoredIsSound, NextSeqIsNew DEF RestoreInv, Stored, Seqs
<1>4. Now.dropped \subseteq Nat
  BY NowIsPoint DEF RestoreInv, CatalogType, Seqs
<1> QED BY <1>1, <1>2, <1>3, <1>4

LEMMA PublishMoveRestores ==
    ASSUME RestoreInv, MatchFilesInv', PublishMove
    PROVE  RestoreInv'
<1>1. /\ pc = "move" /\ pc' = "finish" /\ Publish
      /\ UNCHANGED <<objects, fresh, cat, started, todo, late>>
  BY DEF PublishMove, Move, local
<1>2. cat.head \subseteq objects /\ Now.dropped \subseteq cat.dropped
      /\ \A d \in cat.dropped : d < NextSeq
  BY <1>1, RunMayPublish DEF Running
<1>3. NowInv' /\ HeirInv' /\ Now' = cat
  BY <1>1, <1>2, PublishIsFine DEF RestoreInv
<1>4. todo \subseteq Moved(cat.moves)
  BY <1>1 DEF RestoreInv, PhaseInv
<1>5. PhaseInv'
  BY <1>1, <1>2, <1>3, <1>4 DEF PhaseInv, Running
<1> QED BY <1>3, <1>5 DEF RestoreInv

LEMMA CheckpointRestores ==
    ASSUME RestoreInv, MatchFilesInv', Checkpoint
    PROVE  RestoreInv'
<1>1. /\ pc = "work" /\ pc' = pc /\ Publish
      /\ UNCHANGED <<objects, fresh, cat, started, todo, late>>
  BY DEF Checkpoint, local
<1>2. cat.head \subseteq objects /\ Now.dropped \subseteq cat.dropped
      /\ \A d \in cat.dropped : d < NextSeq
  BY <1>1, RunMayPublish DEF Running
<1>3. NowInv' /\ HeirInv' /\ Now' = cat
  BY <1>1, <1>2, PublishIsFine DEF RestoreInv
<1>4. todo = {}
  BY <1>1 DEF RestoreInv, PhaseInv
<1>5. Published'
  BY <1>1, <1>3 DEF Published
<1>6. PhaseInv'
  BY <1>1, <1>2, <1>3, <1>4, <1>5 DEF PhaseInv, Running
<1> QED BY <1>3, <1>6 DEF RestoreInv

LEMMA LastPublishRestores ==
    ASSUME RestoreInv, MatchFilesInv', RunEnd \/ RestoreCommit
    PROVE  RestoreInv'
<1>1. /\ pc \in {"run_end", "restore"} /\ pc' = "drop" /\ Publish
      /\ UNCHANGED <<objects, fresh, cat, late>>
  BY DEF RunEnd, RestoreCommit, Move, local
<1>2. cat.head \subseteq objects /\ Now.dropped \subseteq cat.dropped
      /\ \A d \in cat.dropped : d < NextSeq
  <2>1. CASE pc = "run_end"
    BY <2>1, RunMayPublish DEF Running
  <2>2. CASE pc = "restore"
    <3>1. RestoreCommit
      BY <2>2 DEF RunEnd, Move
    <3> QED BY <2>2, <3>1 DEF RestoreCommit, RestoreInv, PhaseInv
  <2> QED BY <1>1, <2>1, <2>2
<1>3. NowInv'
  BY <1>1, <1>2, PublishIsFine DEF RestoreInv
<1>4. PhaseInv'
  BY <1>1 DEF PhaseInv, Running
<1> QED BY <1>1, <1>3, <1>4 DEF RestoreInv

LEMMA PublishMoveFailsRestores ==
    ASSUME RestoreInv, MatchFilesInv', PublishMoveFails
    PROVE  RestoreInv'
<1>1. /\ pc = "move" /\ pc' = "work" /\ todo' = {}
      /\ UNCHANGED <<objects, current, fresh, cat, started, pruning, kept, late, was>>
      /\ Store \/ version' = version
  BY DEF PublishMoveFails, Move
<1>2. /\ NowInv' /\ HeirInv' /\ Now' = Now /\ RestorePoints' = RestorePoints
      /\ \A s \in RestorePoints : version'[s] = version[s]
  <2>1. CASE Store
    BY <1>1, <2>1, TornIsFine DEF RestoreInv
  <2>2. CASE version' = version
    <3>1. fresh \in Nat /\ fresh' = fresh /\ fresh <= fresh' /\ objects \subseteq objects'
      BY <1>1, StoredIsSound DEF RestoreInv
    <3>2. NowInv' /\ HeirInv'
      BY <1>1, <2>2, <3>1, GrowthIsFine DEF RestoreInv
    <3> QED BY <1>1, <2>2, <3>2 DEF Now, RestorePoints, Stored
  <2> QED BY <1>1, <2>1, <2>2
<1>3. Published => Published'
  BY <1>1, <1>2 DEF Published
<1>4. PhaseInv'
  BY <1>1, <1>2, <1>3 DEF RestoreInv, PhaseInv, Running
<1> QED BY <1>2, <1>4 DEF RestoreInv

-----------------------------------------------------------------------------
(* Cleanup, sweep and the pruning of versions and records                  *)

\* A pruned version asks for nothing any more.
LEMMA DeleteVersionRestores ==
    ASSUME RestoreInv, MatchFilesInv', NEW at \in {"versions", "drop"}, DeleteVersion(at)
    PROVE  RestoreInv'
<1> DEFINE m == Min(pruning)
<1>1. /\ pc = at /\ pc' = pc /\ m \in pruning /\ pruning' = pruning \ {m}
      /\ version' = [version EXCEPT ![m] = Missing]
      /\ UNCHANGED <<objects, current, fresh, cat, started, todo, kept, late, was>>
  BY MinIsLeast DEF DeleteVersion, RestoreInv, MatchFilesInv, TypeOK, Seqs
<1> HIDE DEF m
<1>2. m # current /\ m \in Seqs
  BY <1>1 DEF RestoreInv, MatchFilesInv, CurrentStays, TypeOK
<1>3. /\ Stored' = Stored \ {m}
      /\ \A s \in Stored' : s \in Stored /\ version'[s] = version[s]
      /\ Now' = Now
  BY <1>1, <1>2 DEF Stored, Now, RestoreInv, MatchFilesInv, TypeOK
<1>4. /\ RestorePoints' = RestorePoints \ {m} /\ CatPoints' = CatPoints \ {m}
      /\ \A s \in RestorePoints' \cup CatPoints' : version'[s] = version[s]
  <2>1. Now'.dropped = Now.dropped /\ was' = was /\ cat' = cat
    BY <1>1, <1>3
  <2> QED BY <1>3, <2>1 DEF RestorePoints, CatPoints, Now
<1>5. PrivateOnce'
  BY <1>1, <1>3, <1>4 DEF RestoreInv, NowInv, PrivateOnce
<1>6. NowInv'
  BY <1>1, <1>3, <1>4, <1>5 DEF RestoreInv, NowInv
<1>7. HeirInv => HeirInv'
  BY <1>1, <1>3, <1>4 DEF HeirInv
<1>8. Published => Published'
  BY <1>1, <1>3, <1>4 DEF Published
<1>9. RestorePoints' \ pruning' = RestorePoints \ pruning
  BY <1>1, <1>4
<1>10. PhaseInv'
  <2>1. pc \in {"versions", "drop"}
    BY <1>1
  <2>2. CASE pc = "drop"
    BY <1>1, <2>2 DEF PhaseInv, Running
  <2>3. CASE pc = "versions"
    <3>1. /\ cat.dropped = Now.dropped /\ cat.head \subseteq objects /\ Published
          /\ todo \cap (kept \cup cat.head) = {}
          /\ \A s \in RestorePoints \ pruning : Found(cat.moves, version[s].cat.head) \subseteq kept
      BY <2>3 DEF RestoreInv, PhaseInv, Running
    <3>2. \A s \in RestorePoints' \ pruning' :
              Found(cat'.moves, version'[s].cat.head) \subseteq kept'
      BY <1>1, <1>4, <1>9, <3>1
    <3> QED BY <1>1, <1>3, <1>8, <2>3, <3>1, <3>2 DEF PhaseInv, Running
  <2> QED BY <2>1, <2>2, <2>3
<1> QED BY <1>1, <1>6, <1>7, <1>10 DEF RestoreInv

\* The kept file set holds what a restore point that stays leads to.
LEMMA KeptIsFound ==
    ASSUME RestoreInv, HeirInv, cat.dropped = Now.dropped, NEW without,
           NEW s \in RestorePoints, s \notin without
    PROVE  Found(cat.moves, version[s].cat.head) \subseteq KeptFileSet(cat.moves, without)
<1> DEFINE old == version[s].cat
           last == Last(ToPrivate(cat.moves))
<1>1. s \in Stored /\ s \in CatPoints
  BY DEF RestorePoints, CatPoints, Now
<1>2. old.head \subseteq Named(without)
  BY <1>1 DEF Named
<1>3. Recorded(cat.moves, old) /\ Reaches(cat, old.head, objects)
  BY <1>1 DEF HeirInv
<1>4. cat.moves \in SUBSET MoveRecord
  BY DEF RestoreInv, MatchFilesInv, TypeOK, CatalogType
<1> HIDE DEF old
<1>5. \A r \in ToPrivate(cat.moves) : r.old \in old.head => r \in last
  BY <1>3, <1>4, OneRecord
<1>6. NoKey \notin Found(cat.moves, old.head)
  BY <1>3, MatchFilesConstants DEF Reaches, RestoreInv, MatchFilesInv, TypeOK
<1> HIDE DEF last
<1>7. Found(cat.moves, old.head) \subseteq Replaced(Named(without), cat.moves, last)
  BY <1>2, <1>5 DEF Found, Replaced
<1>8. KeptFileSet(cat.moves, without) = Replaced(Named(without), cat.moves, last) \ {NoKey}
  BY DEF KeptFileSet, last
<1> QED BY <1>6, <1>7, <1>8 DEF old

LEMMA CleanupRestores ==
    ASSUME RestoreInv, MatchFilesInv', Cleanup
    PROVE  RestoreInv'
<1>1. /\ pc = "work" /\ pc' = "versions" /\ todo' = cat'.scheduled \ kept'
      /\ Moved(cat.moves) \cap version[current].cat.head = {}
      /\ UNCHANGED <<objects, version, current, fresh, started, late, was>>
  BY DEF Cleanup, Move
<1>2. PICK expired \in SUBSET cat.ended :
        /\ cat' = [cat EXCEPT !.ended = @ \ expired, !.scheduled = @ \cup expired]
        /\ kept' = KeptFileSet(cat.moves, pruning')
  BY DEF Cleanup
<1>3. cat \in CatalogType
  BY DEF RestoreInv, MatchFilesInv, TypeOK
<1>4. /\ cat'.head = cat.head /\ cat'.moves = cat.moves /\ cat'.flag = cat.flag
      /\ cat'.dropped = cat.dropped /\ Tracked(cat') = Tracked(cat)
      /\ cat'.ended \cup cat'.scheduled = cat.ended \cup cat.scheduled
  BY <1>2, <1>3 DEF CatalogType, Tracked
<1>5. fresh \in Nat /\ fresh' = fresh /\ fresh <= fresh' /\ objects \subseteq objects'
  BY <1>1, StoredIsSound DEF RestoreInv
<1>6. NowInv' /\ HeirInv
  BY <1>1, <1>5, GrowthIsFine DEF RestoreInv
<1>7. /\ Now' = Now /\ RestorePoints' = RestorePoints /\ CatPoints' = CatPoints
      /\ Stored' = Stored
  BY <1>1, <1>4 DEF Now, RestorePoints, CatPoints, Stored
<1>8. HeirInv'
  <2>1. Fit(cat', fresh')
    BY <1>4, <1>5, <1>6 DEF HeirInv, Fit
  <2>2. \A s \in CatPoints : Reaches(cat', version[s].cat.head, objects)
    BY <1>4, <1>6 DEF HeirInv, Reaches
  <2> QED BY <1>1, <1>4, <1>6, <1>7, <2>1, <2>2 DEF HeirInv
<1>9. Published
  BY <1>1 DEF RestoreInv, PhaseInv, Now
<1>10. Published'
  BY <1>1, <1>4, <1>7, <1>9 DEF Published
<1>11. cat.dropped = Now.dropped /\ cat.head \subseteq objects
  BY <1>1 DEF RestoreInv, PhaseInv, Running
<1>12. \A s \in RestorePoints \ pruning' : Found(cat.moves, version[s].cat.head) \subseteq kept'
  BY <1>2, <1>6, <1>11, KeptIsFound
<1>13. todo' \cap (kept' \cup cat.head) = {}
  BY <1>1, <1>4, <1>6 DEF HeirInv, Fit
<1>14. PhaseInv'
  BY <1>1, <1>4, <1>7, <1>10, <1>11, <1>12, <1>13 DEF PhaseInv, Running
<1> QED BY <1>6, <1>8, <1>14 DEF RestoreInv

LEMMA VersionsDeletedRestores ==
    ASSUME RestoreInv, MatchFilesInv', VersionsDeleted
    PROVE  RestoreInv'
<1>1. /\ pc = "versions" /\ pc' = "scheduled" /\ pruning = {}
      /\ UNCHANGED <<objects, version, current, fresh, cat, started, todo>>
      /\ UNCHANGED <<pruning, kept, late, was>>
  BY DEF VersionsDeleted, Move, local
<1>2. fresh \in Nat /\ fresh' = fresh /\ fresh <= fresh' /\ objects \subseteq objects'
  BY <1>1, StoredIsSound DEF RestoreInv
<1>3. NowInv' /\ HeirInv'
  BY <1>1, <1>2, GrowthIsFine DEF RestoreInv
<1>4. Now' = Now /\ RestorePoints' = RestorePoints
  BY <1>1 DEF Now, RestorePoints, Stored
<1>5. Published => Published'
  BY <1>1, <1>4 DEF Published
<1>6. PhaseInv'
  BY <1>1, <1>4, <1>5 DEF RestoreInv, PhaseInv, Running
<1> QED BY <1>3, <1>6 DEF RestoreInv

\* The deletes of a cleanup and of its sweep.
LEMMA DeleteReleasedRestores ==
    ASSUME RestoreInv, MatchFilesInv', NEW at \in {"scheduled", "sweep"}, DeleteKey(at)
    PROVE  RestoreInv'
<1>1. PICK k \in todo : objects' = objects \ {k} /\ todo' = todo \ {k}
  BY DEF DeleteKey
<1>2. /\ pc = at /\ pc' = pc /\ late' = {} /\ late = {}
      /\ UNCHANGED <<version, current, fresh, cat, started, pruning, kept, was>>
  BY DEF DeleteKey, RestoreInv, NowInv
<1>3. /\ Published /\ cat.dropped = Now.dropped /\ cat.head \subseteq objects
      /\ k \notin cat.head
      /\ \A s \in RestorePoints : k \notin Found(cat.moves, version[s].cat.head)
  BY <1>1, <1>2 DEF RestoreInv, PhaseInv, Running
<1>4. NowInv' /\ HeirInv'
  BY <1>1, <1>2, <1>3, DeleteIsFine DEF RestoreInv
<1>5. Now' = Now /\ RestorePoints' = RestorePoints
  BY <1>2 DEF Now, RestorePoints, Stored
<1>6. Published'
  BY <1>2, <1>3, <1>5 DEF Published
<1>7. PhaseInv'
  BY <1>1, <1>2, <1>3, <1>5, <1>6 DEF RestoreInv, PhaseInv, Running
<1> QED BY <1>4, <1>7 DEF RestoreInv

LEMMA SweepRestores ==
    ASSUME RestoreInv, MatchFilesInv', Sweep
    PROVE  RestoreInv'
<1>1. /\ pc = "scheduled" /\ pc' = "sweep"
      /\ cat' = [cat EXCEPT !.scheduled = @ \cap kept]
      /\ todo' \cap (kept \cup Tracked(cat')) = {}
      /\ UNCHANGED <<objects, version, current, fresh, started, pruning, late, was>>
  BY DEF Sweep, Move, Doomed
<1>2. cat \in CatalogType
  BY DEF RestoreInv, MatchFilesInv, TypeOK
<1>3. /\ cat'.head = cat.head /\ cat'.moves = cat.moves /\ cat'.flag = cat.flag
      /\ cat'.dropped = cat.dropped /\ cat'.ended = cat.ended
      /\ cat'.scheduled \subseteq cat.scheduled /\ Tracked(cat') \subseteq Tracked(cat)
      /\ cat.head \subseteq Tracked(cat')
  BY <1>1, <1>2 DEF CatalogType, Tracked
<1>4. fresh \in Nat /\ fresh' = fresh /\ fresh <= fresh' /\ objects \subseteq objects'
  BY <1>1, StoredIsSound DEF RestoreInv
<1>5. NowInv' /\ HeirInv
  BY <1>1, <1>4, GrowthIsFine DEF RestoreInv
<1>6. /\ Now' = Now /\ RestorePoints' = RestorePoints /\ CatPoints' = CatPoints
      /\ Stored' = Stored
  BY <1>1, <1>3 DEF Now, RestorePoints, CatPoints, Stored
<1>7. HeirInv'
  <2>1. Fit(cat', fresh')
    BY <1>3, <1>4, <1>5 DEF HeirInv, Fit
  <2>2. \A s \in CatPoints : Reaches(cat', version[s].cat.head, objects)
    BY <1>3, <1>5 DEF HeirInv, Reaches
  <2> QED BY <1>1, <1>3, <1>5, <1>6, <2>1, <2>2 DEF HeirInv
<1>8. /\ Published /\ cat.dropped = Now.dropped /\ cat.head \subseteq objects
      /\ \A s \in RestorePoints : Found(cat.moves, version[s].cat.head) \subseteq kept
  BY <1>1 DEF RestoreInv, PhaseInv, Running
<1>9. Published'
  BY <1>1, <1>3, <1>6, <1>8 DEF Published
<1>10. PhaseInv'
  BY <1>1, <1>3, <1>6, <1>8, <1>9 DEF PhaseInv, Running
<1> QED BY <1>5, <1>7, <1>10 DEF RestoreInv

\* The records of what a version names stay.
LEMMA SweptRestores ==
    ASSUME RestoreInv, MatchFilesInv', Swept
    PROVE  RestoreInv'
<1>1. /\ pc = "sweep" /\ pc' = "run_end"
      /\ cat' = [cat EXCEPT !.moves = {r \in @ : NeedsRecord(r.old)}]
      /\ UNCHANGED <<objects, version, current, fresh, started, pruning, late, was>>
  BY DEF Swept, Move
<1>2. cat \in CatalogType
  BY DEF RestoreInv, MatchFilesInv, TypeOK
<1>3. /\ cat'.head = cat.head /\ cat'.flag = cat.flag /\ cat'.ended = cat.ended
      /\ cat'.dropped = cat.dropped /\ cat'.scheduled = cat.scheduled
      /\ cat'.moves \subseteq cat.moves /\ Tracked(cat') = Tracked(cat)
      /\ \A r \in cat.moves : r.old \in Named({}) => r \in cat'.moves
  BY <1>1, <1>2 DEF CatalogType, Tracked, NeedsRecord
<1>4. fresh \in Nat /\ fresh' = fresh /\ fresh <= fresh' /\ objects \subseteq objects'
  BY <1>1, StoredIsSound DEF RestoreInv
<1>5. NowInv' /\ HeirInv
  BY <1>1, <1>4, GrowthIsFine DEF RestoreInv
<1>6. /\ Now' = Now /\ CatPoints' = CatPoints /\ Stored' = Stored /\ CatPoints \subseteq Stored
  BY <1>1, <1>3 DEF Now, CatPoints, Stored
<1>7. \A s \in Stored, r \in cat.moves : r.old \in version[s].cat.head => r \in cat'.moves
  BY <1>3 DEF Named
<1>8. ToPrivate(cat'.moves) \subseteq ToPrivate(cat.moves)
  BY <1>3 DEF ToPrivate
<1>9. Fit(cat', fresh')
  BY <1>3, <1>4, <1>5, <1>8 DEF HeirInv, Fit
<1>10. ASSUME NEW s \in Stored
       PROVE  /\ Recorded(cat'.moves, version[s].cat)
              /\ Carried(Now.moves, cat'.moves, version[s].cat)
  BY <1>5, <1>7, <1>8 DEF HeirInv, Recorded, Carried
<1>11. ASSUME NEW s \in CatPoints PROVE Reaches(cat', version[s].cat.head, objects)
  <2>1. Reaches(cat, version[s].cat.head, objects) /\ s \in Stored
    BY <1>5, <1>6 DEF HeirInv
  <2>2. \A r \in ToPrivate(cat.moves) :
            r.old \in version[s].cat.head => r \in ToPrivate(cat'.moves)
    BY <1>7, <2>1 DEF ToPrivate
  <2>3. version[s].cat.head \cap Moved(cat.moves) = version[s].cat.head \cap Moved(cat'.moves)
    BY <1>8, <2>2 DEF Moved
  <2>4. Found(cat'.moves, version[s].cat.head) = Found(cat.moves, version[s].cat.head)
    BY <1>8, <2>2, <2>3 DEF Found, Replaced
  <2> QED BY <1>3, <2>1, <2>3, <2>4 DEF Reaches, InRoot
<1>12. HeirInv'
  BY <1>1, <1>3, <1>5, <1>6, <1>9, <1>10, <1>11 DEF HeirInv
<1>13. PhaseInv'
  BY <1>1, <1>3, <1>6 DEF RestoreInv, PhaseInv, Running
<1> QED BY <1>5, <1>12, <1>13 DEF RestoreInv

-----------------------------------------------------------------------------
(* The work of a run on the match                                          *)

\* Steps that give the working copy new files and leave the versions alone.
LEMMA NewFilesAreFine ==
    ASSUME MatchFilesInv, NowInv, HeirInv, UNCHANGED <<version, current, was>>,
           fresh' \in Nat, fresh <= fresh', objects \subseteq objects',
           cat'.dropped = cat.dropped, Fit(cat', fresh'),
           cat'.head \cap Moved(Now.moves) = {},
           \A s \in Stored : /\ Recorded(cat'.moves, version[s].cat)
                             /\ Carried(Now.moves, cat'.moves, version[s].cat),
           \A s \in CatPoints : Reaches(cat', version[s].cat.head, objects')
    PROVE  HeirInv'
<1>1. Now' = Now /\ CatPoints' = CatPoints /\ Stored' = Stored
  BY DEF Now, CatPoints, Stored
<1> QED BY <1>1 DEF HeirInv

\* A swap registers new files, and the old ones are tracked no longer than before.
LEMMA SwapFits ==
    ASSUME NEW c \in CatalogType, NEW d \in CatalogType, NEW m \in Nat, NEW n \in Nat, m <= n,
           Fit(c, m), d.ended = c.ended \cup c.head, d.scheduled = c.scheduled,
           d.head # {}, \A k \in d.head : m <= k.id /\ k.id < n,
           d.flag = "public" => d.head \subseteq In("lake"),
           \A r \in ToPrivate(d.moves) :
               r \in c.moves \/ r.new = NoKey \/ r.new.id < n
    PROVE  Fit(d, n)
<1>1. \A k \in Tracked(c) : k.id \in Nat /\ k.id < m
  BY DEF CatalogType, Tracked, Key, Fit
<1>2. Tracked(d) = Tracked(c) \cup d.head /\ d.ended \cup d.scheduled = Tracked(c)
  BY DEF Tracked
<1>3. \A k \in d.head : k \notin Tracked(c)
  <2>1. \A k \in d.head : k.id \in Nat
    BY DEF CatalogType, Key
  <2> QED BY <1>1, <2>1
<1>4. \A k \in Tracked(d) : k.id < n
  BY <1>1, <1>2
<1>5. ASSUME NEW r \in ToPrivate(d.moves), r.new # NoKey PROVE r.new.id < n
  <2>1. CASE r \in c.moves
    <3>1. r \in ToPrivate(c.moves)
      BY <2>1, <1>5 DEF ToPrivate
    <3>2. r.new.id \in Nat
      BY <1>5, <3>1 DEF ToPrivate, CatalogType, MoveRecord, In, Key
    <3> QED BY <1>5, <3>1, <3>2 DEF Fit
  <2> QED BY <1>5, <2>1
<1> QED BY <1>2, <1>3, <1>4, <1>5 DEF Fit

\* Keys with new write ids are not among the moved ones.
LEMMA NewIsNotMoved ==
    ASSUME MatchFilesInv, NEW keys \in SUBSET Key, \A k \in keys : fresh <= k.id
    PROVE  keys \cap Moved(Now.moves) = {}
<1>1. Sound(Now, fresh) /\ fresh \in Nat
  BY StoredIsSound DEF Now
<1>2. \A k \in Moved(Now.moves) : k.id < fresh
  BY <1>1 DEF Sound
<1>3. \A k \in keys : k.id \in Nat
  BY DEF Key
<1>4. ASSUME NEW k \in keys, k \in Moved(Now.moves) PROVE FALSE
  <2>1. k.id < fresh /\ fresh <= k.id /\ k.id \in Nat
    BY <1>2, <1>3, <1>4
  <2> QED BY <1>1, <2>1
<1> QED BY <1>4

LEMMA WriteRestores ==
    ASSUME RestoreInv, MatchFilesInv', Write
    PROVE  RestoreInv'
<1>1. /\ pc = "work" /\ pc' = pc /\ fresh' = fresh + 1
      /\ UNCHANGED <<version, current, started, todo, pruning, kept, late, was>>
  BY DEF Write
<1>2. PICK flag \in {"public", "private"} :
        /\ cat.flag = "private" \/ flag = "public"
        /\ LET k == [root |-> IF flag = "public" THEN "lake" ELSE "restricted",
                     id |-> fresh]
           IN  /\ objects' = objects \cup {k}
               /\ cat' = [Swap(cat, {k}) EXCEPT !.flag = flag] \/ cat' = cat
  BY DEF Write
<1> DEFINE k == [root |-> IF flag = "public" THEN "lake" ELSE "restricted", id |-> fresh]
<1>3. fresh \in Nat /\ fresh' \in Nat /\ fresh <= fresh'
  BY <1>1, StoredIsSound DEF RestoreInv
<1>4. objects' = objects \cup {k}
  BY <1>2
<1>5. k \in Key /\ k.id = fresh /\ (flag = "public" => k \in In("lake"))
  <2>1. fresh \in 1..MaxFile
    BY <1>1, <1>3, MatchFilesConstants DEF Write, RestoreInv, MatchFilesInv, TypeOK
  <2> QED BY <1>2, <2>1 DEF Key, In
<1>6. cat' = [Swap(cat, {k}) EXCEPT !.flag = flag] \/ cat' = cat
  BY <1>2
<1> HIDE DEF k
<1>7. NowInv' /\ HeirInv /\ (cat' = cat => HeirInv')
  BY <1>1, <1>3, <1>4, GrowthIsFine DEF RestoreInv
<1>8. cat \in CatalogType /\ cat' \in CatalogType
  BY DEF RestoreInv, MatchFilesInv, TypeOK
<1>9. cat.dropped = Now.dropped /\ cat.head \subseteq objects /\ todo = {}
  BY <1>1 DEF RestoreInv, PhaseInv, Running
<1>10. /\ Now' = Now /\ RestorePoints' = RestorePoints /\ CatPoints \subseteq Stored
  BY <1>1 DEF Now, RestorePoints, Stored, CatPoints
<1>11. ASSUME cat' = [Swap(cat, {k}) EXCEPT !.flag = flag]
       PROVE  /\ HeirInv' /\ cat'.dropped = cat.dropped /\ cat'.moves = cat.moves
              /\ cat'.head \subseteq objects'
  <2>1. /\ cat'.head = {k} /\ cat'.ended = cat.ended \cup cat.head
        /\ cat'.scheduled = cat.scheduled /\ cat'.moves = cat.moves
        /\ cat'.dropped = cat.dropped /\ cat'.flag = flag
    BY <1>8, <1>11 DEF Swap, CatalogType
  <2>2. Fit(cat', fresh')
    <3>1. Fit(cat, fresh)
      BY <1>7 DEF HeirInv
    <3>2. \A r \in ToPrivate(cat'.moves) : r \in cat.moves
      BY <2>1 DEF ToPrivate
    <3>3. cat'.head # {} /\ \A l \in cat'.head : fresh <= l.id /\ l.id < fresh'
      BY <1>1, <1>3, <1>5, <2>1
    <3>4. cat'.flag = "public" => cat'.head \subseteq In("lake")
      BY <1>5, <2>1
    <3> QED BY <1>3, <1>8, <2>1, <3>1, <3>2, <3>3, <3>4, SwapFits
  <2>3. cat'.head \cap Moved(Now.moves) = {}
    <3>1. {k} \in SUBSET Key /\ \A l \in {k} : fresh <= l.id
      BY <1>3, <1>5
    <3> QED BY <2>1, <3>1, NewIsNotMoved DEF RestoreInv
  <2>4. ASSUME NEW s \in CatPoints PROVE Reaches(cat', version[s].cat.head, objects')
    <3>1. Reaches(cat, version[s].cat.head, objects)
      BY <1>7 DEF HeirInv
    <3> QED BY <1>2, <1>4, <2>1, <3>1 DEF Reaches
  <2>5. HeirInv'
    <3>1. \A s \in Stored : /\ Recorded(cat'.moves, version[s].cat)
                            /\ Carried(Now.moves, cat'.moves, version[s].cat)
      BY <1>7, <2>1 DEF HeirInv
    <3> QED BY <1>1, <1>3, <1>4, <1>7, <2>1, <2>2, <2>3, <2>4, <3>1, NewFilesAreFine
            DEF RestoreInv
  <2> QED BY <1>4, <2>1, <2>5
<1>12. HeirInv' /\ cat'.dropped = cat.dropped /\ cat'.moves = cat.moves
       /\ cat'.head \subseteq objects'
  BY <1>4, <1>6, <1>7, <1>9, <1>11
<1>13. Published => Published'
  BY <1>1, <1>10, <1>12 DEF Published
<1>14. PhaseInv'
  BY <1>1, <1>9, <1>10, <1>12, <1>13 DEF RestoreInv, PhaseInv, Running
<1> QED BY <1>7, <1>12, <1>14 DEF RestoreInv

LEMMA StageFailsRestores ==
    ASSUME RestoreInv, MatchFilesInv', StageFails
    PROVE  RestoreInv'
<1>1. /\ pc = "work" /\ objects \subseteq objects'
      /\ UNCHANGED <<version, current, pc, cat, started, todo, pruning, kept, late, was>>
  BY DEF StageFails, local
<1>2. fresh \in Nat /\ fresh' \in Nat /\ fresh <= fresh'
  <2>1. PICK S \in SUBSET (IF cat.flag = "public" THEN ToCopy ELSE cat.head) :
            fresh' = fresh + Cardinality(S)
    BY DEF StageFails
  <2>2. S \in SUBSET Key
    BY <2>1, StoredIsSound
       DEF ToCopy, InRoot, RestoreInv, MatchFilesInv, TypeOK, CatalogType
  <2>3. Cardinality(S) \in Nat
    BY <2>2, KeysAreFinite
  <2> QED BY <2>1, <2>3, StoredIsSound DEF RestoreInv
<1>3. NowInv' /\ HeirInv'
  BY <1>1, <1>2, GrowthIsFine DEF RestoreInv
<1>4. Now' = Now /\ RestorePoints' = RestorePoints
  BY <1>1 DEF Now, RestorePoints, Stored
<1>5. Published => Published'
  BY <1>1, <1>4 DEF Published
<1>6. PhaseInv'
  <2>1. cat.dropped = Now.dropped /\ cat.head \subseteq objects /\ todo = {}
    BY <1>1 DEF RestoreInv, PhaseInv, Running
  <2> QED BY <1>1, <1>4, <1>5, <2>1 DEF RestoreInv, PhaseInv, Running
<1> QED BY <1>3, <1>6 DEF RestoreInv

-----------------------------------------------------------------------------
(* Moves                                                                   *)

LEMMA RecordsHave ==
    ASSUME NEW dir, NEW new
    PROVE  /\ \A r \in Records(dir, new) :
                /\ r.dir = dir /\ r.old \in DOMAIN new /\ r.new = new[r.old]
                /\ \A q \in Records(dir, new) : q.old = r.old => q = r
           /\ \A k \in DOMAIN new : \E r \in Records(dir, new) : r.old = k /\ r.dir = dir
<1>1. ASSUME NEW r \in Records(dir, new)
      PROVE  /\ r.dir = dir /\ r.old \in DOMAIN new /\ r.new = new[r.old]
             /\ r = [dir |-> dir, old |-> r.old, new |-> new[r.old], at |-> fresh]
  <2>1. PICK k \in DOMAIN new : r = [dir |-> dir, old |-> k, new |-> new[k], at |-> fresh]
    BY Zenon DEF Records
  <2> QED BY <2>1
<1>2. ASSUME NEW r \in Records(dir, new), NEW q \in Records(dir, new), q.old = r.old
      PROVE  q = r
  <2>1. /\ q = [dir |-> dir, old |-> q.old, new |-> new[q.old], at |-> fresh]
        /\ r = [dir |-> dir, old |-> r.old, new |-> new[r.old], at |-> fresh]
    BY <1>1
  <2> QED BY <1>2, <2>1, Zenon
<1>3. ASSUME NEW k \in DOMAIN new PROVE \E r \in Records(dir, new) : r.old = k /\ r.dir = dir
  <2>1. [dir |-> dir, old |-> k, new |-> new[k], at |-> fresh] \in Records(dir, new)
    BY Zenon DEF Records
  <2> QED BY <2>1
<1> QED BY <1>1, <1>2, <1>3

LEMMA StagePrivateRestores ==
    ASSUME RestoreInv, MatchFilesInv', StagePrivate
    PROVE  RestoreInv'
<1> DEFINE new == Copies(ToCopy, "restricted")
           none == [k \in ToForget |-> NoKey]
           files == {new[k] : k \in InRoot("lake", cat.head)}
           copied == Records("to_private", new)
           forgot == Records("to_private", none)
<1>1. /\ pc = "work" /\ pc' = "move" /\ MayCopy(ToCopy) /\ todo' = ToCopy \cup ToForget
      /\ cat.flag = "public" /\ ToCopy \cap Moved(cat.moves) = {}
      /\ objects' = objects \cup Image(new)
      /\ cat' = [Swap(cat, files) EXCEPT !.flag = "private",
                    !.moves = @ \cup copied \cup forgot]
      /\ fresh' = fresh + Cardinality(ToCopy)
      /\ UNCHANGED <<version, current, started, pruning, kept, late, was>>
  BY Zenon DEF StagePrivate, Move
<1>2. MatchFilesInv /\ NowInv /\ HeirInv /\ Fit(cat, fresh) /\ cat \in CatalogType
      /\ cat' \in CatalogType
  BY <1>1 DEF RestoreInv, HeirInv, MatchFilesInv, TypeOK
<1>3. /\ ToCopy \in SUBSET Key /\ ToCopy \subseteq In("lake")
      /\ InRoot("lake", cat.head) = cat.head /\ cat.head \subseteq ToCopy
      /\ \A s \in Stored : InRoot("lake", version[s].cat.head) \subseteq ToCopy
      /\ ToCopy \cap ToForget = {}
  <2>1. cat.head \subseteq In("lake") /\ cat.head \subseteq Key
    BY <1>1, <1>2 DEF Fit, CatalogType
  <2>2. Named({}) \subseteq Key
    BY <1>2, StoredIsSound
  <2>3. \A s \in Stored : version[s].cat.head \subseteq Named({})
    BY DEF Named
  <2> QED BY <2>1, <2>2, <2>3 DEF ToCopy, ToForget, InRoot
<1>4. /\ fresh' \in 1..(MaxFile + 1) /\ fresh <= fresh' /\ DOMAIN new = ToCopy
      /\ \A k \in ToCopy : /\ new[k] \in In("restricted") /\ new[k] \in Image(new)
                           /\ fresh <= new[k].id /\ new[k].id < fresh'
  <2>1. fresh \in 1..(MaxFile + 1)
    BY <1>2 DEF MatchFilesInv, TypeOK
  <2>2. /\ fresh' \in 1..(MaxFile + 1) /\ fresh <= fresh' /\ DOMAIN new = ToCopy
        /\ \A k \in ToCopy : /\ new[k] \in In("restricted")
                             /\ fresh <= new[k].id /\ new[k].id < fresh'
    BY <1>1, <1>3, <2>1, CopiesAreNew
  <2> HIDE DEF new
  <2> QED BY <2>2 DEF Image
<1>5. fresh \in Nat /\ fresh' \in Nat
  BY <1>2, <1>4, MatchFilesConstants, StoredIsSound
<1>6. DOMAIN none = ToForget /\ \A k \in ToForget : none[k] = NoKey
  OBVIOUS
<1>7. files = {new[k] : k \in cat.head} /\ files # {}
  BY <1>2, <1>3 DEF Fit
<1>8. /\ \A r \in copied : r.dir = "to_private" /\ r.old \in ToCopy /\ r.new = new[r.old]
                             /\ \A q \in copied : q.old = r.old => q = r
      /\ \A k \in ToCopy : \E r \in copied : r.old = k /\ r.dir = "to_private"
      /\ \A r \in forgot : r.dir = "to_private" /\ r.old \in ToForget /\ r.new = NoKey
      /\ \A k \in ToForget : \E r \in forgot : r.old = k /\ r.dir = "to_private"
  <2> HIDE DEF new, none
  <2> QED BY <1>4, <1>6, RecordsHave
<1>9. /\ cat'.head = files /\ cat'.ended = cat.ended \cup cat.head
      /\ cat'.scheduled = cat.scheduled /\ cat'.moves = cat.moves \cup copied \cup forgot
      /\ cat'.dropped = cat.dropped /\ cat'.flag = "private"
  <2> HIDE DEF copied, forgot, files
  <2> QED BY <1>1, <1>2 DEF Swap, CatalogType
<1> HIDE DEF new, none, files, copied, forgot
<1>10. /\ ToPrivate(cat'.moves) = ToPrivate(cat.moves) \cup copied \cup forgot
       /\ Moved(cat'.moves) = Moved(cat.moves) \cup ToCopy \cup ToForget
  BY <1>8, <1>9 DEF ToPrivate, Moved
\* The records of what a version names are the new ones.
<1>11. ASSUME NEW s \in Stored, NEW r \in ToPrivate(cat'.moves), r.old \in version[s].cat.head
       PROVE  r \in copied /\ r.old \in ToCopy
  <2>1. r.old \in In("lake")
    BY <1>2 DEF ToPrivate, CatalogType, MoveRecord
  <2>2. r.old \in ToCopy
    BY <1>3, <1>11, <2>1 DEF InRoot
  <2>3. r \notin ToPrivate(cat.moves)
    BY <1>1, <2>2 DEF Moved
  <2>4. r \notin forgot
    BY <1>3, <1>8, <2>2
  <2> QED BY <1>10, <1>11, <2>2, <2>3, <2>4
<1>12. ASSUME NEW s \in Stored
       PROVE  /\ Recorded(cat'.moves, version[s].cat)
              /\ Carried(Now.moves, cat'.moves, version[s].cat)
  <2>1. \A k \in Tracked(version[s].cat) : k.id \in Nat /\ k.id < fresh
    <3>1. Fit(version[s].cat, fresh)
      BY <1>2 DEF NowInv
    <3>2. version[s].cat \in CatalogType
      BY <1>2, StoredIsSound DEF Sound
    <3>3. Tracked(version[s].cat) \subseteq Key
      BY <3>2 DEF CatalogType, Tracked
    <3> QED BY <3>1, <3>3 DEF Fit, Key
  <2>2. ASSUME NEW r \in ToPrivate(cat'.moves), r.old \in version[s].cat.head
        PROVE  /\ r.new \notin version[s].cat.ended \cup version[s].cat.scheduled
               /\ \A q \in ToPrivate(cat'.moves) : q.old = r.old => q = r
    <3>1. r \in copied /\ r.old \in ToCopy
      BY <1>11, <2>2
    <3>2. fresh <= r.new.id
      BY <1>4, <1>8, <3>1
    <3>3. r.new \notin Tracked(version[s].cat)
      BY <1>5, <2>1, <3>2
    <3>4. \A q \in ToPrivate(cat'.moves) : q.old = r.old => q \in copied
      BY <1>11, <2>2
    <3> QED BY <1>8, <3>1, <3>3, <3>4 DEF Tracked
  <2>3. Carried(Now.moves, cat.moves, version[s].cat)
    BY <1>2 DEF HeirInv
  <2> QED BY <1>9, <2>2, <2>3 DEF Recorded, Carried
<1>13. Fit(cat', fresh')
  <2>1. \A k \in cat'.head : fresh <= k.id /\ k.id < fresh'
    BY <1>3, <1>4, <1>7, <1>9
  <2>2. \A r \in ToPrivate(cat'.moves) : r \in cat.moves \/ r.new = NoKey \/ r.new.id < fresh'
    BY <1>4, <1>8, <1>10 DEF ToPrivate
  <2> QED BY <1>2, <1>4, <1>5, <1>7, <1>9, <2>1, <2>2, SwapFits
<1>14. cat'.head \cap Moved(Now.moves) = {} /\ cat'.head \subseteq objects'
  <2>1. cat'.head \in SUBSET Key /\ \A k \in cat'.head : fresh <= k.id
    BY <1>2, <1>3, <1>4, <1>7, <1>9 DEF CatalogType
  <2> QED BY <1>1, <1>2, <1>3, <1>4, <1>7, <1>9, <2>1, NewIsNotMoved
<1>15. ASSUME NEW s \in CatPoints PROVE Reaches(cat', version[s].cat.head, objects')
  <2> DEFINE keys == version[s].cat.head
  <2>1. s \in Stored /\ Reaches(cat, keys, objects)
    BY <1>2 DEF CatPoints, HeirInv
  <2>2. keys \subseteq Key /\ InRoot("lake", keys) \subseteq ToCopy
    BY <1>2, <1>3, <2>1, StoredIsSound DEF Sound, CatalogType
  <2>3. \A r \in ToPrivate(cat'.moves) : r.old \in keys => r.new \in objects'
    BY <1>1, <1>4, <1>8, <1>11, <2>1
  <2> HIDE DEF keys
  <2>4. keys \ Moved(cat'.moves) \subseteq objects'
    <3>1. keys \ Moved(cat.moves) \subseteq objects
      BY <2>1, FoundHas DEF Reaches
    <3> QED BY <1>1, <1>10, <3>1
  <2>5. Found(cat'.moves, keys) \subseteq objects'
    BY <2>3, <2>4, FoundHas
  <2> QED BY <1>10, <2>2, <2>5 DEF Reaches, keys
<1>16. HeirInv'
  BY <1>1, <1>2, <1>4, <1>5, <1>9, <1>12, <1>13, <1>14, <1>15, NewFilesAreFine
<1>17. NowInv'
  BY <1>1, <1>2, <1>4, <1>5, GrowthIsFine
<1>18. /\ Now' = Now /\ RestorePoints' = RestorePoints
       /\ cat.dropped = Now.dropped
  BY <1>1 DEF Now, RestorePoints, Stored, RestoreInv, PhaseInv, Running
<1>19. Published' \/ Now.head \cap Moved(cat'.moves) # {}
  <2>1. /\ current \in Stored /\ Now \in CatalogType /\ Fit(Now, fresh)
    BY <1>2, NowIsPoint
  <2>2. CASE Now.flag = "public"
    <3>1. Now.head # {} /\ Now.head \subseteq In("lake")
      BY <2>1, <2>2 DEF Fit
    <3>2. Now.head \subseteq ToCopy
      BY <1>3, <2>1, <3>1 DEF Now, InRoot
    <3> QED BY <1>10, <3>1, <3>2
  <2>3. CASE Now.flag = "private"
    <3>1. Moved(cat'.moves) \subseteq In("lake")
      BY <1>2, MovedIsOfLake DEF CatalogType
    <3>2. \A s \in RestorePoints : InRoot("lake", version[s].cat.head) \subseteq Moved(Now.moves)
      BY <1>2, <2>3 DEF NowInv, Reaches
    <3>3. \A s \in RestorePoints :
              version[s].cat.head \cap Moved(cat'.moves) \subseteq Moved(Now.moves)
      BY <3>1, <3>2 DEF InRoot
    <3> QED BY <1>1, <1>18, <3>3 DEF Published
  <2> QED BY <2>1, <2>2, <2>3 DEF CatalogType
<1>20. PhaseInv'
  BY <1>1, <1>9, <1>10, <1>14, <1>18, <1>19 DEF PhaseInv, Running
<1> QED BY <1>16, <1>17, <1>20 DEF RestoreInv

LEMMA StagePublicRestores ==
    ASSUME RestoreInv, MatchFilesInv', StagePublic
    PROVE  RestoreInv'
<1> DEFINE new == Copies(cat.head, "lake")
           moves == cat.moves \cup Records("to_public", new)
<1>1. /\ pc = "work" /\ pc' = "move" /\ cat.flag = "private" /\ MayCopy(cat.head)
      /\ objects' = objects \cup Image(new)
      /\ cat' = [Swap(cat, Image(new)) EXCEPT !.flag = "public",
                    !.moves = @ \cup Records("to_public", new)]
      /\ fresh' = fresh + Cardinality(cat.head)
      /\ UNCHANGED <<version, current, started, todo, pruning, kept, late, was>>
  BY Zenon DEF StagePublic, Move
<1>2. MatchFilesInv /\ NowInv /\ HeirInv /\ Fit(cat, fresh) /\ cat \in CatalogType
      /\ cat' \in CatalogType
  BY <1>1 DEF RestoreInv, HeirInv, MatchFilesInv, TypeOK
<1>3. cat.head \in SUBSET Key /\ cat.head # {}
  BY <1>2 DEF CatalogType, Fit
<1>4. /\ fresh' \in 1..(MaxFile + 1) /\ fresh <= fresh' /\ DOMAIN new = cat.head
      /\ Image(new) \subseteq In("lake")
      /\ \A k \in Image(new) : fresh <= k.id /\ k.id < fresh'
  <2>1. fresh \in 1..(MaxFile + 1)
    BY <1>2 DEF MatchFilesInv, TypeOK
  <2> QED BY <1>1, <1>3, <2>1, CopiesAreNew
<1>5. fresh \in Nat /\ fresh' \in Nat
  BY <1>2, <1>4, MatchFilesConstants, StoredIsSound
<1>6. ToPrivate(moves) = ToPrivate(cat.moves) /\ Moved(moves) = Moved(cat.moves)
  <2>1. \A r \in Records("to_public", new) : r.dir = "to_public"
    BY RecordsHave
  <2> HIDE DEF new
  <2> QED BY <2>1 DEF ToPrivate, Moved
<1> HIDE DEF new
<1>7. Image(new) # {}
  BY <1>3, <1>4 DEF Image
<1>8. /\ cat'.head = Image(new) /\ cat'.ended = cat.ended \cup cat.head
      /\ cat'.scheduled = cat.scheduled /\ cat'.moves = moves
      /\ cat'.dropped = cat.dropped /\ cat'.flag = "public"
  BY <1>1, <1>2 DEF Swap, CatalogType
<1> HIDE DEF moves
<1>9. Fit(cat', fresh')
  <2>1. \A r \in ToPrivate(cat'.moves) : r \in cat.moves
    BY <1>6, <1>8 DEF ToPrivate
  <2> QED BY <1>2, <1>4, <1>5, <1>7, <1>8, <2>1, SwapFits
<1>10. cat'.head \cap Moved(Now.moves) = {} /\ cat'.head \subseteq objects'
  <2>1. cat'.head \in SUBSET Key
    BY <1>2 DEF CatalogType
  <2> QED BY <1>1, <1>2, <1>4, <1>8, <2>1, NewIsNotMoved
<1>11. ASSUME NEW s \in Stored
       PROVE  /\ Recorded(cat'.moves, version[s].cat)
              /\ Carried(Now.moves, cat'.moves, version[s].cat)
  <2>1. Recorded(cat.moves, version[s].cat) /\ Carried(Now.moves, cat.moves, version[s].cat)
    BY <1>2 DEF HeirInv
  <2>2. cat.moves \subseteq moves
    BY DEF moves
  <2> QED BY <1>6, <1>8, <2>1, <2>2 DEF Recorded, Carried
<1>12. ASSUME NEW s \in CatPoints PROVE Reaches(cat', version[s].cat.head, objects')
  <2>1. Reaches(cat, version[s].cat.head, objects)
    BY <1>2 DEF HeirInv
  <2>2. Found(cat'.moves, version[s].cat.head) = Found(cat.moves, version[s].cat.head)
    BY <1>6, <1>8 DEF Found, Replaced
  <2> QED BY <1>1, <1>8, <2>1, <2>2 DEF Reaches
<1>13. HeirInv'
  BY <1>1, <1>2, <1>4, <1>5, <1>8, <1>9, <1>10, <1>11, <1>12, NewFilesAreFine
<1>14. NowInv'
  BY <1>1, <1>2, <1>4, <1>5, GrowthIsFine
<1>15. /\ Now' = Now /\ RestorePoints' = RestorePoints
       /\ cat.dropped = Now.dropped /\ todo = {}
  BY <1>1 DEF Now, RestorePoints, Stored, RestoreInv, PhaseInv, Running
<1>16. Published => Published'
  BY <1>1, <1>6, <1>8, <1>15 DEF Published
<1>17. PhaseInv'
  BY <1>1, <1>6, <1>8, <1>10, <1>15, <1>16 DEF RestoreInv, PhaseInv, Running
<1> QED BY <1>13, <1>14, <1>17 DEF RestoreInv

-----------------------------------------------------------------------------
(* Restores                                                                *)

LEMMA RestoreRestores ==
    ASSUME RestoreInv, MatchFilesInv', Restore
    PROVE  RestoreInv'
<1>1. /\ pc' = "restore"
      /\ UNCHANGED <<version, current, started, todo, kept, late, was>>
  BY DEF Restore, Move
<1>2. PICK t \in (Stored \cap was) \ {current} :
        LET now == version[current].cat
            files == Resolve(now.moves, version[t].cat.head)
            flag == IF now.moves = {} THEN version[t].cat.flag ELSE Latest(now.moves)
            hidden == IF now.moves = {} \/ flag = "private" THEN {}
                      ELSE InRoot("restricted", files)
            new == Copies(hidden, "lake")
        IN  /\ now.moves # {} => flag = now.flag
            /\ NoKey \notin files
            /\ MayCopy(hidden)
            /\ objects' = objects \cup Image(new)
            /\ fresh' = fresh + Cardinality(hidden)
            /\ cat' = [version[t].cat EXCEPT
                          !.head = (files \ hidden) \cup Image(new),
                          !.flag = flag,
                          !.moves = now.moves \cup Records("to_public", new),
                          !.dropped = now.dropped \cup (t + 1)..(NextSeq - 1)]
  BY Zenon DEF Restore
<1> DEFINE old == version[t].cat
           files == Resolve(Now.moves, old.head)
           flag == IF Now.moves = {} THEN old.flag ELSE Latest(Now.moves)
           hidden == IF Now.moves = {} \/ flag = "private" THEN {}
                     ELSE InRoot("restricted", files)
           new == Copies(hidden, "lake")
           moves == Now.moves \cup Records("to_public", new)
           drops == (t + 1)..(NextSeq - 1)
           head == (files \ hidden) \cup Image(new)
<1>3. /\ Now.moves # {} => flag = Now.flag
      /\ NoKey \notin files /\ MayCopy(hidden) /\ objects' = objects \cup Image(new)
      /\ fresh' = fresh + Cardinality(hidden)
      /\ cat' = [old EXCEPT !.head = head, !.flag = flag,
                            !.moves = moves, !.dropped = Now.dropped \cup drops]
  BY <1>2, Zenon DEF Now
<1>4. /\ MatchFilesInv /\ NowInv /\ Now \in CatalogType /\ Sound(Now, fresh)
      /\ Fit(Now, fresh) /\ t \in Stored /\ t \in was
  BY NowIsPoint DEF RestoreInv
<1>5. /\ old \in CatalogType /\ Fit(old, fresh) /\ Recorded(Now.moves, old)
      /\ fresh \in 1..(MaxFile + 1) /\ fresh \in Nat
  BY <1>4, StoredIsSound DEF Sound, NowInv, MatchFilesInv, TypeOK
<1>6. files = Found(Now.moves, old.head)
  BY <1>4, <1>5, ResolvedIsFound DEF CatalogType
<1>7. /\ Now.moves \in SUBSET MoveRecord /\ old.head \in SUBSET Key
      /\ \A k \in Key : k.id \in Nat
  BY <1>4, <1>5 DEF CatalogType, Key
<1> HIDE DEF old, files
\* What is found is not moved away, and is new to the restored copy.
<1>8. ASSUME NEW k \in files
      PROVE  /\ k \in Key /\ k.id < fresh /\ k \notin Moved(Now.moves)
             /\ k \notin old.ended \cup old.scheduled
  <2>1. k \notin Moved(Now.moves)
    BY <1>6, <1>7, MovedIsNotFound
  <2>2. CASE k \in old.head
    <3>1. k \in Tracked(old)
      BY <2>2 DEF Tracked
    <3> QED BY <1>5, <1>7, <2>1, <2>2, <3>1 DEF Fit
  <2>3. CASE \E r \in ToPrivate(Now.moves) : r.old \in old.head /\ k = r.new
    <3>1. PICK r \in ToPrivate(Now.moves) : r.old \in old.head /\ k = r.new
      BY <2>3
    <3>2. k # NoKey
      BY <1>3
    <3>3. k \in Key
      BY <1>7, <3>1, <3>2 DEF ToPrivate, MoveRecord, In
    <3>4. k.id < fresh
      BY <1>4, <3>1, <3>2 DEF Fit
    <3>5. k \notin old.ended \cup old.scheduled
      BY <1>5, <3>1 DEF Recorded
    <3> QED BY <2>1, <3>3, <3>4, <3>5
  <2> QED BY <1>6, <2>2, <2>3, FoundHas
<1>9. files # {}
  <2>1. PICK k \in old.head : TRUE
    BY <1>5 DEF Fit
  <2>2. k \in files \/ \E r \in ToPrivate(Now.moves) : r.old = k
    BY <1>6, <2>1, FoundHas DEF Moved
  <2> QED BY <1>6, <2>1, <2>2, FoundHas
<1>10. hidden \in SUBSET Key
  BY <1>8 DEF InRoot
<1>11. hidden = {} \/ hidden = InRoot("restricted", files)
  OBVIOUS
<1>12. flag = "public" /\ Now.moves # {} => hidden = InRoot("restricted", files)
  OBVIOUS
<1> HIDE DEF hidden
<1>13. /\ fresh' \in 1..(MaxFile + 1) /\ fresh <= fresh' /\ DOMAIN new = hidden
       /\ Image(new) \subseteq In("lake")
       /\ \A k \in Image(new) : fresh <= k.id /\ k.id < fresh'
  BY <1>3, <1>5, <1>10, CopiesAreNew
<1>14. fresh' \in Nat /\ Image(new) \in SUBSET Key
  BY <1>13, MatchFilesConstants DEF In
<1>15. ToPrivate(moves) = ToPrivate(Now.moves) /\ Moved(moves) = Moved(Now.moves)
       /\ Now.moves \subseteq moves
  <2>1. \A r \in Records("to_public", new) : r.dir = "to_public"
    BY RecordsHave
  <2> HIDE DEF new
  <2> QED BY <2>1 DEF ToPrivate, Moved
<1> HIDE DEF new, moves, flag
<1>16. head # {}
  <2>1. CASE hidden = {}
    BY <1>9, <2>1
  <2>2. CASE hidden # {}
    <3>1. Image(new) # {}
      BY <1>13, <2>2 DEF Image
    <3> QED BY <3>1
  <2> QED BY <2>1, <2>2
<1>17. \A k \in head : k \in files \/ k \in Image(new)
  OBVIOUS
<1> HIDE DEF head, drops
<1>18. /\ cat'.head = head /\ cat'.flag = flag /\ cat'.moves = moves
       /\ cat'.ended = old.ended /\ cat'.scheduled = old.scheduled
       /\ cat'.dropped = Now.dropped \cup drops
  BY <1>3, <1>5 DEF CatalogType
<1>19. NowInv' /\ Now' = Now /\ Stored' = Stored
  <2>1. NowInv'
    BY <1>1, <1>3, <1>4, <1>5, <1>13, <1>14, GrowthIsFine
  <2> QED BY <1>1, <2>1 DEF Now, Stored
<1>20. Fit(cat', fresh')
  <2>1. \A k \in Tracked(old) : k \in Key /\ k.id < fresh
    BY <1>5 DEF CatalogType, Tracked, Fit
  <2>2. \A k \in Tracked(old) \cup files : k.id < fresh'
    BY <1>5, <1>7, <1>8, <1>13, <1>14, <2>1
  <2>3. Tracked(cat') \subseteq Tracked(old) \cup files \cup Image(new)
    BY <1>17, <1>18 DEF Tracked
  <2>4. \A k \in Tracked(cat') : k.id < fresh'
    BY <1>13, <2>2, <2>3
  <2>5. \A k \in Image(new) : k \notin Tracked(old)
    BY <1>5, <1>7, <1>13, <1>14, <2>1
  <2>6. head \cap (old.ended \cup old.scheduled) = {}
    BY <1>8, <1>17, <2>5 DEF Tracked
  <2>7. ASSUME flag = "public" PROVE head \subseteq In("lake")
    <3>1. CASE Now.moves = {}
      <4>1. Found(Now.moves, old.head) = old.head
        BY <3>1, FoundUnmoved DEF Moved, ToPrivate
      <4>2. old.head \subseteq In("lake")
        BY <1>5, <2>7, <3>1 DEF Fit, flag
      <4> QED BY <1>6, <1>13, <1>17, <4>1, <4>2
    <3>2. CASE Now.moves # {}
      <4>1. hidden = InRoot("restricted", files)
        BY <1>12, <2>7, <3>2
      <4>2. \A k \in files \ hidden : k \in In("lake")
        BY <1>8, <4>1 DEF InRoot, In, Key
      <4> QED BY <1>13, <4>2 DEF head
    <3> QED BY <3>1, <3>2
  <2>8. \A r \in ToPrivate(cat'.moves) : r.new # NoKey => r.new.id < fresh'
    <3>1. \A r \in ToPrivate(Now.moves) : r.new # NoKey => r.new.id < fresh /\ r.new.id \in Nat
      BY <1>4, <1>7 DEF Fit, ToPrivate, MoveRecord, In
    <3> QED BY <1>5, <1>13, <1>14, <1>15, <1>18, <3>1
  <2> QED BY <1>16, <1>18, <2>4, <2>6, <2>7, <2>8 DEF Fit
<1>21. cat'.head \cap Moved(Now.moves) = {}
  <2>1. Image(new) \cap Moved(Now.moves) = {}
    BY <1>4, <1>13, <1>14, NewIsNotMoved
  <2> QED BY <1>8, <1>17, <1>18, <2>1
<1>22. ASSUME NEW s \in Stored
       PROVE  /\ Recorded(cat'.moves, version[s].cat)
              /\ Carried(Now.moves, cat'.moves, version[s].cat)
  <2>1. Recorded(Now.moves, version[s].cat)
    BY <1>4 DEF NowInv
  <2> QED BY <1>15, <1>18, <2>1 DEF Recorded, Carried, ToPrivate
<1>23. ASSUME NEW s \in CatPoints'
       PROVE  s \in RestorePoints /\ s <= t /\ s \in Stored
  <2>1. s \in Stored /\ s \in was /\ s \notin Now.dropped /\ s \notin drops
    BY <1>1, <1>18, <1>19 DEF CatPoints
  <2>2. s < NextSeq /\ s \in Nat /\ t \in Nat /\ NextSeq \in Nat
    BY <1>4, <2>1, NextSeqIsNew DEF Stored, Seqs
  <2>3. s <= t
    BY <2>1, <2>2 DEF drops
  <2> QED BY <2>1, <2>3 DEF RestorePoints, Now
<1>24. ASSUME NEW s \in CatPoints'
       PROVE  Reaches(cat', version[s].cat.head, objects')
  <2>1. Reaches(Now, version[s].cat.head, objects)
    BY <1>4, <1>23 DEF NowInv
  <2>2. Found(cat'.moves, version[s].cat.head) = Found(Now.moves, version[s].cat.head)
    BY <1>15, <1>18 DEF Found, Replaced
  <2>3. ASSUME flag = "private" PROVE InRoot("lake", version[s].cat.head) \subseteq Moved(Now.moves)
    <3>1. CASE Now.moves = {}
      <4>1. version[t].cat.flag = "private"
        BY <2>3, <3>1 DEF flag, old
      <4> QED BY <1>4, <1>23, <4>1 DEF NowInv, PrivateOnce
    <3>2. CASE Now.moves # {}
      BY <1>3, <2>1, <2>3, <3>2 DEF Reaches
    <3> QED BY <3>1, <3>2
  <2> QED BY <1>3, <1>15, <1>18, <2>1, <2>2, <2>3 DEF Reaches
<1>25. HeirInv'
  BY <1>1, <1>19, <1>20, <1>21, <1>22, <1>24 DEF HeirInv
<1>26. \A d \in cat'.dropped : d < NextSeq
  <2>1. NextSeq \in Nat /\ current \in Nat /\ current < NextSeq
    BY <1>4, NextSeqIsNew, StoredIsSound DEF Stored, Seqs
  <2>2. \A d \in Now.dropped : d \in Nat /\ d < current
    BY <1>4 DEF NowInv, CatalogType, Seqs
  <2>3. t \in Nat
    BY <1>4 DEF Stored, Seqs
  <2>4. \A d \in drops : d < NextSeq
    BY <2>1, <2>3 DEF drops
  <2> QED BY <1>18, <2>1, <2>2, <2>4
<1>27. NextSeq' = NextSeq
  BY <1>1, <1>19 DEF NextSeq
<1>28. PhaseInv'
  BY <1>1, <1>18, <1>19, <1>26, <1>27 DEF PhaseInv, Running
<1> QED BY <1>19, <1>25, <1>28 DEF RestoreInv

-----------------------------------------------------------------------------
(* The theorem                                                             *)

LEMMA RestoreInvAtFirst == Init => RestoreInv
<1> SUFFICES ASSUME Init PROVE RestoreInv
  OBVIOUS
<1>1. MatchFilesInv
  BY InitIsSound
<1>2. PICK flag \in {"public", "private"} :
        /\ objects = {[root |-> IF flag = "public" THEN "lake" ELSE "restricted", id |-> 1]}
        /\ version = [s \in Seqs |-> IF s > 1 THEN Missing ELSE
               [kind |-> "run_end",
                cat |-> [NoCat EXCEPT !.head = objects, !.flag = flag]]]
  BY DEF Init
<1> DEFINE c == [NoCat EXCEPT !.head = objects, !.flag = flag]
<1>3. current = 1 /\ fresh = 2 /\ was = {1} /\ pc = "idle" /\ late = {}
  BY DEF Init
<1>4. /\ c.head = objects /\ c.ended = {} /\ c.scheduled = {} /\ c.moves = {}
      /\ c.dropped = {} /\ c.flag = flag
  BY DEF NoCat
<1>5. 1 \in Seqs /\ version[1].cat = c
  BY <1>2, MatchFilesConstants DEF Seqs
<1>6. \A s \in Stored : s = 1
  BY <1>2, MatchFilesConstants DEF Stored, Seqs
<1> HIDE DEF c
<1>7. Now = c /\ RestorePoints \subseteq {1}
  BY <1>3, <1>5 DEF Now, RestorePoints
<1>8. objects # {} /\ \A k \in objects : k.id = 1 /\ k \in Key
  BY <1>1, <1>2 DEF MatchFilesInv, TypeOK
<1>9. Moved(c.moves) = {} /\ ToPrivate(c.moves) = {}
  BY <1>4 DEF Moved, ToPrivate
<1>10. flag = "public" => objects \subseteq In("lake")
  BY <1>2, <1>8 DEF In
<1>11. flag = "private" => InRoot("lake", objects) = {}
  BY <1>2 DEF In, InRoot
<1>12. Fit(c, fresh) /\ Recorded(c.moves, c)
  BY <1>3, <1>4, <1>8, <1>9, <1>10 DEF Fit, Recorded, Tracked
<1>13. Reaches(c, c.head, objects)
  <2>1. Found(c.moves, c.head) = c.head
    BY <1>9, FoundUnmoved
  <2> QED BY <1>4, <1>11, <2>1 DEF Reaches
<1>14. PrivateOnce
  BY <1>4, <1>5, <1>6, <1>7, <1>11 DEF PrivateOnce
<1>15. NowInv
  BY <1>3, <1>4, <1>5, <1>6, <1>7, <1>12, <1>13, <1>14 DEF NowInv
<1>16. PhaseInv
  BY <1>3 DEF PhaseInv, Running
<1> QED BY <1>1, <1>3, <1>15, <1>16 DEF RestoreInv

LEMMA StutterRestores ==
    ASSUME RestoreInv, MatchFilesInv', UNCHANGED vars
    PROVE  RestoreInv'
<1>1. /\ UNCHANGED <<objects, version, current, fresh, pc, cat, started, todo>>
      /\ UNCHANGED <<pruning, kept, late, was>>
  BY DEF vars, state, local
<1>2. fresh \in Nat /\ fresh' = fresh /\ fresh <= fresh' /\ objects \subseteq objects'
  BY <1>1, StoredIsSound DEF RestoreInv
<1>3. NowInv' /\ (HeirInv => HeirInv')
  BY <1>1, <1>2, GrowthIsFine DEF RestoreInv
<1>4. /\ Now' = Now /\ RestorePoints' = RestorePoints /\ Stored' = Stored
      /\ NextSeq' = NextSeq
  BY <1>1 DEF Now, RestorePoints, Stored, NextSeq
<1>5. Published' = Published
  BY <1>1, <1>4 DEF Published
<1>6. PhaseInv'
  BY <1>1, <1>4, <1>5 DEF RestoreInv, PhaseInv
<1> QED BY <1>1, <1>3, <1>6 DEF RestoreInv

LEMMA RestoreInvStays ==
    ASSUME "late" \notin faults, RestoreInv, [Next]_vars
    PROVE  RestoreInv'
<1>0. MatchFilesInv'
  BY NextIsSound DEF RestoreInv
<1>1. CASE Visit
  <2>1. CASE StartRun
    BY <1>0, <2>1, StartRunRestores
  <2>2. CASE Settled \/ Finished
    BY <1>0, <2>2, SettledRestores
  <2>3. CASE DeleteKey("settle") \/ DeleteKey("finish")
    BY <1>0, <2>3, DeleteMovedRestores
  <2>4. CASE Write
    BY <1>0, <2>4, WriteRestores
  <2>5. CASE StagePrivate
    BY <1>0, <2>5, StagePrivateRestores
  <2>6. CASE StagePublic
    BY <1>0, <2>6, StagePublicRestores
  <2>7. CASE StageFails
    BY <1>0, <2>7, StageFailsRestores
  <2>8. CASE PublishMove
    BY <1>0, <2>8, PublishMoveRestores
  <2>9. CASE PublishMoveFails
    BY <1>0, <2>9, PublishMoveFailsRestores
  <2>10. CASE Checkpoint
    BY <1>0, <2>10, CheckpointRestores
  <2> QED BY <1>1, <2>1, <2>2, <2>3, <2>4, <2>5, <2>6, <2>7, <2>8, <2>9, <2>10 DEF Visit
<1>2. CASE EndOfRun
  <2>1. CASE Cleanup
    BY <1>0, <2>1, CleanupRestores
  <2>2. CASE DeleteVersion("versions") \/ DeleteVersion("drop")
    BY <1>0, <2>2, DeleteVersionRestores
  <2>3. CASE VersionsDeleted
    BY <1>0, <2>3, VersionsDeletedRestores
  <2>4. CASE DeleteKey("scheduled") \/ DeleteKey("sweep")
    BY <1>0, <2>4, DeleteReleasedRestores
  <2>5. CASE Sweep
    BY <1>0, <2>5, SweepRestores
  <2>6. CASE Swept
    BY <1>0, <2>6, SweptRestores
  <2>7. CASE RunEnd
    BY <1>0, <2>7, LastPublishRestores
  <2>8. CASE Release
    BY <1>0, <2>8, LoseRestores
  <2> QED BY <1>2, <2>1, <2>2, <2>3, <2>4, <2>5, <2>6, <2>7, <2>8 DEF EndOfRun
<1>3. CASE Restore
  BY <1>0, <1>3, RestoreRestores
<1>4. CASE RestoreCommit
  BY <1>0, <1>4, LastPublishRestores
<1>5. CASE Lose
  BY <1>0, <1>5, LoseRestores
<1>6. CASE LoseCommit
  BY <1>0, <1>6, LoseCommitRestores
<1>7. CASE LateDelete
  BY <1>7 DEF LateDelete, RestoreInv, NowInv
<1>8. CASE UNCHANGED vars
  BY <1>0, <1>8, StutterRestores
<1> QED BY <1>1, <1>2, <1>3, <1>4, <1>5, <1>6, <1>7, <1>8 DEF Next

LEMMA RestoreInvSuffices == RestoreInv => RestorePointsWork
<1> SUFFICES ASSUME RestoreInv PROVE RestorePointsWork
  OBVIOUS
<1>1. MatchFilesInv /\ NowInv /\ Now \in CatalogType
  BY NowIsPoint DEF RestoreInv
<1>2. ASSUME NEW s \in RestorePoints
      PROVE  /\ Resolve(Now.moves, version[s].cat.head) \subseteq objects
             /\ Now.flag = "private" =>
                    InRoot("lake", Resolve(Now.moves, version[s].cat.head)) = {}
  <2> DEFINE keys == version[s].cat.head
  <2>1. s \in Stored
    BY DEF RestorePoints
  <2>2. Recorded(Now.moves, version[s].cat) /\ Reaches(Now, keys, objects)
    BY <1>1, <2>1 DEF NowInv
  <2>3. Resolve(Now.moves, keys) = Found(Now.moves, keys)
    BY <1>1, <2>2, ResolvedIsFound DEF CatalogType
  <2>4. Found(Now.moves, keys) \subseteq (keys \ Moved(Now.moves)) \cup In("restricted") \cup {NoKey}
    <3>1. keys \in SUBSET Key /\ Now.moves \in SUBSET MoveRecord
      BY <1>1, <2>1, StoredIsSound DEF Sound, CatalogType
    <3>2. ToPrivate(Now.moves) \in SUBSET ToPrivate(Now.moves)
      OBVIOUS
    <3> HIDE DEF keys
    <3> QED BY <3>1, <3>2, ReplacedIsMovedAway DEF Found
  <2> HIDE DEF keys
  <2>5. In("lake") \cap (In("restricted") \cup {NoKey}) = {}
    BY MatchFilesConstants DEF In
  <2>6. Now.flag = "private" => InRoot("lake", Found(Now.moves, keys)) = {}
    BY <2>2, <2>4, <2>5 DEF Reaches, InRoot
  <2> QED BY <2>2, <2>3, <2>6 DEF Reaches, keys
<1> QED BY <1>2 DEF RestorePointsWork, Now

\* "Every restore point keeps working after visibility moves" (restore.py): when
\* no process deletes after it lost its lease, each file of each version that a
\* restore may name is in storage, and of a private match none is in the lake
\* root, whatever crashes, torn commits, failed moves, cleanups and restores.
THEOREM RestorePointsAlwaysWork == Spec => []RestorePointsWork
<1> DEFINE Inv == "late" \notin faults => RestoreInv
<1>1. Init => Inv
  BY RestoreInvAtFirst
<1>2. Inv /\ [Next]_vars => Inv'
  <2> SUFFICES ASSUME Inv, [Next]_vars, "late" \notin faults'
               PROVE  RestoreInv'
    OBVIOUS
  <2>1. faults' = faults
    BY DEF Next, vars
  <2> QED BY <2>1, RestoreInvStays
<1>3. Inv => RestorePointsWork
  BY RestoreInvSuffices DEF RestorePointsWork
<1> QED BY <1>1, <1>2, <1>3, PTL DEF Spec
=============================================================================
