---------------------------- MODULE Lease_proofs ----------------------------
(* Proofs about the single-writer lease, for any number of runs,           *)
(* generations and instants.                                               *)
EXTENDS Lease, FiniteSetTheorems, TLAPS

-----------------------------------------------------------------------------
(* Type correctness                                                        *)

StoreType ==
    /\ stored \subseteq Gen /\ object \in [Gen -> Object]
    /\ anchored \subseteq Gen /\ marked \subseteq Gen /\ top \in 0..MaxGen
    /\ seized \subseteq Gen

\* The expiry a run computes from its clock fits the range of expiries.
LEMMA ReadingInRange ==
    ASSUME TypeOK, NEW r \in Run
    PROVE  /\ Clock(r) + LEASE_TTL \in 0..LastReading
           /\ time + LEASE_TTL \in 0..LastReading
BY LeaseConstants DEF TypeOK, Clock, LastReading

\* What a step of r's main thread does to the program counters, and what the
\* end of r's process does to its memory.
Moved(r, f, t) ==
    /\ pc' \in [Run -> PC]
    /\ pc[r] = f /\ pc'[r] = t
    /\ \A s \in Run \ {r} : pc'[s] = pc[s]

Gone(r) ==
    /\ seen' \in [Run -> 0..MaxGen]
    /\ generation' \in [Run -> 0..MaxGen] /\ generation'[r] = 0
    /\ \A s \in Run \ {r} : generation'[s] = generation[s]
    /\ \A s \in Run \ {r} : seen'[s] = seen[s]
    /\ copy' \in [Run -> Object] /\ looked' \in [Run -> 0..MaxTime]
    /\ \A s \in Run \ {r} : copy'[s] = copy[s] /\ looked'[s] = looked[s]
    /\ \A s \in Run \ {r} : expires'[s] = expires[s]
    /\ fresh' \in [Run -> SUBSET Gen] /\ fresh'[r] = {}
    /\ \A s \in Run \ {r} : fresh'[s] = fresh[s]
    /\ expires' \in [Run -> 0..LastReading]
    /\ ownExpires' \in [Run -> 0..LastReading]
    /\ beat' \in [Run -> {"off", "wait", "put"}] /\ beat'[r] = "off"
    /\ \A s \in Run \ {r} : beat'[s] = beat[s]
    /\ beatExpires' \in [Run -> 0..LastReading]

LEMMA Zero ==
    /\ 0 \in 0..MaxGen /\ 0 \in 0..LastReading /\ 0 \in 0..MaxTime
    /\ Unread \in Object
BY LeaseConstants DEF LastReading, Unread, Object

LEMMA MoveFacts ==
    ASSUME TypeOK, NEW r \in Run, NEW f, NEW t \in PC, Move(r, f, t)
    PROVE  Moved(r, f, t)
BY DEF TypeOK, Move, Moved

LEMMA ExitFacts ==
    ASSUME TypeOK, NEW r \in Run, NEW f, NEW t \in Ended, Exit(r, f, t)
    PROVE  Moved(r, f, t) /\ Gone(r)
<1>1. t \in PC /\ Move(r, f, t)
  BY DEF Exit, PC
<1> QED BY <1>1, Zero, MoveFacts DEF Exit, TypeOK, Gone

LEMMA PutOwnType ==
    ASSUME TypeOK, NEW r \in Run, NEW e \in 0..LastReading,
           NEW b \in BOOLEAN, generation[r] \in Gen, PutOwn(r, e, b)
    PROVE  StoreType'
BY DEF TypeOK, PutOwn, Object, StoreType

LEMMA PutIfAbsentType ==
    ASSUME TypeOK, NEW r, NEW g, NEW c \in Object, PutIfAbsent(r, g, c)
    PROVE  g \in Gen /\ StoreType'
<1>1. g \in Gen
  BY DEF PutIfAbsent
<1>2. stored' \subseteq Gen /\ object' \in [Gen -> Object]
  BY <1>1 DEF TypeOK, PutIfAbsent
<1>3. anchored' \subseteq Gen /\ marked' \subseteq Gen
  BY DEF TypeOK, PutIfAbsent
<1>4. top' \in 0..MaxGen
  BY <1>1, LeaseConstants DEF TypeOK, PutIfAbsent, Gen
<1>5. seized' \subseteq Gen
  BY <1>1 DEF TypeOK, PutIfAbsent
<1> QED BY <1>1, <1>2, <1>3, <1>4, <1>5 DEF StoreType

\* The largest generation ever created is in the store, and nothing above it.
Chain == stored \subseteq 1..top /\ ChainKeepsItsTop

\* A run past Create owns a generation, a heartbeat belongs to one, and what a
\* run remembers of a listing was created before.
OwnerHasGeneration ==
    \A r \in Run :
        /\ pc[r] \in Creator \cup {"done"} => generation[r] \in 1..top
        /\ beat[r] # "off" => pc[r] \in Holding \cup {"release"}
        /\ fresh[r] \subseteq 1..top

TypeInv == TypeOK /\ Chain /\ OwnerHasGeneration

\* What the listing returns: the largest generation ever created.
LEMMA NewestIsTop ==
    ASSUME TypeOK, Chain, stored # {}
    PROVE  Max(stored) = top /\ top \in stored
<1>1. top \in stored /\ \A h \in stored : h <= top
  <2>1. PICK g \in stored : g \in 1..top
    BY DEF Chain
  <2>2. top \in Nat
    BY LeaseConstants DEF TypeOK
  <2> QED BY <2>1, <2>2 DEF Chain, ChainKeepsItsTop
<1>2. \A g \in stored : g \in Nat
  BY DEF Chain, TypeOK
<1>3. \A g \in stored : (\A h \in stored : h <= g) => g = top
  BY <1>1, <1>2
<1>4. \E g \in stored : \A h \in stored : h <= g
  BY <1>1
<1>5. Max(stored) \in stored /\ \A h \in stored : h <= Max(stored)
  BY <1>4 DEF Max
<1> QED BY <1>1, <1>3, <1>5

LEMMA PutOwnChain ==
    ASSUME TypeInv, NEW r \in Run, NEW e, NEW b, generation[r] \in 1..top,
           PutOwn(r, e, b)
    PROVE  Chain'
BY DEF TypeInv, TypeOK, Chain, ChainKeepsItsTop, PutOwn

LEMMA PutIfAbsentChain ==
    ASSUME TypeInv, NEW r, NEW g, NEW c, PutIfAbsent(r, g, c)
    PROVE  /\ Chain'
           /\ g \in 1..(top') /\ top <= top' /\ top' \in Nat
           /\ g <= top => g < top
<1>1. g \in Gen \ stored /\ g \in Nat /\ g >= 1
  BY DEF PutIfAbsent, Gen
<1>2. stored' = stored \cup {g} /\ top' = IF g > top THEN g ELSE top
  BY DEF PutIfAbsent
<1>3. top \in Nat /\ stored \subseteq 1..top /\ (top > 0 => top \in stored)
  BY LeaseConstants DEF TypeInv, TypeOK, Chain, ChainKeepsItsTop
<1> QED BY <1>1, <1>2, <1>3 DEF Chain, ChainKeepsItsTop

\* Pruning spares the newest generation: some listed generation is above any
\* that is pruned, and none is above the newest.
LEMMA PruneSparesTop ==
    ASSUME TypeInv, NEW r \in Run, NEW g \in Prunable(r)
    PROVE  g \in fresh[r] /\ g \in 1..top /\ g # top
<1>1. g \in fresh[r] /\ g \in 1..top /\ top \in Nat
  BY LeaseConstants DEF TypeInv, TypeOK, OwnerHasGeneration, Prunable
<1>2. ASSUME g = top PROVE FALSE
  <2>1. {h \in fresh[r] : h > g} = {}
    BY <1>1, <1>2 DEF TypeInv, OwnerHasGeneration
  <2>2. Cardinality({h \in fresh[r] : h > g}) = 0
    BY <2>1, FS_EmptySet
  <2>3. Cardinality({h \in fresh[r] : h > g}) >= KEEP_NEWEST
    BY DEF Prunable
  <2> QED BY <2>2, <2>3, LeaseConstants
<1> QED BY <1>1, <1>2

LEMMA ObserveType ==
    ASSUME TypeOK, stored' \subseteq Gen, Observe
    PROVE  over' \subseteq Gen /\ late' \subseteq Gen
BY DEF TypeOK, Observe

LEMMA OwnerInGen ==
    ASSUME TypeInv, NEW r \in Run, generation[r] \in 1..top
    PROVE  generation[r] \in Gen
BY LeaseConstants DEF TypeInv, TypeOK, Gen

\* One step per action; in each, first what the action does to the program
\* counters and to the store, then the three parts of the invariant.
LEMMA TypeStep == TypeInv /\ [Next]_vars => TypeInv'
<1> SUFFICES ASSUME TypeInv, [Next]_vars PROVE TypeInv'
  OBVIOUS
<1> USE DEF TypeInv, store, look, local, thread, PC, Creator, Winner, Acquiring,
            Pruning, Holding, Releasing, Ended
<1>1. CASE UNCHANGED vars
  BY <1>1 DEF TypeOK, Chain, ChainKeepsItsTop, OwnerHasGeneration, vars
<1>2. CASE Tick
  <2>1. time' \in 0..MaxTime
    BY <1>2, LeaseConstants DEF Tick, TypeOK
  <2>2. over' \subseteq Gen /\ late' \subseteq Gen
    BY <1>2, ObserveType DEF Tick, TypeOK
  <2> QED BY <1>2, <2>1, <2>2
          DEF Tick, TypeOK, Chain, ChainKeepsItsTop, OwnerHasGeneration
<1>3. ASSUME NEW r \in Run,
             \/ Acquire(r) \/ Heartbeat(r) \/ AssertHeld(r) \/ Finish(r)
             \/ Release(r) \/ Fault(r) \/ Trigger(r)
      PROVE  TypeInv'
  <2>1. CASE ListEmpty(r)
    <3>1. Moved(r, "idle", "create")
      BY <2>1, MoveFacts
         DEF ListEmpty
    <3>2. StoreType'
      BY <2>1
         DEF ListEmpty, TypeOK, StoreType
    <3>3. TypeOK'
      BY <2>1, <3>1, <3>2, ObserveType, ReadingInRange, Zero
         DEF ListEmpty, Moved, TypeOK, StoreType
    <3>4. OwnerHasGeneration'
      BY <2>1, <3>1, <3>3
         DEF ListEmpty, Moved, OwnerHasGeneration, TypeOK
    <3>5. Chain'
      BY <2>1
         DEF ListEmpty, Chain, ChainKeepsItsTop
    <3> QED BY <3>3, <3>4, <3>5
  <2>2. CASE List(r)
    <3>1. Moved(r, "idle", "read")
      BY <2>2, MoveFacts
         DEF List
    <3>2. StoreType'
      BY <2>2
         DEF List, TypeOK, StoreType
    <3>3. TypeOK'
      BY <2>2, <3>1, <3>2, ObserveType, NewestIsTop, LeaseConstants
         DEF List, Moved, TypeOK, StoreType
    <3>4. OwnerHasGeneration'
      BY <2>2, <3>1, <3>3
         DEF List, Moved, OwnerHasGeneration, TypeOK
    <3>5. Chain'
      BY <2>2
         DEF List, Chain, ChainKeepsItsTop
    <3> QED BY <3>3, <3>4, <3>5
  <2>3. CASE Read(r)
    <3>1. Moved(r, "read", "judge")
      BY <2>3, MoveFacts
         DEF Read
    <3>2. StoreType'
      BY <2>3
         DEF Read, TypeOK, StoreType
    <3>3. TypeOK'
      <4>1. object[seen[r]] \in Object /\ time \in 0..MaxTime
        BY <2>3 DEF Read, TypeOK
      <4>2. copy' \in [Run -> Object] /\ looked' \in [Run -> 0..MaxTime]
        BY <2>3, <4>1 DEF Read, TypeOK
      <4> QED
        BY <2>3, <3>1, <3>2, <4>2, ObserveType
           DEF Read, Moved, TypeOK, StoreType
    <3>4. OwnerHasGeneration'
      BY <2>3, <3>1, <3>3
         DEF Read, Moved, OwnerHasGeneration, TypeOK
    <3>5. Chain'
      BY <2>3
         DEF Read, Chain, ChainKeepsItsTop
    <3> QED BY <3>3, <3>4, <3>5
  <2>4. CASE JudgeHeld(r)
    <3>1. Moved(r, "judge", "skipped") /\ Gone(r)
      BY <2>4, ExitFacts
         DEF JudgeHeld
    <3>2. StoreType'
      BY <2>4
         DEF JudgeHeld, TypeOK, StoreType
    <3>3. TypeOK'
      BY <2>4, <3>1, <3>2, ObserveType
         DEF JudgeHeld, Moved, Gone, TypeOK, StoreType
    <3>4. OwnerHasGeneration'
      BY <2>4, <3>1, <3>3
         DEF JudgeHeld, Moved, Gone, OwnerHasGeneration, TypeOK
    <3>5. Chain'
      BY <2>4
         DEF JudgeHeld, Chain, ChainKeepsItsTop
    <3> QED BY <3>3, <3>4, <3>5
  <2>5. CASE ReadGone(r)
    <3>1. (\E f \in {"read", "judge"} : Moved(r, f, "failed")) /\ Gone(r)
      BY <2>5, ExitFacts
         DEF ReadGone
    <3>2. StoreType'
      BY <2>5
         DEF ReadGone, TypeOK, StoreType
    <3>3. TypeOK'
      BY <2>5, <3>1, <3>2, ObserveType
         DEF ReadGone, Moved, Gone, TypeOK, StoreType
    <3>4. OwnerHasGeneration'
      BY <2>5, <3>1, <3>3
         DEF ReadGone, Moved, Gone, OwnerHasGeneration, TypeOK
    <3>5. Chain'
      BY <2>5
         DEF ReadGone, Chain, ChainKeepsItsTop
    <3> QED BY <3>3, <3>4, <3>5
  <2>6. CASE Create(r)
    <3>1. Moved(r, "create", "relist")
      BY <2>6, MoveFacts
         DEF Create
    <3>2. StoreType'
      BY <2>6, PutIfAbsentType, ReadingInRange, LeaseConstants
         DEF Create, TypeOK, Object
    <3>3. TypeOK'
      <4>1. seen[r] + 1 \in 0..MaxGen
        BY <2>6, LeaseConstants
           DEF Create, PutIfAbsent, Gen
      <4> QED
        BY <2>6, <3>1, <3>2, ObserveType, Zero, <4>1
           DEF Create, Moved, TypeOK, StoreType
    <3>4. OwnerHasGeneration'
      BY <2>6, <3>1, <3>3, PutIfAbsentChain
         DEF Create, Moved, OwnerHasGeneration, TypeOK
    <3>5. Chain'
      BY <2>6, PutIfAbsentChain
         DEF Create
    <3> QED BY <3>3, <3>4, <3>5
  <2>7. CASE CreateLost(r)
    <3>1. Moved(r, "create", "skipped") /\ Gone(r)
      BY <2>7, ExitFacts
         DEF CreateLost
    <3>2. StoreType'
      BY <2>7
         DEF CreateLost, TypeOK, StoreType
    <3>3. TypeOK'
      BY <2>7, <3>1, <3>2, ObserveType
         DEF CreateLost, Moved, Gone, TypeOK, StoreType
    <3>4. OwnerHasGeneration'
      BY <2>7, <3>1, <3>3
         DEF CreateLost, Moved, Gone, OwnerHasGeneration, TypeOK
    <3>5. Chain'
      BY <2>7
         DEF CreateLost, Chain, ChainKeepsItsTop
    <3> QED BY <3>3, <3>4, <3>5
  <2>8. CASE CreateTorn(r)
    <3>1. Moved(r, "create", "dead") /\ Gone(r)
      BY <2>8, ExitFacts
         DEF CreateTorn
    <3>2. StoreType'
      BY <2>8, PutIfAbsentType, ReadingInRange, LeaseConstants
         DEF CreateTorn, TypeOK, Object
    <3>3. TypeOK'
      BY <2>8, <3>1, <3>2, ObserveType
         DEF CreateTorn, Moved, Gone, TypeOK, StoreType
    <3>4. OwnerHasGeneration'
      BY <2>8, <3>1, <3>3, PutIfAbsentChain
         DEF CreateTorn, Moved, Gone, OwnerHasGeneration, TypeOK
    <3>5. Chain'
      BY <2>8, PutIfAbsentChain
         DEF CreateTorn
    <3> QED BY <3>3, <3>4, <3>5
  <2>9. CASE Relist(r)
    <3>1. Moved(r, "relist", "anchor")
      BY <2>9, MoveFacts
         DEF Relist
    <3>2. StoreType'
      BY <2>9
         DEF Relist, TypeOK, StoreType
    <3>3. TypeOK'
      BY <2>9, <3>1, <3>2, ObserveType
         DEF Relist, Moved, TypeOK, StoreType
    <3>4. OwnerHasGeneration'
      <4>1. \A s \in Run : fresh'[s] \subseteq 1..top'
        BY <2>9 DEF Relist, OwnerHasGeneration, TypeOK, Chain
      <4> QED
        BY <2>9, <3>1, <4>1 DEF Relist, Moved, OwnerHasGeneration, TypeOK
    <3>5. Chain'
      BY <2>9
         DEF Relist, Chain, ChainKeepsItsTop
    <3> QED BY <3>3, <3>4, <3>5
  <2>10. CASE RelistStale(r)
    <3>1. Moved(r, "relist", "skipped") /\ Gone(r)
      BY <2>10, ExitFacts
         DEF RelistStale
    <3>2. StoreType'
      BY <2>10, <3>1, PutOwnType, OwnerInGen
         DEF RelistStale, TypeOK, OwnerHasGeneration, Moved
    <3>3. TypeOK'
      BY <2>10, <3>1, <3>2, ObserveType
         DEF RelistStale, Moved, Gone, TypeOK, StoreType
    <3>4. OwnerHasGeneration'
      BY <2>10, <3>1, <3>3
         DEF RelistStale, Moved, Gone, OwnerHasGeneration, TypeOK,
             PutOwn
    <3>5. Chain'
      BY <2>10, <3>1, PutOwnChain
         DEF RelistStale, OwnerHasGeneration, Moved
    <3> QED BY <3>3, <3>4, <3>5
  <2>11. CASE StoreAnchor(r)
    <3>1. Moved(r, "anchor", "marker")
      BY <2>11, MoveFacts
         DEF StoreAnchor
    <3>2. StoreType'
      BY <2>11, <3>1, OwnerInGen
         DEF StoreAnchor, Moved, TypeOK, OwnerHasGeneration, StoreType
    <3>3. TypeOK'
      BY <2>11, <3>1, <3>2, ObserveType
         DEF StoreAnchor, Moved, TypeOK, StoreType
    <3>4. OwnerHasGeneration'
      BY <2>11, <3>1, <3>3
         DEF StoreAnchor, Moved, OwnerHasGeneration, TypeOK
    <3>5. Chain'
      BY <2>11
         DEF StoreAnchor, Chain, ChainKeepsItsTop
    <3> QED BY <3>3, <3>4, <3>5
  <2>12. CASE StoreMarker(r)
    <3>1. Moved(r, "marker", "stat")
      BY <2>12, MoveFacts
         DEF StoreMarker
    <3>2. StoreType'
      BY <2>12, <3>1, OwnerInGen
         DEF StoreMarker, Moved, TypeOK, OwnerHasGeneration, StoreType
    <3>3. TypeOK'
      BY <2>12, <3>1, <3>2, ObserveType
         DEF StoreMarker, Moved, TypeOK, StoreType
    <3>4. OwnerHasGeneration'
      BY <2>12, <3>1, <3>3
         DEF StoreMarker, Moved, OwnerHasGeneration, TypeOK
    <3>5. Chain'
      BY <2>12
         DEF StoreMarker, Chain, ChainKeepsItsTop
    <3> QED BY <3>3, <3>4, <3>5
  <2>13. CASE StoreFails(r)
    <3>1. (\E f \in {"anchor", "marker"} : Moved(r, f, "failed")) /\ Gone(r)
      BY <2>13, ExitFacts
         DEF StoreFails
    <3>2. StoreType'
      BY <2>13, <3>1, PutOwnType, OwnerInGen
         DEF StoreFails, TypeOK, OwnerHasGeneration, Moved
    <3>3. TypeOK'
      BY <2>13, <3>1, <3>2, ObserveType
         DEF StoreFails, Moved, Gone, TypeOK, StoreType
    <3>4. OwnerHasGeneration'
      BY <2>13, <3>1, <3>3
         DEF StoreFails, Moved, Gone, OwnerHasGeneration, TypeOK,
             PutOwn
    <3>5. Chain'
      BY <2>13, <3>1, PutOwnChain
         DEF StoreFails, OwnerHasGeneration, Moved
    <3> QED BY <3>3, <3>4, <3>5
  <2>14. CASE Stat(r)
    <3>1. Moved(r, "stat", "prune")
      BY <2>14, MoveFacts
         DEF Stat
    <3>2. StoreType'
      BY <2>14
         DEF Stat, TypeOK, StoreType
    <3>3. TypeOK'
      BY <2>14, <3>1, <3>2, ObserveType
         DEF Stat, Moved, TypeOK, StoreType
    <3>4. OwnerHasGeneration'
      BY <2>14, <3>1, <3>3
         DEF Stat, Moved, OwnerHasGeneration, TypeOK
    <3>5. Chain'
      BY <2>14
         DEF Stat, Chain, ChainKeepsItsTop
    <3> QED BY <3>3, <3>4, <3>5
  <2>15. CASE PruneKeep(r)
    <3>1. Moved(r, "prune", "prune")
      BY <2>15, MoveFacts
         DEF PruneKeep
    <3>2. StoreType'
      BY <2>15
         DEF PruneKeep, TypeOK, StoreType
    <3>3. TypeOK'
      <4>1. fresh' \in [Run -> SUBSET Gen]
        BY <2>15 DEF PruneKeep, Forget, TypeOK
      <4> QED
        BY <2>15, <3>1, <3>2, <4>1, ObserveType
           DEF PruneKeep, Forget, Moved, TypeOK, StoreType
    <3>4. OwnerHasGeneration'
      BY <2>15, <3>1, <3>3
         DEF PruneKeep, Moved, OwnerHasGeneration, TypeOK, Forget
    <3>5. Chain'
      BY <2>15
         DEF PruneKeep, Chain, ChainKeepsItsTop
    <3> QED BY <3>3, <3>4, <3>5
  <2>16. CASE PruneMarker(r)
    <3>1. Moved(r, "prune", "delete")
      BY <2>16, MoveFacts
         DEF PruneMarker
    <3>2. StoreType'
      BY <2>16
         DEF PruneMarker, TypeOK, StoreType
    <3>3. TypeOK'
      BY <2>16, <3>1, <3>2, ObserveType
         DEF PruneMarker, Moved, TypeOK, StoreType
    <3>4. OwnerHasGeneration'
      BY <2>16, <3>1, <3>3
         DEF PruneMarker, Moved, OwnerHasGeneration, TypeOK
    <3>5. Chain'
      BY <2>16
         DEF PruneMarker, Chain, ChainKeepsItsTop
    <3> QED BY <3>3, <3>4, <3>5
  <2>17. CASE PruneObject(r)
    <3>1. Moved(r, "delete", "prune")
      BY <2>17, MoveFacts
         DEF PruneObject
    <3>2. StoreType'
      BY <2>17
         DEF PruneObject, TypeOK, StoreType
    <3>3. TypeOK'
      <4>1. fresh' \in [Run -> SUBSET Gen]
        BY <2>17 DEF PruneObject, Forget, TypeOK
      <4> QED
        BY <2>17, <3>1, <3>2, <4>1, ObserveType
           DEF PruneObject, Forget, Moved, TypeOK, StoreType
    <3>4. OwnerHasGeneration'
      BY <2>17, <3>1, <3>3
         DEF PruneObject, Moved, OwnerHasGeneration, TypeOK, Forget
    <3>5. Chain'
      BY <2>17, PruneSparesTop
         DEF PruneObject, Chain, ChainKeepsItsTop, TypeOK
    <3> QED BY <3>3, <3>4, <3>5
  <2>18. CASE ObjectGone(r)
    <3>1. (\E f \in {"stat", "prune"} : Moved(r, f, "failed")) /\ Gone(r)
      BY <2>18, ExitFacts
         DEF ObjectGone
    <3>2. StoreType'
      BY <2>18
         DEF ObjectGone, TypeOK, StoreType
    <3>3. TypeOK'
      BY <2>18, <3>1, <3>2, ObserveType
         DEF ObjectGone, Moved, Gone, TypeOK, StoreType
    <3>4. OwnerHasGeneration'
      BY <2>18, <3>1, <3>3
         DEF ObjectGone, Moved, Gone, OwnerHasGeneration, TypeOK
    <3>5. Chain'
      BY <2>18
         DEF ObjectGone, Chain, ChainKeepsItsTop
    <3> QED BY <3>3, <3>4, <3>5
  <2>19. CASE Hold(r)
    <3>1. Moved(r, "prune", "held")
      BY <2>19, MoveFacts
         DEF Hold
    <3>2. StoreType'
      BY <2>19
         DEF Hold, TypeOK, StoreType
    <3>3. TypeOK'
      BY <2>19, <3>1, <3>2, ObserveType
         DEF Hold, Moved, TypeOK, StoreType
    <3>4. OwnerHasGeneration'
      BY <2>19, <3>1, <3>3
         DEF Hold, Moved, OwnerHasGeneration, TypeOK
    <3>5. Chain'
      BY <2>19
         DEF Hold, Chain, ChainKeepsItsTop
    <3> QED BY <3>3, <3>4, <3>5
  <2>20. CASE RenewRead(r)
    <3>2. StoreType'
      BY <2>20
         DEF RenewRead, TypeOK, StoreType
    <3>3. TypeOK'
      BY <2>20, <3>2, ObserveType, ReadingInRange, Zero
         DEF RenewRead, TypeOK, StoreType
    <3>4. OwnerHasGeneration'
      BY <2>20, <3>3
         DEF RenewRead, OwnerHasGeneration, TypeOK
    <3>5. Chain'
      BY <2>20
         DEF RenewRead, Chain, ChainKeepsItsTop
    <3> QED BY <3>3, <3>4, <3>5
  <2>21. CASE RenewPut(r)
    <3>2. StoreType'
      BY <2>21, PutOwnType, OwnerInGen
         DEF RenewPut, TypeOK, OwnerHasGeneration
    <3>3. TypeOK'
      BY <2>21, <3>2, ObserveType, Zero
         DEF RenewPut, TypeOK, StoreType
    <3>4. OwnerHasGeneration'
      BY <2>21, <3>3
         DEF RenewPut, OwnerHasGeneration, TypeOK, PutOwn
    <3>5. Chain'
      BY <2>21, PutOwnChain
         DEF RenewPut, OwnerHasGeneration
    <3> QED BY <3>3, <3>4, <3>5
  <2>22. CASE RenewFails(r)
    <3>2. StoreType'
      BY <2>22
         DEF RenewFails, TypeOK, StoreType
    <3>3. TypeOK'
      BY <2>22, <3>2, ObserveType, Zero
         DEF RenewFails, TypeOK, StoreType
    <3>4. OwnerHasGeneration'
      BY <2>22, <3>3
         DEF RenewFails, OwnerHasGeneration, TypeOK
    <3>5. Chain'
      BY <2>22
         DEF RenewFails, Chain, ChainKeepsItsTop
    <3> QED BY <3>3, <3>4, <3>5
  <2>23. CASE AssertNext(r)
    <3>1. Moved(r, "held", "own")
      BY <2>23, MoveFacts
         DEF AssertNext
    <3>2. StoreType'
      BY <2>23
         DEF AssertNext, TypeOK, StoreType
    <3>3. TypeOK'
      BY <2>23, <3>1, <3>2, ObserveType
         DEF AssertNext, Moved, TypeOK, StoreType
    <3>4. OwnerHasGeneration'
      BY <2>23, <3>1, <3>3
         DEF AssertNext, Moved, OwnerHasGeneration, TypeOK
    <3>5. Chain'
      BY <2>23
         DEF AssertNext, Chain, ChainKeepsItsTop
    <3> QED BY <3>3, <3>4, <3>5
  <2>24. CASE AssertOwn(r)
    <3>1. Moved(r, "own", "clock")
      BY <2>24, MoveFacts
         DEF AssertOwn
    <3>2. StoreType'
      BY <2>24
         DEF AssertOwn, TypeOK, StoreType
    <3>3. TypeOK'
      <4>1. generation[r] \in Gen
        BY <2>24 DEF AssertOwn, TypeOK
      <4>2. ownExpires' \in [Run -> 0..LastReading]
        BY <2>24, <4>1 DEF AssertOwn, TypeOK, Object
      <4> QED
        BY <2>24, <3>1, <3>2, <4>2, ObserveType
           DEF AssertOwn, Moved, TypeOK, StoreType
    <3>4. OwnerHasGeneration'
      BY <2>24, <3>1, <3>3
         DEF AssertOwn, Moved, OwnerHasGeneration, TypeOK
    <3>5. Chain'
      BY <2>24
         DEF AssertOwn, Chain, ChainKeepsItsTop
    <3> QED BY <3>3, <3>4, <3>5
  <2>25. CASE AssertClock(r)
    <3>1. Moved(r, "clock", "held")
      BY <2>25, MoveFacts
         DEF AssertClock
    <3>2. StoreType'
      BY <2>25
         DEF AssertClock, TypeOK, StoreType
    <3>3. TypeOK'
      BY <2>25, <3>1, <3>2, ObserveType, Zero
         DEF AssertClock, Moved, TypeOK, StoreType
    <3>4. OwnerHasGeneration'
      BY <2>25, <3>1, <3>3
         DEF AssertClock, Moved, OwnerHasGeneration, TypeOK
    <3>5. Chain'
      BY <2>25
         DEF AssertClock, Chain, ChainKeepsItsTop
    <3> QED BY <3>3, <3>4, <3>5
  <2>26. CASE AssertLost(r)
    <3>1. \E f \in Holding : Moved(r, f, "release")
      BY <2>26, MoveFacts
         DEF AssertLost
    <3>2. StoreType'
      BY <2>26
         DEF AssertLost, TypeOK, StoreType
    <3>3. TypeOK'
      BY <2>26, <3>1, <3>2, ObserveType, Zero
         DEF AssertLost, Moved, TypeOK, StoreType
    <3>4. OwnerHasGeneration'
      BY <2>26, <3>1, <3>3
         DEF AssertLost, Moved, OwnerHasGeneration, TypeOK
    <3>5. Chain'
      BY <2>26
         DEF AssertLost, Chain, ChainKeepsItsTop
    <3> QED BY <3>3, <3>4, <3>5
  <2>27. CASE Finish(r)
    <3>1. Moved(r, "held", "release")
      BY <2>27, MoveFacts
         DEF Finish
    <3>2. StoreType'
      BY <2>27
         DEF Finish, TypeOK, StoreType
    <3>3. TypeOK'
      BY <2>27, <3>1, <3>2, ObserveType
         DEF Finish, Moved, TypeOK, StoreType
    <3>4. OwnerHasGeneration'
      BY <2>27, <3>1, <3>3
         DEF Finish, Moved, OwnerHasGeneration, TypeOK
    <3>5. Chain'
      BY <2>27
         DEF Finish, Chain, ChainKeepsItsTop
    <3> QED BY <3>3, <3>4, <3>5
  <2>28. CASE ReleaseStop(r)
    <3>1. Moved(r, "release", "releasing")
      BY <2>28, MoveFacts
         DEF ReleaseStop
    <3>2. StoreType'
      BY <2>28
         DEF ReleaseStop, TypeOK, StoreType
    <3>3. TypeOK'
      BY <2>28, <3>1, <3>2, ObserveType
         DEF ReleaseStop, Moved, TypeOK, StoreType
    <3>4. OwnerHasGeneration'
      BY <2>28, <3>1, <3>3
         DEF ReleaseStop, Moved, OwnerHasGeneration, TypeOK
    <3>5. Chain'
      BY <2>28
         DEF ReleaseStop, Chain, ChainKeepsItsTop
    <3> QED BY <3>3, <3>4, <3>5
  <2>29. CASE ReleasePut(r)
    <3>1. Moved(r, "releasing", "done")
      BY <2>29, MoveFacts
         DEF ReleasePut
    <3>2. StoreType'
      BY <2>29, <3>1, PutOwnType, OwnerInGen
         DEF ReleasePut, TypeOK, OwnerHasGeneration, Moved
    <3>3. TypeOK'
      BY <2>29, <3>1, <3>2, ObserveType
         DEF ReleasePut, Moved, TypeOK, StoreType
    <3>4. OwnerHasGeneration'
      BY <2>29, <3>1, <3>3
         DEF ReleasePut, Moved, OwnerHasGeneration, TypeOK, PutOwn
    <3>5. Chain'
      BY <2>29, <3>1, PutOwnChain
         DEF ReleasePut, OwnerHasGeneration, Moved
    <3> QED BY <3>3, <3>4, <3>5
  <2>30. CASE Crash(r)
    <3>1. Moved(r, pc[r], "dead") /\ Gone(r)
      BY <2>30, ExitFacts
         DEF Crash
    <3>2. StoreType'
      BY <2>30
         DEF Crash, TypeOK, StoreType
    <3>3. TypeOK'
      BY <2>30, <3>1, <3>2, ObserveType
         DEF Crash, Moved, Gone, TypeOK, StoreType
    <3>4. OwnerHasGeneration'
      BY <2>30, <3>1, <3>3
         DEF Crash, Moved, Gone, OwnerHasGeneration, TypeOK
    <3>5. Chain'
      BY <2>30
         DEF Crash, Chain, ChainKeepsItsTop
    <3> QED BY <3>3, <3>4, <3>5
  <2>31. CASE Trigger(r)
    <3>1. Moved(r, "skipped", "idle")
      BY <2>31, MoveFacts
         DEF Trigger
    <3>2. StoreType'
      BY <2>31
         DEF Trigger, TypeOK, StoreType
    <3>3. TypeOK'
      BY <2>31, <3>1, <3>2, ObserveType
         DEF Trigger, Moved, TypeOK, StoreType
    <3>4. OwnerHasGeneration'
      BY <2>31, <3>1, <3>3
         DEF Trigger, Moved, OwnerHasGeneration, TypeOK
    <3>5. Chain'
      BY <2>31
         DEF Trigger, Chain, ChainKeepsItsTop
    <3> QED BY <3>3, <3>4, <3>5
  <2>32. CASE JudgeFree(r)
    <3>1. Moved(r, "judge", "create")
      BY <2>32, MoveFacts
         DEF JudgeFree
    <3>2. StoreType'
      BY <2>32
         DEF JudgeFree, TypeOK, StoreType
    <3>3. TypeOK'
      <4>1. copy' \in [Run -> Object]
        BY <2>32, Zero DEF JudgeFree, TypeOK
      <4> QED
        BY <2>32, <3>1, <3>2, <4>1, ObserveType, ReadingInRange
           DEF JudgeFree, Moved, TypeOK, StoreType
    <3>4. OwnerHasGeneration'
      BY <2>32, <3>1, <3>3
         DEF JudgeFree, Moved, OwnerHasGeneration, TypeOK
    <3>5. Chain'
      BY <2>32
         DEF JudgeFree, Chain, ChainKeepsItsTop
    <3> QED BY <3>3, <3>4, <3>5
  <2> QED
    BY <1>3, <2>1, <2>2, <2>3, <2>4, <2>5, <2>6, <2>7, <2>8, <2>9, <2>10,
       <2>11, <2>12, <2>13, <2>14, <2>15, <2>16, <2>17, <2>18, <2>19, <2>20,
       <2>21, <2>22, <2>23, <2>24, <2>25, <2>26, <2>27, <2>28, <2>29, <2>30,
       <2>31, <2>32
       DEF Acquire, Heartbeat, AssertHeld, Release, Fault
<1> QED BY <1>1, <1>2, <1>3 DEF Next

LEMMA InitType == Init => TypeInv
<1> SUFFICES ASSUME Init PROVE TypeInv
  OBVIOUS
<1>1. TypeOK
  <2>1. skew \in [Run -> 0..MaxSkew]
    BY LeaseConstants DEF Init
  <2>2. object \in [Gen -> Object] /\ copy \in [Run -> Object]
    BY Zero DEF Init
  <2> QED BY <2>1, <2>2, Zero, LeaseConstants DEF Init, TypeOK, PC
<1>2. Chain
  BY LeaseConstants DEF Init, Chain, ChainKeepsItsTop
<1>3. OwnerHasGeneration
  BY DEF Init, OwnerHasGeneration, Creator, Winner, Pruning, Holding, Releasing
<1> QED BY <1>1, <1>2, <1>3 DEF TypeInv

\* Type correctness: no step of any run, whatever its stalls and crashes,
\* leaves the ranges of the state.
THEOREM TypeCorrect == Spec => []TypeOK
<1>1. TypeInv => TypeOK
  BY DEF TypeInv
<1> QED BY <1>1, InitType, TypeStep, PTL DEF Spec

\* Pruning never removes the newest generation.
THEOREM NewestGenerationStays == Spec => []ChainKeepsItsTop
<1>1. TypeInv => ChainKeepsItsTop
  BY DEF TypeInv, Chain
<1> QED BY <1>1, InitType, TypeStep, PTL DEF Spec

-----------------------------------------------------------------------------
(* Mutual exclusion                                                        *)

\* The history "over" holds every stored generation that is free now.
OverIsComplete ==
    \A g \in stored :
        object[g].released \/ OwnClock(g) > object[g].expires => g \in over

\* What a run listed was created.  What it copied is lapsed if the copy says so
\* at the instant it was made, on the store's clock, which no holder's clock is
\* behind.  What it decided to take is lapsed, or the look at it is old.
DecidedOnFree ==
    \A r \in Run :
        /\ pc[r] \in {"read", "judge", "create"} => seen[r] <= top
        /\ pc[r] \in {"read", "judge"} => seen[r] > 0
        /\ (pc[r] = "judge"
              /\ (copy[r].released \/ copy[r].expires < looked[r])) =>
                seen[r] \in over
        /\ pc[r] = "create" => seen[r] = 0 \/ seen[r] \in over \/ OldLook(r)

LiveInv == OverIsComplete /\ DecidedOnFree /\ LiveLeaseIsTakenOnOldLookOnly

LEMMA ObserveOver ==
    ASSUME TypeInv, Observe
    PROVE  OverIsComplete' /\ over \subseteq over'
BY DEF Observe, OverIsComplete

\* No holder's clock is behind the store's: what is expired for the store's is
\* expired for the holder's.
LEMMA ExpiredIsOver ==
    ASSUME TypeInv, OverIsComplete, NEW g \in stored,
           object[g].released \/ object[g].expires < time
    PROVE  g \in over
<1>1. g \in Gen /\ object[g].run \in Run \cup {NoRun} /\ object[g].expires \in Nat
  BY LeaseConstants DEF TypeInv, TypeOK, Object, LastReading
<1>2. time \in Nat /\ \A s \in Run : skew[s] \in Nat
  BY LeaseConstants DEF TypeInv, TypeOK
<1>3. time <= OwnClock(g) /\ OwnClock(g) \in Nat
  BY <1>1, <1>2 DEF OwnClock, Clock
<1>4. object[g].released \/ OwnClock(g) > object[g].expires
  BY <1>1, <1>2, <1>3
<1> QED BY <1>4 DEF OverIsComplete

\* An expiry that the judge's clock passed by the grace had passed when the
\* copy was made, unless the judge's clock is by more than the grace ahead of
\* that instant.
LEMMA InTime ==
    ASSUME NEW clock \in Nat, NEW then \in Nat, NEW expiry \in Nat,
           NEW grace \in Nat, clock > expiry + grace, ~(clock > then + grace)
    PROVE  expiry < then
OBVIOUS

LEMMA JudgedIsFree ==
    ASSUME TypeInv, DecidedOnFree, NEW r \in Run, JudgeFree(r)
    PROVE  seen[r] \in over \/ OldLook(r)'
<1>1. /\ pc[r] = "judge" /\ seen[r] > 0 /\ seen'[r] = seen[r]
      /\ looked'[r] = looked[r]
      /\ (copy[r].released \/ copy[r].expires < looked[r]) => seen[r] \in over
  BY DEF JudgeFree, Move, DecidedOnFree
<1>2. /\ copy[r].expires \in Nat /\ looked[r] \in Nat /\ Clock(r) \in Nat
      /\ TAKEOVER_GRACE \in Nat /\ LEASE_TTL \in Nat
  BY LeaseConstants DEF TypeInv, TypeOK, Object, LastReading, Clock
<1>3. expires'[r] - LEASE_TTL = Clock(r)
  <2>1. expires'[r] = Clock(r) + LEASE_TTL
    BY DEF JudgeFree, TypeInv, TypeOK
  <2> QED BY <1>2, <2>1
<1>4. CASE copy[r].released
  BY <1>1, <1>4
<1>5. CASE Clock(r) > copy[r].expires + TAKEOVER_GRACE
  <2>1. CASE Clock(r) > looked[r] + TAKEOVER_GRACE
    <3>1. seen'[r] > 0 /\ expires'[r] - LEASE_TTL > looked'[r] + TAKEOVER_GRACE
      BY <1>1, <1>3, <2>1
    <3> QED BY <3>1 DEF OldLook
  <2>2. CASE ~(Clock(r) > looked[r] + TAKEOVER_GRACE)
    <3>1. copy[r].expires < looked[r]
      BY <1>2, <1>5, <2>2, InTime
    <3> QED BY <1>1, <3>1
  <2> QED BY <2>1, <2>2
<1> QED BY <1>4, <1>5 DEF JudgeFree, Free

\* Creating the successor of a lapsed generation keeps the live ones untaken,
\* and whoever creates it after an old look is known to have done so.
LEMMA CreateKeepsLive ==
    ASSUME TypeInv, LiveInv, NEW r \in Run, pc[r] = "create", NEW c,
           PutIfAbsent(r, seen[r] + 1, c), over \subseteq over'
    PROVE  LiveLeaseIsTakenOnOldLookOnly'
<1>1. /\ seen[r] \in Nat /\ top \in Nat /\ seen[r] <= top
      /\ seen[r] = 0 \/ seen[r] \in over \/ OldLook(r)
  BY LeaseConstants DEF TypeInv, TypeOK, LiveInv, DecidedOnFree
<1>2. /\ top' = IF seen[r] + 1 > top THEN seen[r] + 1 ELSE top
      /\ seized' = IF seen[r] + 1 > top /\ OldLook(r)
                   THEN seized \cup {seen[r] + 1} ELSE seized
      /\ seized \subseteq seized'
  BY DEF PutIfAbsent
<1>3. CASE seen[r] < top
  BY <1>1, <1>2, <1>3 DEF LiveInv, LiveLeaseIsTakenOnOldLookOnly
<1>4. CASE seen[r] = top
  <2> SUFFICES ASSUME NEW g \in 1..(top' - 1)
               PROVE  g \in over \/ g + 1 \in seized'
    BY DEF LiveLeaseIsTakenOnOldLookOnly
  <2>1. g = top \/ g \in 1..(top - 1)
    BY <1>1, <1>2, <1>4
  <2>2. top = 0 \/ top \in over \/ top + 1 \in seized'
    BY <1>1, <1>2, <1>4
  <2>3. g # 0
    OBVIOUS
  <2> QED BY <1>2, <2>1, <2>2, <2>3 DEF LiveInv, LiveLeaseIsTakenOnOldLookOnly
<1> QED BY <1>1, <1>3, <1>4

AnyStep(r) ==
    \/ Acquire(r) \/ Heartbeat(r) \/ AssertHeld(r) \/ Finish(r)
    \/ Release(r) \/ Fault(r) \/ Trigger(r)

OtherStep(r) ==
    \/ JudgeHeld(r) \/ ReadGone(r) \/ CreateLost(r)
    \/ Relist(r) \/ RelistStale(r) \/ StoreAnchor(r)
    \/ StoreMarker(r) \/ StoreFails(r) \/ Stat(r) \/ PruneKeep(r)
    \/ PruneMarker(r) \/ PruneObject(r) \/ ObjectGone(r) \/ Hold(r)
    \/ Heartbeat(r) \/ RenewFails(r) \/ AssertHeld(r) \/ Finish(r)
    \/ Release(r) \/ Crash(r) \/ Trigger(r)

\* No other step brings a run to a decision, or changes what a run knows that
\* has to decide: a heartbeat runs beside a run that holds the lease.
LEMMA OthersDecideNothing ==
    ASSUME TypeInv, NEW r \in Run, OtherStep(r)
    PROVE  /\ top' = top /\ seized' = seized
           /\ \A s \in Run : pc'[s] \in {"read", "judge", "create"} =>
                /\ pc'[s] = pc[s] /\ seen'[s] = seen[s] /\ copy'[s] = copy[s]
                /\ looked'[s] = looked[s] /\ expires'[s] = expires[s]
<1> USE DEF store, look, local, thread
<1>1. CASE \/ JudgeHeld(r) \/ ReadGone(r) \/ CreateLost(r) \/ RelistStale(r)
           \/ StoreFails(r) \/ ObjectGone(r) \/ Crash(r)
  <2>1. top' = top /\ seized' = seized
    BY <1>1 DEF JudgeHeld, ReadGone, CreateLost, RelistStale, StoreFails,
                ObjectGone, Crash, PutOwn
  <2>2. (\E f : \E t \in Ended : Exit(r, f, t))
    BY <1>1 DEF JudgeHeld, ReadGone, CreateLost, RelistStale, StoreFails,
                ObjectGone, Crash, Ended
  <2>3. \E f : \E t \in Ended : Moved(r, f, t) /\ Gone(r)
    BY <2>2, ExitFacts DEF TypeInv
  <2> QED BY <2>1, <2>3 DEF Moved, Gone, Ended
<1>2. CASE RenewPut(r)
  <2>1. pc[r] \notin {"read", "judge", "create"}
    BY <1>2 DEF RenewPut, TypeInv, OwnerHasGeneration, Holding
  <2> QED BY <1>2, <2>1 DEF RenewPut, PutOwn, TypeInv, TypeOK
<1>3. CASE RenewRead(r) \/ RenewFails(r)
  BY <1>3 DEF RenewRead, RenewFails
<1>4. CASE \/ Relist(r) \/ StoreAnchor(r) \/ StoreMarker(r) \/ Stat(r)
           \/ PruneKeep(r) \/ PruneMarker(r) \/ PruneObject(r) \/ Hold(r)
           \/ AssertHeld(r) \/ Finish(r) \/ Release(r) \/ Trigger(r)
  BY <1>4
     DEF Relist, StoreAnchor, StoreMarker, Stat, PruneKeep, PruneMarker,
         PruneObject, Hold, Forget, AssertHeld, AssertNext, AssertOwn,
         AssertClock, AssertLost, Finish, Release, ReleaseStop, ReleasePut,
         Trigger, Move, PutOwn, TypeInv, TypeOK
<1> QED BY <1>1, <1>2, <1>3, <1>4 DEF OtherStep, Heartbeat

LEMMA LiveStep == TypeInv /\ LiveInv /\ [Next]_vars => LiveInv'
<1> SUFFICES ASSUME TypeInv, LiveInv, [Next]_vars PROVE LiveInv'
  OBVIOUS
<1> USE DEF LiveInv
<1>1. CASE UNCHANGED vars
  BY <1>1 DEF OverIsComplete, DecidedOnFree, LiveLeaseIsTakenOnOldLookOnly,
              OldLook, OwnClock, Clock, vars, store, look, local, thread
<1>2. CASE Tick
  <2>1. OverIsComplete' /\ over \subseteq over'
    BY <1>2, ObserveOver DEF Tick
  <2> QED
    BY <1>2, <2>1 DEF Tick, DecidedOnFree, LiveLeaseIsTakenOnOldLookOnly,
                      OldLook, store, look, local
<1>3. ASSUME NEW r \in Run, AnyStep(r) PROVE LiveInv'
  <2>1. OverIsComplete' /\ over \subseteq over'
    BY <1>3, ObserveOver
       DEF AnyStep, Acquire, Heartbeat, AssertHeld, Release, Fault, ListEmpty,
           List, Read, ReadGone, JudgeFree, JudgeHeld, Create, CreateLost,
           CreateTorn, Relist, RelistStale, StoreAnchor, StoreMarker,
           StoreFails, Stat, PruneKeep, PruneMarker, PruneObject, ObjectGone,
           Hold, RenewRead, RenewPut, RenewFails, AssertNext, AssertOwn,
           AssertClock, AssertLost, Finish, ReleaseStop, ReleasePut, Crash,
           Trigger
  <2>0. /\ top \in Nat /\ seen \in [Run -> 0..MaxGen]
        /\ \A s \in Run : seen[s] \in Nat
        /\ copy \in [Run -> Object] /\ looked \in [Run -> 0..MaxTime]
        /\ expires \in [Run -> 0..LastReading] /\ pc \in [Run -> PC]
    BY LeaseConstants DEF TypeInv, TypeOK
  <2>2. CASE ListEmpty(r)
    <3>1. /\ pc'[r] = "create" /\ seen'[r] = 0
          /\ top' = top /\ seized' = seized
          /\ \A s \in Run \ {r} :
                /\ pc'[s] = pc[s] /\ seen'[s] = seen[s] /\ copy'[s] = copy[s]
                /\ looked'[s] = looked[s] /\ expires'[s] = expires[s]
      BY <2>0, <2>2 DEF ListEmpty, Move, store, look
    <3> QED BY <2>0, <2>1, <3>1
            DEF DecidedOnFree, LiveLeaseIsTakenOnOldLookOnly, OldLook
  <2>3. CASE List(r)
    <3>1. /\ pc'[r] = "read" /\ seen'[r] = Max(stored)
          /\ top' = top /\ seized' = seized
          /\ \A s \in Run \ {r} :
                /\ pc'[s] = pc[s] /\ seen'[s] = seen[s] /\ copy'[s] = copy[s]
                /\ looked'[s] = looked[s] /\ expires'[s] = expires[s]
      BY <2>0, <2>3 DEF List, Move, store, look
    <3>2. Max(stored) = top /\ top > 0
      <4>1. Max(stored) = top /\ top \in stored
        BY <2>3, NewestIsTop DEF List, TypeInv
      <4> QED BY <2>0, <4>1 DEF TypeInv, Chain
    <3> QED BY <2>0, <2>1, <3>1, <3>2
            DEF DecidedOnFree, LiveLeaseIsTakenOnOldLookOnly, OldLook
  <2>4. CASE Read(r)
    <3>1. /\ pc[r] = "read" /\ pc'[r] = "judge" /\ seen'[r] = seen[r]
          /\ copy'[r] = object[seen[r]] /\ looked'[r] = time
          /\ top' = top /\ seized' = seized
          /\ \A s \in Run \ {r} :
                /\ pc'[s] = pc[s] /\ seen'[s] = seen[s] /\ copy'[s] = copy[s]
                /\ looked'[s] = looked[s] /\ expires'[s] = expires[s]
      BY <2>0, <2>4 DEF Read, Move, store
    <3>2. object[seen[r]].released \/ object[seen[r]].expires < time =>
            seen[r] \in over
      BY <2>4, ExpiredIsOver DEF Read
    <3> QED BY <2>0, <2>1, <3>1, <3>2
            DEF DecidedOnFree, LiveLeaseIsTakenOnOldLookOnly, OldLook
  <2>5. CASE JudgeFree(r)
    <3>1. /\ pc[r] = "judge" /\ pc'[r] = "create" /\ seen'[r] = seen[r]
          /\ top' = top /\ seized' = seized
          /\ \A s \in Run \ {r} :
                /\ pc'[s] = pc[s] /\ seen'[s] = seen[s] /\ copy'[s] = copy[s]
                /\ looked'[s] = looked[s] /\ expires'[s] = expires[s]
      BY <2>0, <2>5 DEF JudgeFree, Move, store
    <3>2. seen[r] \in over \/ OldLook(r)'
      BY <2>5, JudgedIsFree
    <3>3. \A s \in Run \ {r} : OldLook(s)' = OldLook(s)
      BY <3>1 DEF OldLook
    <3>4. DecidedOnFree'
      BY <2>0, <2>1, <3>1, <3>2, <3>3 DEF DecidedOnFree
    <3> QED BY <2>0, <2>1, <3>1, <3>4 DEF LiveLeaseIsTakenOnOldLookOnly
  <2>6. CASE Create(r) \/ CreateTorn(r)
    <3>1. pc[r] = "create" /\ \E c : PutIfAbsent(r, seen[r] + 1, c)
      BY <2>6 DEF Create, CreateTorn, Move, Exit
    <3>2. LiveLeaseIsTakenOnOldLookOnly' /\ top <= top' /\ top' \in Nat
      BY <2>1, <3>1, CreateKeepsLive, PutIfAbsentChain
    <3>3. \A s \in Run \ {r} :
            /\ pc'[s] = pc[s] /\ seen'[s] = seen[s] /\ copy'[s] = copy[s]
            /\ looked'[s] = looked[s] /\ expires'[s] = expires[s]
      BY <2>0, <2>6 DEF Create, CreateTorn, Move, Exit
    <3>4. pc'[r] \notin {"read", "judge", "create"}
      BY <2>0, <2>6 DEF Create, CreateTorn, Move, Exit
    <3>5. \A s \in Run \ {r} : OldLook(s)' = OldLook(s)
      BY <3>3 DEF OldLook
    <3> QED BY <2>0, <2>1, <3>2, <3>3, <3>4, <3>5 DEF DecidedOnFree
  <2>7. CASE OtherStep(r)
    <3>1. /\ top' = top /\ seized' = seized
          /\ \A s \in Run : pc'[s] \in {"read", "judge", "create"} =>
                /\ pc'[s] = pc[s] /\ seen'[s] = seen[s] /\ copy'[s] = copy[s]
                /\ looked'[s] = looked[s] /\ expires'[s] = expires[s]
      BY <2>7, OthersDecideNothing
    <3> QED BY <2>1, <3>1
            DEF DecidedOnFree, LiveLeaseIsTakenOnOldLookOnly, OldLook
  <2> QED BY <1>3, <2>2, <2>3, <2>4, <2>5, <2>6, <2>7
          DEF AnyStep, OtherStep, Acquire, Fault
<1> QED BY <1>1, <1>2, <1>3 DEF Next, AnyStep

\* A lease that is renewed in time is never taken by a run that looked at it in
\* time.  Needed for it: the history of lapsed leases is complete; a copy that
\* was expired when it was made is one of a lapsed lease; and the grace covers
\* both the skew and the delay from the copy to the judgement, or the look is
\* old.
THEOREM LiveLeaseIsSafe == Spec => []LiveLeaseIsTakenOnOldLookOnly
<1>1. Init => LiveInv
  BY DEF Init, LiveInv, OverIsComplete, DecidedOnFree, LiveLeaseIsTakenOnOldLookOnly
<1>2. LiveInv => LiveLeaseIsTakenOnOldLookOnly
  BY DEF LiveInv
<1> QED BY <1>1, <1>2, InitType, TypeStep, LiveStep, PTL DEF Spec


-----------------------------------------------------------------------------
(* The winner of a generation is alone with it                             *)

\* Two runs own one generation only while one of them has yet to see, in its
\* fresh listing, that it created a pruned generation again.
DistinctOwners ==
    \A r, s \in Run :
        (r # s /\ pc[r] \in Creator /\ pc[s] \in Creator
           /\ generation[r] = generation[s]) =>
            /\ "relist" \in {pc[r], pc[s]}
            /\ generation[r] < top

AnchorsFollow ==
    /\ anchored \subseteq 1..top /\ marked \subseteq 1..top
    /\ \A r \in Run :
        /\ (pc[r] = "relist" /\ generation[r] = top) =>
                generation[r] \notin anchored \cup marked
        /\ pc[r] = "anchor" => generation[r] \notin anchored \cup marked
        /\ pc[r] = "marker" => generation[r] \notin marked

\* Whoever owns the newest generation has not released it yet.
OwnedTopIsUnreleased ==
    \A r \in Run :
        (pc[r] \in Creator /\ generation[r] = top) => ~object[top].released

OwnInv == DistinctOwners /\ AnchorsFollow /\ OwnedTopIsUnreleased

\* The owners of generations are what they were, but for those that left.
OwnersKept ==
    /\ top' = top
    /\ \A s \in Run : pc'[s] \in Creator =>
        /\ pc[s] \in Creator /\ generation'[s] = generation[s]
        /\ pc[s] = "relist" => pc'[s] \in {"relist", "anchor"}
        /\ pc'[s] = "relist" => pc[s] = "relist"

\* A step that keeps the owners, and in which no run gets past the listing or
\* puts an anchor, keeps the invariant: the owner of the newest generation is
\* the only one that may have changed its object.
LEMMA QuietKeepsOwn ==
    ASSUME TypeInv, OwnInv, OwnersKept,
           anchored' = anchored, marked' \subseteq marked,
           \A s \in Run : pc'[s] \in {"relist", "anchor", "marker"} =>
                pc'[s] = pc[s],
           \/ object'[top].released => object[top].released
           \/ \A s \in Run : pc'[s] \in Creator => generation[s] # top
    PROVE  OwnInv'
<1>1. DistinctOwners'
  BY DEF OwnInv, DistinctOwners, OwnersKept, Creator
<1>2. AnchorsFollow'
  BY DEF OwnInv, AnchorsFollow, OwnersKept, Creator, Winner
<1>3. OwnedTopIsUnreleased'
  BY DEF OwnInv, OwnedTopIsUnreleased, OwnersKept
<1> QED BY <1>1, <1>2, <1>3 DEF OwnInv

\* What a put of an owner's object does to the newest generation: nothing,
\* unless it is the owner's, and then no other run past the listing owns it.
LEMMA PutOwnAndTop ==
    ASSUME TypeInv, OwnInv, NEW r \in Run, pc[r] \in Creator,
           NEW e, NEW b, PutOwn(r, e, b)
    PROVE  /\ object'[top] = object[top] \/ generation[r] = top
           /\ generation[r] = top =>
                /\ ~object[top].released /\ object'[top].released = b
                /\ \A s \in Run \ {r} :
                    pc[s] \in Creator => generation[s] # top
<1>1. generation[r] \in Gen /\ generation[r] \in 1..top /\ top \in Nat
  BY OwnerInGen, LeaseConstants DEF TypeInv, TypeOK, OwnerHasGeneration
<1>2. object \in [Gen -> Object]
  BY DEF TypeInv, TypeOK
<1>3. object'[top] = object[top] \/ generation[r] = top
  BY <1>1, <1>2, LeaseConstants DEF PutOwn, Gen, TypeInv, TypeOK
<1>4. generation[r] = top => object'[top].released = b
  BY <1>1, <1>2 DEF PutOwn
<1> QED BY <1>1, <1>3, <1>4 DEF OwnInv, DistinctOwners, OwnedTopIsUnreleased


\* A new object is either a new newest generation, which nobody else owns and
\* which has neither anchor nor marker, or a pruned one again, below it.
LEMMA CreateKeepsOwn ==
    ASSUME TypeInv, OwnInv, NEW r \in Run, Create(r) \/ CreateTorn(r)
    PROVE  OwnInv'
<1> DEFINE g == seen[r] + 1
<1>1. /\ top \in Nat /\ top' \in Nat /\ g \in Nat
      /\ top' = IF g > top THEN g ELSE top
      /\ g # top \/ top = 0
      /\ g \in Gen \ stored
  <2>1. g \in Gen \ stored /\ top' = IF g > top THEN g ELSE top
    BY DEF Create, CreateTorn, PutIfAbsent
  <2>2. top \in 0..MaxGen /\ seen[r] \in 0..MaxGen /\ (top > 0 => top \in stored)
    BY DEF TypeInv, TypeOK, Chain, ChainKeepsItsTop
  <2>3. top \in Nat /\ g \in Nat
    BY <2>2, LeaseConstants
  <2>4. g # top \/ top = 0
    BY <2>1, <2>2, <2>3
  <2> QED BY <2>1, <2>3, <2>4
<1>2. /\ pc'[r] \notin Creator \/ (pc'[r] = "relist" /\ generation'[r] = g)
      /\ ~object'[g].released
      /\ \A h \in Gen \ {g} : object'[h] = object[h]
  BY <1>1 DEF Create, CreateTorn, PutIfAbsent, Move, Exit, Creator, Winner,
              Pruning, Holding, Releasing, TypeInv, TypeOK, Object
<1>3. \A s \in Run \ {r} : pc'[s] = pc[s] /\ generation'[s] = generation[s]
  BY DEF Create, CreateTorn, Move, Exit, TypeInv, TypeOK
<1>4. anchored' = anchored /\ marked' = marked
  BY DEF Create, CreateTorn, PutIfAbsent
<1>5. \A s \in Run : pc[s] \in Creator =>
        generation[s] \in 1..top /\ generation[s] \in Gen
  BY OwnerInGen DEF TypeInv, OwnerHasGeneration
<1>6. DistinctOwners'
  <2> SUFFICES ASSUME NEW a \in Run, NEW b \in Run, a # b,
                      pc'[a] \in Creator, pc'[b] \in Creator,
                      generation'[a] = generation'[b]
               PROVE  /\ "relist" \in {pc'[a], pc'[b]}
                      /\ generation'[a] < top'
    BY DEF DistinctOwners
  <2>1. CASE a # r /\ b # r
    BY <1>1, <1>3, <1>5, <2>1 DEF OwnInv, DistinctOwners
  <2>2. CASE a = r
    BY <1>1, <1>2, <1>3, <1>5, <2>2
  <2>3. CASE b = r
    BY <1>1, <1>2, <1>3, <1>5, <2>3
  <2> QED BY <2>1, <2>2, <2>3
<1>7. AnchorsFollow'
  <2>1. \A s \in Run \ {r} : pc'[s] = "relist" /\ generation'[s] = top' =>
            generation[s] \notin anchored \cup marked
    BY <1>1, <1>3, <1>5 DEF OwnInv, AnchorsFollow, Creator
  <2>2. pc'[r] = "relist" /\ generation'[r] = top' =>
            generation'[r] \notin anchored \cup marked
    BY <1>1, <1>2 DEF OwnInv, AnchorsFollow, Creator
  <2>3. pc'[r] \notin {"anchor", "marker"}
    BY <1>2 DEF Creator, Winner
  <2> QED BY <1>1, <1>3, <1>4, <2>1, <2>2, <2>3 DEF OwnInv, AnchorsFollow
<1>8. OwnedTopIsUnreleased'
  <2>1. ASSUME NEW s \in Run \ {r}, pc'[s] \in Creator, generation'[s] = top'
        PROVE  ~object'[top'].released
    BY <1>1, <1>2, <1>3, <1>5, <2>1 DEF OwnInv, OwnedTopIsUnreleased
  <2>2. ASSUME pc'[r] \in Creator, generation'[r] = top'
        PROVE  ~object'[top'].released
    BY <1>2, <2>2
  <2> QED BY <2>1, <2>2 DEF OwnedTopIsUnreleased
<1> QED BY <1>6, <1>7, <1>8 DEF OwnInv

\* The fresh listing sends whoever created a pruned generation again away: the
\* newest generation is in it.
LEMMA RelistKeepsOwn ==
    ASSUME TypeInv, OwnInv, NEW r \in Run, Relist(r)
    PROVE  OwnInv'
<1>1. pc[r] = "relist" /\ generation[r] \in 1..top /\ top \in Nat
  BY LeaseConstants DEF Relist, Move, TypeInv, TypeOK, OwnerHasGeneration,
                        Creator
<1>2. generation[r] = top
  BY <1>1 DEF Relist, TypeInv, Chain, ChainKeepsItsTop
<1>3. /\ pc'[r] = "anchor" /\ \A s \in Run \ {r} : pc'[s] = pc[s]
      /\ UNCHANGED <<generation, anchored, marked, top, object>>
  BY DEF Relist, Move, store, TypeInv, TypeOK
<1>4. pc[r] \in Creator /\ pc'[r] \in Creator
  BY <1>1, <1>3 DEF Creator, Winner
<1>5. DistinctOwners'
  BY <1>1, <1>2, <1>3, <1>4 DEF OwnInv, DistinctOwners
<1>6. AnchorsFollow'
  BY <1>1, <1>2, <1>3 DEF OwnInv, AnchorsFollow
<1>7. OwnedTopIsUnreleased'
  BY <1>3, <1>4 DEF OwnInv, OwnedTopIsUnreleased
<1> QED BY <1>5, <1>6, <1>7 DEF OwnInv

LEMMA StoreKeepsOwn ==
    ASSUME TypeInv, OwnInv, NEW r \in Run, StoreAnchor(r) \/ StoreMarker(r)
    PROVE  OwnInv'
<1>1. /\ pc[r] \in {"anchor", "marker"} /\ pc'[r] \in Creator
      /\ pc'[r] \notin {"relist", "anchor"}
      /\ \A s \in Run \ {r} : pc'[s] = pc[s]
      /\ UNCHANGED <<generation, top, object>>
      /\ anchored' \subseteq anchored \cup {generation[r]}
      /\ marked' \subseteq marked \cup {generation[r]}
  BY DEF StoreAnchor, StoreMarker, Move, local, TypeInv, TypeOK, Creator,
         Winner
<1>2. pc[r] \in Creator /\ generation[r] \in 1..top
  BY <1>1 DEF Creator, Winner, TypeInv, OwnerHasGeneration
<1>3. DistinctOwners'
  BY <1>1, <1>2 DEF OwnInv, DistinctOwners
<1>4. AnchorsFollow'
  <2>1. \A s \in Run \ {r} :
            (\/ pc[s] = "anchor"
             \/ pc[s] = "marker"
             \/ (pc[s] = "relist" /\ generation[s] = top)) =>
                generation[s] # generation[r]
    <3>1. top \in Nat
      BY LeaseConstants DEF TypeInv, TypeOK
    <3> QED BY <1>1, <1>2, <3>1 DEF OwnInv, DistinctOwners, Creator, Winner
  <2>2. pc'[r] = "marker" => generation'[r] \notin marked'
    BY <1>1 DEF StoreAnchor, StoreMarker, Move, OwnInv, AnchorsFollow, TypeInv,
           TypeOK
  <2>3. anchored' \subseteq 1..top /\ marked' \subseteq 1..top
    BY <1>1, <1>2 DEF OwnInv, AnchorsFollow
  <2>4. ASSUME NEW s \in Run \ {r}
        PROVE  /\ (pc'[s] = "relist" /\ generation'[s] = top') =>
                    generation'[s] \notin anchored' \cup marked'
               /\ pc'[s] = "anchor" => generation'[s] \notin anchored' \cup marked'
               /\ pc'[s] = "marker" => generation'[s] \notin marked'
    <3>1. pc'[s] = pc[s] /\ generation'[s] = generation[s] /\ top' = top
      BY <1>1
    <3>2. \A g : g # generation[r] /\ g \notin marked => g \notin marked'
      BY <1>1
    <3>3. \A g : g # generation[r] /\ g \notin anchored => g \notin anchored'
      BY <1>1
    <3>4. CASE pc[s] = "relist" /\ generation[s] = top
      BY <2>1, <3>1, <3>2, <3>3, <3>4 DEF OwnInv, AnchorsFollow
    <3>5. CASE pc[s] = "anchor"
      <4>1. generation[s] # generation[r]
        BY <2>1, <3>5
      <4>2. generation[s] \notin anchored /\ generation[s] \notin marked
        BY <3>5 DEF OwnInv, AnchorsFollow
      <4> QED BY <3>1, <3>2, <3>3, <3>5, <4>1, <4>2
    <3>6. CASE pc[s] = "marker"
      <4>1. generation[s] # generation[r]
        BY <2>1, <3>6
      <4>2. generation[s] \notin marked
        BY <3>6 DEF OwnInv, AnchorsFollow
      <4> QED BY <3>1, <3>2, <3>6, <4>1, <4>2
    <3> QED BY <3>1, <3>4, <3>5, <3>6
  <2>5. pc'[r] \notin {"relist", "anchor"}
    BY <1>1
  <2> QED BY <1>1, <2>2, <2>3, <2>4, <2>5 DEF AnchorsFollow
<1>5. OwnedTopIsUnreleased'
  BY <1>1, <1>2 DEF OwnInv, OwnedTopIsUnreleased
<1> QED BY <1>3, <1>4, <1>5 DEF OwnInv


LEMMA PutKeepsOwn ==
    ASSUME TypeInv, OwnInv, NEW r \in Run,
           \/ RelistStale(r) \/ StoreFails(r) \/ ReleasePut(r)
           \/ RenewPut(r)
    PROVE  OwnInv'
<1> USE DEF TypeInv, TypeOK, Creator, Winner, Pruning, Holding, Releasing
<1>1. pc[r] \in Creator
  BY DEF RelistStale, StoreFails, ReleasePut, RenewPut, Move, Exit,
         OwnerHasGeneration
<1>2. \E e, b : /\ PutOwn(r, e, b)
                /\ b = FALSE \/ pc'[r] \notin Creator
  <2>1. CASE RelistStale(r)
    <3>1. PutOwn(r, expires[r], TRUE) /\ pc'[r] = "skipped"
      BY <2>1 DEF RelistStale, Move, Exit
    <3> QED BY <3>1
  <2>2. CASE StoreFails(r)
    <3>1. PutOwn(r, expires[r], TRUE) /\ pc'[r] = "failed"
      BY <2>2 DEF StoreFails, Move, Exit
    <3> QED BY <3>1
  <2>3. CASE ReleasePut(r)
    <3>1. PutOwn(r, expires[r], TRUE) /\ pc'[r] = "done"
      BY <2>3 DEF ReleasePut, Move
    <3> QED BY <3>1
  <2>4. CASE RenewPut(r)
    <3>1. PutOwn(r, beatExpires[r], FALSE)
      BY <2>4 DEF RenewPut
    <3> QED BY <3>1
  <2> QED BY <2>1, <2>2, <2>3, <2>4
<1>3. anchored' = anchored /\ marked' = marked /\ top' = top
  BY <1>2 DEF PutOwn
<1>4. /\ OwnersKept
      /\ \A s \in Run : pc'[s] \in {"relist", "anchor", "marker"} =>
            pc'[s] = pc[s]
  <2>1. CASE RenewPut(r)
    BY <1>3, <2>1 DEF OwnersKept, RenewPut
  <2>2. CASE RelistStale(r) \/ StoreFails(r) \/ ReleasePut(r)
    <3>1. /\ pc'[r] \in {"skipped", "failed", "done"}
          /\ \A s \in Run \ {r} :
                pc'[s] = pc[s] /\ generation'[s] = generation[s]
      BY <2>2 DEF RelistStale, StoreFails, ReleasePut, Move, Exit, local
    <3> QED BY <1>3, <3>1 DEF OwnersKept
  <2> QED BY <2>1, <2>2
<1>5. \/ object'[top].released => object[top].released
      \/ \A s \in Run : pc'[s] \in Creator => generation[s] # top
  <2>1. PICK e, b : /\ PutOwn(r, e, b)
                    /\ b = FALSE \/ pc'[r] \notin Creator
    BY <1>2
  <2>2. CASE generation[r] # top
    BY <1>1, <2>1, <2>2, PutOwnAndTop
  <2>3. CASE generation[r] = top /\ b = FALSE
    BY <1>1, <2>1, <2>3, PutOwnAndTop
  <2>4. CASE generation[r] = top /\ pc'[r] \notin Creator
    BY <1>1, <1>4, <2>1, <2>4, PutOwnAndTop DEF OwnersKept
  <2> QED BY <2>1, <2>2, <2>3, <2>4
<1> QED BY <1>3, <1>4, <1>5, QuietKeepsOwn

QuietStep(r) ==
    \/ ListEmpty(r) \/ List(r) \/ Read(r) \/ ReadGone(r)
    \/ JudgeFree(r) \/ JudgeHeld(r) \/ CreateLost(r) \/ Stat(r) \/ PruneKeep(r) \/ PruneMarker(r)
    \/ PruneObject(r) \/ ObjectGone(r) \/ Hold(r) \/ RenewRead(r)
    \/ RenewFails(r) \/ AssertHeld(r) \/ Finish(r) \/ ReleaseStop(r)
    \/ Crash(r) \/ Trigger(r)

\* All other steps leave the contents of the objects, and the anchors, alone.
LEMMA QuietStepKeepsOwn ==
    ASSUME TypeInv, OwnInv, NEW r \in Run, QuietStep(r)
    PROVE  OwnInv'
<1> USE DEF QuietStep, ListEmpty, List, Read, ReadGone, JudgeFree, JudgeHeld,
            CreateLost, Stat, PruneKeep, PruneMarker, PruneObject, ObjectGone,
            Hold, RenewRead, RenewFails, AssertHeld, AssertNext, AssertOwn,
            AssertClock, AssertLost, Finish, ReleaseStop, Crash, Trigger,
            Forget, store, local
<1>1. top' = top /\ object' = object /\ anchored' = anchored
  OBVIOUS
<1>2. marked' \subseteq marked
  OBVIOUS
<1>3. /\ \A s \in Run \ {r} : pc'[s] = pc[s] /\ generation'[s] = generation[s]
      /\ pc'[r] \in {"relist", "anchor", "marker"} => pc'[r] = pc[r]
      /\ pc'[r] \in Creator =>
            /\ pc[r] \in Creator /\ generation'[r] = generation[r]
            /\ pc[r] = "relist" => pc'[r] = "relist"
            /\ pc'[r] = "relist" => pc[r] = "relist"
  <2> USE DEF TypeInv, TypeOK, Creator, Winner, Pruning, Holding, Releasing
  <2>1. CASE JudgeHeld(r) \/ ReadGone(r) \/ CreateLost(r) \/ ObjectGone(r)
             \/ Crash(r)
    BY <2>1 DEF Move, Exit
  <2>2. CASE RenewRead(r) \/ RenewFails(r)
    BY <2>2
  <2>3. CASE \/ ListEmpty(r) \/ List(r) \/ Read(r) \/ JudgeFree(r) \/ Stat(r)
             \/ PruneKeep(r) \/ PruneMarker(r) \/ PruneObject(r) \/ Hold(r)
             \/ AssertHeld(r) \/ Finish(r) \/ ReleaseStop(r) \/ Trigger(r)
    BY <2>3 DEF Move
  <2> QED BY <2>1, <2>2, <2>3
<1>4. OwnersKept
  BY <1>1, <1>3 DEF OwnersKept, Creator, Winner
<1> QED BY <1>1, <1>2, <1>3, <1>4, QuietKeepsOwn

LEMMA OwnStep == TypeInv /\ OwnInv /\ [Next]_vars => OwnInv'
<1> SUFFICES ASSUME TypeInv, OwnInv, [Next]_vars PROVE OwnInv'
  OBVIOUS
<1>1. CASE UNCHANGED vars \/ Tick
  BY <1>1 DEF Tick, OwnInv, DistinctOwners, AnchorsFollow,
              OwnedTopIsUnreleased, vars, store, local
<1>2. ASSUME NEW r \in Run, AnyStep(r) PROVE OwnInv'
  BY <1>2, CreateKeepsOwn, RelistKeepsOwn, StoreKeepsOwn, PutKeepsOwn,
     QuietStepKeepsOwn
     DEF AnyStep, QuietStep, Acquire, Heartbeat, Release, Fault
<1> QED BY <1>1, <1>2 DEF Next, AnyStep

LEMMA InitOwn == Init => OwnInv
BY DEF Init, OwnInv, DistinctOwners, AnchorsFollow, OwnedTopIsUnreleased,
       Creator, Winner, Pruning, Holding, Releasing

\* Mutual exclusion: no two winners hold one generation, and of any two runs
\* that got through acquire() the one with the older generation has a lease
\* that was released or expired, or was taken by a run with an old look at it.
THEOREM OneHolder == Spec => []OneLiveHolder
<1>1. TypeInv /\ LiveInv /\ OwnInv => OneLiveHolder
  <2> SUFFICES ASSUME TypeInv, LiveInv, OwnInv, NEW r \in Run, NEW s \in Run,
                      r # s, pc[r] \in Winner, pc[s] \in Winner
               PROVE  /\ generation[r] # generation[s]
                      /\ generation[r] < generation[s] =>
                            generation[r] \in over \/ generation[r] + 1 \in seized
    BY DEF OneLiveHolder
  <2>1. "relist" \notin {pc[r], pc[s]}
    BY DEF Winner, Pruning, Holding, Releasing
  <2>2. generation[r] # generation[s]
    BY <2>1 DEF OwnInv, DistinctOwners, Creator
  <2>3. /\ generation[r] \in 1..top /\ generation[s] \in 1..top
        /\ top \in Nat
    BY LeaseConstants DEF TypeInv, TypeOK, OwnerHasGeneration, Creator
  <2> QED BY <2>2, <2>3 DEF LiveInv, LiveLeaseIsTakenOnOldLookOnly
<1>2. Init => LiveInv
  BY DEF Init, LiveInv, OverIsComplete, DecidedOnFree, LiveLeaseIsTakenOnOldLookOnly
<1> QED BY <1>1, <1>2, InitType, InitOwn, TypeStep, LiveStep, OwnStep, PTL
        DEF Spec

\* The winner of a generation is the first to store its anchor and its marker.
THEOREM AnchorsAreTheWinners == Spec => []AnchorIsFirst
<1>1. OwnInv => AnchorIsFirst
  BY DEF OwnInv, AnchorsFollow, AnchorIsFirst
<1> QED BY <1>1, InitType, InitOwn, TypeStep, OwnStep, PTL DEF Spec

\* A heartbeat that is late never takes a release back: whoever may still put
\* the newest generation has not released it, and nobody else may put it.
THEOREM ReleaseIsFinal == Spec => ReleasedTopStaysReleased
<1>1. TypeInv /\ OwnInv /\ [Next]_vars =>
        ((top > 0 /\ top \in stored /\ object[top].released /\ top' = top)
            => object'[top].released)
  <2> SUFFICES ASSUME TypeInv, OwnInv, [Next]_vars, top \in stored,
                      object[top].released, top' = top
               PROVE  object'[top].released
    OBVIOUS
  <2>1. CASE UNCHANGED vars \/ Tick
    BY <2>1 DEF Tick, vars, store
  <2>2. ASSUME NEW r \in Run, AnyStep(r) PROVE object'[top].released
    <3>1. CASE Create(r) \/ CreateTorn(r)
      BY <3>1 DEF Create, CreateTorn, PutIfAbsent, TypeInv, TypeOK
    <3>2. CASE \/ RelistStale(r) \/ StoreFails(r) \/ ReleasePut(r)
               \/ RenewPut(r)
      <4>1. pc[r] \in Creator
        BY <3>2 DEF RelistStale, StoreFails, ReleasePut, RenewPut, Move, Exit,
                    TypeInv, OwnerHasGeneration, Creator, Winner, Holding,
                    Releasing
      <4>2. \E e, b : PutOwn(r, e, b)
        BY <3>2 DEF RelistStale, StoreFails, ReleasePut, RenewPut
      <4> QED BY <4>1, <4>2, PutOwnAndTop
    <3>3. CASE Relist(r) \/ StoreAnchor(r) \/ StoreMarker(r) \/ QuietStep(r)
      <4>1. object' = object
        BY <3>3
           DEF Relist, StoreAnchor, StoreMarker, QuietStep, ListEmpty, List,
               Read, ReadGone, JudgeFree, JudgeHeld, CreateLost, Stat, PruneKeep,
               PruneMarker, PruneObject, ObjectGone, Hold, RenewRead,
               RenewFails, AssertHeld, AssertNext, AssertOwn, AssertClock,
               AssertLost, Finish, ReleaseStop, Crash, Trigger, store
      <4> QED BY <4>1
    <3> QED BY <2>2, <3>1, <3>2, <3>3
            DEF AnyStep, QuietStep, Acquire, Heartbeat, Release, Fault
  <2> QED BY <2>1, <2>2 DEF Next, AnyStep
<1> QED BY <1>1, InitType, InitOwn, TypeStep, OwnStep, PTL
        DEF Spec, ReleasedTopStaysReleased

-----------------------------------------------------------------------------
(* The lease implements its chain                                          *)

\* The object of the newest generation names the run that owns it.
TopNamesItsOwner ==
    \A r \in Run :
        (pc[r] \in Creator /\ generation[r] = top) => object[top].run = r

ChainInv == TypeInv /\ LiveInv /\ OwnInv /\ TopNamesItsOwner

ChainStep == [Promise!Give \/ Promise!Lapse]_(Promise!chain)

\* Steps that change no object.
SilentStep(r) ==
    Relist(r) \/ StoreAnchor(r) \/ StoreMarker(r) \/ QuietStep(r)

\* Steps that put the own object.
PuttingStep(r) ==
    RelistStale(r) \/ StoreFails(r) \/ ReleasePut(r) \/ RenewPut(r)

LEMMA StepsObserve ==
    ASSUME TypeInv, [Next]_vars
    PROVE  over \subseteq over'
<1>1. CASE UNCHANGED vars
  BY <1>1 DEF vars
<1>2. CASE Tick
  BY <1>2, ObserveOver DEF Tick
<1>3. ASSUME NEW r \in Run, AnyStep(r) PROVE over \subseteq over'
  BY <1>3, ObserveOver
     DEF AnyStep, Acquire, Heartbeat, AssertHeld, Release, Fault, ListEmpty,
         List, Read, ReadGone, JudgeFree, JudgeHeld, Create, CreateLost, CreateTorn,
         Relist, RelistStale, StoreAnchor, StoreMarker, StoreFails, Stat,
         PruneKeep, PruneMarker, PruneObject, ObjectGone, Hold, RenewRead,
         RenewPut, RenewFails, AssertNext, AssertOwn, AssertClock,
         AssertLost, Finish, ReleaseStop, ReleasePut, Crash, Trigger
<1> QED BY <1>1, <1>2, <1>3 DEF Next, AnyStep

\* A step that keeps the newest generation with its run: at most it lapses.
LEMMA SameTop ==
    ASSUME TypeInv, TypeInv', over \subseteq over', top' = top,
           seized' = seized, top # 0 => object'[top].run = object[top].run
    PROVE  ChainStep
<1>1. top \in Nat /\ (top = 0 => top \notin over)
  BY LeaseConstants DEF TypeInv, TypeOK, Gen
<1>2. (IF top = 0 THEN NoRun ELSE object[top].run)'
        = (IF top = 0 THEN NoRun ELSE object[top].run)
  OBVIOUS
<1>3. CASE (top \in over)' = (top \in over)
  BY <1>2, <1>3 DEF ChainStep, Promise!chain
<1>4. CASE (top \in over)' # (top \in over)
  <2>1. top \notin over /\ top' \in over'
    BY <1>4
  <2>2. top > 0
    <3>1. top' # 0
      BY <2>1, LeaseConstants DEF Gen, TypeInv, TypeOK
    <3> QED BY <1>1, <3>1
  <2> QED BY <1>2, <2>1, <2>2 DEF ChainStep, Promise!Lapse
<1> QED BY <1>3, <1>4

\* No step but a create makes a run the owner of a generation.
OwnersStay ==
    \A s \in Run : pc'[s] \in Creator =>
        pc[s] \in Creator /\ generation'[s] = generation[s]

LEMMA NoNewOwner ==
    ASSUME TypeInv, NEW r \in Run, SilentStep(r) \/ PuttingStep(r)
    PROVE  OwnersStay /\ top' = top /\ seized' = seized
<1> USE DEF SilentStep, PuttingStep, QuietStep, Creator, Winner, Pruning, Holding,
            Releasing, store, local
<1>1. CASE \/ RelistStale(r) \/ StoreFails(r) \/ JudgeHeld(r) \/ ReadGone(r)
           \/ CreateLost(r) \/ ObjectGone(r) \/ Crash(r)
  BY <1>1 DEF OwnersStay, RelistStale, StoreFails, JudgeHeld, ReadGone, CreateLost,
              ObjectGone, Crash, Exit, Move, PutOwn, Ended, TypeInv, TypeOK
<1>2. CASE RenewRead(r) \/ RenewPut(r) \/ RenewFails(r)
  BY <1>2 DEF OwnersStay, RenewRead, RenewPut, RenewFails, PutOwn
<1>3. CASE \/ ReleasePut(r) \/ Relist(r) \/ StoreAnchor(r) \/ StoreMarker(r)
           \/ ListEmpty(r) \/ List(r) \/ Read(r) \/ JudgeFree(r) \/ Stat(r) \/ PruneKeep(r)
           \/ PruneMarker(r) \/ PruneObject(r) \/ Hold(r) \/ AssertHeld(r)
           \/ Finish(r) \/ ReleaseStop(r) \/ Trigger(r)
  BY <1>3 DEF OwnersStay, ReleasePut, Relist, StoreAnchor, StoreMarker, ListEmpty,
              List, Read, JudgeFree, Stat, PruneKeep, PruneMarker, PruneObject, Hold, Forget,
              AssertHeld, AssertNext, AssertOwn, AssertClock, AssertLost, Finish,
              ReleaseStop, Trigger, Move, PutOwn, TypeInv, TypeOK
<1> QED BY <1>1, <1>2, <1>3

\* The object of the newest generation keeps its run: only its owner puts it,
\* and its owner is the run it names.
LEMMA NameStays ==
    ASSUME ChainInv, NEW r \in Run, SilentStep(r) \/ PuttingStep(r)
    PROVE  top # 0 => object'[top].run = object[top].run
<1>1. CASE SilentStep(r)
  <2>1. object' = object
    BY <1>1
       DEF SilentStep, Relist, StoreAnchor, StoreMarker, QuietStep, ListEmpty, List,
           Read, ReadGone, JudgeFree, JudgeHeld, CreateLost, Stat, PruneKeep,
           PruneMarker, PruneObject, ObjectGone, Hold, RenewRead,
           RenewFails, AssertHeld, AssertNext, AssertOwn, AssertClock,
           AssertLost, Finish, ReleaseStop, Crash, Trigger, store
  <2> QED BY <2>1
<1>2. CASE PuttingStep(r)
  <2>1. pc[r] \in Creator
    BY <1>2 DEF PuttingStep, RelistStale, StoreFails, ReleasePut, RenewPut, Move, Exit,
                ChainInv, TypeInv, OwnerHasGeneration, Creator, Winner, Holding, Releasing
  <2>2. PICK e, b : PutOwn(r, e, b)
    BY <1>2 DEF PuttingStep, RelistStale, StoreFails, ReleasePut, RenewPut
  <2>3. CASE generation[r] # top
    BY <2>1, <2>2, <2>3, PutOwnAndTop DEF ChainInv
  <2>4. CASE generation[r] = top
    <3>1. object[top].run = r
      BY <2>1, <2>4 DEF ChainInv, TopNamesItsOwner
    <3>2. generation[r] \in Gen /\ object \in [Gen -> Object]
      <4>1. generation[r] \in 1..top /\ object \in [Gen -> Object]
        BY <2>1 DEF ChainInv, TypeInv, TypeOK, OwnerHasGeneration
      <4> QED BY <4>1, OwnerInGen DEF ChainInv
    <3> QED BY <2>2, <2>4, <3>1, <3>2 DEF PutOwn
  <2> QED BY <2>3, <2>4
<1> QED BY <1>1, <1>2

\* A create gives the next generation away, or stores a pruned one again.
LEMMA CreateGives ==
    ASSUME ChainInv, TypeInv', over \subseteq over', NEW r \in Run,
           Create(r) \/ CreateTorn(r)
    PROVE  ChainStep /\ TopNamesItsOwner'
<1> DEFINE g == seen[r] + 1
<1> USE DEF ChainInv
<1>1. /\ g \in Gen \ stored /\ top' = IF g > top THEN g ELSE top
      /\ pc[r] = "create"
  BY DEF Create, CreateTorn, PutIfAbsent, Move, Exit
<1>2. /\ top \in Nat /\ g \in Nat /\ seen[r] \in Nat /\ seen[r] <= top
      /\ seen[r] = 0 \/ seen[r] \in over \/ OldLook(r)
      /\ g # top
  BY <1>1, LeaseConstants
     DEF TypeInv, TypeOK, Chain, ChainKeepsItsTop, LiveInv, DecidedOnFree
<1>3. /\ \A h \in Gen \ {g} : object'[h] = object[h]
      /\ object'[g].run = r \/ pc'[r] = "dead"
      /\ object'[g].run \in Run \cup {NoRun}
      /\ pc'[r] \notin Creator \/ (pc'[r] = "relist" /\ generation'[r] = g)
      /\ \A s \in Run \ {r} : pc'[s] = pc[s] /\ generation'[s] = generation[s]
  BY <1>1 DEF Create, CreateTorn, PutIfAbsent, Move, Exit, Creator, Winner,
              Pruning, Holding, Releasing, TypeInv, TypeOK, Object
<1>4. \A s \in Run : pc[s] \in Creator => generation[s] \in 1..top
  BY DEF TypeInv, OwnerHasGeneration
<1>5. /\ "dead" \notin Creator
      /\ top # 0 => top \in Gen
  <2>1. "dead" \notin Creator
    BY DEF Creator, Winner, Pruning, Holding, Releasing
  <2>2. top \in 0..MaxGen
    BY DEF TypeInv, TypeOK
  <2> QED BY <2>1, <2>2, LeaseConstants DEF Gen
<1>9. seized' = IF g > top /\ OldLook(r) THEN seized \cup {g} ELSE seized
  BY DEF Create, CreateTorn, PutIfAbsent
<1> HIDE DEF g
<1>6. TopNamesItsOwner'
  <2> SUFFICES ASSUME NEW s \in Run, pc'[s] \in Creator, generation'[s] = top'
               PROVE  object'[top'].run = s
    BY DEF TopNamesItsOwner
  <2>1. CASE s = r
    <3>1. generation'[r] = g /\ object'[g].run = r
      BY <1>3, <1>5, <2>1
    <3> QED BY <2>1, <3>1
  <2>2. CASE s # r
    <3>1. pc[s] \in Creator /\ generation[s] = top' /\ generation[s] \in 1..top
      BY <1>3, <1>4, <2>2
    <3>2. top' = top /\ top \in Gen \ {g}
      BY <1>1, <1>2, <1>5, <3>1
    <3> QED BY <1>3, <3>1, <3>2 DEF TopNamesItsOwner
  <2> QED BY <2>1, <2>2
<1>7. CASE g < top
  <2>1. top' = top /\ top \in Gen \ {g} /\ seized' = seized
    <3>1. g # 0
      BY <1>1, LeaseConstants DEF Gen
    <3>2. seized' = seized
      BY <1>2, <1>7, <1>9
    <3> QED BY <1>1, <1>2, <1>5, <1>7, <3>1, <3>2
  <2>2. object'[top].run = object[top].run
    BY <1>3, <2>1
  <2>3. ChainStep
    BY <2>1, <2>2, SameTop
  <2> QED BY <1>6, <2>3
<1>8. CASE g > top
  <2>1. top' = top + 1 /\ top' = g /\ top' # 0
    BY <1>1, <1>2, <1>8 DEF g
  <2>4. top = 0 \/ top \in over \/ g \in seized'
    <3>1. seen[r] = top
      BY <1>1, <1>2, <1>8 DEF g
    <3> QED BY <1>2, <1>8, <1>9, <3>1
  <2>2. (IF top = 0 THEN NoRun ELSE object[top].run)' \in Run \cup {NoRun}
    BY <1>3, <2>1
  <2>3. Promise!Give
    BY <2>1, <2>2, <2>4 DEF Promise!Give
  <2> QED BY <1>6, <2>3 DEF ChainStep
<1> QED BY <1>2, <1>7, <1>8

LEMMA ChainKept ==
    ASSUME ChainInv, [Next]_vars
    PROVE  ChainStep /\ ChainInv'
<1>1. TypeInv' /\ LiveInv' /\ OwnInv'
  BY TypeStep, LiveStep, OwnStep DEF ChainInv
<1>2. over \subseteq over'
  BY StepsObserve DEF ChainInv
<1>3. CASE UNCHANGED vars \/ Tick
  <2>1. UNCHANGED <<top, seized, object, pc, generation>>
    BY <1>3 DEF vars, Tick, store, local
  <2>2. ChainStep
    BY <1>1, <1>2, <2>1, SameTop DEF ChainInv
  <2> QED BY <1>1, <2>1, <2>2 DEF ChainInv, TopNamesItsOwner
<1>4. ASSUME NEW r \in Run, AnyStep(r)
      PROVE  ChainStep /\ TopNamesItsOwner'
  <2>1. CASE Create(r) \/ CreateTorn(r)
    BY <1>1, <1>2, <2>1, CreateGives
  <2>2. CASE SilentStep(r) \/ PuttingStep(r)
    <3>1. OwnersStay /\ top' = top /\ seized' = seized
      BY <2>2, NoNewOwner DEF ChainInv
    <3>2. top # 0 => object'[top].run = object[top].run
      BY <2>2, NameStays
    <3>3. ChainStep
      BY <1>1, <1>2, <3>1, <3>2, SameTop DEF ChainInv
    <3>4. \A s \in Run : pc[s] \in Creator /\ generation[s] = top => top # 0
      BY LeaseConstants DEF ChainInv, TypeInv, TypeOK, OwnerHasGeneration
    <3>5. TopNamesItsOwner'
      BY <3>1, <3>2, <3>4 DEF ChainInv, TopNamesItsOwner, OwnersStay
    <3> QED BY <3>3, <3>5
  <2> QED BY <1>4, <2>1, <2>2
          DEF AnyStep, SilentStep, PuttingStep, QuietStep, Acquire, Heartbeat,
              Release, Fault
<1> QED BY <1>1, <1>3, <1>4 DEF Next, AnyStep, ChainInv

\* The chain of generation objects keeps the promise of the lease: whatever
\* is pruned, created again or put late, the generations are given away one
\* after the other, each to one run for good, and after the last one lapsed or
\* to a run with an old look at it.
THEOREM LeaseImplementsChain == Spec => LeaseIsAChain
<1>1. Init => ChainInv
  <2>1. Init => LiveInv
    BY DEF Init, LiveInv, OverIsComplete, DecidedOnFree, LiveLeaseIsTakenOnOldLookOnly
  <2>2. Init => TopNamesItsOwner
    BY DEF Init, TopNamesItsOwner, Creator, Winner, Pruning, Holding, Releasing
  <2> QED BY <2>1, <2>2, InitType, InitOwn DEF ChainInv
<1>2. Init => Promise!CInit
  BY DEF Init, Promise!CInit
<1>3. ChainInv /\ [Next]_vars => ChainStep /\ ChainInv'
  BY ChainKept
<1> QED BY <1>1, <1>2, <1>3, PTL
        DEF Spec, LeaseIsAChain, Promise!CSpec, ChainStep
=============================================================================
