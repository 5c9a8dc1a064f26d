-------------------- MODULE LeaseLedgerTakeover_proofs ---------------------
(* Proofs about who is named by the HF ledger, and when it names the next  *)
(* one, for any number of runs, heads that are stale, and commits that     *)
(* raised and land later.                                                  *)
EXTENDS LeaseLedger_proofs, FiniteSetTheorems

-----------------------------------------------------------------------------
(* Who is named: the inductive invariant                                   *)

\* The program counters of a run before its commit, and of one that gave up.
Begun == {"idle", "list", "exists", "absent", "read", "judge", "create", "skipped"}

\* The ledger's last commit is not r's.
NotLast(r) == ledger # <<>> => ledger[Len(ledger)].run # r

\* No commit of r is the last one, or can become it.
Silent(r) == NotLast(r) /\ \A entry \in floating : entry.run # r

\* A run whose commit raised: it asked for a generation above the head it read;
\* its commit can still land only while that head is the last one; and if the
\* last commit is its own, it is the one that raised.
Waits(r) ==
    /\ generation[r] > Generation(parent[r])
    /\ \A entry \in floating : entry.run = r =>
            entry.generation = generation[r] /\ parent[r] = Len(ledger)
    /\ ~NotLast(r) => Generation(Len(ledger)) = generation[r]

SkipSane(r) ==
    /\ pc[r] \in Begun => Silent(r)
    /\ pc[r] = "unclear" => Waits(r)

SkipInv == LInv /\ \A r \in Run : SkipSane(r)

-----------------------------------------------------------------------------
(* Steps that leave the ledger alone                                       *)

\* A step of r that asks for nothing: it keeps r among those that did not ask,
\* or r has no commit that could still be the last; and a wait stays the same.
Quiet(r) ==
    /\ UNCHANGED <<ledger, floating>> /\ OthersSame(r)
    /\ pc'[r] \in Begun => pc[r] \in Begun \/ Silent(r)
    /\ pc'[r] = "unclear" =>
            pc[r] = "unclear" /\ generation'[r] = generation[r] /\ parent'[r] = parent[r]

LEMMA SameSane ==
    ASSUME SkipInv, NEW s \in Run, UNCHANGED <<ledger, floating>>,
           pc'[s] \in Begun => pc[s] \in Begun \/ Silent(s),
           pc'[s] = "unclear" =>
                pc[s] = "unclear" /\ generation'[s] = generation[s] /\ parent'[s] = parent[s]
    PROVE  SkipSane(s)'
<1>1. pc'[s] \in Begun => Silent(s)'
  BY DEF SkipInv, SkipSane, Silent, NotLast
<1>2. pc'[s] = "unclear" => Waits(s)'
  BY DEF SkipInv, SkipSane, Waits, NotLast, Generation
<1> QED BY <1>1, <1>2 DEF SkipSane

LEMMA QuietKeeps ==
    ASSUME SkipInv, NEW r \in Run, Quiet(r)
    PROVE  \A s \in Run : SkipSane(s)'
<1> SUFFICES ASSUME NEW s \in Run PROVE SkipSane(s)'
  OBVIOUS
<1>1. CASE s = r
  BY <1>1, SameSane DEF Quiet
<1>2. CASE s # r
  BY <1>2, SameSane DEF Quiet, OthersSame
<1> QED BY <1>1, <1>2

\* The steps of a run up to its commit.
LEMMA BeginningIsQuiet ==
    ASSUME SkipInv, NEW r \in Run,
           \/ ReadHead(r) \/ LListEmpty(r) \/ LList(r) \/ Exists(r)
           \/ Absent(r) \/ JudgeAbsentFree(r) \/ LRead(r) \/ LJudgeFree(r)
           \/ LTrigger(r)
    PROVE  Quiet(r)
<1> USE DEF Quiet, OthersSame, Begun, Move, look, local, thread, ledgerVars
<1>1. LocalType
  BY DEF SkipInv, LInv
<1>2. CASE ReadHead(r)
  BY <1>1, <1>2 DEF LocalType, ReadHead
<1>3. CASE LListEmpty(r) \/ LList(r)
  BY <1>1, <1>3 DEF LocalType, LListEmpty, LList
<1>4. CASE Exists(r) \/ Absent(r) \/ JudgeAbsentFree(r)
  BY <1>1, <1>4 DEF LocalType, Exists, Absent, JudgeAbsentFree
<1>5. CASE LRead(r) \/ LJudgeFree(r) \/ LTrigger(r)
  BY <1>1, <1>5 DEF LocalType, LRead, Read, LJudgeFree, JudgeFree, LTrigger, Trigger
<1> QED BY <1>2, <1>3, <1>4, <1>5

\* The steps of a run after its commit.
LEMMA WinningIsQuiet ==
    ASSUME SkipInv, NEW r \in Run,
           \/ UnclearWon(r) \/ PutObject(r) \/ Confirm(r)
           \/ LStoreAnchor(r) \/ LStoreMarker(r) \/ StatAndList(r) \/ LPrune(r)
    PROVE  Quiet(r)
<1> USE DEF Quiet, OthersSame, Begun, Move, Unname, look, local, thread, ledgerVars
<1>1. LocalType
  BY DEF SkipInv, LInv
<1>2. CASE UnclearWon(r) \/ PutObject(r)
  BY <1>1, <1>2 DEF LocalType, UnclearWon, PutObject
<1>3. CASE Confirm(r)
  BY <1>1, <1>3 DEF LocalType, Confirm
<1>4. CASE LStoreAnchor(r) \/ LStoreMarker(r)
  BY <1>1, <1>4 DEF LocalType, LStoreAnchor, LStoreMarker, StoreAnchor, StoreMarker
<1>5. CASE StatAndList(r)
  BY <1>1, <1>5 DEF LocalType, StatAndList
<1>6. CASE LPrune(r)
  <2>1. UNCHANGED <<ledger, floating, parent, generation, seen, copy, looked, expires>>
        /\ (beat' = beat \/ \E b \in {"wait", "off"} : beat' = [beat EXCEPT ![r] = b])
        /\ \E to \in {"prune", "delete", "held"} : pc' = [pc EXCEPT ![r] = to]
    BY <1>6 DEF LPrune, PruneKeep, PruneMarker, PruneObject, Hold, Forget
  <2> QED BY <1>1, <2>1 DEF LocalType
<1> QED BY <1>2, <1>3, <1>4, <1>5, <1>6

\* The heartbeat, the checks and the release of a holder.
LEMMA HoldingIsQuiet ==
    ASSUME SkipInv, NEW r \in Run,
           LHeartbeat(r) \/ LAssertHeld(r) \/ LFinish(r) \/ LRelease(r)
    PROVE  Quiet(r)
<1> USE DEF Quiet, OthersSame, Begun, Move, Unname, look, local, thread, ledgerVars
<1>1. LocalType
  BY DEF SkipInv, LInv
<1>2. CASE LHeartbeat(r)
  BY <1>1, <1>2 DEF LocalType, LHeartbeat, RenewRead, RenewPut, RenewFails
<1>3. CASE LAssertHeld(r)
  BY <1>1, <1>3 DEF LocalType, LAssertHeld, AssertNext, AssertOwn, AssertClock, AssertLost
<1>4. CASE LFinish(r)
  BY <1>1, <1>4 DEF LocalType, LFinish, Finish
<1>5. CASE LRelease(r)
  BY <1>1, <1>5 DEF LocalType, LRelease, ReleaseStop, ReleasePut
<1> QED BY <1>2, <1>3, <1>4, <1>5

-----------------------------------------------------------------------------
(* Runs that end                                                           *)

\* A run that is overtaken by another one: its own commit did not land as the
\* last one, and can no longer land.
LEMMA OvertakenIsSilent ==
    ASSUME SkipInv, NEW r \in Run, pc[r] = "unclear",
           NEW n \in Heads, Overtaken(r, n)
    PROVE  Silent(r)
<1>1. /\ LInv /\ Waits(r) /\ parent[r] \in Nat /\ parent[r] <= Len(ledger)
      /\ generation[r] \in Nat
  <2>1. LInv /\ Waits(r)
    BY DEF SkipInv, SkipSane
  <2> QED BY <2>1, RunFacts, LeaseConstants DEF LocalType
<1>2. n \in Nat /\ n <= Len(ledger) /\ Len(ledger) \in Nat
  BY <1>1, HeadType, LengthType
<1>3. /\ Generation(n) \in Nat /\ Generation(parent[r]) \in Nat
      /\ Generation(Len(ledger)) \in Nat
  BY <1>1, <1>2, GenerationType
<1>4. Generation(n) > Generation(parent[r]) /\ Generation(n) >= generation[r]
  BY <1>1, <1>3 DEF Overtaken, Waits
<1>5. n > 0 /\ n \in 1..Len(ledger) /\ Generation(n) = ledger[n].generation
  BY <1>2, <1>3, <1>4 DEF Generation
<1>6. parent[r] < Len(ledger)
  <2>1. SUFFICES ASSUME parent[r] = Len(ledger) PROVE FALSE
    BY <1>1, <1>2
  <2>2. Generation(n) <= Generation(Len(ledger))
    BY <1>1, <1>5, LastIsLargest
  <2> QED BY <1>3, <1>4, <2>1, <2>2
<1>7. \A entry \in floating : entry.run # r
  BY <1>1, <1>2, <1>6 DEF Waits
<1>8. NotLast(r)
  <2>1. SUFFICES ASSUME ~NotLast(r) PROVE FALSE
    OBVIOUS
  <2>2. Generation(Len(ledger)) = generation[r] /\ ledger[Len(ledger)].run = r
    BY <1>1, <2>1 DEF Waits, NotLast
  <2>3. CASE n = Len(ledger)
    BY <1>5, <2>2, <2>3 DEF Overtaken, Names
  <2>4. CASE n < Len(ledger)
    <3>1. ledger[n].generation < ledger[Len(ledger)].generation
      BY <1>1, <1>2, <1>5, <2>4 DEF LInv, Ordered
    <3>2. Generation(Len(ledger)) = ledger[Len(ledger)].generation
      BY <1>2, <2>4 DEF Generation
    <3> QED BY <1>1, <1>3, <1>4, <1>5, <2>2, <3>1, <3>2
  <2> QED BY <1>2, <2>3, <2>4
<1> QED BY <1>7, <1>8 DEF Silent

\* A run that ends gives up only before its commit, or when it is overtaken.
LEMMA EndIsQuiet ==
    ASSUME SkipInv, NEW r \in Run, NEW f, NEW t \in Ended, Exit(r, f, t),
           UNCHANGED <<ledger, floating>>, Forgotten(r) \/ Unname(r),
           t = "skipped" => f \in Begun \/ Silent(r)
    PROVE  Quiet(r)
<1>1. LocalType
  BY DEF SkipInv, LInv
<1>2. OthersSame(r) /\ pc'[r] = t /\ pc[r] = f
  BY <1>1 DEF LocalType, OthersSame, Exit, Move, Forgotten, Unname
<1> QED BY <1>2 DEF Quiet, Begun, Ended

LEMMA EndingIsQuiet ==
    ASSUME SkipInv, NEW r \in Run,
           \/ JudgeAbsentHeld(r) \/ LJudgeHeld(r) \/ LReadGone(r)
           \/ ClaimConflict(r) \/ UnclearLost(r) \/ UnclearFails(r)
           \/ ConfirmFails(r) \/ LedgerDown(r)
    PROVE  Quiet(r)
<1>1. CASE UnclearLost(r)
  <2>1. PICK n \in Heads : Overtaken(r, n)
    BY <1>1 DEF UnclearLost
  <2>2. Silent(r)
    BY <1>1, <2>1, OvertakenIsSilent DEF UnclearLost, LExit, Exit, Move
  <2> QED BY <1>1, <2>2, EndIsQuiet DEF UnclearLost, LExit, Ended
<1>2. CASE JudgeAbsentHeld(r) \/ LJudgeHeld(r) \/ ClaimConflict(r)
  BY <1>2, EndIsQuiet
     DEF JudgeAbsentHeld, LJudgeHeld, ClaimConflict, LExit, Begun, Ended
<1>3. CASE LReadGone(r) \/ UnclearFails(r) \/ ConfirmFails(r) \/ LedgerDown(r)
  BY <1>3, EndIsQuiet
     DEF LReadGone, ReadGone, UnclearFails, ConfirmFails, LedgerDown, LExit, Ended
<1> QED BY <1>1, <1>2, <1>3

LEMMA FailingIsQuiet ==
    ASSUME SkipInv, NEW r \in Run,
           \/ PutObjectFails(r) \/ LStoreFails(r) \/ LObjectGone(r)
           \/ StoredTwice(r) \/ LCrash(r)
    PROVE  Quiet(r)
<1>1. PICK f : \E t \in {"failed", "dead"} : Exit(r, f, t)
  BY Zenon DEF PutObjectFails, LStoreFails, StoreFails, LObjectGone, ObjectGone,
               StoredTwice, LCrash, Crash
<1>2. PICK t \in {"failed", "dead"} : Exit(r, f, t)
  BY <1>1
<1>3. UNCHANGED <<ledger, floating>> /\ (Forgotten(r) \/ Unname(r))
  BY DEF PutObjectFails, LStoreFails, LObjectGone, StoredTwice, LCrash, Unname
<1> QED BY <1>2, <1>3, EndIsQuiet DEF Ended

-----------------------------------------------------------------------------
(* The commits                                                             *)

\* What a run commits, and what the step changes besides.
LEMMA ClaimFacts ==
    ASSUME LInv, NEW r \in Run, Claim(r)
    PROVE  /\ Append1(Entry(r)) /\ parent[r] = Len(ledger)
           /\ Entry(r) \in Claimed /\ Entry(r).run = r
           /\ Entry(r).generation = generation'[r]
           /\ Entry(r).generation > Generation(Len(ledger))
           /\ Entry(r).expires = expires[r] /\ Entry(r).old = OldLook(r)
           /\ parent' = [parent EXCEPT ![r] = 0]
           /\ UNCHANGED <<time, skew, stored, object, expires, fresh>> /\ Observe
           /\ pc[r] = "create" /\ pc'[r] = "bucket" /\ OthersSame(r)
<1>1. StoreType'
  BY ClaimKeeps DEF LInv
<1>2. /\ Ask(r, "bucket") /\ Append1(Entry(r)) /\ parent[r] = Len(ledger)
      /\ parent' = [parent EXCEPT ![r] = 0]
  BY DEF Claim, Parented
<1>3. UNCHANGED <<time, skew, stored, object, expires, fresh>> /\ Observe /\ pc[r] = "create"
  BY <1>2 DEF Ask, Append1, Move
<1> QED BY <1>1, <1>2, <1>3, AskFacts DEF Entry

\* The same of a commit that raises.
LEMMA UnclearFacts ==
    ASSUME LInv, NEW r \in Run, ClaimUnclear(r)
    PROVE  /\ floating' = IF Parented(r) THEN floating \cup {Entry(r)} ELSE floating
           /\ Entry(r) \in Claimed /\ Entry(r).run = r
           /\ Entry(r).generation = generation'[r] /\ generation'[r] = seen[r] + 1
           /\ Parented(r) => Entry(r).generation > Generation(Len(ledger))
           /\ Entry(r).expires = expires[r] /\ Entry(r).old = OldLook(r)
           /\ UNCHANGED <<ledger, parent, time, skew, stored, object, seized, expires, fresh>>
           /\ Observe /\ pc[r] = "create" /\ pc'[r] = "unclear" /\ OthersSame(r)
<1>1. StoreType'
  BY UnclearKeeps DEF LInv
<1>2. Ask(r, "unclear") /\ UNCHANGED <<store, ledger, parent>>
      /\ floating' = IF Parented(r) THEN floating \cup {Entry(r)} ELSE floating
  BY DEF ClaimUnclear
<1>3. UNCHANGED <<time, skew, stored, object, seized, expires, fresh>> /\ Observe
      /\ pc[r] = "create"
  BY <1>2 DEF Ask, Move, store
<1> QED BY <1>1, <1>2, <1>3, AskFacts DEF Entry, Parented

\* A commit of r's silences every other run, or is the end of its wait.
LEMMA AppendSilences ==
    ASSUME SkipInv, NEW entry \in Claimed,
           entry.generation > Generation(Len(ledger)), Append1(entry)
    PROVE  /\ Grown /\ floating' = {}
           /\ Len(ledger') = Len(ledger) + 1
           /\ ledger'[Len(ledger')].run = entry.run
           /\ Generation(Len(ledger))' = entry.generation
<1> DEFINE c == [run |-> entry.run, generation |-> entry.generation,
                 expires |-> entry.expires, old |-> entry.old, at |-> time]
<1>1. ledger' = Append(ledger, c) /\ floating' = {}
  BY DEF Append1
<1>2. LInv /\ ledger \in Seq(Commit) /\ Len(ledger) \in Nat
  BY LengthType DEF SkipInv, LInv, LedgerType
<1>3. Grown
  BY <1>2, AppendKeeps
<1>4. c.run = entry.run /\ c.generation = entry.generation
  OBVIOUS
<1> HIDE DEF c
<1>5. Len(ledger') = Len(ledger) + 1 /\ ledger'[Len(ledger) + 1] = c
  BY <1>1, <1>2
<1> QED BY <1>1, <1>2, <1>3, <1>4, <1>5 DEF Generation

\* The other runs, when a commit of r's lands.
LEMMA OthersSane ==
    ASSUME SkipInv, NEW r \in Run, NEW s \in Run, s # r,
           Grown, floating' = {}, ledger'[Len(ledger')].run = r,
           pc'[s] = pc[s], generation'[s] = generation[s], parent'[s] = parent[s]
    PROVE  SkipSane(s)'
<1>1. Silent(s)' /\ NotLast(s)'
  BY DEF Silent, NotLast
<1>2. parent[s] \in 0..Len(ledger) /\ LInv
  <2>1. LInv
    BY DEF SkipInv
  <2> QED BY <2>1, LengthType, RunFacts DEF LocalType
<1>3. Generation(parent[s])' = Generation(parent[s])
  BY <1>2, GenerationStays
<1>4. pc[s] = "unclear" => Waits(s)'
  BY <1>1, <1>3 DEF SkipInv, SkipSane, Waits
<1> QED BY <1>1, <1>4 DEF SkipSane

LEMMA ClaimSane ==
    ASSUME SkipInv, NEW r \in Run, Claim(r)
    PROVE  \A s \in Run : SkipSane(s)'
<1>1. Append1(Entry(r))
  BY ClaimFacts DEF SkipInv
<1>2. /\ Entry(r) \in Claimed /\ Entry(r).run = r
      /\ Entry(r).generation > Generation(Len(ledger))
      /\ OthersSame(r) /\ pc'[r] = "bucket"
  BY ClaimFacts DEF SkipInv
<1>3. PICK entry \in Claimed : entry = Entry(r)
  BY <1>2
<1>4. Grown /\ floating' = {} /\ ledger'[Len(ledger')].run = r
  BY <1>1, <1>2, <1>3, AppendSilences
<1>5. \A s \in Run \ {r} : SkipSane(s)'
  BY <1>2, <1>4, OthersSane DEF OthersSame
<1>6. SkipSane(r)'
  BY <1>2 DEF SkipSane, Begun
<1> QED BY <1>5, <1>6

LEMMA UnclearSane ==
    ASSUME SkipInv, NEW r \in Run, ClaimUnclear(r)
    PROVE  \A s \in Run : SkipSane(s)'
<1>1. LInv /\ UNCHANGED <<ledger, parent>> /\ generation'[r] = seen[r] + 1
      /\ floating' = IF Parented(r) THEN floating \cup {Entry(r)} ELSE floating
  BY UnclearFacts DEF SkipInv
<1>2. /\ Entry(r) \in Claimed /\ Entry(r).run = r
      /\ Entry(r).generation = generation'[r]
      /\ OthersSame(r) /\ pc'[r] = "unclear"
  BY <1>1, UnclearFacts
<1>3. pc[r] = "create" /\ Silent(r)
  BY <1>1, UnclearFacts DEF SkipInv, SkipSane, Begun
<1>4. generation'[r] > Generation(parent[r])
  <2>1. generation'[r] = seen[r] + 1 /\ seen[r] \in Nat
    BY <1>1 DEF LInv, LocalType
  <2>2. Generation(parent[r]) <= seen[r]
    BY <1>1, <1>3 DEF LInv, RunSane, Asking
  <2>3. Generation(parent[r]) \in Nat
    <3>1. parent[r] \in Nat /\ parent[r] <= Len(ledger) /\ Len(ledger) \in Nat
      BY <1>1, LengthType DEF LInv, LocalType, RunSane
    <3>2. parent[r] \in 0..Len(ledger)
      BY <3>1
    <3>3. Generation(parent[r]) \in 0..MaxGen
      BY <1>1, <3>2, GenerationType
    <3> QED BY <3>3, LeaseConstants
  <2> QED BY <2>1, <2>2, <2>3
<1>5. Waits(r)'
  <2>1. generation'[r] > Generation(parent[r])'
    BY <1>1, <1>4 DEF Generation
  <2>2. NotLast(r)'
    BY <1>1, <1>3 DEF Silent, NotLast
  <2>3. ASSUME NEW entry \in floating', entry.run = r
        PROVE  entry.generation = generation'[r] /\ parent'[r] = Len(ledger')
    BY <1>1, <1>2, <1>3, <2>3 DEF Silent, Parented
  <2> QED BY <2>1, <2>2, <2>3 DEF Waits
<1>6. SkipSane(r)'
  BY <1>2, <1>5 DEF SkipSane, Begun
<1>7. ASSUME NEW s \in Run \ {r}
      PROVE  SkipSane(s)'
  <2>1. pc'[s] = pc[s] /\ generation'[s] = generation[s] /\ parent'[s] = parent[s]
    BY <1>2 DEF OthersSame
  <2>2. \A entry \in floating' : entry.run = s => entry \in floating
    BY <1>1, <1>2
  <2>3. pc[s] \in Begun => Silent(s)'
    BY <1>1, <2>2 DEF SkipInv, SkipSane, Silent, NotLast
  <2>4. pc[s] = "unclear" => Waits(s)'
    BY <1>1, <2>1, <2>2 DEF SkipInv, SkipSane, Waits, NotLast, Generation
  <2> QED BY <2>1, <2>3, <2>4 DEF SkipSane
<1> QED BY <1>6, <1>7

\* A commit lands that raised: its run still waits, or has ended.
LEMMA LandSane ==
    ASSUME SkipInv, NEW entry \in floating, Land(entry)
    PROVE  \A s \in Run : SkipSane(s)'
<1> USE DEF Land, store, look, local, thread
<1>1. /\ LInv /\ entry \in Claimed /\ entry.run \in Run
      /\ entry.generation > Generation(Len(ledger))
  BY DEF SkipInv, LInv, LedgerType, Floats, Claimed
<1>2. /\ Grown /\ floating' = {} /\ ledger'[Len(ledger')].run = entry.run
      /\ Generation(Len(ledger))' = entry.generation
  BY <1>1, AppendSilences
<1>3. \A s \in Run \ {entry.run} : SkipSane(s)'
  BY <1>1, <1>2, OthersSane
<1>4. SkipSane(entry.run)'
  <2> DEFINE r == entry.run
  <2>1. pc[r] \notin Begun
    BY <1>1 DEF SkipInv, SkipSane, Silent
  <2>2. ASSUME pc[r] = "unclear"
        PROVE  Waits(r)'
    <3>1. Waits(r) /\ entry.generation = generation[r]
      BY <1>1, <2>2 DEF SkipInv, SkipSane, Waits
    <3>2. parent[r] \in 0..Len(ledger)
      BY <1>1, LengthType DEF LInv, LocalType, RunSane
    <3>3. Generation(parent[r])' = Generation(parent[r])
      BY <1>1, <1>2, <3>2, GenerationStays
    <3> QED BY <1>2, <3>1, <3>3 DEF Waits
  <2> QED BY <2>1, <2>2 DEF SkipSane
<1> QED BY <1>3, <1>4

-----------------------------------------------------------------------------
(* Every step                                                              *)

LEMMA SkipStep == SkipInv /\ [LNext]_allVars => SkipInv'
<1> SUFFICES ASSUME SkipInv, [LNext]_allVars PROVE SkipInv'
  OBVIOUS
<1>1. LInv'
  BY LStep DEF SkipInv
<1>2. CASE UNCHANGED allVars \/ LTick
  <2>1. UNCHANGED <<ledger, floating, pc, generation, parent>>
    BY <1>2 DEF allVars, vars, ledgerVars, local, LTick, Tick
  <2> QED BY <1>1, <2>1, SameSane DEF SkipInv
<1>3. CASE \E entry \in floating : Land(entry)
  BY <1>1, <1>3, LandSane DEF SkipInv
<1>4. ASSUME NEW r \in Run,
             \/ LAcquire(r) \/ LFault(r) \/ LHeartbeat(r) \/ LAssertHeld(r)
             \/ LFinish(r) \/ LRelease(r) \/ LTrigger(r)
      PROVE  \A s \in Run : SkipSane(s)'
  <2>1. CASE LAcquire(r)
    BY <2>1, BeginningIsQuiet, WinningIsQuiet, EndingIsQuiet, FailingIsQuiet,
       ClaimSane, QuietKeeps
       DEF LAcquire
  <2>2. CASE LFault(r)
    BY <2>2, EndingIsQuiet, FailingIsQuiet, UnclearSane, QuietKeeps DEF LFault
  <2>3. CASE LHeartbeat(r) \/ LAssertHeld(r) \/ LFinish(r) \/ LRelease(r)
    BY <2>3, HoldingIsQuiet, QuietKeeps
  <2>4. CASE LTrigger(r)
    BY <2>4, BeginningIsQuiet, QuietKeeps
  <2> QED BY <1>4, <2>1, <2>2, <2>3, <2>4
<1> QED BY <1>1, <1>2, <1>3, <1>4 DEF LNext, SkipInv

LEMMA SkipInitial == LInit => SkipInv
<1> SUFFICES ASSUME LInit PROVE SkipInv
  OBVIOUS
<1>1. ledger = <<>> /\ floating = {} /\ pc = [r \in Run |-> "idle"]
  BY DEF LInit, Init
<1> QED BY <1>1, LInitial DEF SkipInv, SkipSane, Silent, NotLast

\* A run that skips because another one is in progress is never the run that the
\* ledger names: no commit of it is the last one or can still become it, though
\* commits raise and land later and heads are stale.  So a skipped run, and the
\* next one that is started in its place, block nobody.
THEOREM SkippedRunsAreSilent == LSpec => []SkippedRunIsNotNamed
<1>1. SkipInv => SkippedRunIsNotNamed
  BY DEF SkipInv, SkipSane, Begun, Silent, NotLast, SkippedRunIsNotNamed
<1> QED BY <1>1, SkipInitial, SkipStep, PTL DEF LSpec

-----------------------------------------------------------------------------
(* When the next one is named: the inductive invariant                     *)

\* The program counters of a run that looks at the last generation, and of one
\* that has put its generation object.
Looking == {"exists", "absent", "read", "judge"}
Stored == {"anchor", "marker", "stat"} \cup Pruning \cup Holding \cup Releasing

\* No expiry of a commit is further off than a TTL on its run's clock.
Times ==
    /\ \A n \in 1..Len(ledger) :
        /\ ledger[n].at <= time
        /\ ledger[n].expires <= ledger[n].at + skew[ledger[n].run] + LEASE_TTL
    /\ \A entry \in floating : entry.expires <= Clock(entry.run) + LEASE_TTL

\* A commit that may still land was made when the last generation had lapsed,
\* or on an old look.
Offered == \A entry \in floating : ledger = <<>> \/ Lapsed \/ entry.old

\* What a look in time says of the last generation: without an object, and with
\* a commit that was a TTL old when r looked, it has lapsed; so has one whose
\* object was released, or had expired for the store when r read it.
Knows(r) ==
    /\ pc[r] = "absent" /\ looked[r] > Last.at + LEASE_TTL => Lapsed
    /\ pc[r] = "judge" /\ (copy[r].released \/ copy[r].expires < looked[r]) => Lapsed
    /\ pc[r] = "create" => Lapsed \/ OldLook(r)

\* A run that asks knows that the last generation has lapsed, or judged an old
\* look, unless the ledger has grown since; one that has not put its object yet
\* will put it with the expiry of its commit; and an object of the last
\* generation is not pruned.
TakeSane(r) ==
    /\ pc[r] = "create" => expires[r] <= Clock(r) + LEASE_TTL
    /\ pc[r] \in Looking /\ parent[r] = Len(ledger) =>
            seen[r] <= Generation(Len(ledger))
    /\ pc[r] = "absent" => looked[r] <= time
    /\ parent[r] = Len(ledger) /\ ledger # <<>> => Knows(r)
    /\ pc[r] = "unclear" =>
            /\ \A entry \in floating : entry.run = r => entry.expires = expires[r]
            /\ ~NotLast(r) => Last.expires = expires[r]
    /\ pc[r] = "bucket" /\ ~NotLast(r) /\ Last.generation = generation[r] =>
            Last.expires = expires[r]
    /\ pc[r] \in Stored /\ ledger # <<>> /\ Last.generation = generation[r] =>
            generation[r] \in stored
    /\ \A g \in fresh[r] : g <= Generation(Len(ledger))

TakeInv == SkipInv /\ Times /\ Offered /\ \A r \in Run : TakeSane(r)

-----------------------------------------------------------------------------
(* Facts about states                                                      *)

LEMMA LastFacts ==
    ASSUME LInv, ledger # <<>>
    PROVE  /\ Len(ledger) \in 1..Len(ledger) /\ Last \in Commit
           /\ Generation(Len(ledger)) = Last.generation
           /\ Last.generation \in Gen /\ Last.run \in Run /\ Last.expires \in Nat
<1>1. ledger \in Seq(Commit) /\ Len(ledger) \in Nat /\ Len(ledger) # 0
  <2>1. ledger \in Seq(Commit)
    BY DEF LInv, LedgerType
  <2> QED BY <2>1
<1>2. Len(ledger) \in 1..Len(ledger)
  BY <1>1
<1>3. Last \in Commit
  BY <1>1, <1>2 DEF Last
<1> QED BY <1>1, <1>2, <1>3 DEF Generation, Last, Commit

\* Whatever the ledger gave away is not above its last commit.
LEMMA GivenNotAbove ==
    ASSUME LInv, NEW r, NEW g, Gave(r, g)
    PROVE  /\ ledger # <<>> /\ g <= Generation(Len(ledger))
           /\ g = Last.generation => Last.run = r
<1>1. PICK n \in 1..Len(ledger) : ledger[n].run = r /\ ledger[n].generation = g
  BY DEF Gave
<1>2. Len(ledger) \in Nat /\ ledger # <<>>
  <2>1. Len(ledger) \in Nat /\ Len(ledger) # 0
    BY <1>1, LengthType
  <2> QED BY <2>1
<1>3. g <= Generation(Len(ledger))
  BY <1>1, LastIsLargest
<1>4. ASSUME g = Last.generation
      PROVE  Last.run = r
  <2>1. CASE n = Len(ledger)
    BY <1>1, <2>1 DEF Last
  <2>2. CASE n < Len(ledger)
    <3>1. ledger[n].generation < ledger[Len(ledger)].generation
      BY <1>1, <1>2, <2>2 DEF LInv, Ordered
    <3>2. ledger[n].generation \in Nat
      BY <1>1, CommitType DEF Gen
    <3> QED BY <1>1, <1>4, <3>1, <3>2 DEF Last
  <2> QED BY <1>1, <1>2, <2>1, <2>2
<1> QED BY <1>2, <1>3, <1>4

\* No object is of a generation above the last one.
LEMMA StoredNotAbove ==
    ASSUME LInv, NEW g \in stored
    PROVE  g <= Generation(Len(ledger))
<1>1. Gave(object[g].run, g)
  BY DEF LInv, StoreOwned
<1> QED BY <1>1, GivenNotAbove

\* The generations that a run may prune are below the last one.
LEMMA PrunedIsOld ==
    ASSUME TakeInv, NEW r \in Run, NEW g \in Prunable(r)
    PROVE  g < Generation(Len(ledger))
<1>1. LInv /\ fresh[r] \subseteq Gen /\ \A h \in fresh[r] : h <= Generation(Len(ledger))
  BY DEF TakeInv, SkipInv, TakeSane, LInv, LocalType
<1>2. g \in fresh[r] /\ Cardinality({h \in fresh[r] : h > g}) >= KEEP_NEWEST
  BY DEF Prunable
<1>3. {h \in fresh[r] : h > g} # {}
  <2>1. ~(0 >= KEEP_NEWEST)
    BY LeaseConstants
  <2> QED BY <1>2, <2>1, FS_EmptySet
<1>4. PICK h \in fresh[r] : h > g
  BY <1>3
<1>5. g \in Nat /\ h \in Nat /\ h <= Generation(Len(ledger))
  BY <1>1, <1>2 DEF Gen
<1>6. Generation(Len(ledger)) \in Nat
  BY <1>1, GenerationType, LengthType
<1> QED BY <1>4, <1>5, <1>6

-----------------------------------------------------------------------------
(* Facts about steps                                                       *)

\* An object of the last generation that appears is its winner's, with the
\* expiry of the commit; and one that is there stays.
PutsOwn ==
    \A g \in stored' \ stored : ledger # <<>> /\ g = Last.generation =>
        /\ object'[g].run = Last.run
        /\ object'[g].released \/ object'[g].expires = Last.expires

KeepsLast == ledger # <<>> /\ Last.generation \in stored => Last.generation \in stored'

\* The clock, the other runs and the ledger are left alone.
OthersKept(r) ==
    /\ OthersSame(r)
    /\ \A s \in Run \ {r} : expires'[s] = expires[s] /\ fresh'[s] = fresh[s]

\* What has lapsed remains so: a late put is of an object that has expired.
LEMMA LapsedStays ==
    ASSUME TakeInv, ledger # <<>>, Lapsed, UNCHANGED <<ledger, skew>>,
           time' \in Nat, time' >= time, Observe, PutsOwn
    PROVE  Lapsed'
<1>1. /\ LInv /\ Last' = Last /\ Last.run \in Run /\ Last.generation \in Gen
      /\ Last.expires \in Nat
  BY LastFacts DEF TakeInv, SkipInv, Last
<1>2. CASE Last.generation \in over
  BY <1>1, <1>2 DEF Observe, Lapsed
<1>3. CASE Last.generation \notin over
  <2>1. Last.generation \notin stored /\ Clock(Last.run) > Last.expires
    BY <1>3 DEF Lapsed
  <2>2. Clock(Last.run)' > Last.expires
    BY <1>1, <2>1, LeaseConstants DEF Clock, LInv, ClockType
  <2>3. CASE Last.generation \in stored'
    <3>1. PICK g \in Gen, q \in Run : g = Last.generation /\ q = Last.run
      BY <1>1
    <3>2. /\ g \in stored' /\ object'[g].run = q
          /\ object'[g].released \/ object'[g].expires = Last.expires
      BY <2>1, <2>3, <3>1 DEF PutsOwn
    <3>3. Clock(q)' > Last.expires /\ q # NoRun
      BY <1>1, <2>2, <3>1, LeaseConstants DEF Clock
    <3>4. OwnClock(g)' = Clock(q)'
      BY <3>2, <3>3 DEF OwnClock, Clock
    <3>5. g \in over'
      BY <3>2, <3>3, <3>4 DEF Observe
    <3> QED BY <1>1, <3>1, <3>5 DEF Lapsed
  <2>4. CASE Last.generation \notin stored'
    BY <1>1, <2>2, <2>4 DEF Lapsed, Clock
  <2> QED BY <2>3, <2>4
<1> QED BY <1>2, <1>3

\* A run whose own part a step leaves alone.
LEMMA OtherTakes ==
    ASSUME TakeInv, NEW s \in Run, UNCHANGED <<ledger, skew>>,
           time' \in Nat, time' >= time, Observe, PutsOwn, KeepsLast,
           \A entry \in floating' : entry.run = s => entry \in floating,
           pc'[s] = pc[s], generation'[s] = generation[s], seen'[s] = seen[s],
           parent'[s] = parent[s], expires'[s] = expires[s], fresh'[s] = fresh[s],
           copy'[s] = copy[s], looked'[s] = looked[s]
    PROVE  TakeSane(s)'
<1>1. LInv /\ TakeSane(s) /\ Last' = Last /\ Generation(Len(ledger))' = Generation(Len(ledger))
  BY DEF TakeInv, SkipInv, Last, Generation
<1>2. pc[s] = "create" => expires'[s] <= Clock(s)'
                                        + LEASE_TTL
  <2>1. expires[s] \in Nat /\ time \in Nat /\ skew[s] \in Nat /\ LEASE_TTL \in Nat
    BY <1>1, LeaseConstants DEF LInv, LocalType, ClockType, LastReading
  <2>2. Clock(s)' >= Clock(s) /\ Clock(s) \in Nat /\ Clock(s)' \in Nat
    BY <2>1 DEF Clock
  <2>3. pc[s] = "create" => expires[s] <= Clock(s) + LEASE_TTL
    BY <1>1 DEF TakeSane
  <2> QED BY <2>1, <2>2, <2>3
<1>3. ledger # <<>> /\ Lapsed => Lapsed'
  BY LapsedStays
<1>4. /\ pc[s] \in Looking /\ parent[s] = Len(ledger) =>
            seen[s] <= Generation(Len(ledger))
      /\ parent[s] = Len(ledger) /\ ledger # <<>> => Knows(s)'
  BY <1>1, <1>3 DEF TakeSane, Knows, OldLook
<1>9. pc[s] = "absent" => looked[s] <= time'
  <2>1. looked[s] \in Nat /\ time \in Nat
    BY <1>1, LeaseConstants DEF LInv, LocalType, ClockType
  <2> QED BY <1>1, <2>1 DEF TakeSane
<1>5. pc[s] = "unclear" =>
            /\ \A entry \in floating' : entry.run = s => entry.expires = expires[s]
            /\ ~NotLast(s)' => Last.expires = expires[s]
  BY <1>1 DEF TakeSane, NotLast
<1>6. pc[s] = "bucket" /\ ~NotLast(s)' /\ Last.generation = generation[s] =>
            Last.expires = expires[s]
  BY <1>1 DEF TakeSane, NotLast
<1>7. pc[s] \in Stored /\ ledger # <<>> /\ Last.generation = generation[s] =>
            generation[s] \in stored'
  BY <1>1 DEF TakeSane, KeepsLast
<1>8. \A g \in fresh[s] : g <= Generation(Len(ledger))
  BY <1>1 DEF TakeSane
<1> QED BY <1>1, <1>2, <1>4, <1>5, <1>6, <1>7, <1>8, <1>9 DEF TakeSane

\* The expiries of the commits, as time goes on.
LEMMA TimesStay ==
    ASSUME TakeInv, UNCHANGED <<ledger, skew>>, floating' \subseteq floating,
           time' \in Nat, time' >= time
    PROVE  Times'
<1>1. LInv /\ Times /\ time \in Nat /\ LEASE_TTL \in Nat
  BY LeaseConstants DEF TakeInv, SkipInv, LInv, ClockType
<1>2. ASSUME NEW n \in 1..Len(ledger)
      PROVE  /\ ledger[n].at <= time'
             /\ ledger[n].expires <= ledger[n].at + skew[ledger[n].run] + LEASE_TTL
  <2>1. ledger[n].at \in Nat
    BY <1>1, CommitType, LeaseConstants DEF Commit
  <2> QED BY <1>1, <2>1 DEF Times
<1>3. ASSUME NEW entry \in floating'
      PROVE  entry.expires <= Clock(entry.run)' + LEASE_TTL
  <2>1. entry.run \in Run /\ entry.expires \in Nat /\ skew[entry.run] \in Nat
    BY <1>1, LeaseConstants DEF LInv, LedgerType, Claimed, ClockType, LastReading
  <2>2. entry.expires <= time + skew[entry.run] + LEASE_TTL
    BY <1>1 DEF Times, Clock
  <2>3. entry.expires <= time' + skew[entry.run] + LEASE_TTL
    BY <1>1, <2>1, <2>2
  <2> QED BY <2>3 DEF Clock
<1> QED BY <1>2, <1>3 DEF Times

\* A step of r that leaves the ledger and the commits that may land alone.
LEMMA StepTakes ==
    ASSUME TakeInv, SkipInv', NEW r \in Run,
           UNCHANGED <<time, skew, ledger, floating>>, Observe,
           PutsOwn, KeepsLast, OthersKept(r), TakeSane(r)'
    PROVE  TakeInv'
<1>1. time \in Nat /\ time' >= time
  BY LeaseConstants DEF TakeInv, SkipInv, LInv, ClockType
<1>2. Times'
  BY <1>1, TimesStay
<1>3. Offered'
  BY <1>1, LapsedStays DEF TakeInv, Offered
<1>4. \A s \in Run \ {r} : TakeSane(s)'
  BY <1>1, OtherTakes DEF OthersKept, OthersSame
<1> QED BY <1>2, <1>3, <1>4 DEF TakeInv

\* A step of a run that has put its object, or of one that ends.
HolderStep(r) ==
    /\ UNCHANGED <<time, skew, ledger, floating>> /\ Observe
    /\ PutsOwn /\ KeepsLast /\ OthersKept(r)
    /\ pc'[r] \in Stored \cup Ended
    /\ pc'[r] \in Stored =>
            \/ pc[r] \in Stored /\ generation'[r] = generation[r]
            \/ generation'[r] \in stored'
    /\ fresh'[r] \subseteq fresh[r] \cup stored

LEMMA HolderTakes ==
    ASSUME TakeInv, SkipInv', NEW r \in Run, HolderStep(r)
    PROVE  TakeInv'
<1>1. LInv /\ TakeSane(r) /\ UNCHANGED ledger
  BY DEF TakeInv, SkipInv, HolderStep
<1>2. Last' = Last /\ Generation(Len(ledger))' = Generation(Len(ledger))
  BY <1>1 DEF Last, Generation
<1>3. pc'[r] \notin {"create", "exists", "absent", "read", "judge", "unclear", "bucket"}
  BY DEF HolderStep, Stored, Pruning, Holding, Releasing, Ended
<1>4. pc'[r] \in Stored /\ ledger # <<>> /\ Last.generation = generation'[r] =>
            generation'[r] \in stored'
  BY <1>1 DEF HolderStep, TakeSane, KeepsLast
<1>5. \A g \in fresh'[r] : g <= Generation(Len(ledger))
  BY <1>1, StoredNotAbove DEF HolderStep, TakeSane
<1>6. TakeSane(r)'
  BY <1>1, <1>2, <1>3, <1>4, <1>5 DEF TakeSane, Looking, Knows
<1> QED BY <1>6, StepTakes DEF HolderStep

\* The objects that are there stay, and no new one appears.
LEMMA SameObjects ==
    ASSUME TakeInv, UNCHANGED stored
    PROVE  PutsOwn /\ KeepsLast
BY DEF PutsOwn, KeepsLast

\* A run that has put its object writes over it.
LEMMA OverwritesOwn ==
    ASSUME TakeInv, NEW r \in Run, pc[r] \in Stored,
           stored' = stored \cup {generation[r]}
    PROVE  PutsOwn /\ KeepsLast
<1>1. ledger # <<>> /\ Last.generation = generation[r] => generation[r] \in stored
  BY DEF TakeInv, TakeSane
<1> QED BY <1>1 DEF PutsOwn, KeepsLast

-----------------------------------------------------------------------------
(* The steps of a run that has put its object                              *)

LEMMA StoringTakes ==
    ASSUME TakeInv, SkipInv', NEW r \in Run,
           Confirm(r) \/ LStoreAnchor(r) \/ LStoreMarker(r) \/ StatAndList(r)
    PROVE  TakeInv'
<1> USE DEF Move, Unname, look, local, thread, store, ledgerVars
<1>1. LocalType /\ LInv /\ PutsOwn /\ KeepsLast
  BY SameObjects DEF TakeInv, SkipInv, LInv, Confirm, LStoreAnchor, LStoreMarker,
                     StatAndList, StoreAnchor, StoreMarker
<1>2. CASE Confirm(r)
  BY <1>1, <1>2, HolderTakes
     DEF Confirm, LocalType, HolderStep, OthersKept, OthersSame, Stored, Holding
<1>3. CASE LStoreAnchor(r) \/ LStoreMarker(r)
  BY <1>1, <1>3, HolderTakes
     DEF LStoreAnchor, LStoreMarker, StoreAnchor, StoreMarker, LocalType,
         HolderStep, OthersKept, OthersSame, Stored
<1>4. CASE StatAndList(r)
  BY <1>1, <1>4, HolderTakes
     DEF StatAndList, LocalType, HolderStep, OthersKept, OthersSame, Stored, Pruning
<1> QED BY <1>2, <1>3, <1>4

LEMMA PruningTakes ==
    ASSUME TakeInv, SkipInv', NEW r \in Run, LPrune(r)
    PROVE  TakeInv'
<1> USE DEF Move, look, local, thread, store, ledgerVars
<1>1. LocalType /\ LInv
  BY DEF TakeInv, SkipInv, LInv
<1>2. PutsOwn /\ KeepsLast
  <2>1. CASE PruneKeep(r) \/ PruneMarker(r) \/ Hold(r)
    BY <2>1, SameObjects DEF PruneKeep, PruneMarker, Hold
  <2>2. CASE PruneObject(r)
    <3>1. PICK g \in Prunable(r) : stored' = stored \ {g}
      BY <2>2 DEF PruneObject
    <3>2. g < Generation(Len(ledger)) /\ g \in Nat
      BY <1>1, <3>1, PrunedIsOld DEF Prunable, LocalType, Gen
    <3>3. ledger # <<>> => Last.generation # g
      BY <1>1, <3>2, LastFacts DEF Gen
    <3> QED BY <3>1, <3>3 DEF PutsOwn, KeepsLast
  <2> QED BY <2>1, <2>2 DEF LPrune
<1>3. /\ OthersKept(r) /\ fresh'[r] \subseteq fresh[r]
      /\ UNCHANGED <<time, skew, ledger, floating, generation>> /\ Observe
      /\ pc[r] \in Stored /\ pc'[r] \in Stored
  <2>1. UNCHANGED <<time, skew, ledger, floating, generation, parent, seen, copy,
                    looked, expires>>
        /\ Observe
    BY DEF LPrune, PruneKeep, PruneMarker, PruneObject, Hold, Forget
  <2>2. \E to \in {"prune", "delete", "held"} :
            pc[r] \in Pruning /\ pc' = [pc EXCEPT ![r] = to]
    BY DEF LPrune, PruneKeep, PruneMarker, PruneObject, Hold, Pruning
  <2>3. \A s \in Run \ {r} : beat'[s] = beat[s]
    BY <1>1 DEF LPrune, PruneKeep, PruneMarker, PruneObject, Hold, LocalType
  <2>4. fresh'[r] \subseteq fresh[r] /\ \A s \in Run \ {r} : fresh'[s] = fresh[s]
    BY <1>1 DEF LPrune, PruneKeep, PruneMarker, PruneObject, Hold, Forget, LocalType
  <2> QED BY <1>1, <2>1, <2>2, <2>3, <2>4
      DEF LocalType, OthersKept, OthersSame, Stored, Pruning, Holding
<1> QED BY <1>2, <1>3, HolderTakes DEF HolderStep

LEMMA HoldingTakes ==
    ASSUME TakeInv, SkipInv', NEW r \in Run,
           LHeartbeat(r) \/ LAssertHeld(r) \/ LFinish(r) \/ LRelease(r)
    PROVE  TakeInv'
<1> USE DEF Move, Unname, look, local, thread, store, ledgerVars
<1>1. LocalType /\ LInv
  BY DEF TakeInv, SkipInv, LInv
<1>2. pc[r] \in Holding \cup Releasing
  BY <1>1, RunFacts
     DEF LHeartbeat, RenewRead, RenewPut, RenewFails, LAssertHeld, AssertNext,
         AssertOwn, AssertClock, AssertLost, LFinish, Finish, LRelease,
         ReleaseStop, ReleasePut, Holding, Releasing
<1>3. PutsOwn /\ KeepsLast
  <2>1. CASE UNCHANGED stored
    BY <2>1, SameObjects
  <2>2. CASE stored' = stored \cup {generation[r]}
    BY <1>2, <2>2, OverwritesOwn DEF Stored
  <2> QED BY <2>1, <2>2
      DEF LHeartbeat, RenewRead, RenewPut, RenewFails, LAssertHeld, AssertNext,
          AssertOwn, AssertClock, AssertLost, LFinish, Finish, LRelease,
          ReleaseStop, ReleasePut, PutOwn
<1>4. /\ UNCHANGED <<time, skew, ledger, floating, generation, parent, seen, fresh>>
      /\ Observe
      /\ pc'[r] \in Holding \cup Releasing \cup Ended
      /\ OthersKept(r)
  <2>1. CASE LHeartbeat(r)
    BY <1>1, <1>2, <2>1
       DEF LocalType, OthersKept, OthersSame, LHeartbeat, RenewRead, RenewPut, RenewFails
  <2>2. CASE LAssertHeld(r)
    BY <1>1, <2>2
       DEF LocalType, OthersKept, OthersSame, LAssertHeld, AssertNext, AssertOwn,
           AssertClock, AssertLost, Holding, Releasing
  <2>3. CASE LFinish(r) \/ LRelease(r)
    BY <1>1, <2>3
       DEF LocalType, OthersKept, OthersSame, LFinish, Finish, LRelease,
           ReleaseStop, ReleasePut, Holding, Releasing, Ended
  <2> QED BY <2>1, <2>2, <2>3
<1> QED BY <1>2, <1>3, <1>4, HolderTakes DEF HolderStep, Stored

-----------------------------------------------------------------------------
(* The end of a process                                                    *)

LEMMA EndTakes ==
    ASSUME TakeInv, SkipInv', NEW r \in Run, NEW f, NEW t \in Ended, Exit(r, f, t),
           UNCHANGED <<time, skew, ledger, floating>>, Forgotten(r) \/ Unname(r),
           Observe, PutsOwn, KeepsLast
    PROVE  TakeInv'
<1>1. LocalType
  BY DEF TakeInv, SkipInv, LInv
<1>2. /\ pc'[r] = t /\ fresh'[r] = {} /\ OthersKept(r)
  BY <1>1 DEF LocalType, OthersKept, OthersSame, Exit, Move, Forgotten, Unname
<1>3. t \notin Stored
  BY DEF Ended, Stored, Pruning, Holding, Releasing
<1> QED BY <1>2, <1>3, HolderTakes DEF HolderStep

LEMMA EndingTakes ==
    ASSUME TakeInv, SkipInv', NEW r \in Run,
           \/ JudgeAbsentHeld(r) \/ LJudgeHeld(r) \/ LReadGone(r)
           \/ ClaimConflict(r) \/ UnclearLost(r) \/ UnclearFails(r)
           \/ ConfirmFails(r) \/ LedgerDown(r)
           \/ LObjectGone(r) \/ StoredTwice(r) \/ LCrash(r)
    PROVE  TakeInv'
<1>1. PICK f : \E t \in Ended : Exit(r, f, t)
  BY Zenon DEF JudgeAbsentHeld, LJudgeHeld, LReadGone, ReadGone, ClaimConflict, UnclearLost,
               UnclearFails, ConfirmFails, LedgerDown, LObjectGone, ObjectGone,
               StoredTwice, LCrash, Crash, LExit, Ended
<1>2. /\ UNCHANGED <<time, skew, ledger, floating, stored>> /\ Observe
      /\ Forgotten(r) \/ Unname(r)
  BY DEF JudgeAbsentHeld, LJudgeHeld, LReadGone, ReadGone, ClaimConflict, UnclearLost,
         UnclearFails, ConfirmFails, LedgerDown, LObjectGone, ObjectGone,
         StoredTwice, LCrash, Crash, LExit, Unname, store
<1>3. PutsOwn /\ KeepsLast
  BY <1>2, SameObjects
<1>4. PICK t \in Ended : Exit(r, f, t)
  BY <1>1
<1> QED BY <1>2, <1>3, <1>4, EndTakes

\* A run that has not put its object yet puts it with the expiry of its commit.
LEMMA FirstPut ==
    ASSUME TakeInv, NEW r \in Run, pc[r] = "bucket", GatewayPut(r)
    PROVE  PutsOwn /\ KeepsLast
<1>1. /\ LInv /\ Gave(r, generation[r]) /\ generation[r] \in Gen
      /\ object \in [Gen -> Object]
  BY PutterFacts DEF TakeInv, SkipInv, LInv, StoreType, Putting
<1>2. /\ object'[generation[r]].run = r
      /\ object'[generation[r]].expires = expires[r]
  BY <1>1 DEF GatewayPut
<1>3. ledger # <<>> /\ generation[r] = Last.generation =>
        Last.run = r /\ Last.expires = expires[r]
  BY <1>1, GivenNotAbove DEF TakeInv, TakeSane, NotLast, Last
<1> QED BY <1>2, <1>3 DEF PutsOwn, KeepsLast, GatewayPut

LEMMA FailedPutTakes ==
    ASSUME TakeInv, SkipInv', NEW r \in Run, PutObjectFails(r) \/ LStoreFails(r)
    PROVE  TakeInv'
<1>1. CASE PutObjectFails(r)
  <2>1. pc[r] = "bucket" /\ Exit(r, "bucket", "failed") /\ Forgotten(r)
        /\ UNCHANGED <<time, skew, ledger, floating>> /\ Observe
        /\ (GatewayPut(r) \/ UNCHANGED stored)
    BY <1>1 DEF PutObjectFails, Exit, Move, store
  <2>2. PutsOwn /\ KeepsLast
    BY <2>1, FirstPut, SameObjects
  <2> QED BY <2>1, <2>2, EndTakes DEF Ended
<1>2. CASE LStoreFails(r)
  <2>1. PICK f \in {"anchor", "marker"} : Exit(r, f, "failed")
    BY <1>2 DEF LStoreFails, StoreFails
  <2>2. pc[r] \in Stored /\ stored' = stored \cup {generation[r]}
        /\ UNCHANGED <<time, skew, ledger, floating>> /\ Observe /\ Unname(r)
    BY <1>2, <2>1 DEF LStoreFails, StoreFails, PutOwn, Unname, Exit, Move, Stored
  <2>3. PutsOwn /\ KeepsLast
    BY <2>2, OverwritesOwn
  <2> QED BY <2>1, <2>2, <2>3, EndTakes DEF Ended
<1> QED BY <1>1, <1>2

-----------------------------------------------------------------------------
(* The steps of a run up to its commit, and its first put                  *)

LEMMA PutTakes ==
    ASSUME TakeInv, SkipInv', NEW r \in Run, PutObject(r)
    PROVE  TakeInv'
<1> USE DEF PutObject, Move, look, local, thread, ledgerVars
<1>1. LocalType /\ PutsOwn /\ KeepsLast
  BY FirstPut DEF TakeInv, SkipInv, LInv
<1>2. generation'[r] \in stored'
  BY DEF GatewayPut
<1> QED BY <1>1, <1>2, HolderTakes
    DEF LocalType, HolderStep, OthersKept, OthersSame, Stored

\* A step of a run that has not asked yet.
ReadingStep(r) ==
    /\ UNCHANGED <<time, skew, stored, ledger, floating, fresh>> /\ Observe
    /\ OthersKept(r)
    /\ pc'[r] \in Begun \ {"skipped"}
    /\ pc'[r] = "create" => expires'[r] <= Clock(r) + LEASE_TTL
    /\ pc'[r] \in Looking /\ parent'[r] = Len(ledger) =>
            seen'[r] <= Generation(Len(ledger))
    /\ pc'[r] = "absent" => looked'[r] <= time
    /\ parent'[r] = Len(ledger) /\ ledger # <<>> => Knows(r)'

LEMMA ReadingStepTakes ==
    ASSUME TakeInv, SkipInv', NEW r \in Run, ReadingStep(r)
    PROVE  TakeInv'
<1>1. /\ UNCHANGED <<ledger, fresh>> /\ Generation(Len(ledger))' = Generation(Len(ledger))
      /\ Clock(r)' = Clock(r)
  BY DEF ReadingStep, Generation, Clock
<1>2. pc'[r] \notin Stored \cup {"unclear", "bucket"}
  BY DEF ReadingStep, Begun, Stored, Pruning, Holding, Releasing
<1>3. \A g \in fresh[r] : g <= Generation(Len(ledger))
  BY DEF TakeInv, TakeSane
<1>4. TakeSane(r)'
  BY <1>1, <1>2, <1>3 DEF TakeSane, ReadingStep
<1> QED BY <1>4, SameObjects, StepTakes DEF ReadingStep

\* A run that listed, with the last commit as the head it read, listed no
\* generation above it.
LEMMA ListedNotAbove ==
    ASSUME LInv, NEW r \in Run, parent[r] = Len(ledger)
    PROVE  LListed(r) <= Generation(Len(ledger))
<1>1. LListed(r) \in {Generation(Len(ledger))} \cup stored
  BY ListedFacts
<1>2. Generation(Len(ledger)) \in Nat
  BY GenerationType, LengthType
<1> QED BY <1>1, <1>2, StoredNotAbove

\* A run that looks at an object, with the last commit as the head it read,
\* looks at the one of the last generation.
LEMMA LooksAtLast ==
    ASSUME TakeInv, NEW r \in Run, pc[r] \in Looking,
           parent[r] = Len(ledger), ledger # <<>>
    PROVE  seen[r] = Last.generation
<1>1. LInv /\ seen[r] <= Generation(Len(ledger)) /\ Generation(Len(ledger)) <= seen[r]
  BY DEF TakeInv, SkipInv, TakeSane, LInv, RunSane, Looking, Asking
<1>2. seen[r] \in Nat /\ Generation(Len(ledger)) \in Nat
  BY <1>1, GenerationType, LengthType DEF LInv, LocalType
<1> QED BY <1>1, <1>2, LastFacts

\* The arithmetic of the judgements: what is a TTL and the grace past on the clock
\* c of a taker whose look at l is not old was past, but for the grace, then.
LEMMA PastAtTheLook ==
    ASSUME NEW c \in Nat, NEW l \in Nat, NEW e \in Nat, NEW ttl \in Nat, NEW grace \in Nat,
           ~(c + ttl - ttl > l + grace), c > e + grace
    PROVE  l > e
  OBVIOUS

\* And of the looks: what is past at t is past on a clock that is ahead of it.
LEMMA PastOnItsClock ==
    ASSUME NEW t \in Nat, NEW k \in Nat, NEW a \in Nat, NEW e \in Nat, NEW ttl \in Nat,
           t > a + ttl, e <= a + k + ttl
    PROVE  t + k > e
  OBVIOUS

LEMMA ClockFacts ==
    ASSUME LInv, NEW r \in Run
    PROVE  /\ time \in Nat /\ skew[r] \in Nat /\ Clock(r) \in Nat
           /\ Clock(r) = time + skew[r] /\ looked[r] \in Nat
           /\ LEASE_TTL \in Nat /\ TAKEOVER_GRACE \in Nat
           /\ copy[r].expires \in Nat
<1>1. copy[r] \in Object
  BY DEF LInv, LocalType
<1>2. copy[r].expires \in Nat
  BY <1>1, LeaseConstants DEF Object, LastReading
<1> QED BY <1>2, LeaseConstants DEF LInv, LocalType, ClockType, Clock

LEMMA LastTimes ==
    ASSUME TakeInv, ledger # <<>>
    PROVE  /\ Last.at \in Nat /\ Last.expires \in Nat /\ Last.run \in Run
           /\ Last.expires <= Last.at + skew[Last.run] + LEASE_TTL
<1>1. LInv
  BY DEF TakeInv, SkipInv
<1>2. Len(ledger) \in 1..Len(ledger) /\ Last \in Commit /\ Last.run \in Run /\ Last.expires \in Nat
  BY <1>1, LastFacts
<1>3. Last.at \in Nat
  BY <1>2, LeaseConstants DEF Commit
<1> QED BY <1>2, <1>3 DEF TakeInv, Times, Last

\* A generation without an object whose commit is a TTL old: the expiry that its
\* winner will put has passed on the winner's clock.
LEMMA AbsentLooks ==
    ASSUME TakeInv, NEW r \in Run, Absent(r), parent[r] = Len(ledger), ledger # <<>>
    PROVE  Knows(r)'
<1> USE DEF Move, look, store, local, thread, ledgerVars
<1>1. /\ LInv /\ Last' = Last /\ Last.generation \notin stored'
      /\ pc'[r] = "absent" /\ looked'[r] = time /\ UNCHANGED <<time, skew>>
  <2>1. LInv /\ pc[r] \in Looking
    BY DEF TakeInv, SkipInv, Absent, Looking
  <2> QED BY <2>1, LooksAtLast DEF Absent, Last, LInv, LocalType
<1>2. SUFFICES ASSUME time > Last.at + LEASE_TTL PROVE Clock(Last.run)' > Last.expires
  BY <1>1 DEF Knows, Lapsed
<1>3. PICK q \in Run : q = Last.run
  BY LastTimes
<1>4. time + skew[q] > Last.expires
  BY <1>1, <1>2, <1>3, LastTimes, ClockFacts, PastOnItsClock
<1> QED BY <1>1, <1>3, <1>4 DEF Clock

\* An object that was released, or that has expired for the store: so it has on
\* its holder's clock.
LEMMA ReadLooks ==
    ASSUME TakeInv, NEW r \in Run, LRead(r), parent[r] = Len(ledger), ledger # <<>>
    PROVE  Knows(r)'
<1> USE DEF Move, look, store, local, thread, ledgerVars
<1>1. /\ LInv /\ Last' = Last /\ seen[r] = Last.generation /\ seen[r] \in stored'
      /\ Observe /\ UNCHANGED <<object, time, skew>>
      /\ pc'[r] = "judge" /\ looked'[r] = time /\ copy'[r] = object[seen[r]]
  <2>1. LInv /\ pc[r] \in Looking
    BY DEF TakeInv, SkipInv, LRead, Read, Looking
  <2> QED BY <2>1, LooksAtLast DEF LRead, Read, Last, LInv, LocalType
<1>2. PICK g \in Gen : g = seen[r]
  BY <1>1 DEF LRead, Read, LInv, StoreType
<1>3. SUFFICES ASSUME object[g].released \/ object[g].expires < time PROVE g \in over'
  BY <1>1, <1>2 DEF Knows, Lapsed
<1>4. object[g] \in Object
  BY <1>1 DEF LInv, StoreType
<1>5. object[g].expires \in Nat /\ object[g].run \in Run \cup {NoRun}
  BY <1>4, LeaseConstants DEF Object, LastReading
<1>6. OwnClock(g) >= time /\ OwnClock(g) \in Nat /\ time \in Nat
  <2>1. CASE object[g].run = NoRun
    BY <1>1, <2>1, LeaseConstants DEF OwnClock, LInv, ClockType
  <2>2. CASE object[g].run # NoRun
    <3>1. PICK q \in Run : q = object[g].run
      BY <1>5, <2>2
    <3>2. OwnClock(g) = time + skew[q]
      BY <2>2, <3>1 DEF OwnClock, Clock
    <3> QED BY <1>1, <3>2, ClockFacts
  <2> QED BY <2>1, <2>2
<1>7. OwnClock(g)' = OwnClock(g)
  BY <1>1 DEF OwnClock, Clock
<1>8. object[g].released \/ OwnClock(g) > object[g].expires
  BY <1>3, <1>5, <1>6
<1> QED BY <1>1, <1>2, <1>7, <1>8 DEF Observe

\* What a run finds free on a look in time has lapsed.
LEMMA JudgeLooks ==
    ASSUME TakeInv, NEW r \in Run, JudgeAbsentFree(r) \/ LJudgeFree(r),
           parent[r] = Len(ledger), ledger # <<>>
    PROVE  Knows(r)'
<1> USE DEF Move, look, store, local, thread, ledgerVars
<1>1. /\ LInv /\ Knows(r) /\ pc'[r] = "create" /\ expires'[r] = Clock(r) + LEASE_TTL
      /\ UNCHANGED <<ledger, time, skew, stored, object, seen, looked>> /\ Observe
  BY DEF TakeInv, SkipInv, TakeSane, JudgeAbsentFree, LJudgeFree, JudgeFree, LInv, LocalType
<1>2. seen[r] > 0
  <2>1. pc[r] \in Looking
    BY DEF JudgeAbsentFree, LJudgeFree, JudgeFree, Looking
  <2>2. seen[r] = Last.generation
    BY <2>1, LooksAtLast
  <2> QED BY <1>1, <2>2, LastFacts DEF Gen
<1>3. ASSUME ~(Clock(r) + LEASE_TTL - LEASE_TTL > looked[r] + TAKEOVER_GRACE)
      PROVE  Lapsed
  <2>1. CASE JudgeAbsentFree(r)
    <3>1. Len(ledger) # 0
      BY <1>1, LastFacts, LengthType
    <3>2. Clock(r) > Last.at + LEASE_TTL + TAKEOVER_GRACE
      BY <2>1, <3>1 DEF JudgeAbsentFree, AbsentFree, CommittedAt, Last
    <3>3. Last.at + LEASE_TTL \in Nat
      BY <1>1, LastTimes, ClockFacts
    <3>4. looked[r] > Last.at + LEASE_TTL
      BY <1>1, <1>3, <3>2, <3>3, ClockFacts, PastAtTheLook
    <3> QED BY <1>1, <2>1, <3>4 DEF JudgeAbsentFree, Knows
  <2>2. CASE LJudgeFree(r)
    <3>1. pc[r] = "judge" /\ Free(r)
      BY <2>2 DEF LJudgeFree, JudgeFree
    <3>2. CASE copy[r].released
      BY <1>1, <3>1, <3>2 DEF Knows
    <3>3. CASE Clock(r) > copy[r].expires + TAKEOVER_GRACE
      <4>1. looked[r] > copy[r].expires
        BY <1>1, <1>3, <3>3, ClockFacts, PastAtTheLook
      <4>2. copy[r].expires < looked[r]
        BY <1>1, <4>1, ClockFacts
      <4> QED BY <1>1, <3>1, <4>2 DEF Knows
    <3> QED BY <3>1, <3>2, <3>3 DEF Free
  <2> QED BY <2>1, <2>2
<1>4. Lapsed => Lapsed'
  <2>1. PutsOwn /\ time' \in Nat /\ time' >= time
    BY <1>1, ClockFacts, SameObjects
  <2> QED BY <1>1, <2>1, LapsedStays
<1>5. ASSUME ~Lapsed
      PROVE  OldLook(r)'
  <2>1. Clock(r) + LEASE_TTL - LEASE_TTL > looked[r] + TAKEOVER_GRACE
    BY <1>3, <1>5
  <2>2. seen'[r] > 0 /\ looked'[r] = looked[r]
    BY <1>1, <1>2
  <2>3. expires'[r] = Clock(r) + LEASE_TTL
    BY <1>1
  <2>4. expires'[r] - LEASE_TTL > looked[r] + TAKEOVER_GRACE
    BY <1>1, <2>1, <2>3, ClockFacts
  <2> QED BY <2>2, <2>4 DEF OldLook
<1> QED BY <1>1, <1>4, <1>5 DEF Knows

LEMMA ReadingTakes ==
    ASSUME TakeInv, SkipInv', NEW r \in Run,
           \/ ReadHead(r) \/ LListEmpty(r) \/ LList(r) \/ Exists(r)
           \/ Absent(r) \/ JudgeAbsentFree(r) \/ LRead(r) \/ LJudgeFree(r)
           \/ LTrigger(r)
    PROVE  TakeInv'
<1> USE DEF Move, look, store, local, thread, ledgerVars
<1>1. LInv /\ LocalType
  BY DEF TakeInv, SkipInv, LInv
<1>2. Clock(r) + LEASE_TTL <= Clock(r) + LEASE_TTL /\ time <= time
  BY <1>1, ReadingInRange, ClockFacts
<1>3. CASE ReadHead(r) \/ LTrigger(r)
  BY <1>1, <1>3, ReadingStepTakes
     DEF ReadHead, LTrigger, Trigger, LocalType, ReadingStep, OthersKept, OthersSame,
         Begun, Looking, Knows
<1>4. CASE LListEmpty(r)
  <2>1. parent[r] = Len(ledger) => ledger = <<>>
    <3>1. SUFFICES ASSUME parent[r] = Len(ledger), ledger # <<>> PROVE FALSE
      OBVIOUS
    <3>2. Generation(Len(ledger)) \in Gen /\ Generation(Len(ledger)) <= 0
      BY <1>1, <1>4, <3>1, LastFacts, ListedFacts DEF LListEmpty
    <3> QED BY <3>2 DEF Gen
  <2> QED BY <1>1, <1>2, <1>4, <2>1, ReadingStepTakes
      DEF LListEmpty, LocalType, ReadingStep, OthersKept, OthersSame, Begun, Looking
<1>5. CASE LList(r)
  BY <1>1, <1>5, ListedNotAbove, ReadingStepTakes
     DEF LList, LocalType, ReadingStep, OthersKept, OthersSame, Begun, Looking, Knows
<1>6. CASE Exists(r)
  BY <1>1, <1>6, ReadingStepTakes
     DEF TakeInv, TakeSane, Exists, LocalType, ReadingStep, OthersKept, OthersSame,
         Begun, Looking, Knows
<1>7. CASE Absent(r)
  BY <1>1, <1>2, <1>7, AbsentLooks, ReadingStepTakes
     DEF Absent, TakeInv, TakeSane, LocalType, ReadingStep, OthersKept, OthersSame,
         Begun, Looking
<1>8. CASE LRead(r)
  BY <1>1, <1>2, <1>8, ReadLooks, ReadingStepTakes
     DEF LRead, Read, TakeInv, TakeSane, LocalType, ReadingStep, OthersKept, OthersSame,
         Begun, Looking
<1>9. CASE JudgeAbsentFree(r) \/ LJudgeFree(r)
  <2>1. /\ pc'[r] = "create" /\ expires'[r] = Clock(r) + LEASE_TTL
        /\ UNCHANGED <<time, skew, stored, ledger, floating, fresh, parent>> /\ Observe
        /\ OthersKept(r)
    BY <1>1, <1>9
       DEF JudgeAbsentFree, LJudgeFree, JudgeFree, LocalType, OthersKept, OthersSame
  <2>2. parent'[r] = Len(ledger) /\ ledger # <<>> => Knows(r)'
    BY <1>9, <2>1, JudgeLooks
  <2> QED BY <1>2, <2>1, <2>2, ReadingStepTakes DEF ReadingStep, Begun, Looking
<1> QED BY <1>3, <1>4, <1>5, <1>6, <1>7, <1>8, <1>9

\* A head names the run whose commit raised: if its commit is the last one, it
\* is the one with the run's expiry.
LEMMA WonTakes ==
    ASSUME TakeInv, SkipInv', NEW r \in Run, UnclearWon(r)
    PROVE  TakeInv'
<1> USE DEF UnclearWon, Move, store, look, local, thread, ledgerVars
<1>1. LocalType /\ TakeSane(r) /\ PutsOwn /\ KeepsLast /\ UNCHANGED ledger
  BY SameObjects DEF TakeInv, SkipInv, LInv
<1>2. pc[r] = "unclear" /\ pc'[r] = "bucket" /\ "bucket" \notin Stored
  BY <1>1 DEF LocalType, Stored, Pruning, Holding, Releasing
<1>3. TakeSane(r)'
  <2>1. ~NotLast(r)' => Last.expires = expires[r]
    BY <1>1, <1>2 DEF TakeSane, NotLast
  <2>2. Last' = Last /\ Generation(Len(ledger))' = Generation(Len(ledger))
    BY <1>1 DEF Last, Generation
  <2>3. \A g \in fresh'[r] : g <= Generation(Len(ledger))'
    BY <1>1, <2>2 DEF TakeSane
  <2> QED BY <1>2, <2>1, <2>2, <2>3 DEF TakeSane, Looking, Knows
<1>4. OthersKept(r)
  BY <1>1 DEF LocalType, OthersKept, OthersSame
<1> QED BY <1>1, <1>3, <1>4, StepTakes

-----------------------------------------------------------------------------
(* The commits                                                             *)

\* The commits and their expiries, once another one is appended.
LEMMA AppendTimes ==
    ASSUME TakeInv, NEW entry \in Claimed, Append1(entry), UNCHANGED <<time, skew>>,
           entry.expires <= Clock(entry.run) + LEASE_TTL
    PROVE  Times' /\ Last'.expires = entry.expires
<1> DEFINE c == [run |-> entry.run, generation |-> entry.generation,
                 expires |-> entry.expires, old |-> entry.old, at |-> time]
<1>1. ledger' = Append(ledger, c) /\ floating' = {}
  BY DEF Append1
<1>2. /\ ledger \in Seq(Commit) /\ Len(ledger) \in Nat /\ time \in Nat
      /\ \A r \in Run : skew[r] \in Nat
  BY LengthType, LeaseConstants DEF TakeInv, SkipInv, LInv, LedgerType, ClockType
<1>3. /\ c.expires = entry.expires /\ c.at = time /\ c.run = entry.run
      /\ entry.run \in Run
  BY DEF Claimed
<1>4. c.at <= time /\ c.expires <= c.at + skew[c.run] + LEASE_TTL
  BY <1>2, <1>3 DEF Clock
<1> HIDE DEF c
<1>5. /\ Len(ledger') = Len(ledger) + 1 /\ ledger'[Len(ledger) + 1] = c
      /\ \A n \in 1..Len(ledger) : ledger'[n] = ledger[n]
  BY <1>1, <1>2
<1>6. \A n \in 1..Len(ledger') :
        /\ ledger'[n].at <= time
        /\ ledger'[n].expires <= ledger'[n].at + skew[ledger'[n].run] + LEASE_TTL
  <2> TAKE n \in 1..Len(ledger')
  <2>1. CASE n = Len(ledger) + 1
    BY <1>4, <1>5, <2>1
  <2>2. CASE n \in 1..Len(ledger)
    BY <1>5, <2>2 DEF TakeInv, Times
  <2> QED BY <1>2, <1>5, <2>1, <2>2
<1>7. Last'.expires = entry.expires
  BY <1>3, <1>5 DEF Last
<1> QED BY <1>1, <1>6, <1>7 DEF Times

\* What a run knows of the last commit is of no account once there is a newer
\* one: unless that one is its own, it is not named, and its generation and
\* those it may prune are older.
LEMMA OvertakenTakes ==
    ASSUME TakeInv, NEW s \in Run, Grown, floating' = {},
           Len(ledger') = Len(ledger) + 1, UNCHANGED <<time, skew>>,
           NEW last \in Gen, last > Generation(Len(ledger)),
           Generation(Len(ledger))' = last, Last'.generation = last,
           pc'[s] = pc[s], generation'[s] = generation[s], seen'[s] = seen[s],
           parent'[s] = parent[s], expires'[s] = expires[s], fresh'[s] = fresh[s],
           looked'[s] = looked[s],
           ~NotLast(s)' /\ pc[s] = "unclear" => Last'.expires = expires[s]
    PROVE  TakeSane(s)'
<1>1. LInv /\ TakeSane(s) /\ last \in Nat
  BY DEF TakeInv, SkipInv, Gen
<1>2. parent[s] # Len(ledger')
  BY <1>1, RunFacts, LengthType DEF LocalType
<1>3. Generation(Len(ledger)) \in Nat
  BY <1>1, GenerationType, LengthType
<1>4. pc[s] \in Stored \cup {"bucket"} => generation[s] # last
  <2>1. SUFFICES ASSUME pc[s] \in Stored \cup {"bucket"} PROVE generation[s] # last
    OBVIOUS
  <2>2. Gave(s, generation[s]) /\ generation[s] \in Gen
    BY <1>1, <2>1, PutterFacts DEF Stored, Putting
  <2>3. generation[s] <= Generation(Len(ledger))
    BY <1>1, <2>2, GivenNotAbove
  <2> QED BY <1>1, <1>3, <2>2, <2>3 DEF Gen
<1>5. \A g \in fresh[s] : g <= last
  <2> TAKE g \in fresh[s]
  <2>1. g \in Nat /\ g <= Generation(Len(ledger))
    BY <1>1 DEF TakeSane, LInv, LocalType, Gen
  <2> QED BY <1>1, <1>3, <2>1
<1>6. pc[s] = "create" => expires[s] <= Clock(s)' + LEASE_TTL
  BY <1>1 DEF TakeSane, Clock
<1>7. pc[s] = "absent" => looked[s] <= time
  BY <1>1 DEF TakeSane
<1> QED BY <1>2, <1>4, <1>5, <1>6, <1>7 DEF TakeSane

LEMMA ClaimTakes ==
    ASSUME TakeInv, SkipInv', NEW r \in Run, Claim(r)
    PROVE  TakeInv'
<1>1. /\ LInv /\ LocalType /\ Append1(Entry(r)) /\ parent[r] = Len(ledger)
      /\ UNCHANGED <<time, skew, expires, fresh>> /\ pc[r] = "create"
  BY ClaimFacts DEF TakeInv, SkipInv, LInv
<1>2. /\ Entry(r) \in Claimed /\ Entry(r).run = r
      /\ Entry(r).generation = generation'[r]
      /\ Entry(r).generation > Generation(Len(ledger))
      /\ OthersSame(r) /\ pc'[r] = "bucket" /\ parent'[r] = 0
  BY <1>1, ClaimFacts DEF LocalType
<1>3. Entry(r).expires = expires[r] /\ expires[r] <= Clock(r) + LEASE_TTL
  BY <1>1, ClaimFacts DEF TakeInv, TakeSane
<1>4. PICK entry \in Claimed : entry = Entry(r)
  BY <1>2
<1>5. /\ Grown /\ floating' = {} /\ Len(ledger') = Len(ledger) + 1
      /\ ledger'[Len(ledger')].run = r /\ ledger' # <<>>
      /\ Generation(Len(ledger))' = entry.generation
  <2>1. /\ Grown /\ floating' = {} /\ Len(ledger') = Len(ledger) + 1
        /\ ledger'[Len(ledger')].run = r
        /\ Generation(Len(ledger))' = entry.generation
    BY <1>1, <1>2, <1>4, AppendSilences DEF TakeInv
  <2> QED BY <1>1, <2>1, LengthType
<1>6. Times' /\ Last'.expires = expires[r]
  BY <1>1, <1>2, <1>3, <1>4, AppendTimes
<1>7. PICK last \in Gen : last = entry.generation
  BY DEF Claimed
<1>8. Last'.generation = last
  BY <1>1, <1>5, <1>7, LengthType DEF Generation, Last
<1>9. ASSUME NEW s \in Run \ {r}
      PROVE  TakeSane(s)'
  <2>1. NotLast(s)'
    BY <1>5 DEF NotLast
  <2> QED BY <1>1, <1>2, <1>4, <1>5, <1>7, <1>8, <2>1, OvertakenTakes DEF OthersSame
<1>10. TakeSane(r)'
  <2>1. expires'[r] = expires[r] /\ fresh'[r] = fresh[r]
    BY <1>1
  <2>2. \A g \in fresh[r] : g <= last
    <3> TAKE g \in fresh[r]
    <3>1. g \in Nat /\ g <= Generation(Len(ledger)) /\ Generation(Len(ledger)) \in Nat
      BY <1>1, GenerationType, LengthType DEF TakeInv, TakeSane, LocalType, Gen
    <3> QED BY <1>2, <1>4, <1>7, <3>1 DEF Gen
  <2> QED BY <1>2, <1>5, <1>6, <1>7, <2>1, <2>2
      DEF TakeSane, Stored, Pruning, Holding, Releasing, Looking, Knows
<1> QED BY <1>5, <1>6, <1>9, <1>10 DEF TakeInv, Offered

\* A commit lands: its run waits still, with the expiry that it asked for.
LEMMA LandTakes ==
    ASSUME TakeInv, SkipInv', NEW entry \in floating, Land(entry)
    PROVE  TakeInv'
<1> USE DEF Land, store, look, local, thread
<1>1. /\ LInv /\ entry \in Claimed /\ entry.run \in Run
      /\ entry.generation > Generation(Len(ledger))
  BY DEF TakeInv, SkipInv, LInv, LedgerType, Floats, Claimed
<1>2. /\ Grown /\ floating' = {} /\ Len(ledger') = Len(ledger) + 1 /\ ledger' # <<>>
      /\ ledger'[Len(ledger')].run = entry.run
      /\ Generation(Len(ledger))' = entry.generation
  <2>1. /\ Grown /\ floating' = {} /\ Len(ledger') = Len(ledger) + 1
        /\ ledger'[Len(ledger')].run = entry.run
        /\ Generation(Len(ledger))' = entry.generation
    BY <1>1, AppendSilences DEF TakeInv
  <2> QED BY <1>1, <2>1, LengthType
<1>3. Times' /\ Last'.expires = entry.expires
  BY <1>1, AppendTimes DEF TakeInv, Times
<1>4. PICK last \in Gen : last = entry.generation
  BY <1>1 DEF Claimed
<1>5. Last'.generation = last
  BY <1>1, <1>2, <1>4, LengthType DEF Generation, Last
<1>6. ASSUME NEW s \in Run
      PROVE  TakeSane(s)'
  <2>1. ~NotLast(s)' /\ pc[s] = "unclear" => Last'.expires = expires[s]
    BY <1>2, <1>3 DEF NotLast, TakeInv, TakeSane
  <2> QED BY <1>1, <1>2, <1>4, <1>5, <2>1, OvertakenTakes
<1> QED BY <1>2, <1>3, <1>6 DEF TakeInv, Offered

\* A commit raises: it may still land, if it was made from the last head.
LEMMA UnclearTakes ==
    ASSUME TakeInv, SkipInv', NEW r \in Run, ClaimUnclear(r)
    PROVE  TakeInv'
<1>1. /\ LInv /\ LocalType /\ TakeSane(r)
      /\ UNCHANGED <<ledger, parent, time, skew, stored, object, expires, fresh>>
      /\ Observe /\ pc[r] = "create"
      /\ floating' = IF Parented(r) THEN floating \cup {Entry(r)} ELSE floating
  BY UnclearFacts DEF TakeInv, SkipInv, LInv
<1>2. /\ Entry(r).run = r /\ Entry(r).expires = expires[r] /\ Entry(r).old = OldLook(r)
      /\ OthersSame(r) /\ pc'[r] = "unclear"
  BY <1>1, UnclearFacts
<1>3. expires[r] <= Clock(r) + LEASE_TTL /\ Silent(r)
  BY <1>1 DEF TakeSane, TakeInv, SkipInv, SkipSane, Begun
<1>4. Last' = Last /\ Generation(Len(ledger))' = Generation(Len(ledger))
      /\ \A s \in Run : Clock(s)' = Clock(s)
  BY <1>1 DEF Last, Generation, Clock
<1>5. PutsOwn /\ KeepsLast /\ time \in Nat /\ time' >= time
  BY <1>1, SameObjects, LeaseConstants DEF LInv, ClockType
<1>6. Times'
  <2>1. ASSUME NEW entry \in floating'
        PROVE  entry.expires <= Clock(entry.run)' + LEASE_TTL
    BY <1>1, <1>2, <1>3 DEF Clock, TakeInv, Times
  <2> QED BY <1>1, <2>1 DEF TakeInv, Times
<1>7. Offered'
  <2>1. ledger # <<>> /\ Lapsed => Lapsed'
    BY <1>1, <1>5, LapsedStays
  <2>2. \A entry \in floating' : ledger = <<>> \/ Lapsed \/ entry.old
    BY <1>1, <1>2 DEF TakeInv, Offered, TakeSane, Knows, Parented
  <2> QED BY <1>1, <2>1, <2>2 DEF Offered
<1>8. ASSUME NEW s \in Run \ {r}
      PROVE  TakeSane(s)'
  <2>1. \A entry \in floating' : entry.run = s => entry \in floating
    BY <1>1, <1>2
  <2> QED BY <1>1, <1>2, <1>5, <2>1, OtherTakes DEF OthersSame
<1>9. TakeSane(r)'
  <2>1. \A entry \in floating' : entry.run = r => entry.expires = expires[r]
    BY <1>1, <1>2, <1>3 DEF Silent
  <2>2. NotLast(r)'
    BY <1>1, <1>3 DEF Silent, NotLast
  <2>3. \A g \in fresh[r] : g <= Generation(Len(ledger))
    BY <1>1 DEF TakeSane
  <2> QED BY <1>1, <1>2, <1>4, <2>1, <2>2, <2>3
      DEF TakeSane, Stored, Pruning, Holding, Releasing, Looking, Knows
<1> QED BY <1>6, <1>7, <1>8, <1>9 DEF TakeInv

-----------------------------------------------------------------------------
(* Every step                                                              *)

LEMMA TickTakes ==
    ASSUME TakeInv, SkipInv', LTick
    PROVE  TakeInv'
<1> USE DEF LTick, Tick, store, look, local, thread, ledgerVars
<1>1. /\ PutsOwn /\ KeepsLast /\ time' \in Nat /\ time' >= time
      /\ UNCHANGED <<ledger, skew, floating, pc, local, parent>> /\ Observe
  BY SameObjects, LeaseConstants DEF TakeInv, SkipInv, LInv, ClockType
<1>2. Times'
  BY <1>1, TimesStay
<1>3. Offered'
  BY <1>1, LapsedStays DEF TakeInv, Offered
<1>4. \A s \in Run : TakeSane(s)'
  BY <1>1, OtherTakes
<1> QED BY <1>2, <1>3, <1>4 DEF TakeInv

LEMMA StutterTakes ==
    ASSUME TakeInv, SkipInv', UNCHANGED allVars
    PROVE  TakeInv'
<1> USE DEF allVars, vars, store, look, local, thread, ledgerVars
<1>1. Times' /\ (Lapsed <=> Lapsed') /\ Last' = Last
  BY DEF TakeInv, Times, Lapsed, Clock, Last
<1>2. Offered'
  BY <1>1 DEF TakeInv, Offered
<1>3. \A s \in Run : TakeSane(s)'
  BY <1>1 DEF TakeInv, TakeSane, NotLast, Generation, Clock, Knows, OldLook
<1> QED BY <1>1, <1>2, <1>3 DEF TakeInv

LEMMA TakeStep == TakeInv /\ [LNext]_allVars => TakeInv'
<1> SUFFICES ASSUME TakeInv, [LNext]_allVars PROVE TakeInv'
  OBVIOUS
<1>1. SkipInv'
  BY SkipStep DEF TakeInv
<1>2. CASE UNCHANGED allVars
  BY <1>1, <1>2, StutterTakes
<1>3. CASE LTick
  BY <1>1, <1>3, TickTakes
<1>4. CASE \E entry \in floating : Land(entry)
  BY <1>1, <1>4, LandTakes
<1>5. ASSUME NEW r \in Run,
             \/ LAcquire(r) \/ LFault(r) \/ LHeartbeat(r) \/ LAssertHeld(r)
             \/ LFinish(r) \/ LRelease(r) \/ LTrigger(r)
      PROVE  TakeInv'
  <2>1. CASE LAcquire(r)
    BY <1>1, <2>1, ReadingTakes, EndingTakes, ClaimTakes, WonTakes, PutTakes,
       StoringTakes, PruningTakes
       DEF LAcquire
  <2>2. CASE LFault(r)
    BY <1>1, <2>2, UnclearTakes, FailedPutTakes, EndingTakes DEF LFault
  <2>3. CASE LHeartbeat(r) \/ LAssertHeld(r) \/ LFinish(r) \/ LRelease(r)
    BY <1>1, <2>3, HoldingTakes
  <2>4. CASE LTrigger(r)
    BY <1>1, <2>4, ReadingTakes
  <2> QED BY <1>5, <2>1, <2>2, <2>3, <2>4
<1> QED BY <1>2, <1>3, <1>4, <1>5 DEF LNext

LEMMA TakeInitial == LInit => TakeInv
<1> SUFFICES ASSUME LInit PROVE TakeInv
  OBVIOUS
<1>1. /\ ledger = <<>> /\ floating = {} /\ pc = [r \in Run |-> "idle"]
      /\ fresh = [r \in Run |-> {}] /\ Len(ledger) = 0
  BY DEF LInit, Init
<1>2. Times /\ Offered
  BY <1>1 DEF Times, Offered
<1>3. \A r \in Run : TakeSane(r)
  BY <1>1 DEF TakeSane, Stored, Pruning, Holding, Releasing, Looking
<1> QED BY <1>2, <1>3, SkipInitial DEF TakeInv

\* The last commit keeps how its taker looked.
LEMMA AppendOld ==
    ASSUME LInv, NEW entry, Append1(entry)
    PROVE  /\ Len(ledger') = Len(ledger) + 1 /\ ledger' # <<>>
           /\ ledger'[Len(ledger')].old = entry.old
<1> DEFINE c == [run |-> entry.run, generation |-> entry.generation,
                 expires |-> entry.expires, old |-> entry.old, at |-> time]
<1>1. ledger' = Append(ledger, c) /\ ledger \in Seq(Commit) /\ Len(ledger) \in Nat
  BY LengthType DEF Append1, LInv, LedgerType
<1>2. c.old = entry.old
  OBVIOUS
<1> HIDE DEF c
<1>3. Len(ledger') = Len(ledger) + 1 /\ ledger'[Len(ledger) + 1] = c
  BY <1>1
<1> QED BY <1>1, <1>2, <1>3

\* Only a commit changes the ledger, and one that does is made, or was made,
\* when the last generation had lapsed, or on an old look.
LEMMA GrowsWhenLapsed ==
    ASSUME TakeInv, [LNext]_allVars, ledger' # ledger, ledger # <<>>
    PROVE  Lapsed \/ ledger'[Len(ledger')].old
<1>1. SkipInv /\ LInv
  BY DEF TakeInv, SkipInv
<1>2. CASE UNCHANGED allVars \/ LTick
  BY <1>2 DEF allVars, ledgerVars, LTick
<1>3. CASE \E entry \in floating : Land(entry)
  <2>1. PICK entry \in floating : Land(entry)
    BY <1>3
  <2>2. Lapsed \/ entry.old
    BY DEF TakeInv, Offered
  <2>3. ledger'[Len(ledger')].old = entry.old
    BY <1>1, <2>1, AppendOld DEF Land
  <2> QED BY <2>2, <2>3
<1>4. ASSUME NEW r \in Run,
             \/ LAcquire(r) \/ LFault(r) \/ LHeartbeat(r) \/ LAssertHeld(r)
             \/ LFinish(r) \/ LRelease(r) \/ LTrigger(r)
      PROVE  Lapsed \/ ledger'[Len(ledger')].old
  <2>1. CASE Claim(r)
    <3>1. Append1(Entry(r)) /\ pc[r] = "create" /\ parent[r] = Len(ledger)
          /\ Entry(r).old = OldLook(r)
      BY <1>1, <2>1, ClaimFacts
    <3>2. Lapsed \/ OldLook(r)
      BY <3>1 DEF TakeInv, TakeSane, Knows
    <3>3. ledger'[Len(ledger')].old = Entry(r).old
      BY <1>1, <3>1, AppendOld
    <3> QED BY <3>1, <3>2, <3>3
  <2>2. CASE ClaimUnclear(r)
    BY <2>2 DEF ClaimUnclear
  <2>3. CASE Quiet(r)
    BY <2>3 DEF Quiet
  <2>4. LAcquire(r) => Claim(r) \/ Quiet(r)
    BY <1>1, BeginningIsQuiet, WinningIsQuiet, EndingIsQuiet, FailingIsQuiet DEF LAcquire
  <2>5. LFault(r) => ClaimUnclear(r) \/ Quiet(r)
    BY <1>1, EndingIsQuiet, FailingIsQuiet DEF LFault
  <2>6. LHeartbeat(r) \/ LAssertHeld(r) \/ LFinish(r) \/ LRelease(r) \/ LTrigger(r)
            => Quiet(r)
    BY <1>1, HoldingIsQuiet, BeginningIsQuiet
  <2> QED BY <1>4, <2>1, <2>2, <2>3, <2>4, <2>5, <2>6
<1> QED BY <1>2, <1>3, <1>4 DEF LNext

\* The ledger gives a new generation away only when the last one is over, or its
\* winner has not put its object and comes too late with it, or to a taker that
\* judged an old look: whatever the skew of the clocks, and though commits are
\* made on stale heads, raise and land late.
THEOREM TakenWhenOver == LSpec => TakenOnlyWhenOver
<1>1. TakeInv /\ [LNext]_allVars =>
        [(ledger' # ledger /\ ledger # <<>>) => Lapsed \/ ledger'[Len(ledger')].old]_allVars
  BY GrowsWhenLapsed
<1> QED BY <1>1, TakeInitial, TakeStep, PTL DEF LSpec, TakenOnlyWhenOver


-----------------------------------------------------------------------------
(* The ledger implements the chain of generations                          *)

Early == {"idle", "list", "skipped"}

\* A run asks for the successor of the generation it looked at, which is the
\* last one unless the ledger has grown since.
NextSane(r) ==
    /\ pc[r] \in Early => seen[r] = 0
    /\ pc[r] = "create" /\ parent[r] = Len(ledger) => seen[r] <= Generation(Len(ledger))

NextOffered ==
    \A entry \in floating : entry.generation = Generation(Len(ledger)) + 1

NextInv == TakeInv /\ NextOffered /\ \A r \in Run : NextSane(r)

ChainStep == [LedgerPromise!Give \/ LedgerPromise!Lapse]_(LedgerPromise!chain)

\* What a step that asks for nothing does to the generation a run looks at.
Looks(r) ==
    /\ pc'[r] \in Early => seen'[r] = 0
    /\ pc'[r] = "create" =>
        /\ pc[r] \in {"list", "absent", "judge"}
        /\ seen'[r] = seen[r] /\ parent'[r] = parent[r]

LEMMA ReadingLooks ==
    ASSUME NextInv, NEW r \in Run,
           \/ ReadHead(r) \/ LListEmpty(r) \/ LList(r) \/ Exists(r)
           \/ Absent(r) \/ JudgeAbsentFree(r) \/ LRead(r) \/ LJudgeFree(r)
           \/ LTrigger(r)
    PROVE  Looks(r)
<1> USE DEF Looks, Early, Move, store, look, local, thread, ledgerVars
<1>1. LocalType /\ NextSane(r)
  BY DEF NextInv, TakeInv, SkipInv, LInv
<1>2. CASE ReadHead(r) \/ LTrigger(r)
  BY <1>1, <1>2 DEF LocalType, NextSane, ReadHead, LTrigger, Trigger
<1>3. CASE LListEmpty(r) \/ LList(r)
  BY <1>1, <1>3 DEF LocalType, LListEmpty, LList
<1>4. CASE Exists(r) \/ Absent(r) \/ JudgeAbsentFree(r)
  BY <1>1, <1>4 DEF LocalType, Exists, Absent, JudgeAbsentFree
<1>5. CASE LRead(r) \/ LJudgeFree(r)
  BY <1>1, <1>5 DEF LocalType, LRead, Read, LJudgeFree, JudgeFree
<1> QED BY <1>2, <1>3, <1>4, <1>5

LEMMA ExitLooks ==
    ASSUME NextInv, NEW r \in Run, NEW f, NEW t \in Ended, Exit(r, f, t)
    PROVE  Looks(r)
BY DEF Looks, Early, Exit, Move, Ended, NextInv, TakeInv, SkipInv, LInv, LocalType

LEMMA EndingLooks ==
    ASSUME NextInv, NEW r \in Run,
           \/ JudgeAbsentHeld(r) \/ LJudgeHeld(r) \/ LReadGone(r)
           \/ ClaimConflict(r) \/ UnclearLost(r) \/ UnclearFails(r)
           \/ ConfirmFails(r) \/ LedgerDown(r) \/ LObjectGone(r) \/ StoredTwice(r)
           \/ LCrash(r) \/ PutObjectFails(r) \/ LStoreFails(r)
    PROVE  Looks(r)
<1>1. PICK f : \E t \in Ended : Exit(r, f, t)
  BY Zenon DEF JudgeAbsentHeld, LJudgeHeld, LReadGone, ReadGone, ClaimConflict, UnclearLost,
               UnclearFails, ConfirmFails, LedgerDown, LObjectGone, ObjectGone,
               StoredTwice, LCrash, Crash, PutObjectFails, LStoreFails, StoreFails,
               LExit, Ended
<1> QED BY <1>1, ExitLooks

LEMMA WinningLooks ==
    ASSUME NextInv, NEW r \in Run,
           \/ UnclearWon(r) \/ PutObject(r) \/ Confirm(r) \/ LStoreAnchor(r)
           \/ LStoreMarker(r) \/ StatAndList(r) \/ LPrune(r)
           \/ LHeartbeat(r) \/ LAssertHeld(r) \/ LFinish(r) \/ LRelease(r)
    PROVE  Looks(r)
<1> USE DEF Looks, Early, Move, look, local, thread
<1>1. LocalType
  BY DEF NextInv, TakeInv, SkipInv, LInv
<1>2. CASE UnclearWon(r) \/ PutObject(r) \/ LStoreAnchor(r) \/ LStoreMarker(r) \/ StatAndList(r)
  BY <1>1, <1>2 DEF LocalType, UnclearWon, PutObject, LStoreAnchor, LStoreMarker,
                    StoreAnchor, StoreMarker, StatAndList
<1>3. CASE Confirm(r)
  BY <1>1, <1>3 DEF LocalType, Confirm
<1>4. CASE LPrune(r)
  <2>1. \E to \in {"prune", "delete", "held"} : pc' = [pc EXCEPT ![r] = to]
    BY <1>4 DEF LPrune, PruneKeep, PruneMarker, PruneObject, Hold
  <2> QED BY <1>1, <2>1 DEF LocalType
<1>5. CASE LHeartbeat(r)
  <2>1. pc' = pc /\ beat[r] # "off"
    BY <1>5 DEF LHeartbeat, RenewRead, RenewPut, RenewFails
  <2>2. pc[r] \in Holding \cup {"release"}
    BY <2>1 DEF NextInv, TakeInv, SkipInv, LInv, RunSane
  <2> QED BY <2>1, <2>2 DEF Holding
<1>6. CASE LAssertHeld(r) \/ LFinish(r) \/ LRelease(r)
  BY <1>1, <1>6 DEF LocalType, LAssertHeld, AssertNext, AssertOwn, AssertClock, AssertLost,
                    LFinish, Finish, LRelease, ReleaseStop, ReleasePut
<1> QED BY <1>2, <1>3, <1>4, <1>5, <1>6

\* A step that asks for nothing keeps the invariant.
LEMMA LooksKeeps ==
    ASSUME NextInv, TakeInv', NEW r \in Run, Quiet(r), Looks(r)
    PROVE  NextInv'
<1>1. /\ LInv /\ UNCHANGED <<ledger, floating>> /\ OthersSame(r)
      /\ Generation(Len(ledger))' = Generation(Len(ledger))
      /\ Generation(Len(ledger)) \in Nat /\ seen[r] \in Nat
  <2>1. LInv /\ UNCHANGED <<ledger, floating>> /\ OthersSame(r)
    BY DEF NextInv, TakeInv, SkipInv, Quiet
  <2>2. Generation(Len(ledger)) \in 0..MaxGen /\ seen[r] \in 0..MaxGen
    BY <2>1, GenerationType, LengthType DEF LInv, LocalType
  <2> QED BY <2>1, <2>2, LeaseConstants DEF Generation
<1>2. NextOffered'
  BY <1>1 DEF NextInv, NextOffered
<1>3. NextSane(r)'
  <2>1. pc'[r] = "create" /\ parent'[r] = Len(ledger) => seen'[r] <= Generation(Len(ledger))
    BY <1>1 DEF Looks, Early, NextInv, NextSane, TakeInv, TakeSane, Looking
  <2> QED BY <1>1, <2>1 DEF Looks, NextSane
<1>4. ASSUME NEW s \in Run \ {r} PROVE NextSane(s)'
  BY <1>1 DEF OthersSame, NextInv, NextSane
<1> QED BY <1>2, <1>3, <1>4 DEF NextInv

LEMMA NoneBetween ==
    ASSUME NEW a \in Nat, NEW b \in Nat, a <= b, a + 1 > b
    PROVE  a + 1 = b + 1
  OBVIOUS

\* What a run asks for from the last head is the successor of the last commit.
LEMMA AsksNext ==
    ASSUME NextInv, NEW r \in Run, pc[r] = "create", parent[r] = Len(ledger),
           Entry(r).generation > Generation(Len(ledger))
    PROVE  Entry(r).generation = Generation(Len(ledger)) + 1
<1>1. Entry(r).generation = seen[r] + 1 /\ seen[r] <= Generation(Len(ledger))
  BY DEF Entry, NextInv, NextSane
<1>2. seen[r] \in Nat /\ Generation(Len(ledger)) \in Nat
  <2>1. LInv /\ seen[r] \in 0..MaxGen
    BY DEF NextInv, TakeInv, SkipInv, LInv, LocalType
  <2>2. Generation(Len(ledger)) \in 0..MaxGen
    BY <2>1, GenerationType, LengthType
  <2> QED BY <2>1, <2>2, LeaseConstants
<1> QED BY <1>1, <1>2, NoneBetween

\* A commit is of the successor of the last one, and silences the offers.
LEMMA NextAppends ==
    ASSUME NextInv, TakeInv', NEW entry \in Claimed, Append1(entry),
           entry.generation = Generation(Len(ledger)) + 1,
           \A s \in Run : pc'[s] = "create" =>
                pc[s] = "create" /\ parent'[s] = parent[s],
           \A s \in Run : pc'[s] \in Early => pc[s] \in Early /\ seen'[s] = seen[s]
    PROVE  NextInv'
<1>1. LInv /\ Generation(Len(ledger)) \in Nat /\ Len(ledger) \in Nat
  <2>1. LInv /\ Generation(Len(ledger)) \in 0..MaxGen
    BY GenerationType, LengthType DEF NextInv, TakeInv, SkipInv
  <2> QED BY <2>1, LengthType, LeaseConstants
<1>2. floating' = {} /\ Len(ledger') = Len(ledger) + 1
  BY <1>1 DEF Append1, LInv, LedgerType
<1>3. ASSUME NEW s \in Run PROVE NextSane(s)'
  <2>1. pc'[s] = "create" => parent'[s] <= Len(ledger) /\ parent'[s] \in Nat
    BY <1>1 DEF LInv, RunSane, LocalType
  <2>2. ~(pc'[s] = "create" /\ parent'[s] = Len(ledger'))
    BY <1>1, <1>2, <2>1
  <2> QED BY <2>2 DEF NextSane, NextInv
<1> QED BY <1>2, <1>3 DEF NextInv, NextOffered

\* A commit on the ledger gives the next generation away.
LEMMA AppendGives ==
    ASSUME NextInv, LInv', [LNext]_allVars, NEW entry \in Claimed, Append1(entry),
           entry.generation = Generation(Len(ledger)) + 1
    PROVE  LedgerPromise!Give
<1>1. LInv /\ entry.generation > Generation(Len(ledger))
  <2>1. LInv /\ Generation(Len(ledger)) \in 0..MaxGen
    BY GenerationType, LengthType DEF NextInv, TakeInv, SkipInv
  <2> QED BY <2>1, LeaseConstants
<1>2. /\ Len(ledger') = Len(ledger) + 1 /\ Len(ledger) \in Nat
      /\ ledger'[Len(ledger')].generation = entry.generation
      /\ ledger'[Len(ledger')].run = entry.run /\ entry.run \in Run
  BY <1>1, LengthType DEF Append1, LInv, LedgerType, Claimed
<1>3. ledger' # ledger /\ ledger' # <<>>
  BY <1>2
<1>4. Generation(Len(ledger))' = Generation(Len(ledger)) + 1
  BY <1>2 DEF Generation
<1>5. Generation(Len(ledger)) = 0 \/ (ledger # <<>> /\ Lapsed) \/ (ledger # <<>> /\ Last.old)'
  <2>1. CASE ledger = <<>>
    BY <2>1 DEF Generation
  <2>2. CASE ledger # <<>>
    <3>1. Lapsed \/ ledger'[Len(ledger')].old
      BY <1>3, <2>2, GrowsWhenLapsed DEF NextInv
    <3> QED BY <1>3, <2>2, <3>1 DEF Last
  <2> QED BY <2>1, <2>2
<1>6. (IF ledger = <<>> THEN NoRun ELSE Last.run)' \in Run \cup {NoRun}
  BY <1>2, <1>3 DEF Last
<1>7. (ledger # <<>> /\ Lapsed)' \in BOOLEAN
  BY Zenon DEF Lapsed
<1>8. (ledger # <<>> /\ Last.old)' \in BOOLEAN
  BY Zenon
<1> QED BY <1>4, <1>5, <1>6, <1>7, <1>8 DEF LedgerPromise!Give

LEMMA ClaimGives ==
    ASSUME NextInv, TakeInv', [LNext]_allVars, NEW r \in Run, Claim(r)
    PROVE  NextInv' /\ LedgerPromise!Give
<1>1. /\ LInv /\ LInv' /\ Append1(Entry(r)) /\ parent[r] = Len(ledger)
      /\ parent' = [parent EXCEPT ![r] = 0] /\ pc[r] = "create"
  BY ClaimFacts DEF NextInv, TakeInv, SkipInv
<1>2. /\ Entry(r) \in Claimed /\ Entry(r).generation > Generation(Len(ledger))
      /\ OthersSame(r) /\ pc'[r] = "bucket"
  BY <1>1, ClaimFacts
<1>3. Entry(r).generation = Generation(Len(ledger)) + 1
  BY <1>1, <1>2, AsksNext
<1>4. \A s \in Run : s = r \/ (pc'[s] = pc[s] /\ seen'[s] = seen[s] /\ parent'[s] = parent[s])
  BY <1>2 DEF OthersSame
<1>5. NextInv'
  BY <1>1, <1>2, <1>3, <1>4, NextAppends DEF Early
<1> QED BY <1>1, <1>2, <1>3, <1>5, AppendGives

LEMMA LandGives ==
    ASSUME NextInv, TakeInv', [LNext]_allVars, NEW entry \in floating, Land(entry)
    PROVE  NextInv' /\ LedgerPromise!Give
<1>1. /\ LInv' /\ entry \in Claimed /\ Append1(entry)
      /\ UNCHANGED <<pc, parent, seen>>
      /\ entry.generation = Generation(Len(ledger)) + 1
  BY DEF NextInv, TakeInv, SkipInv, LInv, LedgerType, Claimed, NextOffered, Land, store, local
<1> QED BY <1>1, NextAppends, AppendGives

LEMMA UnclearNext ==
    ASSUME NextInv, TakeInv', NEW r \in Run, ClaimUnclear(r)
    PROVE  NextInv'
<1>1. /\ LInv /\ UNCHANGED <<ledger, parent>> /\ pc[r] = "create"
      /\ floating' = IF Parented(r) THEN floating \cup {Entry(r)} ELSE floating
  BY UnclearFacts DEF NextInv, TakeInv, SkipInv
<1>2. /\ Parented(r) => Entry(r).generation > Generation(Len(ledger))
      /\ OthersSame(r) /\ pc'[r] = "unclear"
  BY <1>1, UnclearFacts
<1>3. Generation(Len(ledger))' = Generation(Len(ledger))
  BY <1>1 DEF Generation
<1>4. Parented(r) => Entry(r).generation = Generation(Len(ledger)) + 1
  BY <1>1, <1>2, AsksNext DEF Parented
<1>5. NextOffered'
  BY <1>1, <1>3, <1>4 DEF NextInv, NextOffered
<1>6. ASSUME NEW s \in Run PROVE NextSane(s)'
  <2>1. CASE s = r
    BY <1>2, <2>1 DEF NextSane, Early
  <2>2. CASE s # r
    BY <1>1, <1>2, <1>3, <2>2 DEF OthersSame, NextInv, NextSane
  <2> QED BY <2>1, <2>2
<1> QED BY <1>5, <1>6 DEF NextInv

-----------------------------------------------------------------------------
(* What lapsed stays so, or is succeeded                                   *)

\* Whatever a run does but to commit, it puts no object of the last generation
\* but the winner's own, and looks at its clock.
Patient(r) == PutsOwn /\ UNCHANGED <<time, skew>> /\ Observe

LEMMA HoldingIsPatient ==
    ASSUME TakeInv, NEW r \in Run,
           LHeartbeat(r) \/ LAssertHeld(r) \/ LFinish(r) \/ LRelease(r)
    PROVE  Patient(r)
<1> USE DEF Move, Unname, look, local, thread, store, ledgerVars
<1>1. LocalType /\ pc[r] \in Stored
  <2>1. LInv /\ LocalType
    BY DEF TakeInv, SkipInv, LInv
  <2>2. pc[r] \in Holding \cup Releasing
    BY <2>1, RunFacts
       DEF LHeartbeat, RenewRead, RenewPut, RenewFails, LAssertHeld, AssertNext,
           AssertOwn, AssertClock, AssertLost, LFinish, Finish, LRelease,
           ReleaseStop, ReleasePut, Holding, Releasing
  <2> QED BY <2>1, <2>2 DEF Stored
<1>2. UNCHANGED stored \/ stored' = stored \cup {generation[r]}
  BY DEF LHeartbeat, RenewRead, RenewPut, RenewFails, LAssertHeld, AssertNext,
         AssertOwn, AssertClock, AssertLost, LFinish, Finish, LRelease,
         ReleaseStop, ReleasePut, PutOwn
<1>3. UNCHANGED <<time, skew>> /\ Observe
  BY DEF LHeartbeat, RenewRead, RenewPut, RenewFails, LAssertHeld, AssertNext,
         AssertOwn, AssertClock, AssertLost, LFinish, Finish, LRelease,
         ReleaseStop, ReleasePut
<1> QED BY <1>1, <1>2, <1>3, SameObjects, OverwritesOwn DEF Patient

LEMMA WorkingIsPatient ==
    ASSUME TakeInv, NEW r \in Run,
           \/ ReadHead(r) \/ LListEmpty(r) \/ LList(r) \/ Exists(r)
           \/ Absent(r) \/ JudgeAbsentFree(r) \/ LRead(r) \/ LJudgeFree(r)
           \/ LTrigger(r) \/ ClaimUnclear(r)
           \/ UnclearWon(r) \/ Confirm(r) \/ LStoreAnchor(r) \/ LStoreMarker(r)
           \/ StatAndList(r) \/ PutObject(r) \/ LPrune(r)
    PROVE  Patient(r)
<1> USE DEF Patient, Move, Unname, look, local, thread, store, ledgerVars
<1>1. CASE \/ ReadHead(r) \/ LListEmpty(r) \/ LList(r) \/ Exists(r) \/ Absent(r)
           \/ JudgeAbsentFree(r) \/ LRead(r) \/ LJudgeFree(r) \/ LTrigger(r) \/ ClaimUnclear(r) \/ UnclearWon(r)
           \/ Confirm(r) \/ LStoreAnchor(r) \/ LStoreMarker(r) \/ StatAndList(r)
  BY <1>1, SameObjects
     DEF ReadHead, LListEmpty, LList, Exists, Absent, JudgeAbsentFree, LRead, Read,
         LJudgeFree, JudgeFree, LTrigger, Trigger, ClaimUnclear, Ask, UnclearWon, Confirm, LStoreAnchor, StoreAnchor,
         LStoreMarker, StoreMarker, StatAndList
<1>2. CASE PutObject(r)
  BY <1>2, FirstPut DEF PutObject
<1>3. CASE LPrune(r)
  <2>1. stored' \subseteq stored /\ UNCHANGED <<time, skew>> /\ Observe
    BY <1>3 DEF LPrune, PruneKeep, PruneMarker, PruneObject, Hold
  <2> QED BY <2>1 DEF PutsOwn
<1> QED BY <1>1, <1>2, <1>3

LEMMA EndingIsPatient ==
    ASSUME TakeInv, NEW r \in Run,
           \/ JudgeAbsentHeld(r) \/ LJudgeHeld(r) \/ LReadGone(r)
           \/ ClaimConflict(r) \/ UnclearLost(r) \/ UnclearFails(r)
           \/ ConfirmFails(r) \/ LedgerDown(r) \/ LObjectGone(r) \/ StoredTwice(r)
           \/ LCrash(r) \/ PutObjectFails(r) \/ LStoreFails(r)
    PROVE  Patient(r)
<1> USE DEF Patient, store
<1>1. CASE \/ JudgeAbsentHeld(r) \/ LJudgeHeld(r) \/ LReadGone(r)
           \/ ClaimConflict(r) \/ UnclearLost(r) \/ UnclearFails(r)
           \/ ConfirmFails(r) \/ LedgerDown(r) \/ LObjectGone(r) \/ StoredTwice(r)
           \/ LCrash(r)
  BY <1>1, SameObjects
     DEF JudgeAbsentHeld, LJudgeHeld, LReadGone, ReadGone, ClaimConflict, UnclearLost,
         UnclearFails, ConfirmFails, LedgerDown, LObjectGone, ObjectGone,
         StoredTwice, LCrash, Crash, LExit
<1>2. CASE PutObjectFails(r)
  <2>1. pc[r] = "bucket" /\ (GatewayPut(r) \/ UNCHANGED stored)
        /\ UNCHANGED <<time, skew>> /\ Observe
    BY <1>2 DEF PutObjectFails, Exit, Move
  <2> QED BY <2>1, FirstPut, SameObjects
<1>3. CASE LStoreFails(r)
  <2>1. pc[r] \in Stored /\ stored' = stored \cup {generation[r]}
        /\ UNCHANGED <<time, skew>> /\ Observe
    BY <1>3 DEF LStoreFails, StoreFails, PutOwn, Exit, Move, Stored
  <2> QED BY <2>1, OverwritesOwn
<1> QED BY <1>1, <1>2, <1>3

\* A step that leaves the ledger alone: at most its last generation lapses.
LEMMA SameLast ==
    ASSUME TakeInv, UNCHANGED ledger, Lapsed /\ ledger # <<>> => Lapsed'
    PROVE  ChainStep
<1>1. LInv /\ Generation(Len(ledger))' = Generation(Len(ledger))
      /\ (IF ledger = <<>> THEN NoRun ELSE Last.run)'
            = (IF ledger = <<>> THEN NoRun ELSE Last.run)
  BY DEF TakeInv, SkipInv, Generation, Last
<1>5. (ledger # <<>> /\ Last.old)' = (ledger # <<>> /\ Last.old)
  BY DEF Last
<1>2. CASE ledger = <<>>
  <2>1. (ledger # <<>> /\ Lapsed)' = (ledger # <<>> /\ Lapsed)
    BY <1>2
  <2> QED BY <1>1, <1>5, <2>1 DEF ChainStep, LedgerPromise!chain
<1>3. CASE ledger # <<>> /\ (Lapsed <=> Lapsed')
  <2>1. (ledger # <<>> /\ Lapsed)' = (ledger # <<>> /\ Lapsed)
    BY <1>3
  <2> QED BY <1>1, <1>5, <2>1 DEF ChainStep, LedgerPromise!chain
<1>4. CASE ledger # <<>> /\ ~Lapsed /\ Lapsed'
  <2>1. Generation(Len(ledger)) > 0
    BY <1>1, <1>4, LastFacts DEF Gen
  <2> QED BY <1>1, <1>4, <1>5, <2>1 DEF ChainStep, LedgerPromise!Lapse
<1> QED BY <1>2, <1>3, <1>4

LEMMA PatientChain ==
    ASSUME TakeInv, UNCHANGED ledger, NEW r \in Run, Patient(r)
    PROVE  ChainStep
<1>1. time' \in Nat /\ time' >= time
  BY LeaseConstants DEF Patient, TakeInv, SkipInv, LInv, ClockType
<1> QED BY <1>1, LapsedStays, SameLast DEF Patient

-----------------------------------------------------------------------------
LEMMA ChainKept == NextInv /\ [LNext]_allVars => NextInv' /\ ChainStep
<1> SUFFICES ASSUME NextInv, [LNext]_allVars PROVE NextInv' /\ ChainStep
  OBVIOUS
<1>1. TakeInv /\ TakeInv' /\ SkipInv
  BY TakeStep DEF NextInv, TakeInv
<1>2. CASE UNCHANGED allVars
  <2>1. NextInv'
    BY <1>1, <1>2
       DEF allVars, vars, local, ledgerVars, NextInv, NextOffered, NextSane, Generation
  <2>2. UNCHANGED ledger /\ (Lapsed <=> Lapsed')
    BY <1>2 DEF allVars, vars, store, ledgerVars, Lapsed, Last, Clock
  <2> QED BY <1>1, <2>1, <2>2, SameLast
<1>3. CASE LTick
  <2>1. /\ PutsOwn /\ time' \in Nat /\ time' >= time /\ Observe
        /\ UNCHANGED <<ledger, skew, floating, pc, seen, parent>>
    BY <1>1, <1>3, SameObjects, LeaseConstants
       DEF LTick, Tick, store, local, ledgerVars, SkipInv, LInv, ClockType
  <2>2. NextInv'
    BY <1>1, <2>1 DEF NextInv, NextOffered, NextSane, Generation
  <2>3. ChainStep
    BY <1>1, <2>1, LapsedStays, SameLast
  <2> QED BY <2>2, <2>3
<1>4. CASE \E entry \in floating : Land(entry)
  BY <1>1, <1>4, LandGives DEF ChainStep
<1>5. ASSUME NEW r \in Run,
             \/ LAcquire(r) \/ LFault(r) \/ LHeartbeat(r) \/ LAssertHeld(r)
             \/ LFinish(r) \/ LRelease(r) \/ LTrigger(r)
      PROVE  NextInv' /\ ChainStep
  <2>1. CASE Claim(r)
    BY <1>1, <2>1, ClaimGives DEF ChainStep
  <2>2. CASE ClaimUnclear(r)
    BY <1>1, <2>2, UnclearNext, WorkingIsPatient, PatientChain DEF ClaimUnclear
  <2>3. CASE \/ ReadHead(r) \/ LListEmpty(r) \/ LList(r) \/ Exists(r)
             \/ Absent(r) \/ JudgeAbsentFree(r) \/ LRead(r) \/ LJudgeFree(r)
             \/ LTrigger(r)
    <3>1. Quiet(r) /\ Looks(r) /\ Patient(r)
      BY <1>1, <2>3, BeginningIsQuiet, ReadingLooks, WorkingIsPatient
    <3> QED BY <1>1, <3>1, LooksKeeps, PatientChain DEF Quiet
  <2>4. CASE \/ UnclearWon(r) \/ PutObject(r) \/ Confirm(r) \/ LStoreAnchor(r)
             \/ LStoreMarker(r) \/ StatAndList(r) \/ LPrune(r)
    <3>1. Quiet(r) /\ Looks(r) /\ Patient(r)
      BY <1>1, <2>4, WinningIsQuiet, WinningLooks, WorkingIsPatient
    <3> QED BY <1>1, <3>1, LooksKeeps, PatientChain DEF Quiet
  <2>5. CASE LHeartbeat(r) \/ LAssertHeld(r) \/ LFinish(r) \/ LRelease(r)
    <3>1. Quiet(r) /\ Looks(r) /\ Patient(r)
      BY <1>1, <2>5, HoldingIsQuiet, WinningLooks, HoldingIsPatient
    <3> QED BY <1>1, <3>1, LooksKeeps, PatientChain DEF Quiet
  <2>6. CASE \/ JudgeAbsentHeld(r) \/ LJudgeHeld(r) \/ LReadGone(r)
             \/ ClaimConflict(r) \/ UnclearLost(r) \/ UnclearFails(r)
             \/ ConfirmFails(r) \/ LedgerDown(r) \/ LObjectGone(r) \/ StoredTwice(r)
             \/ LCrash(r) \/ PutObjectFails(r) \/ LStoreFails(r)
    <3>1. Quiet(r) /\ Looks(r) /\ Patient(r)
      BY <1>1, <2>6, EndingIsQuiet, FailingIsQuiet, EndingLooks, EndingIsPatient
    <3> QED BY <1>1, <3>1, LooksKeeps, PatientChain DEF Quiet
  <2> QED BY <1>5, <2>1, <2>2, <2>3, <2>4, <2>5, <2>6 DEF LAcquire, LFault
<1> QED BY <1>2, <1>3, <1>4, <1>5 DEF LNext

LEMMA NextInitial == LInit => NextInv
<1>1. LInit => NextOffered /\ \A r \in Run : NextSane(r)
  BY DEF LInit, Init, NextOffered, NextSane, Early
<1> QED BY <1>1, TakeInitial DEF NextInv

\* The ledger and the bucket together keep the promise of the lease: whatever
\* head, listing or outcome a run sees, the commits give the generations away
\* one after the other, each to one run for good, and after the last one lapsed,
\* which no put of a late winner takes back, or to a taker with an old look.
THEOREM LedgerImplementsChain == LSpec => LedgerIsAChain
<1>1. LInit => LedgerPromise!CInit
  BY DEF LInit, Generation, LedgerPromise!CInit
<1> QED BY <1>1, NextInitial, ChainKept, PTL
        DEF LSpec, LedgerIsAChain, LedgerPromise!CSpec, ChainStep

-----------------------------------------------------------------------------
(* One live holder: the inductive invariant                                *)

\* A run that has put its generation object, or ended and is not triggered again.
Past(r) == pc[r] \notin Begun \cup {"unclear", "bucket"}

\* The last commit is of an earlier instant, or its winner has put its object.
Settled == time > Last.at \/ Past(Last.run)

\* Generation g was succeeded on an old look.
Seized(g) == g + 1 \in seized

\* The commits are in the order of time, and two of the same instant have the
\* object of the first between them, or an old look at it.
InTime ==
    /\ \A m, n \in 1..Len(ledger) : m < n => ledger[m].at <= ledger[n].at
    /\ \A m, n \in 1..Len(ledger) : m < n =>
            \/ ledger[m].at < ledger[n].at
            \/ Past(ledger[m].run)
            \/ Seized(ledger[m].generation)

PutPast == \A g \in stored : Past(object[g].run)

OfferedLate == \A entry \in floating : ledger = <<>> \/ Settled \/ entry.old

\* What a run that asks knows of the last commit: it settled before the object
\* was read, or it did before r judged, unless the look was old.
Awaits(r) ==
    /\ pc[r] = "judge" => Settled
    /\ pc[r] = "create" => Settled \/ OldLook(r)

\* A run that has not asked yet has no commit that its head does not show, but
\* one that was succeeded on an old look; and an overtaken generation is over,
\* or has expired before its winner puts the object, or was so succeeded.
HoldSane(r) ==
    /\ pc[r] \in {"list"} \cup Asking =>
            \A n \in 1..Len(ledger) : n > parent[r] =>
                ledger[n].run # r \/ Seized(ledger[n].generation)
    /\ parent[r] = Len(ledger) /\ ledger # <<>> => Awaits(r)
    /\ pc[r] \in {"unclear", "bucket"} /\ Gave(r, generation[r])
            /\ generation[r] # Last.generation =>
                \/ generation[r] \in over \/ Clock(r) > expires[r]
                \/ Seized(generation[r])
    /\ pc[r] \in Stored /\ generation[r] # Last.generation =>
            generation[r] \in over \/ Seized(generation[r])

HoldInv ==
    /\ NextInv
    /\ InTime /\ PutPast /\ OfferedLate
    /\ \A r \in Run : HoldSane(r)

-----------------------------------------------------------------------------
(* Steps that leave the ledger alone                                       *)

LEMMA OwnerIsRun ==
    ASSUME LInv, NEW g \in stored
    PROVE  object[g].run \in Run
<1>1. PICK n \in 1..Len(ledger) : ledger[n].run = object[g].run
  BY DEF LInv, StoreOwned, Gave
<1>2. ledger[n] \in Commit
  BY CommitType
<1> QED BY <1>1, <1>2 DEF Commit

\* A step of r that puts no object but its own.
Calm(r) ==
    /\ UNCHANGED <<time, skew, seized, ledger, floating>> /\ Observe
    /\ OthersSame(r)
    /\ Past(r) => Past(r)'
    /\ \A g \in stored' :
        \/ g \in stored /\ object'[g].run = object[g].run
        \/ object'[g].run = r /\ Past(r)'

LEMMA CalmHolds ==
    ASSUME HoldInv, NextInv', NEW r \in Run, Calm(r), HoldSane(r)'
    PROVE  HoldInv'
<1>1. LInv /\ Last' = Last /\ ledger' = ledger /\ time' = time /\ over \subseteq over'
      /\ \A s \in Run : Clock(s)' = Clock(s)
      /\ \A g : Seized(g)' <=> Seized(g)
  BY DEF HoldInv, NextInv, TakeInv, SkipInv, Calm, Last, Observe, Clock, Seized
<1>2. \A s \in Run : Past(s) => Past(s)'
  BY DEF Calm, OthersSame, Past
<1>3. \A n \in 1..Len(ledger) : ledger[n].run \in Run
  BY <1>1, CommitType DEF Commit
<1>4. InTime'
  BY <1>1, <1>2, <1>3 DEF HoldInv, InTime, Past, Seized
<1>5. PutPast'
  <2>1. ASSUME NEW g \in stored' PROVE pc'[object'[g].run] \notin Begun \cup {"unclear", "bucket"}
    <3>1. CASE g \in stored /\ object'[g].run = object[g].run
      <4>1. Past(object[g].run) /\ object[g].run \in Run
        BY <1>1, <3>1, OwnerIsRun DEF HoldInv, PutPast
      <4> QED BY <1>2, <3>1, <4>1 DEF Past
    <3>2. CASE object'[g].run = r /\ Past(r)'
      BY <3>2 DEF Past
    <3> QED BY <3>1, <3>2 DEF Calm
  <2> QED BY <2>1 DEF PutPast, Past
<1>6. ledger # <<>> /\ Settled => Settled'
  <2>1. ledger # <<>> => Last.run \in Run
    BY <1>1, LastFacts
  <2> QED BY <1>1, <1>2, <2>1 DEF Settled, Past
<1>7. OfferedLate'
  BY <1>1, <1>6 DEF HoldInv, OfferedLate, Calm
<1>8. ASSUME NEW s \in Run \ {r} PROVE HoldSane(s)'
  <2>1. /\ HoldSane(s) /\ pc'[s] = pc[s] /\ generation'[s] = generation[s]
        /\ parent'[s] = parent[s] /\ expires'[s] = expires[s]
    BY DEF HoldInv, Calm, OthersSame
  <2>2. Gave(s, generation[s])' => Gave(s, generation[s])
    BY <1>1, <2>1 DEF Gave
  <2>3. parent[s] = Len(ledger) /\ ledger # <<>> => Awaits(s)'
    BY <1>1, <1>6, <2>1 DEF HoldSane, Awaits, OldLook, Calm, OthersSame
  <2>4. UNCHANGED seized
    BY DEF Calm
  <2> QED BY <1>1, <2>1, <2>2, <2>3, <2>4 DEF HoldSane, Seized
<1> QED BY <1>4, <1>5, <1>7, <1>8 DEF HoldInv

\* The parts of the state that a step of r leaves alone, as it stores nothing.
LEMMA StoresNothing ==
    ASSUME HoldInv, NEW r \in Run,
           UNCHANGED <<time, skew, seized, ledger, floating, object>>, Observe,
           stored' \subseteq stored, OthersSame(r),
           Past(r) => Past(r)'
    PROVE  Calm(r)
BY DEF Calm

-----------------------------------------------------------------------------
(* The steps up to the commit                                              *)

LEMMA HeadHolds ==
    ASSUME HoldInv, NextInv', NEW r \in Run, ReadHead(r)
    PROVE  HoldInv'
<1> USE DEF ReadHead, Move, store, look, local, thread
<1>1. LInv /\ LocalType /\ pc[r] = "idle" /\ pc'[r] = "list" /\ UNCHANGED <<ledger, time>>
  BY DEF HoldInv, NextInv, TakeInv, SkipInv, LInv, LocalType
<1>2. PICK h \in Heads : parent' = [parent EXCEPT ![r] = h]
  OBVIOUS
<1>3. h \in Nat /\ h <= Len(ledger) /\ parent'[r] = h /\ Len(ledger) \in Nat
  BY <1>1, <1>2, HeadType, LengthType DEF LocalType
<1>4. NotLast(r)
  BY <1>1 DEF HoldInv, NextInv, TakeInv, SkipInv, SkipSane, Silent, Begun
<1>5. ASSUME NEW n \in 1..Len(ledger), n > h, ledger[n].run = r,
             ~Seized(ledger[n].generation)
      PROVE  FALSE
  <2>1. n < Len(ledger)
    <3>1. n # Len(ledger)
      BY <1>4, <1>5 DEF NotLast
    <3>2. n \in Nat /\ n <= Len(ledger)
      BY <1>3, <1>5
    <3> QED BY <1>3, <3>1, <3>2
  <2>2. ledger[h + 1].at = time /\ h + 1 \in 1..Len(ledger)
    BY <1>3, <1>5, <2>1 DEF Heads
  <2>3. /\ \A m \in 1..Len(ledger) : ledger[m].at \in Nat /\ ledger[m].at <= time
        /\ time \in Nat
    BY <1>1, CommitType, LeaseConstants
       DEF HoldInv, NextInv, TakeInv, Times, LInv, ClockType, Commit
  <2>4. ledger[h + 1].at <= ledger[n].at
    <3>1. CASE h + 1 = n
      BY <2>3, <3>1
    <3>2. CASE h + 1 < n
      BY <2>2, <3>2 DEF HoldInv, InTime
    <3> QED BY <1>3, <1>5, <3>1, <3>2
  <2>5. ledger[n].at < ledger[Len(ledger)].at
    <3>1. ~Past(r) /\ Len(ledger) \in 1..Len(ledger)
      BY <1>1, <1>3, <2>1 DEF Past, Begun
    <3> QED BY <1>5, <2>1, <3>1 DEF HoldInv, InTime
  <2>6. ledger[Len(ledger)].at \in Nat /\ ledger[Len(ledger)].at <= time
    BY <1>3, <2>1, <2>3
  <2> QED BY <2>2, <2>3, <2>4, <2>5, <2>6
<1>6. HoldSane(r)'
  <2>1. \A n \in 1..Len(ledger) : n > h => ledger[n].run # r \/ Seized(ledger[n].generation)
    BY <1>5
  <2>2. UNCHANGED seized
    OBVIOUS
  <2> QED BY <1>1, <1>3, <2>1, <2>2
      DEF HoldSane, Awaits, Seized, Stored, Pruning, Holding, Releasing
<1>7. Calm(r)
  BY <1>1, <1>2, StoresNothing DEF LocalType, OthersSame, Past, Begun
<1> QED BY <1>6, <1>7, CalmHolds

\* A run that reads the object of the last generation: its winner has put it.
LEMMA ReadAwaits ==
    ASSUME HoldInv, NEW r \in Run, LRead(r), parent[r] = Len(ledger), ledger # <<>>
    PROVE  Settled
<1>1. TakeInv /\ LInv /\ seen[r] = Last.generation /\ seen[r] \in stored
  <2>1. TakeInv /\ LInv /\ pc[r] \in Looking /\ seen[r] \in stored
    BY DEF HoldInv, NextInv, TakeInv, SkipInv, LRead, Read, Move, Looking
  <2> QED BY <2>1, LooksAtLast
<1>2. Gave(object[seen[r]].run, seen[r]) /\ Past(object[seen[r]].run)
  BY <1>1 DEF HoldInv, PutPast, LInv, StoreOwned
<1>3. object[seen[r]].run = Last.run
  BY <1>1, <1>2, GivenNotAbove
<1> QED BY <1>2, <1>3 DEF Settled

\* What a run finds free has settled: its object was there, or its commit was of
\* an earlier instant when r looked for it, unless the look is old.
LEMMA JudgeAwaits ==
    ASSUME HoldInv, NEW r \in Run, JudgeAbsentFree(r) \/ LJudgeFree(r),
           parent[r] = Len(ledger), ledger # <<>>
    PROVE  Settled \/ OldLook(r)'
<1> USE DEF Move, look, store, local, thread, ledgerVars
<1>1. /\ LInv /\ TakeInv /\ TakeSane(r) /\ Awaits(r) /\ expires'[r] = Clock(r) + LEASE_TTL
      /\ UNCHANGED <<seen, looked>>
  BY DEF HoldInv, NextInv, TakeInv, SkipInv, HoldSane, JudgeAbsentFree, LJudgeFree, JudgeFree,
         LInv, LocalType
<1>2. CASE LJudgeFree(r)
  BY <1>1, <1>2 DEF Awaits, LJudgeFree, JudgeFree
<1>3. CASE JudgeAbsentFree(r)
  <2>1. pc[r] = "absent" /\ looked[r] <= time
    BY <1>1, <1>3 DEF JudgeAbsentFree, TakeSane
  <2>2. seen[r] > 0
    <3>1. seen[r] = Last.generation
      BY <1>1, <2>1, LooksAtLast DEF Looking
    <3> QED BY <1>1, <3>1, LastFacts DEF Gen
  <2>3. Len(ledger) # 0
    BY <1>1, LastFacts, LengthType
  <2>4. Clock(r) > Last.at + LEASE_TTL + TAKEOVER_GRACE
    BY <1>3, <2>3 DEF JudgeAbsentFree, AbsentFree, CommittedAt, Last
  <2>5. CASE Clock(r) + LEASE_TTL - LEASE_TTL > looked[r] + TAKEOVER_GRACE
    <3>1. expires'[r] - LEASE_TTL > looked[r] + TAKEOVER_GRACE
      BY <1>1, <2>5, ClockFacts
    <3>2. seen'[r] > 0 /\ looked'[r] = looked[r]
      BY <1>1, <2>2
    <3> QED BY <3>1, <3>2 DEF OldLook
  <2>6. CASE ~(Clock(r) + LEASE_TTL - LEASE_TTL > looked[r] + TAKEOVER_GRACE)
    <3>1. /\ Last.at \in Nat /\ LEASE_TTL \in Nat /\ TAKEOVER_GRACE \in Nat
          /\ time \in Nat /\ looked[r] \in Nat /\ Clock(r) \in Nat
      <4>1. Last.at \in Nat
        BY <1>1, LastTimes
      <4> QED BY <1>1, <4>1, ClockFacts
    <3>2. looked[r] > Last.at + LEASE_TTL
      <4>1. Last.at + LEASE_TTL \in Nat
        BY <3>1
      <4> QED BY <2>4, <2>6, <3>1, <4>1, PastAtTheLook
    <3>3. time > Last.at
      BY <2>1, <3>1, <3>2
    <3> QED BY <3>3 DEF Settled
  <2> QED BY <2>5, <2>6
<1> QED BY <1>2, <1>3

LEMMA ReadingHolds ==
    ASSUME HoldInv, NextInv', NEW r \in Run,
           \/ LListEmpty(r) \/ LList(r) \/ Exists(r)
           \/ Absent(r) \/ JudgeAbsentFree(r) \/ LRead(r) \/ LJudgeFree(r)
           \/ LTrigger(r)
    PROVE  HoldInv'
<1> USE DEF Move, look, store, local, thread, ledgerVars
<1>1. LInv /\ LocalType /\ HoldSane(r)
  BY DEF HoldInv, NextInv, TakeInv, SkipInv, LInv
<1>2. /\ UNCHANGED <<time, skew, seized, ledger, floating, stored, object, parent, generation>>
      /\ Observe
      /\ pc'[r] \in {"idle", "exists", "absent", "read", "judge", "create"}
      /\ pc[r] \in Begun
      /\ pc'[r] # "idle" => pc[r] \in {"list", "exists", "absent", "read", "judge"}
      /\ OthersSame(r)
  <2>1. CASE LListEmpty(r) \/ LList(r)
    BY <1>1, <2>1 DEF LListEmpty, LList, LocalType, OthersSame, Begun
  <2>2. CASE Exists(r) \/ Absent(r)
    BY <1>1, <2>2 DEF Exists, Absent, LocalType, OthersSame, Begun
  <2>3. CASE LRead(r) \/ LTrigger(r)
    BY <1>1, <2>3 DEF LRead, Read, LTrigger, Trigger, LocalType, OthersSame, Begun
  <2>4. CASE JudgeAbsentFree(r) \/ LJudgeFree(r)
    BY <1>1, <2>4 DEF JudgeAbsentFree, LJudgeFree, JudgeFree, LocalType, OthersSame, Begun
  <2> QED BY <2>1, <2>2, <2>3, <2>4
<1>3. ledger # <<>> /\ Settled => Settled'
  <2>1. ledger # <<>> => Last.run \in Run
    BY <1>1, LastFacts
  <2>2. \A s \in Run : Past(s) => Past(s)'
    BY <1>2 DEF OthersSame, Past
  <2> QED BY <1>2, <2>1, <2>2 DEF Settled, Past, Last
<1>4. parent[r] = Len(ledger) /\ ledger # <<>> => Awaits(r)'
  <2>1. SUFFICES ASSUME parent[r] = Len(ledger), ledger # <<>> PROVE Awaits(r)'
    OBVIOUS
  <2>2. CASE LListEmpty(r)
    <3>1. LListed(r) = 0
      BY <2>2 DEF LListEmpty
    <3>2. Generation(Len(ledger)) \in Gen
      BY <1>1, <2>1, LastFacts
    <3>3. Generation(Len(ledger)) <= 0
      BY <1>1, <2>1, <3>1, ListedFacts
    <3> QED BY <3>2, <3>3 DEF Gen
  <2>3. CASE LList(r) \/ Exists(r) \/ Absent(r) \/ LTrigger(r)
    <3>1. pc'[r] \in {"idle", "exists", "read", "absent"}
      BY <1>1, <2>3 DEF LList, Exists, Absent, LTrigger, Trigger, LocalType
    <3> QED BY <3>1 DEF Awaits
  <2>4. CASE LRead(r)
    <3>1. pc'[r] = "judge"
      BY <1>1, <2>4 DEF LRead, Read, LocalType
    <3>2. Settled'
      BY <1>3, <2>1, <2>4, ReadAwaits
    <3> QED BY <3>1, <3>2 DEF Awaits
  <2>5. CASE JudgeAbsentFree(r) \/ LJudgeFree(r)
    <3>1. pc'[r] = "create"
      BY <1>1, <2>5 DEF JudgeAbsentFree, LJudgeFree, JudgeFree, LocalType
    <3>2. Settled' \/ OldLook(r)'
      BY <1>3, <2>1, <2>5, JudgeAwaits
    <3> QED BY <3>1, <3>2 DEF Awaits
  <2> QED BY <2>2, <2>3, <2>4, <2>5
<1>5. HoldSane(r)'
  <2>1. \A n \in 1..Len(ledger) : pc'[r] # "idle" /\ n > parent[r] =>
            ledger[n].run # r \/ Seized(ledger[n].generation)
    BY <1>1, <1>2 DEF HoldSane, Asking
  <2>2. pc'[r] \notin {"list", "unclear", "bucket"} \cup Stored
        /\ (pc'[r] \in Asking => pc'[r] # "idle")
    BY <1>2 DEF Asking, Stored, Pruning, Holding, Releasing
  <2> QED BY <1>2, <1>4, <2>1, <2>2 DEF HoldSane, Seized
<1>6. Calm(r)
  BY <1>2, StoresNothing DEF Past
<1> QED BY <1>5, <1>6, CalmHolds

-----------------------------------------------------------------------------
(* The end of a process, the puts, and the held lease                      *)

LEMMA ExitHolds ==
    ASSUME HoldInv, NextInv', NEW r \in Run, NEW f, NEW t \in Ended, Exit(r, f, t),
           t = "skipped" => f \in Begun \cup {"unclear"},
           UNCHANGED <<time, skew, seized, ledger, floating>>, Forgotten(r) \/ Unname(r), Observe,
           \A g \in stored' : \/ g \in stored /\ object'[g].run = object[g].run
                              \/ object'[g].run = r /\ t # "skipped"
    PROVE  HoldInv'
<1>1. LocalType
  BY DEF HoldInv, NextInv, TakeInv, SkipInv, LInv
<1>2. pc[r] = f /\ pc'[r] = t /\ OthersSame(r)
  BY <1>1 DEF LocalType, OthersSame, Exit, Move, Forgotten, Unname
<1>3. Past(r) => Past(r)'
  BY <1>2 DEF Past, Ended, Begun
<1>4. t # "skipped" => Past(r)'
  BY <1>2 DEF Past, Ended, Begun
<1>5. HoldSane(r)'
  BY <1>2 DEF HoldSane, Awaits, Asking, Ended, Stored, Pruning, Holding, Releasing
<1> QED BY <1>2, <1>3, <1>4, <1>5, CalmHolds DEF Calm

LEMMA EndingHolds ==
    ASSUME HoldInv, NextInv', NEW r \in Run,
           \/ JudgeAbsentHeld(r) \/ LJudgeHeld(r) \/ LReadGone(r)
           \/ ClaimConflict(r) \/ UnclearLost(r) \/ UnclearFails(r)
           \/ ConfirmFails(r) \/ LedgerDown(r)
           \/ LObjectGone(r) \/ StoredTwice(r) \/ LCrash(r)
    PROVE  HoldInv'
<1>1. PICK f : \E t \in Ended : Exit(r, f, t) /\ (t = "skipped" => f \in Begun \cup {"unclear"})
  <2>1. \/ \E f \in {"absent", "judge", "create", "unclear"} : Exit(r, f, "skipped")
        \/ \E f : Exit(r, f, "failed") \/ Exit(r, f, "dead")
    BY DEF JudgeAbsentHeld, LJudgeHeld, LReadGone, ReadGone, ClaimConflict, UnclearLost,
           UnclearFails, ConfirmFails, LedgerDown, LObjectGone, ObjectGone,
           StoredTwice, LCrash, Crash, LExit
  <2>2. {"absent", "judge", "create", "unclear"} \subseteq Begun \cup {"unclear"}
        /\ {"skipped", "failed", "dead"} \subseteq Ended
    BY DEF Begun, Ended
  <2> QED BY <2>1, <2>2
<1>2. /\ UNCHANGED <<time, skew, seized, ledger, floating, stored, object>> /\ Observe
      /\ Forgotten(r) \/ Unname(r)
  BY DEF JudgeAbsentHeld, LJudgeHeld, LReadGone, ReadGone, ClaimConflict, UnclearLost,
         UnclearFails, ConfirmFails, LedgerDown, LObjectGone, ObjectGone,
         StoredTwice, LCrash, Crash, LExit, Unname, store
<1>3. PICK t \in Ended : Exit(r, f, t) /\ (t = "skipped" => f \in Begun \cup {"unclear"})
  BY <1>1
<1> QED BY <1>2, <1>3, ExitHolds

\* An object that r puts is r's, and the others stay whose they were.
LEMMA PutHolds ==
    ASSUME HoldInv, NEW r \in Run, pc[r] \in Stored \cup {"bucket"}, NEW c \in Object, c.run = r,
           stored' = stored \cup {generation[r]},
           object' = [object EXCEPT ![generation[r]] = c],
           NEW g \in stored'
    PROVE  (g \in stored /\ object'[g].run = object[g].run) \/ object'[g].run = r
<1>1. LInv /\ pc[r] \in Putting
  BY DEF HoldInv, NextInv, TakeInv, SkipInv, Stored, Putting
<1>2. generation[r] \in Gen /\ object \in [Gen -> Object] /\ stored \subseteq Gen
  BY <1>1, PutterFacts DEF LInv, StoreType
<1> QED BY <1>2

LEMMA OwnObject ==
    ASSUME LInv, NEW r \in Run, NEW b \in BOOLEAN, NEW e \in 0..LastReading
    PROVE  [run |-> r, expires |-> e, released |-> b] \in Object
BY DEF Object

LEMMA FailedPutHolds ==
    ASSUME HoldInv, NextInv', NEW r \in Run, PutObjectFails(r) \/ LStoreFails(r)
    PROVE  HoldInv'
<1> DEFINE put(b) == [run |-> r, expires |-> expires[r], released |-> b]
<1>1. LInv /\ put(FALSE) \in Object /\ put(TRUE) \in Object
  BY OwnObject DEF HoldInv, NextInv, TakeInv, SkipInv, LInv, LocalType
<1>2. /\ UNCHANGED <<time, skew, seized, ledger, floating>> /\ Observe
      /\ Forgotten(r) \/ Unname(r)
  BY DEF PutObjectFails, LStoreFails, StoreFails, PutOwn, GatewayPut, Unname, store
<1>3. PICK f \in {"bucket", "anchor", "marker"} : Exit(r, f, "failed")
  BY DEF PutObjectFails, LStoreFails, StoreFails
<1>4. pc[r] \in Stored \cup {"bucket"}
  BY <1>3 DEF Exit, Move, Stored
<1>5. \/ UNCHANGED <<stored, object>>
      \/ \E c \in {put(FALSE), put(TRUE)} :
            /\ stored' = stored \cup {generation[r]}
            /\ object' = [object EXCEPT ![generation[r]] = c]
  BY DEF PutObjectFails, LStoreFails, StoreFails, PutOwn, GatewayPut, store
<1> HIDE DEF put
<1>6. ASSUME NEW g \in stored'
      PROVE  (g \in stored /\ object'[g].run = object[g].run) \/ object'[g].run = r
  <2>1. put(FALSE).run = r /\ put(TRUE).run = r
    BY DEF put
  <2>2. CASE UNCHANGED <<stored, object>>
    BY <2>2
  <2>3. ASSUME NEW c \in {put(FALSE), put(TRUE)},
               stored' = stored \cup {generation[r]},
               object' = [object EXCEPT ![generation[r]] = c]
        PROVE  (g \in stored /\ object'[g].run = object[g].run) \/ object'[g].run = r
    <3>1. c \in Object /\ c.run = r
      BY <1>1, <2>1
    <3> QED BY <1>4, <2>3, <3>1, PutHolds
  <2> QED BY <1>5, <2>2, <2>3
<1> QED BY <1>2, <1>3, <1>6, ExitHolds DEF Ended

LEMMA WonHolds ==
    ASSUME HoldInv, NextInv', NEW r \in Run, UnclearWon(r)
    PROVE  HoldInv'
<1> USE DEF UnclearWon, Move, store, look, local, thread
<1>1. LInv /\ LocalType /\ pc[r] = "unclear" /\ pc'[r] = "bucket" /\ HoldSane(r)
  BY DEF HoldInv, NextInv, TakeInv, SkipInv, LInv, LocalType
<1>2. HoldSane(r)'
  <2>1. Gave(r, generation[r]) <=> Gave(r, generation[r])'
    BY DEF Gave
  <2>2. over \subseteq over' /\ Clock(r)' = Clock(r) /\ Last' = Last
    BY DEF Observe, Clock, Last
  <2>3. UNCHANGED <<seized, generation, expires>>
    OBVIOUS
  <2> QED BY <1>1, <2>1, <2>2, <2>3
      DEF HoldSane, Awaits, Asking, Seized, Stored, Pruning, Holding, Releasing
<1>3. OthersSame(r)
  BY <1>1 DEF LocalType, OthersSame
<1> QED BY <1>1, <1>2, <1>3, StoresNothing, CalmHolds DEF Past

\* A winner that puts the object of an overtaken generation puts one that has
\* expired on its clock.
LEMMA PutObjectHolds ==
    ASSUME HoldInv, NextInv', NEW r \in Run, PutObject(r)
    PROVE  HoldInv'
<1> USE DEF PutObject, Move, look, local, thread, ledgerVars
<1> DEFINE g0 == generation[r]
           put == [run |-> r, expires |-> expires[r], released |-> FALSE]
<1>1. /\ LInv /\ LocalType /\ pc[r] = "bucket" /\ pc'[r] = "anchor" /\ HoldSane(r)
      /\ put \in Object /\ Gave(r, g0) /\ g0 \in Gen /\ object \in [Gen -> Object]
  <2>1. LInv /\ LocalType /\ pc[r] = "bucket" /\ pc'[r] = "anchor" /\ HoldSane(r)
        /\ object \in [Gen -> Object] /\ expires[r] \in 0..LastReading
    BY DEF HoldInv, NextInv, TakeInv, SkipInv, LInv, LocalType, StoreType
  <2> QED BY <2>1, OwnObject, PutterFacts DEF Putting
<1>2. stored' = stored \cup {g0} /\ object' = [object EXCEPT ![g0] = put]
  BY DEF GatewayPut
<1>3. Clock(r) > expires[r] => g0 \in over'
  <2>1. object'[g0] = put /\ g0 \in stored'
    BY <1>1, <1>2
  <2>2. OwnClock(g0)' = Clock(r)'
    BY <2>1, LeaseConstants DEF OwnClock, Clock
  <2>3. Clock(r)' = Clock(r)
    BY DEF Clock
  <2> QED BY <2>1, <2>2, <2>3 DEF Observe
<1>4. HoldSane(r)'
  <2>1. generation'[r] = g0 /\ Last' = Last /\ over \subseteq over' /\ UNCHANGED seized
    BY DEF Last, Observe, GatewayPut
  <2> HIDE DEF g0
  <2>2. g0 # Last.generation => g0 \in over' \/ Seized(g0)
    BY <1>1, <1>3, <2>1 DEF HoldSane, g0
  <2> QED BY <1>1, <2>1, <2>2 DEF HoldSane, Awaits, Asking, Seized
<1>5. \A g \in stored' : (g \in stored /\ object'[g].run = object[g].run) \/ object'[g].run = r
  <2> HIDE DEF put
  <2>1. put.run = r
    BY DEF put
  <2> QED BY <1>1, <1>2, <2>1, PutHolds
<1>6. OthersSame(r) /\ Past(r)' /\ UNCHANGED seized
  BY <1>1 DEF LocalType, OthersSame, Past, Begun, GatewayPut
<1> QED BY <1>4, <1>5, <1>6, CalmHolds DEF Calm

\* A step of a run that has put its object, on its own object.
LEMMA StoredHolds ==
    ASSUME HoldInv, NextInv', NEW r \in Run, pc[r] \in Stored, pc'[r] \in Stored \cup {"done"},
           UNCHANGED <<time, skew, seized, ledger, floating, generation>>, Observe,
           OthersSame(r),
           \A g \in stored' :
              (g \in stored /\ object'[g].run = object[g].run) \/ object'[g].run = r
    PROVE  HoldInv'
<1>1. Last' = Last /\ over \subseteq over' /\ HoldSane(r)
  BY DEF Last, Observe, HoldInv
<1>2. HoldSane(r)' /\ Past(r)'
  BY <1>1 DEF HoldSane, Awaits, Asking, Seized, Past, Begun, Stored, Pruning, Holding,
              Releasing
<1> QED BY <1>2, CalmHolds DEF Calm

LEMMA StoringHolds ==
    ASSUME HoldInv, NextInv', NEW r \in Run,
           \/ Confirm(r) \/ LStoreAnchor(r) \/ LStoreMarker(r) \/ StatAndList(r) \/ LPrune(r)
    PROVE  HoldInv'
<1> USE DEF Move, Unname, look, local, thread, store, ledgerVars
<1>1. LocalType /\ LInv
  BY DEF HoldInv, NextInv, TakeInv, SkipInv, LInv
<1>2. /\ UNCHANGED <<time, skew, seized, ledger, floating, generation, object>> /\ Observe
      /\ stored' \subseteq stored
      /\ pc[r] \in Stored /\ pc'[r] \in Stored /\ OthersSame(r)
  <2>1. CASE Confirm(r) \/ LStoreAnchor(r) \/ LStoreMarker(r) \/ StatAndList(r)
    BY <1>1, <2>1
       DEF Confirm, LStoreAnchor, LStoreMarker, StatAndList, StoreAnchor, StoreMarker,
           LocalType, OthersSame, Stored, Pruning, Holding
  <2>2. CASE LPrune(r)
    BY <1>1, <2>2
       DEF LPrune, PruneKeep, PruneMarker, PruneObject, Hold, Forget, LocalType, OthersSame,
           Stored, Pruning, Holding
  <2> QED BY <2>1, <2>2
<1> QED BY <1>2, StoredHolds

LEMMA HoldingHolds ==
    ASSUME HoldInv, NextInv', NEW r \in Run,
           LHeartbeat(r) \/ LAssertHeld(r) \/ LFinish(r) \/ LRelease(r)
    PROVE  HoldInv'
<1> USE DEF Move, Unname, look, local, thread, store, ledgerVars
<1>1. LocalType /\ LInv
  BY DEF HoldInv, NextInv, TakeInv, SkipInv, LInv
<1>2. pc[r] \in Stored
  BY <1>1, RunFacts
     DEF LHeartbeat, RenewRead, RenewPut, RenewFails, LAssertHeld, AssertNext,
         AssertOwn, AssertClock, AssertLost, LFinish, Finish, LRelease,
         ReleaseStop, ReleasePut, Holding, Releasing, Stored
<1>3. /\ UNCHANGED <<time, skew, seized, ledger, floating, generation>> /\ Observe
      /\ pc'[r] \in Stored \cup {"done"} /\ OthersSame(r)
  <2>1. CASE LHeartbeat(r)
    BY <1>1, <1>2, <2>1
       DEF LocalType, OthersSame, LHeartbeat, RenewRead, RenewPut, RenewFails, PutOwn
  <2>2. CASE LAssertHeld(r)
    BY <1>1, <2>2
       DEF LocalType, OthersSame, LAssertHeld, AssertNext, AssertOwn,
           AssertClock, AssertLost, Stored, Holding, Releasing
  <2>3. CASE LFinish(r) \/ LRelease(r)
    BY <1>1, <2>3
       DEF LocalType, OthersSame, LFinish, Finish, LRelease,
           ReleaseStop, ReleasePut, PutOwn, Stored, Holding, Releasing
  <2> QED BY <2>1, <2>2, <2>3
<1>4. \/ UNCHANGED <<stored, object>>
      \/ \E c \in Object : /\ c.run = r /\ stored' = stored \cup {generation[r]}
                           /\ object' = [object EXCEPT ![generation[r]] = c]
  <2>1. /\ [run |-> r, expires |-> expires[r], released |-> TRUE] \in Object
        /\ [run |-> r, expires |-> beatExpires[r], released |-> FALSE] \in Object
    BY <1>1, OwnObject DEF LocalType
  <2> QED BY <2>1
      DEF LHeartbeat, RenewRead, RenewPut, RenewFails, LAssertHeld, AssertNext,
          AssertOwn, AssertClock, AssertLost, LFinish, Finish, LRelease,
          ReleaseStop, ReleasePut, PutOwn
<1>5. \A g \in stored' : (g \in stored /\ object'[g].run = object[g].run) \/ object'[g].run = r
  BY <1>2, <1>4, PutHolds
<1> QED BY <1>2, <1>3, <1>5, StoredHolds

-----------------------------------------------------------------------------
(* The commits                                                             *)

\* A commit on top of the last one, which had lapsed and settled.
LEMMA GrowthHolds ==
    ASSUME HoldInv, NEW entry \in Claimed, Append1(entry),
           entry.generation = Generation(Len(ledger)) + 1,
           UNCHANGED <<time, skew, expires>>, Observe,
           ledger = <<>> \/ (Lapsed /\ Settled) \/ entry.old,
           \A s \in Run : Past(s) => Past(s)'
    PROVE  /\ InTime' /\ PutPast' /\ OfferedLate'
           /\ Last'.generation = entry.generation /\ Last'.run = entry.run
           /\ \A s \in Run :
                pc'[s] = pc[s] /\ generation'[s] = generation[s] /\ parent'[s] = parent[s]
                    /\ (entry.run = s => pc[s] \notin Begun)
                => HoldSane(s)'
<1>1. LInv /\ TakeInv /\ SkipInv /\ NextInv /\ UNCHANGED <<stored, object>>
  BY DEF HoldInv, NextInv, TakeInv, SkipInv, Append1
<1> DEFINE c == [run |-> entry.run, generation |-> entry.generation,
                 expires |-> entry.expires, old |-> entry.old, at |-> time]
<1>2. ledger' = Append(ledger, c) /\ floating' = {} /\ ledger \in Seq(Commit)
      /\ Len(ledger) \in Nat
  BY <1>1, LengthType DEF Append1, LInv, LedgerType
<1>3. c.run = entry.run /\ c.generation = entry.generation /\ c.at = time /\ time \in Nat
  BY <1>1, LeaseConstants DEF LInv, ClockType
<1>10. /\ seized \subseteq seized'
       /\ entry.old /\ ledger # <<>> => Last.generation + 1 \in seized'
  BY <1>1, LastFacts DEF Append1
<1> HIDE DEF c
<1>4. /\ Len(ledger') = Len(ledger) + 1 /\ ledger'[Len(ledger) + 1] = c /\ Last' = c
      /\ \A n \in 1..Len(ledger) : ledger'[n] = ledger[n]
  BY <1>2 DEF Last
<1>5. InTime'
  <2>1. \A n \in 1..Len(ledger) : ledger[n].run \in Run /\ ledger[n].at \in Nat /\ ledger[n].at <= time
    BY <1>1, CommitType, LeaseConstants DEF Commit, TakeInv, Times
  <2>2. ASSUME NEW m \in 1..Len(ledger'), NEW n \in 1..Len(ledger'), m < n
        PROVE  /\ ledger'[m].at <= ledger'[n].at
               /\ \/ ledger'[m].at < ledger'[n].at
                  \/ pc'[ledger'[m].run] \notin Begun \cup {"unclear", "bucket"}
                  \/ ledger'[m].generation + 1 \in seized'
    <3>1. m \in 1..Len(ledger)
      BY <1>2, <1>4, <2>2
    <3>2. CASE n \in 1..Len(ledger)
      BY <1>4, <1>10, <2>1, <2>2, <3>1, <3>2 DEF HoldInv, InTime, Past, Seized
    <3>3. CASE n = Len(ledger) + 1
      <4>1. ledger'[n].at = time /\ ledger'[m] = ledger[m] /\ ledger[m].at <= time
        BY <1>3, <1>4, <2>1, <3>1, <3>3
      <4>2. Len(ledger) \in 1..Len(ledger) /\ ledger # <<>>
        BY <1>2, <3>1
      <4>3. CASE m = Len(ledger)
        BY <1>10, <2>1, <4>1, <4>2, <4>3 DEF Settled, Last, Past
      <4>4. CASE m < Len(ledger)
        <5>1. \/ ledger[m].at < ledger[Len(ledger)].at
              \/ Past(ledger[m].run)
              \/ Seized(ledger[m].generation)
          BY <3>1, <4>2, <4>4 DEF HoldInv, InTime
        <5>2. ledger[Len(ledger)].at <= time /\ ledger[Len(ledger)].at \in Nat
              /\ ledger[m].at \in Nat /\ ledger[m].run \in Run
          BY <2>1, <3>1, <4>2
        <5>3. ledger[m].at < ledger[Len(ledger)].at => ledger[m].at < time
          BY <1>3, <5>2
        <5>4. Past(ledger[m].run) => pc'[ledger[m].run] \notin Begun \cup {"unclear", "bucket"}
          BY <5>2 DEF Past
        <5> QED BY <1>10, <4>1, <5>1, <5>3, <5>4 DEF Seized
      <4> QED BY <1>2, <3>1, <4>3, <4>4
    <3> QED BY <1>2, <1>4, <3>2, <3>3
  <2> QED BY <2>2 DEF InTime, Past, Seized
<1>6. PutPast'
  BY <1>1, OwnerIsRun DEF HoldInv, PutPast, Past
<1>7. OfferedLate'
  BY <1>2 DEF OfferedLate
<1>8. over \subseteq over' /\ \A s \in Run : Clock(s)' = Clock(s)
  BY DEF Observe, Clock
<1>9. ASSUME NEW s \in Run, pc'[s] = pc[s], generation'[s] = generation[s], parent'[s] = parent[s],
             entry.run = s => pc[s] \notin Begun
      PROVE  HoldSane(s)'
  <2>1. HoldSane(s) /\ TakeSane(s) /\ RunSane(s) /\ parent[s] \in Nat
    BY <1>1 DEF HoldInv, TakeInv, LInv, LocalType
  <2>2. parent[s] # Len(ledger')
    BY <1>2, <1>4, <2>1 DEF RunSane
  <2>3. pc[s] \in {"list"} \cup Asking =>
          \A n \in 1..Len(ledger') : n > parent[s] =>
              ledger'[n].run # s \/ ledger'[n].generation + 1 \in seized'
    <3>1. SUFFICES ASSUME pc[s] \in {"list"} \cup Asking,
                          NEW n \in 1..Len(ledger'), n > parent[s]
                   PROVE  ledger'[n].run # s \/ ledger'[n].generation + 1 \in seized'
      OBVIOUS
    <3>2. CASE n \in 1..Len(ledger)
      BY <1>4, <1>10, <2>1, <3>1, <3>2 DEF HoldSane, Seized
    <3>3. CASE n = Len(ledger) + 1
      BY <1>3, <1>4, <1>9, <3>1, <3>3 DEF Begun, Asking
    <3> QED BY <1>2, <1>4, <3>2, <3>3
  <2>4. Gave(s, generation[s])' /\ generation[s] # Last'.generation => Gave(s, generation[s])
    <3>1. SUFFICES ASSUME NEW n \in 1..Len(ledger'), ledger'[n].run = s, ledger'[n].generation = generation[s],
                          generation[s] # Last'.generation
                   PROVE  Gave(s, generation[s])
      BY <1>9 DEF Gave
    <3>2. n \in 1..Len(ledger)
      BY <1>2, <1>4, <3>1
    <3> QED BY <1>4, <3>1, <3>2 DEF Gave
  <2>5. Gave(s, generation[s]) => ledger # <<>>
    BY <1>1, GivenNotAbove
  <2>6. CASE pc[s] \in {"unclear", "bucket"} /\ Gave(s, generation[s])
               /\ generation[s] = Last.generation
    <3>1. ledger # <<>> /\ Last.run = s
      BY <1>1, <2>5, <2>6, GivenNotAbove
    <3>2. Last.expires = expires[s]
      BY <2>1, <2>6, <3>1 DEF TakeSane, NotLast, Last
    <3>3. \/ generation[s] \in over \/ Clock(s) > expires[s]
          \/ generation[s] + 1 \in seized'
      BY <1>10, <2>6, <3>1, <3>2 DEF Lapsed
    <3>4. pc[s] \notin Stored
      BY <2>6 DEF Stored, Pruning, Holding, Releasing
    <3> QED BY <1>8, <1>9, <2>2, <2>3, <3>3, <3>4 DEF HoldSane, Seized
  <2>7. CASE pc[s] \in Stored /\ generation[s] = Last.generation
    <3>1. ledger # <<>> /\ generation[s] \in stored
      <4>1. Gave(s, generation[s])
        BY <2>1, <2>7 DEF RunSane, Stored, Putting
      <4> QED BY <2>1, <2>5, <2>7, <4>1 DEF TakeSane
    <3>2. generation[s] \in over \/ generation[s] + 1 \in seized'
      BY <1>10, <2>7, <3>1 DEF Lapsed
    <3>3. pc[s] \notin {"list", "unclear", "bucket"} \cup Asking
      BY <2>7 DEF Asking, Stored, Pruning, Holding, Releasing
    <3> QED BY <1>8, <1>9, <2>2, <3>2, <3>3 DEF HoldSane, Seized
  <2>8. CASE ~(pc[s] \in {"unclear", "bucket"} /\ Gave(s, generation[s]) /\ generation[s] = Last.generation)
              /\ ~(pc[s] \in Stored /\ generation[s] = Last.generation)
    <3>1. (pc[s] \in {"unclear", "bucket"} /\ Gave(s, generation[s])' /\ generation[s] # Last'.generation) =>
              \/ generation[s] \in over \/ Clock(s) > expires[s]
              \/ generation[s] + 1 \in seized'
      BY <1>10, <2>1, <2>4, <2>8 DEF HoldSane, Seized
    <3>2. pc[s] \in Stored => generation[s] \in over \/ generation[s] + 1 \in seized'
      BY <1>10, <2>1, <2>8 DEF HoldSane, Seized
    <3> QED BY <1>8, <1>9, <2>2, <2>3, <3>1, <3>2 DEF HoldSane, Seized
  <2> QED BY <2>6, <2>7, <2>8
<1> QED BY <1>3, <1>4, <1>5, <1>6, <1>7, <1>9

LEMMA ClaimHolds ==
    ASSUME HoldInv, NextInv', NEW r \in Run, Claim(r)
    PROVE  HoldInv'
<1>1. LInv /\ TakeInv /\ NextInv /\ HoldSane(r) /\ TakeSane(r)
  BY DEF HoldInv, NextInv, TakeInv, SkipInv
<1>2. /\ Append1(Entry(r)) /\ parent[r] = Len(ledger)
      /\ Entry(r) \in Claimed /\ Entry(r).run = r
      /\ Entry(r).generation = generation'[r] /\ Entry(r).old = OldLook(r)
      /\ Entry(r).generation > Generation(Len(ledger))
      /\ UNCHANGED <<time, skew, expires>> /\ Observe /\ OthersSame(r)
      /\ parent' = [parent EXCEPT ![r] = 0] /\ pc[r] = "create" /\ pc'[r] = "bucket"
  BY <1>1, ClaimFacts
<1>3. ledger = <<>> \/ (Lapsed /\ Settled) \/ Entry(r).old
  BY <1>1, <1>2 DEF HoldSane, Awaits, TakeSane, Knows
<1>4. Entry(r).generation = Generation(Len(ledger)) + 1
  BY <1>1, <1>2, AsksNext
<1>5. \A s \in Run : Past(s) => Past(s)'
  BY <1>2 DEF Past, Begun, OthersSame
<1>6. PICK entry \in Claimed : entry = Entry(r)
  BY <1>2
<1>7. /\ InTime' /\ PutPast' /\ OfferedLate' /\ Last'.generation = generation'[r]
      /\ \A s \in Run :
           pc'[s] = pc[s] /\ generation'[s] = generation[s] /\ parent'[s] = parent[s]
               /\ (entry.run = s => pc[s] \notin Begun)
           => HoldSane(s)'
  BY <1>1, <1>2, <1>3, <1>4, <1>5, <1>6, GrowthHolds
<1>8. \A s \in Run \ {r} : HoldSane(s)'
  <2> TAKE s \in Run \ {r}
  <2>1. pc'[s] = pc[s] /\ generation'[s] = generation[s] /\ parent'[s] = parent[s]
    BY <1>1, <1>2 DEF OthersSame, LInv, LocalType
  <2> QED BY <1>2, <1>6, <1>7, <2>1
<1>9. HoldSane(r)'
  BY <1>2, <1>7 DEF HoldSane, Awaits, Asking, Stored, Pruning, Holding, Releasing
<1> QED BY <1>7, <1>8, <1>9 DEF HoldInv

LEMMA LandHolds ==
    ASSUME HoldInv, NextInv', NEW entry \in floating, Land(entry)
    PROVE  HoldInv'
<1> USE DEF Land, store, look, local, thread
<1>1. /\ LInv /\ entry \in Claimed /\ entry.run \in Run
      /\ entry.generation = Generation(Len(ledger)) + 1
  BY DEF HoldInv, NextInv, NextOffered, TakeInv, SkipInv, LInv, LedgerType, Claimed
<1>2. ledger = <<>> \/ (Lapsed /\ Settled) \/ entry.old
  BY DEF HoldInv, OfferedLate, NextInv, TakeInv, Offered
<1>3. \A s \in Run : Past(s) => Past(s)'
  BY DEF Past
<1>4. /\ InTime' /\ PutPast' /\ OfferedLate'
      /\ \A s \in Run :
           pc'[s] = pc[s] /\ generation'[s] = generation[s] /\ parent'[s] = parent[s]
               /\ (entry.run = s => pc[s] \notin Begun)
           => HoldSane(s)'
  BY <1>1, <1>2, <1>3, GrowthHolds
<1>5. ASSUME NEW s \in Run PROVE HoldSane(s)'
  <2>1. entry.run = s => pc[s] \notin Begun
    BY DEF HoldInv, NextInv, TakeInv, SkipInv, SkipSane, Silent
  <2> QED BY <1>4, <2>1
<1> QED BY <1>4, <1>5 DEF HoldInv

\* A run that asks for a generation it did not see was never given it, but one
\* that was succeeded on an old look.
LEMMA UnclearHolds ==
    ASSUME HoldInv, NextInv', NEW r \in Run, ClaimUnclear(r)
    PROVE  HoldInv'
<1>1. LInv /\ LocalType /\ HoldSane(r) /\ RunSane(r)
  BY DEF HoldInv, NextInv, TakeInv, SkipInv, LInv
<1>2. /\ UNCHANGED <<ledger, parent, time, skew, stored, object, seized, expires>>
      /\ Observe /\ pc[r] = "create" /\ pc'[r] = "unclear" /\ OthersSame(r)
      /\ generation'[r] = seen[r] + 1 /\ Entry(r).old = OldLook(r)
      /\ floating' = IF Parented(r) THEN floating \cup {Entry(r)} ELSE floating
  BY <1>1, UnclearFacts
<1>3. Gave(r, seen[r] + 1) => Seized(seen[r] + 1)
  <2>1. SUFFICES ASSUME NEW n \in 1..Len(ledger), ledger[n].run = r,
                        ledger[n].generation = seen[r] + 1, ~Seized(seen[r] + 1)
                 PROVE  FALSE
    BY DEF Gave
  <2>2. parent[r] \in Nat /\ seen[r] \in Nat /\ Len(ledger) \in Nat /\ parent[r] <= Len(ledger)
        /\ Generation(parent[r]) <= seen[r]
    BY <1>1, <1>2, LengthType, LeaseConstants DEF LocalType, RunSane, Asking
  <2>3. n <= parent[r]
    BY <1>1, <1>2, <2>1, <2>2 DEF HoldSane, Asking
  <2>4. parent[r] \in 1..Len(ledger) /\ Generation(parent[r]) = ledger[parent[r]].generation
    BY <2>2, <2>3 DEF Generation
  <2>5. ledger[n].generation <= ledger[parent[r]].generation
    <3>1. CASE n = parent[r]
      BY <2>1, <2>2, <2>4, <3>1
    <3>2. CASE n < parent[r]
      <4>1. ledger[n].generation < ledger[parent[r]].generation
        BY <1>1, <2>4, <3>2 DEF LInv, Ordered
      <4>2. ledger[parent[r]].generation \in Nat
        BY <1>1, <2>4, CommitType DEF Gen
      <4> QED BY <2>1, <2>2, <4>1, <4>2
    <3> QED BY <2>2, <2>3, <3>1, <3>2
  <2>6. ledger[parent[r]].generation \in Nat
    BY <1>1, <2>4, CommitType DEF Gen
  <2> QED BY <2>1, <2>2, <2>4, <2>5, <2>6
<1>4. /\ Last' = Last /\ over \subseteq over'
      /\ \A s \in Run : Clock(s)' = Clock(s) /\ (Past(s) => Past(s)')
  BY <1>1, <1>2 DEF Last, Observe, Clock, Past, OthersSame, Begun
<1>5. ledger # <<>> /\ Settled => Settled'
  <2>1. ledger # <<>> => Last.run \in Run
    BY <1>1, LastFacts
  <2> QED BY <1>2, <1>4, <2>1 DEF Settled, Past
<1>6. InTime'
  <2>1. \A n \in 1..Len(ledger) : ledger[n].run \in Run
    BY <1>1, CommitType DEF Commit
  <2> QED BY <1>2, <1>4, <2>1 DEF HoldInv, InTime, Past, Seized
<1>7. PutPast'
  BY <1>1, <1>2, <1>4, OwnerIsRun DEF HoldInv, PutPast, Past
<1>8. OfferedLate'
  <2>1. Parented(r) => ledger = <<>> \/ Settled \/ Entry(r).old
    BY <1>1, <1>2 DEF HoldSane, Awaits, Parented
  <2>2. \A entry \in floating' : ledger = <<>> \/ Settled \/ entry.old
    BY <1>2, <2>1 DEF HoldInv, OfferedLate
  <2> QED BY <1>2, <1>5, <2>2 DEF OfferedLate
<1>9. HoldSane(r)'
  <2>1. Gave(r, generation[r])' => Seized(generation[r])'
    BY <1>2, <1>3 DEF Gave, Seized
  <2> QED BY <1>2, <2>1
      DEF HoldSane, Awaits, Asking, Stored, Pruning, Holding, Releasing
<1>10. ASSUME NEW s \in Run \ {r} PROVE HoldSane(s)'
  <2>1. /\ HoldSane(s) /\ pc'[s] = pc[s] /\ generation'[s] = generation[s]
        /\ parent'[s] = parent[s] /\ expires'[s] = expires[s]
        /\ seen'[s] = seen[s] /\ looked'[s] = looked[s]
    BY <1>2 DEF HoldInv, OthersSame
  <2>2. Gave(s, generation[s])' => Gave(s, generation[s])
    BY <1>2, <2>1 DEF Gave
  <2>3. parent[s] = Len(ledger) /\ ledger # <<>> => Awaits(s)'
    BY <1>5, <2>1 DEF HoldSane, Awaits, OldLook
  <2> QED BY <1>2, <1>4, <2>1, <2>2, <2>3 DEF HoldSane, Seized
<1> QED BY <1>6, <1>7, <1>8, <1>9, <1>10 DEF HoldInv

-----------------------------------------------------------------------------
(* Every step                                                              *)

LEMMA TickHolds ==
    ASSUME HoldInv, NextInv', LTick
    PROVE  HoldInv'
<1> USE DEF LTick, Tick, store, look, local, thread, ledgerVars
<1>1. LInv /\ time \in Nat /\ time' = time + 1 /\ Last' = Last /\ over \subseteq over'
  BY LeaseConstants DEF HoldInv, NextInv, TakeInv, SkipInv, LInv, ClockType, Last, Observe
<1>2. InTime' /\ PutPast'
  BY DEF HoldInv, InTime, PutPast, Past, Seized
<1>3. ledger # <<>> /\ Settled => Settled'
  <2>1. ledger # <<>> => Last.at \in Nat
    BY <1>1, LastFacts, LeaseConstants DEF Commit
  <2> QED BY <1>1, <2>1 DEF Settled, Past
<1>4. OfferedLate'
  BY <1>3 DEF HoldInv, OfferedLate
<1>5. ASSUME NEW s \in Run PROVE HoldSane(s)'
  <2>1. HoldSane(s) /\ skew[s] \in Nat /\ expires[s] \in Nat
    BY <1>1, LeaseConstants DEF HoldInv, LInv, ClockType, LocalType, LastReading
  <2>2. Clock(s) > expires[s] => Clock(s)' > expires[s]
    BY <1>1, <2>1 DEF Clock
  <2>3. Gave(s, generation[s])' => Gave(s, generation[s])
    BY DEF Gave
  <2>4. parent[s] = Len(ledger) /\ ledger # <<>> => Awaits(s)'
    BY <1>3, <2>1 DEF HoldSane, Awaits, OldLook
  <2> QED BY <1>1, <2>1, <2>2, <2>3, <2>4 DEF HoldSane, Seized
<1> QED BY <1>2, <1>4, <1>5 DEF HoldInv

LEMMA StutterHolds ==
    ASSUME HoldInv, NextInv', UNCHANGED allVars
    PROVE  HoldInv'
<1> USE DEF allVars, vars, store, look, local, thread, ledgerVars
<1>1. InTime' /\ PutPast' /\ (Settled <=> Settled') /\ Last' = Last
  BY DEF HoldInv, InTime, PutPast, Past, Settled, Last, Seized
<1>2. OfferedLate'
  BY <1>1 DEF HoldInv, OfferedLate
<1>3. \A s \in Run : HoldSane(s)'
  BY <1>1 DEF HoldInv, HoldSane, Awaits, OldLook, Gave, Clock, Seized
<1> QED BY <1>1, <1>2, <1>3 DEF HoldInv

LEMMA HoldStep == HoldInv /\ [LNext]_allVars => HoldInv'
<1> SUFFICES ASSUME HoldInv, [LNext]_allVars PROVE HoldInv'
  OBVIOUS
<1>1. NextInv'
  BY ChainKept DEF HoldInv
<1>2. CASE UNCHANGED allVars
  BY <1>1, <1>2, StutterHolds
<1>3. CASE LTick
  BY <1>1, <1>3, TickHolds
<1>4. CASE \E entry \in floating : Land(entry)
  BY <1>1, <1>4, LandHolds
<1>5. ASSUME NEW r \in Run,
             \/ LAcquire(r) \/ LFault(r) \/ LHeartbeat(r) \/ LAssertHeld(r)
             \/ LFinish(r) \/ LRelease(r) \/ LTrigger(r)
      PROVE  HoldInv'
  <2>1. CASE LAcquire(r)
    BY <1>1, <2>1, HeadHolds, ReadingHolds, EndingHolds, ClaimHolds, WonHolds, PutObjectHolds,
       StoringHolds
       DEF LAcquire
  <2>2. CASE LFault(r)
    BY <1>1, <2>2, UnclearHolds, FailedPutHolds, EndingHolds DEF LFault
  <2>3. CASE LHeartbeat(r) \/ LAssertHeld(r) \/ LFinish(r) \/ LRelease(r)
    BY <1>1, <2>3, HoldingHolds
  <2>4. CASE LTrigger(r)
    BY <1>1, <2>4, ReadingHolds
  <2> QED BY <1>5, <2>1, <2>2, <2>3, <2>4
<1> QED BY <1>2, <1>3, <1>4, <1>5 DEF LNext

LEMMA HoldInitial == LInit => HoldInv
<1> SUFFICES ASSUME LInit PROVE HoldInv
  OBVIOUS
<1>1. /\ ledger = <<>> /\ floating = {} /\ pc = [r \in Run |-> "idle"]
      /\ stored = {} /\ Len(ledger) = 0
  BY DEF LInit, Init
<1>2. InTime /\ PutPast /\ OfferedLate
  BY <1>1 DEF InTime, PutPast, OfferedLate
<1>3. \A r \in Run : HoldSane(r)
  BY <1>1 DEF HoldSane, Awaits, Asking, Stored, Pruning, Holding, Releasing
<1> QED BY <1>2, <1>3, NextInitial DEF HoldInv

\* Of any runs that got through _acquire_on_ledger, no two hold one generation,
\* and the older one's was released, or expired on its clock, or was taken over
\* on an old look: also when commits were stale, raised or landed late, and when
\* a winner put its object after a takeover.
THEOREM LedgerHasOneHolder == LSpec => []OneLiveHolder
<1>1. ASSUME HoldInv, NEW r \in Run, NEW s \in Run, r # s, pc[r] \in Winner, pc[s] \in Winner
      PROVE  /\ generation[r] # generation[s]
             /\ generation[r] < generation[s] =>
                    generation[r] \in over \/ generation[r] + 1 \in seized
  <2>1. LInv /\ pc[r] \in Stored /\ pc[s] \in Stored
    BY <1>1 DEF HoldInv, NextInv, TakeInv, SkipInv, Winner, Stored
  <2>2. Gave(r, generation[r]) /\ Gave(s, generation[s])
    BY <2>1, PutterFacts DEF Stored, Putting
  <2>3. PICK m \in 1..Len(ledger) : ledger[m].run = r /\ ledger[m].generation = generation[r]
    BY <2>2 DEF Gave
  <2>4. PICK n \in 1..Len(ledger) : ledger[n].run = s /\ ledger[n].generation = generation[s]
    BY <2>2 DEF Gave
  <2>5. Len(ledger) \in Nat /\ ledger[m].generation \in Nat /\ ledger[n].generation \in Nat
    BY <2>1, LengthType, CommitType DEF Gen
  <2>6. generation[r] # generation[s]
    <3>1. m # n
      BY <1>1, <2>3, <2>4
    <3> QED BY <2>1, <2>3, <2>4, <2>5, <3>1 DEF LInv, Ordered
  <2>7. generation[r] < generation[s] => generation[r] # Last.generation
    <3>1. generation[s] <= Generation(Len(ledger)) /\ ledger # <<>>
      BY <2>1, <2>2, GivenNotAbove
    <3>2. generation[s] <= Last.generation /\ Last.generation \in Nat
      BY <2>1, <3>1, LastFacts DEF Gen
    <3> QED BY <2>3, <2>4, <2>5, <3>2
  <2> QED BY <1>1, <2>1, <2>6, <2>7 DEF HoldInv, HoldSane, Seized
<1>2. HoldInv => OneLiveHolder
  BY <1>1 DEF OneLiveHolder
<1> QED BY <1>2, HoldInitial, HoldStep, PTL DEF LSpec
=============================================================================
