--------------------------- MODULE Catalog_proofs ---------------------------
(* Proofs about the catalog commits, for any number of runs and versions,  *)
(* and whatever the steps at which a run stalls.                           *)
EXTENDS Catalog, WellFoundedInduction, TLAPS

-----------------------------------------------------------------------------
(* A set of naturals with a bound has a largest member                     *)

LEMMA LessIsWellFounded ==
    IsWellFoundedOn({ss \in Nat \X Nat : ss[1] < ss[2]}, Nat)
BY NatLessThanWellFounded, Zenon DEF OpToRel

LEMMA LargestOfBounded ==
    ASSUME NEW N \in Nat, NEW S \in SUBSET (0..N), S # {}
    PROVE  \E m \in S : \A n \in S : n <= m
<1> DEFINE R == {ss \in Nat \X Nat : ss[1] < ss[2]}
           T == {N - x : x \in S}
<1>1. T \subseteq Nat /\ T # {}
  <2>1. \A x \in S : N - x \in Nat
    OBVIOUS
  <2> QED BY <2>1, Zenon
<1>2. PICK t \in T : \A u \in T : ~ (<<u, t>> \in R)
  <2> HIDE DEF T, R
  <2>1. IsWellFoundedOn(R, Nat)
    BY LessIsWellFounded DEF R
  <2> QED BY <1>1, <2>1, WFMin, Zenon
<1>3. PICK m \in S : t = N - m
  OBVIOUS
<1>4. \A n \in S : N - n \in T /\ ~ (N - n < t)
  BY <1>1, <1>2
<1> QED BY <1>3, <1>4

-----------------------------------------------------------------------------
(* The inductive invariant                                                 *)

StoreType ==
    /\ topGen \in Nat /\ current \in PointerType \cup {NoPointer}
    /\ version \in [Seqs -> Content \cup {Missing}]
    /\ manifest \in [Seqs -> ManifestType \cup {Missing}]
    /\ published \in Seq(PointerType)

LocalType ==
    /\ pc \in [Run -> PC] /\ gen \in [Run -> Nat]
    /\ base \in [Run -> PointerType \cup {NoPointer}]
    /\ next \in [Run -> 1..(MaxSeq + 1)]
    /\ work \in [Run -> Content] /\ phase \in [Run -> Phase]
    /\ plan \in [Run -> SUBSET Seqs]

\* A run that has used its slot, up to the read back of CURRENT.
Filled == {"manifest", "describe", "verify", "assert", "cas", "replace", "readback"}

\* A run opens and works in its first phase, and commits in no cleanup.
Phased(r) ==
    /\ pc[r] \in {"idle", "work"} \cup Opening => phase[r] = "in_run"
    /\ pc[r] \in Filled \cup {"put", "upload"} => phase[r] # "cleanup"

\* The slot a run fills comes after the version it was made from.
Slotted(r) ==
    /\ pc[r] \in {"put", "upload"} => next[r] \in Seqs
    /\ pc[r] \in Filled => BaseSeq(r) < next[r] - 1
    /\ pc[r] \notin {"get", "list"} => BaseSeq(r) < next[r]

\* The working copy holds what its base holds, and was opened or published
\* under no newer generation than the newest; than the own one, if it is asked
\* last thing before the compare-and-swap.
Based(r) ==
    /\ gen[r] <= topGen
    /\ base[r] # NoPointer =>
        /\ pc[r] # "get" => base[r].content \subseteq work[r]
        /\ base[r].gen <= topGen
        /\ pc[r] \in {"cas", "replace"} => base[r].gen <= gen[r]
    /\ pc[r] = "get" => base[r] # NoPointer

Sane(r) == Phased(r) /\ Slotted(r) /\ Based(r)

\* CURRENT is the last value it was given.
LastPublished ==
    /\ current = IF published = <<>> THEN NoPointer
                 ELSE published[Len(published)]
    /\ current # NoPointer => current.gen <= topGen

\* What a run's working copy was made from was published.
Drawn ==
    \A r \in Run : base[r] # NoPointer =>
        \E i \in 1..Len(published) : published[i] = base[r]

CatalogInv ==
    /\ fault \in Faults /\ gateway \in BOOLEAN
    /\ StoreType /\ LocalType /\ LastPublished /\ Drawn
    /\ \A r \in Run : Sane(r)

-----------------------------------------------------------------------------
(* What a step does to the memory of the run that takes it                 *)

Frame(r) ==
    \A s \in Run \ {r} :
        /\ pc'[s] = pc[s] /\ gen'[s] = gen[s] /\ base'[s] = base[s]
        /\ next'[s] = next[s] /\ work'[s] = work[s] /\ phase'[s] = phase[s]

\* Other runs stay sane: what they remember can only become older.
LEMMA OthersStaySane ==
    ASSUME CatalogInv, NEW r \in Run, Frame(r), Sane(r)', LocalType',
           topGen' \in Nat, topGen <= topGen'
    PROVE  \A s \in Run : Sane(s)'
<1>1. SUFFICES ASSUME NEW s \in Run \ {r} PROVE Sane(s)'
  OBVIOUS
<1>2. /\ pc'[s] = pc[s] /\ gen'[s] = gen[s] /\ base'[s] = base[s]
      /\ next'[s] = next[s] /\ work'[s] = work[s] /\ phase'[s] = phase[s]
  BY DEF Frame
<1>3. Sane(s) /\ topGen \in Nat /\ gen[s] \in Nat
      /\ (base[s] # NoPointer => base[s].gen \in Nat)
  BY DEF CatalogInv, StoreType, LocalType, PointerType
<1>4. Phased(s)'
  BY <1>2, <1>3 DEF Sane, Phased
<1>5. Slotted(s)'
  BY <1>2, <1>3 DEF Sane, Slotted, BaseSeq
<1>6. Based(s)'
  BY <1>2, <1>3 DEF Sane, Based
<1> QED BY <1>4, <1>5, <1>6 DEF Sane

LocalStep(r) == LocalType' /\ Frame(r) /\ Sane(r)'

\* A process that ends, and one that goes on to its next match after an error.
LEMMA ExitIsSane ==
    ASSUME CatalogInv, NEW r \in Run, NEW f, NEW t \in Ended, Exit(r, f, t),
           UNCHANGED <<topGen, gen>>
    PROVE  LocalStep(r)
<1>1. t \in PC /\ {} \in Content /\ {} \in SUBSET Seqs /\ 1 \in 1..(MaxSeq + 1)
  BY CatalogConstants DEF PC, Content
<1>2. LocalType' /\ Frame(r)
  BY <1>1 DEF CatalogInv, LocalType, Exit, Move, Frame, Phase
<1>3. /\ pc'[r] = t /\ base'[r] = NoPointer /\ next'[r] = 1
      /\ phase'[r] = "in_run"
  BY DEF CatalogInv, LocalType, Exit, Move
<1>4. gen'[r] <= topGen'
  BY DEF CatalogInv, Sane, Based
<1>5. Phased(r)' /\ Slotted(r)' /\ Based(r)'
  BY <1>3, <1>4 DEF Phased, Slotted, Based, BaseSeq, Ended, Filled
<1> QED BY <1>2, <1>5 DEF LocalStep, Sane

LEMMA FailIsSane ==
    ASSUME CatalogInv, NEW r \in Run,
           NEW f \in {"fence"} \cup Filled,
           Fail(r, f), UNCHANGED <<topGen, gen>>
    PROVE  LocalStep(r)
<1>1. CASE Exit(r, f, "done")
  BY <1>1, ExitIsSane DEF Ended
<1>2. CASE phase[r] = "in_run" /\ Move(r, f, "work") /\ UNCHANGED local
  <2>1. LocalType' /\ Frame(r)
    BY <1>2 DEF CatalogInv, LocalType, Move, local, copy, Frame, PC, Filled
  <2>2. pc[r] = f /\ pc'[r] = "work" /\ Sane(r) /\ phase[r] = "in_run"
    BY <1>2 DEF CatalogInv, LocalType, Move
  <2>3. Phased(r)' /\ Slotted(r)' /\ Based(r)'
    BY <1>2, <2>2
       DEF Sane, Phased, Slotted, Based, BaseSeq, Filled, local, copy
  <2> QED BY <2>1, <2>3 DEF LocalStep, Sane
<1> QED BY <1>1, <1>2 DEF Fail
-----------------------------------------------------------------------------
(* The steps of a run                                                      *)

LEMMA BaseSeqType ==
    ASSUME CatalogInv, NEW r \in Run
    PROVE  BaseSeq(r) \in 0..MaxSeq
BY CatalogConstants DEF CatalogInv, LocalType, BaseSeq, PointerType, Seqs

LEMMA NextSlot ==
    ASSUME CatalogInv, NEW r \in Run
    PROVE  LET m == Max(Stored \cup {BaseSeq(r)})
           IN  m \in Int /\ m + 1 \in 1..(MaxSeq + 1) /\ BaseSeq(r) <= m
<1> DEFINE S == Stored \cup {BaseSeq(r)}
<1>1. BaseSeq(r) \in 0..MaxSeq
  BY BaseSeqType
<1>2. S \subseteq 0..MaxSeq /\ S # {}
  BY <1>1, CatalogConstants DEF Stored, Seqs
<1>3. \E m \in S : \A n \in S : n <= m
  BY <1>2, CatalogConstants, LargestOfBounded
<1>4. Max(S) \in S /\ \A n \in S : n <= Max(S)
  BY <1>3 DEF Max
<1> QED BY <1>2, <1>4, CatalogConstants

LEMMA OpenIsSane ==
    ASSUME CatalogInv, NEW r \in Run,
           Acquire(r) \/ ReadCurrent(r) \/ GetVersion(r) \/ ListVersions(r)
    PROVE  LocalStep(r)
<1>1. Sane(r)
  BY DEF CatalogInv
<1>2. CASE Acquire(r)
  <2>1. LocalType' /\ Frame(r)
    BY <1>2 DEF CatalogInv, StoreType, LocalType, Acquire, Move, local, copy,
                Frame, PC, Opening
  <2>2. /\ pc[r] = "idle" /\ pc'[r] = "current" /\ gen'[r] = topGen'
        /\ topGen' = topGen + 1 /\ topGen \in Nat
    BY <1>2 DEF CatalogInv, StoreType, LocalType, Acquire, Move
  <2>3. base[r] # NoPointer => base[r].gen \in Nat
    BY DEF CatalogInv, LocalType, PointerType
  <2>4. Phased(r)' /\ Slotted(r)' /\ Based(r)'
    BY <1>1, <1>2, <2>2, <2>3
       DEF Acquire, local, copy, Sane, Phased, Slotted, Based, BaseSeq,
           Filled, Opening
  <2> QED BY <2>1, <2>4 DEF LocalStep, Sane
<1>3. CASE ReadCurrent(r)
  <2>1. LocalType' /\ Frame(r)
    BY <1>3 DEF CatalogInv, StoreType, LocalType, ReadCurrent, Move, Frame,
                PC, Opening
  <2>2. /\ pc[r] = "current" /\ base'[r] = current
        /\ pc'[r] = IF current = NoPointer THEN "list" ELSE "get"
    BY <1>3 DEF CatalogInv, StoreType, LocalType, ReadCurrent, Move
  <2>3. Phased(r)' /\ Slotted(r)' /\ Based(r)'
    BY <1>1, <1>3, <2>2
       DEF ReadCurrent, CatalogInv, LastPublished, Sane, Phased, Slotted,
           Based, Filled, Opening
  <2> QED BY <2>1, <2>3 DEF LocalStep, Sane
<1>4. CASE GetVersion(r)
  <2>1. base[r] # NoPointer
    BY <1>1, <1>4 DEF GetVersion, Move, Sane, Based
  <2>2. base[r].content \in Content
    BY <2>1 DEF CatalogInv, LocalType, PointerType
  <2>3. LocalType' /\ Frame(r)
    BY <1>4, <2>2 DEF CatalogInv, LocalType, GetVersion, Move, Frame, PC,
                      Opening
  <2>4. /\ pc[r] = "get" /\ pc'[r] = "list" /\ work'[r] = base[r].content
        /\ base' = base
    BY <1>4 DEF CatalogInv, LocalType, GetVersion, Move
  <2>5. Phased(r)' /\ Slotted(r)' /\ Based(r)'
    BY <1>1, <1>4, <2>4
       DEF GetVersion, Sane, Phased, Slotted, Based, Filled, Opening
  <2> QED BY <2>3, <2>5 DEF LocalStep, Sane
<1>5. CASE ListVersions(r)
  <2>1. LocalType' /\ Frame(r)
    BY <1>5, NextSlot
       DEF CatalogInv, StoreType, LocalType, ListVersions, Move, Frame, PC
  <2>2. /\ pc[r] = "list" /\ pc'[r] = "work" /\ base' = base
        /\ next'[r] = Max(Stored \cup {BaseSeq(r)}) + 1
    BY <1>5 DEF CatalogInv, LocalType, ListVersions, Move
  <2>3. BaseSeq(r)' = BaseSeq(r) /\ BaseSeq(r) < next'[r]
    <3>1. BaseSeq(r)' = BaseSeq(r)
      BY <2>2 DEF BaseSeq
    <3>2. /\ Max(Stored \cup {BaseSeq(r)}) \in Int
          /\ BaseSeq(r) <= Max(Stored \cup {BaseSeq(r)})
      BY NextSlot
    <3> QED BY <2>2, <3>1, <3>2, BaseSeqType, CatalogConstants
  <2>4. Phased(r)' /\ Slotted(r)' /\ Based(r)'
    BY <1>1, <1>5, <2>2, <2>3
       DEF ListVersions, Sane, Phased, Slotted, Based, Filled, Opening
  <2> QED BY <2>1, <2>4 DEF LocalStep, Sane
<1> QED BY <1>2, <1>3, <1>4, <1>5
LEMMA UploadIsSane ==
    ASSUME CatalogInv, NEW r \in Run,
           \/ Commit(r) \/ Send(r) \/ PutVersion(r) \/ VersionExists(r)
           \/ PutManifest(r) \/ ManifestExists(r) \/ Verify(r)
           \/ AssertAgain(r)
    PROVE  LocalStep(r)
<1>1. Sane(r) /\ BaseSeq(r) \in Int /\ next[r] \in 1..(MaxSeq + 1)
  BY BaseSeqType DEF CatalogInv, LocalType
<1>2. CASE Commit(r)
  <2>1. work[r] \cup {<<r, next[r]>>} \in Content
    BY <1>2 DEF CatalogInv, LocalType, Commit, Content
  <2>2. LocalType' /\ Frame(r)
    BY <1>2, <2>1
       DEF CatalogInv, LocalType, Commit, Move, Frame, PC, Committing, Phase
  <2>3. /\ pc[r] \in {"work", "clean"} /\ pc'[r] = "put" /\ next[r] \in Seqs
        /\ work[r] \subseteq work'[r]
        /\ \/ pc[r] = "work" /\ phase'[r] = phase[r]
           \/ phase'[r] = "run_end"
    BY <1>2 DEF CatalogInv, LocalType, Commit, Move
  <2>4. Phased(r)' /\ Slotted(r)' /\ Based(r)'
    BY <1>1, <1>2, <2>3
       DEF Commit, Sane, Phased, Slotted, Based, BaseSeq, Filled, Opening
  <2> QED BY <2>2, <2>4 DEF LocalStep, Sane
<1>3. CASE PutVersion(r) \/ VersionExists(r)
  <2>1. /\ pc[r] \in {"put", "upload"} /\ pc'[r] \in {"manifest", "fence"}
        /\ next[r] \in Seqs /\ next'[r] = next[r] + 1
        /\ base' = base /\ work' = work /\ phase' = phase /\ gen' = gen
        /\ topGen' = topGen
    BY <1>1, <1>3 DEF CatalogInv, LocalType, PutVersion, VersionExists, Move,
                      TakeSlot, Sane, Slotted
  <2>2. next[r] + 1 \in 1..(MaxSeq + 1)
    BY <2>1, CatalogConstants DEF Seqs
  <2>3. LocalType' /\ Frame(r)
    BY <1>3, <2>2
       DEF CatalogInv, LocalType, PutVersion, VersionExists, Move, TakeSlot,
           Frame, PC, Committing
  <2>4. Phased(r)' /\ Slotted(r)' /\ Based(r)'
    BY <1>1, <2>1
       DEF Sane, Phased, Slotted, Based, BaseSeq, Filled, Opening
  <2> QED BY <2>3, <2>4 DEF LocalStep, Sane
<1>4. CASE Send(r) \/ PutManifest(r) \/ ManifestExists(r) \/ Verify(r)
  <2>1. LocalType' /\ Frame(r)
    BY <1>4 DEF CatalogInv, LocalType, Send, PutManifest, ManifestExists, Verify,
                Move, local, copy, Frame, PC, Committing, Guarded
  <2>2. /\ \/ pc[r] = "put" /\ pc'[r] = "upload"
           \/ pc[r] = "manifest" /\ pc'[r] = "describe"
           \/ pc[r] = "cas" /\ pc'[r] = "replace"
           \/ pc[r] \in {"manifest", "describe"} /\ pc'[r] \in {"verify", "fence"}
           \/ pc[r] = "verify" /\ pc'[r] = "assert"
        /\ UNCHANGED <<local, gen, topGen>>
    BY <1>4 DEF CatalogInv, LocalType, Send, PutManifest, ManifestExists, Verify,
                Move
  <2>3. Phased(r)' /\ Slotted(r)' /\ Based(r)'
    BY <1>1, <2>2 DEF local, copy, Sane, Phased, Slotted, Based, BaseSeq,
                      Filled, Opening
  <2> QED BY <2>1, <2>3 DEF LocalStep, Sane
<1>5. CASE AssertAgain(r)
  <2>1. LocalType' /\ Frame(r)
    BY <1>5 DEF CatalogInv, LocalType, AssertAgain, Move, local, copy, Frame,
                PC, Guarded
  <2>2. /\ pc[r] = "assert" /\ pc'[r] = "cas" /\ gen[r] = topGen
        /\ UNCHANGED <<local, gen, topGen>>
    BY <1>5 DEF CatalogInv, LocalType, AssertAgain, Move, Held
  <2>3. Phased(r)' /\ Slotted(r)' /\ Based(r)'
    BY <1>1, <2>2 DEF local, copy, Sane, Phased, Slotted, Based, BaseSeq,
                      Filled, Opening
  <2> QED BY <2>1, <2>3 DEF LocalStep, Sane
<1> QED BY <1>2, <1>3, <1>4, <1>5

LEMMA PublishIsSane ==
    ASSUME CatalogInv, NEW r \in Run, Cas(r) \/ ReadBack(r)
    PROVE  LocalStep(r)
<1>1. /\ Sane(r) /\ BaseSeq(r) \in Int /\ next[r] \in 1..(MaxSeq + 1)
      /\ topGen \in Nat /\ gen[r] \in Nat
  BY BaseSeqType DEF CatalogInv, LocalType, StoreType
<1>2. CASE Cas(r)
  <2>1. LocalType' /\ Frame(r)
    BY <1>2 DEF CatalogInv, LocalType, Cas, Replace, Move, local, copy, Frame,
                PC, Guarded
  <2>2. /\ pc[r] \in {"cas", "replace"} /\ pc'[r] = "readback"
        /\ UNCHANGED <<local, gen, topGen>>
    BY <1>2 DEF CatalogInv, LocalType, Cas, Replace, Move
  <2>3. Phased(r)' /\ Slotted(r)' /\ Based(r)'
    BY <1>1, <2>2 DEF local, copy, Sane, Phased, Slotted, Based, BaseSeq,
                      Filled, Opening
  <2> QED BY <2>1, <2>3 DEF LocalStep, Sane
<1>3. CASE ReadBack(r)
  <2>1. LocalType' /\ Frame(r)
    BY <1>3 DEF CatalogInv, StoreType, LocalType, ReadBack, Move, Frame, PC,
                Guarded
  <2>2. /\ pc[r] = "readback" /\ pc'[r] = "prune" /\ base'[r] = current
        /\ UNCHANGED <<next, work, phase, gen, topGen>>
    BY <1>3 DEF CatalogInv, LocalType, ReadBack, Move
  <2>3. /\ current = Pointer(r) /\ current.seq = next[r] - 1
        /\ current.content = work[r] /\ current.gen = gen[r]
    BY <1>3 DEF ReadBack, Pointer, Slot
  <2>4. BaseSeq(r)' < next[r]
    BY <1>1, <2>2, <2>3 DEF BaseSeq
  <2>5. Phased(r)' /\ Slotted(r)' /\ Based(r)'
    BY <1>1, <2>2, <2>3, <2>4
       DEF Sane, Phased, Slotted, Based, Filled, Opening
  <2> QED BY <2>1, <2>5 DEF LocalStep, Sane
<1> QED BY <1>2, <1>3

\* The steps of a pruning, and the ends of a run or of one of its commits.
LEMMA PruneIsSane ==
    ASSUME CatalogInv, NEW r \in Run,
           \/ Cleanup(r) \/ PruneAfterRunEnd(r) \/ PruneOwn(r)
           \/ PlanPruning(r) \/ DeleteVersion(r) \/ DeleteManifest(r)
           \/ Pruned(r)
    PROVE  LocalStep(r)
<1>1. Sane(r)
  BY DEF CatalogInv
<1>2. CASE Pruned(r) /\ phase[r] = "run_end" /\ Exit(r, "delete", "done")
  BY <1>2, ExitIsSane DEF Pruned, Ended
<1>3. CASE /\ Pruned(r) /\ UNCHANGED local
           /\ \/ phase[r] = "in_run" /\ Move(r, "delete", "work")
              \/ phase[r] = "cleanup" /\ Move(r, "delete", "clean")
  <2>1. LocalType' /\ Frame(r)
    BY <1>3 DEF CatalogInv, LocalType, Pruned, Move, local, copy, Frame, PC
  <2>2. /\ pc[r] = "delete"
        /\ \/ pc'[r] = "clean"
           \/ pc'[r] = "work" /\ phase[r] = "in_run"
    BY <1>3 DEF CatalogInv, LocalType, Move
  <2>3. UNCHANGED <<local, gen, topGen>>
    BY <1>3 DEF Pruned
  <2>4. Phased(r)' /\ Slotted(r)' /\ Based(r)'
    BY <1>1, <2>2, <2>3
       DEF local, copy, Sane, Phased, Slotted, Based, BaseSeq, Filled, Opening
  <2> QED BY <2>1, <2>4 DEF LocalStep, Sane
<1>4. CASE \/ Cleanup(r) \/ PruneAfterRunEnd(r) \/ PruneOwn(r)
           \/ PlanPruning(r) \/ DeleteVersion(r) \/ DeleteManifest(r)
  <2>1. plan' \in [Run -> SUBSET Seqs]
    <3>1. Stored \subseteq Seqs /\ Superseded(r) \subseteq Seqs
      BY DEF Stored, Superseded
    <3>2. CASE Cleanup(r) \/ PruneAfterRunEnd(r) \/ PruneOwn(r)
      BY <3>1, <3>2 DEF CatalogInv, LocalType, Cleanup, PruneAfterRunEnd,
                        PruneOwn
    <3>3. CASE PlanPruning(r) \/ DeleteVersion(r) \/ DeleteManifest(r)
      BY <3>3 DEF CatalogInv, LocalType, PlanPruning, Outdated,
                  DeleteVersion, DeleteManifest, local, copy
    <3> QED BY <1>4, <3>2, <3>3
  <2>2. LocalType' /\ Frame(r)
    BY <1>4, <2>1
       DEF CatalogInv, LocalType, Cleanup, PruneAfterRunEnd, PruneOwn,
           PlanPruning, DeleteVersion, DeleteManifest, Move, local, copy,
           Frame, PC, Guarded, Phase
  <2>3. /\ pc[r] \in {"work", "prune", "manifests", "delete", "rest"}
        /\ pc'[r] \in {"manifests", "delete", "rest"}
        /\ UNCHANGED <<copy, gen, topGen>>
    BY <1>4 DEF CatalogInv, LocalType, Cleanup, PruneAfterRunEnd, PruneOwn,
                PlanPruning, DeleteVersion, DeleteManifest, Move, local
  <2>4. Phased(r)' /\ Slotted(r)' /\ Based(r)'
    BY <1>1, <2>3 DEF copy, Sane, Phased, Slotted, Based, BaseSeq, Filled,
                      Opening
  <2> QED BY <2>2, <2>4 DEF LocalStep, Sane
<1> QED BY <1>2, <1>3, <1>4 DEF Pruned

LEMMA EndIsSane ==
    ASSUME CatalogInv, NEW r \in Run,
           \/ GetFails(r) \/ Fence(r) \/ VerifyFails(r) \/ LeaseLost(r)
           \/ CasConflict(r) \/ CasUnclear(r) \/ ReadBackDiffers(r)
           \/ StoreError(r) \/ Crash(r)
    PROVE  LocalStep(r)
<1>1. UNCHANGED <<topGen, gen>>
  BY DEF GetFails, Fence, VerifyFails, LeaseLost, CasConflict, CasUnclear,
         Replace, ReadBackDiffers, StoreError, Crash
<1>2. CASE \E f, t : t \in Ended /\ Exit(r, f, t)
  BY <1>1, <1>2, ExitIsSane
<1>3. CASE \E f \in {"fence"} \cup Filled : Fail(r, f)
  BY <1>1, <1>3, FailIsSane
<1>4. CASE /\ phase[r] = "in_run" /\ TakeSlot(r)
           /\ Move(r, "put", "work") \/ Move(r, "upload", "work")
  <2>1. Sane(r) /\ BaseSeq(r) \in Int /\ next[r] \in 1..(MaxSeq + 1)
    BY BaseSeqType DEF CatalogInv, LocalType
  <2>2. /\ pc[r] \in {"put", "upload"} /\ pc'[r] = "work" /\ phase'[r] = "in_run"
        /\ next[r] \in Seqs /\ next'[r] = next[r] + 1
        /\ base' = base /\ work' = work
    BY <1>4, <2>1 DEF CatalogInv, LocalType, Move, TakeSlot, Sane, Slotted
  <2>3. next[r] + 1 \in 1..(MaxSeq + 1)
    BY <2>2, CatalogConstants DEF Seqs
  <2>4. LocalType' /\ Frame(r)
    BY <1>1, <1>4, <2>3 DEF CatalogInv, LocalType, Move, TakeSlot, Frame, PC
  <2>5. Phased(r)' /\ Slotted(r)' /\ Based(r)'
    BY <1>1, <2>1, <2>2
       DEF Sane, Phased, Slotted, Based, BaseSeq, Filled, Opening
  <2> QED BY <2>4, <2>5 DEF LocalStep, Sane
<1> QED
  BY <1>2, <1>3, <1>4
     DEF GetFails, Fence, VerifyFails, LeaseLost, CasConflict, CasUnclear,
         ReadBackDiffers, StoreError, Crash, Ended, Filled
-----------------------------------------------------------------------------
(* The store, CURRENT and its history                                      *)

LEMMA ManifestStaysTyped ==
    ASSUME CatalogInv, NEW r \in Run, PutVersion(r) \/ PutManifest(r)
    PROVE  StoreType' /\ UNCHANGED <<topGen, current, published>>
<1>1. CASE PutVersion(r)
  BY <1>1 DEF CatalogInv, StoreType, LocalType, PutVersion
<1>2. CASE PutManifest(r)
  <2>1. phase[r] \in {"in_run", "run_end"}
    BY <1>2 DEF CatalogInv, LocalType, Phase, PutManifest, Move, Sane, Phased,
                Filled
  <2>2. [run |-> r, kind |-> phase[r], content |-> work[r]] \in ManifestType
    BY <2>1 DEF CatalogInv, LocalType, ManifestType
  <2> QED BY <1>2, <2>2 DEF CatalogInv, StoreType, PutManifest
<1> QED BY <1>1, <1>2

LEMMA DeleteStaysTyped ==
    ASSUME CatalogInv, NEW r \in Run, DeleteVersion(r) \/ DeleteManifest(r)
    PROVE  StoreType' /\ UNCHANGED <<topGen, current, published>>
<1>1. CASE DeleteVersion(r)
  BY <1>1 DEF CatalogInv, StoreType, DeleteVersion
<1>2. CASE DeleteManifest(r)
  BY <1>2 DEF CatalogInv, StoreType, DeleteManifest
<1> QED BY <1>1, <1>2

LEMMA AppendFacts ==
    ASSUME NEW S, NEW q \in Seq(S), NEW e \in S
    PROVE  /\ Append(q, e) \in Seq(S) /\ Append(q, e) # <<>>
           /\ Len(q) \in Nat /\ Len(Append(q, e)) = Len(q) + 1
           /\ Append(q, e)[Len(q) + 1] = e
           /\ \A i \in 1..Len(q) : i \in 1..(Len(q) + 1) /\ Append(q, e)[i] = q[i]
OBVIOUS

\* A publish of CURRENT adds the run's pointer to its history.
LEMMA ReplaceStaysTyped ==
    ASSUME CatalogInv, NEW r \in Run, pc[r] \in {"cas", "replace"}, Replace(r)
    PROVE  /\ StoreType' /\ LastPublished'
           /\ Pointer(r) \in PointerType
           /\ Len(published) \in Nat /\ Len(published') = Len(published) + 1
           /\ published'[Len(published')] = Pointer(r)
           /\ \A i \in 1..Len(published) : i \in 1..Len(published') /\ published'[i] = published[i]
<1> DEFINE p == Pointer(r)
<1>1. /\ Sane(r) /\ BaseSeq(r) \in 0..MaxSeq /\ next[r] \in 1..(MaxSeq + 1)
      /\ topGen \in Nat /\ gen[r] \in Nat /\ work[r] \in Content
      /\ published \in Seq(PointerType)
  BY BaseSeqType DEF CatalogInv, LocalType, StoreType
<1>2. p \in PointerType /\ p.gen <= topGen
  <2>1. next[r] - 1 \in Seqs /\ gen[r] <= topGen
    BY <1>1, CatalogConstants DEF Sane, Slotted, Based, Filled, Seqs
  <2> QED BY <1>1, <2>1 DEF Pointer, Slot, PointerType
<1>3. /\ current' = p /\ published' = Append(published, p)
      /\ UNCHANGED <<topGen, version, manifest, gen>>
  BY DEF Replace
<1> HIDE DEF p
<1>4. /\ published' \in Seq(PointerType) /\ published' # <<>>
      /\ Len(published) \in Nat /\ Len(published') = Len(published) + 1
      /\ published'[Len(published')] = p
      /\ \A i \in 1..Len(published) : i \in 1..Len(published') /\ published'[i] = published[i]
  BY <1>1, <1>2, <1>3, AppendFacts
<1>5. StoreType' /\ LastPublished'
  BY <1>2, <1>3, <1>4 DEF CatalogInv, StoreType, LastPublished
<1> QED BY <1>2, <1>4, <1>5 DEF p

\* The pointer is made from a published one, or is the first of an empty lake;
\* from CURRENT, if the condition still held when the pointer was put.
LEMMA ReplaceFollows ==
    ASSUME CatalogInv, NEW r \in Run, pc[r] \in {"cas", "replace"}, Replace(r),
           Fenced => Unmoved(r)
    PROVE  History!Publish
<1> DEFINE p == Pointer(r)
<1>1. /\ Sane(r) /\ BaseSeq(r) \in 0..MaxSeq /\ next[r] \in 1..(MaxSeq + 1)
      /\ gen[r] \in Nat /\ work[r] \in Content /\ published \in Seq(PointerType)
  BY BaseSeqType DEF CatalogInv, LocalType, StoreType
<1>2. /\ p.seq = next[r] - 1 /\ p.content = work[r] /\ p.gen = gen[r]
      /\ p.parent = BaseSeq(r)
  BY DEF Pointer, Slot
<1>3. BaseSeq(r) < next[r] - 1
  BY <1>1 DEF Sane, Slotted, Filled
<1>4. /\ Len(published) \in Nat /\ Len(published') = Len(published) + 1
      /\ published'[Len(published')] = p
      /\ \A i \in 1..Len(published) : published'[i] = published[i]
  BY ReplaceStaysTyped
<1> HIDE DEF p
<1>5. CASE base[r] = NoPointer
  <2>1. p.parent = 0
    BY <1>2, <1>5 DEF BaseSeq
  <2>2. Fenced => 0 = Len(published)
    <3>1. published # <<>> => current # NoPointer
      <4>1. published # <<>> => published[Len(published)] \in PointerType
        BY <1>1
      <4> QED BY <4>1, CatalogConstants DEF CatalogInv, LastPublished
    <3> QED BY <1>1, <1>5, <3>1 DEF Unmoved
  <2>3. 0 \in 0..Len(published)
    BY <1>4
  <2> QED BY <1>4, <2>1, <2>2, <2>3 DEF History!Publish
<1>6. CASE base[r] # NoPointer
  <2>1. /\ BaseSeq(r) = base[r].seq /\ base[r].seq \in Nat
        /\ base[r].gen <= gen[r] /\ base[r].content \subseteq work[r]
    BY <1>1, <1>6 DEF CatalogInv, LocalType, BaseSeq, Sane, Based, PointerType, Seqs
  <2>2. History!Follows(base[r], p)
    BY <1>1, <1>2, <1>3, <2>1 DEF History!Follows
  <2>3. PICK i \in 1..Len(published) :
            published[i] = base[r] /\ (Fenced => i = Len(published))
    <3>1. CASE Fenced
      <4>1. current = base[r] /\ published # <<>>
        BY <1>6, <3>1 DEF Unmoved, CatalogInv, LastPublished
      <4>2. Len(published) \in 1..Len(published) /\ published[Len(published)] = base[r]
        BY <1>1, <4>1 DEF CatalogInv, LastPublished
      <4> QED BY <4>2
    <3>2. CASE ~Fenced
      BY <1>6, <3>2 DEF CatalogInv, Drawn
    <3> QED BY <3>1, <3>2
  <2>4. i \in 0..Len(published) /\ i # 0
    BY <1>4
  <2> QED BY <1>4, <2>2, <2>3, <2>4 DEF History!Publish
<1> QED BY <1>5, <1>6

\* Every other step leaves CURRENT and its history alone.
Aside(r) ==
    \/ Open(r) \/ Upload(r) \/ CasConflict(r) \/ ReadBack(r)
    \/ ReadBackDiffers(r) \/ Prune(r) \/ Crash(r)

LEMMA AsideKeepsHistory ==
    ASSUME CatalogInv, NEW r \in Run, Aside(r)
    PROVE  StoreType' /\ LastPublished' /\ UNCHANGED <<topGen, current, published>>
<1>1. StoreType' /\ UNCHANGED <<topGen, current, published>>
  <2>1. CASE PutVersion(r) \/ PutManifest(r)
    BY <2>1, ManifestStaysTyped
  <2>2. CASE DeleteVersion(r) \/ DeleteManifest(r)
    BY <2>2, DeleteStaysTyped
  <2>3. CASE UNCHANGED <<topGen, store, published>>
    BY <2>3 DEF CatalogInv, StoreType, store
  <2> QED
    BY <2>1, <2>2, <2>3
       DEF Aside, Open, ReadCurrent, GetVersion, GetFails, ListVersions,
           Upload, Commit, Send, VersionExists, ManifestExists, Fence, Verify,
           VerifyFails, AssertAgain, LeaseLost, StoreError, CasConflict,
           ReadBack, ReadBackDiffers, Prune, Cleanup, PruneAfterRunEnd,
           PruneOwn, PlanPruning, Pruned, Crash
<1> QED BY <1>1 DEF CatalogInv, LastPublished

\* A run takes for its base what CURRENT is, or nothing.
LEMMA BaseIsCurrent ==
    ASSUME CatalogInv, NEW r \in Run,
           \/ Acquire(r) \/ Open(r) \/ Upload(r) \/ PublishCurrent(r)
           \/ Prune(r) \/ Crash(r),
           NEW s \in Run, base'[s] # base[s], base'[s] # NoPointer
    PROVE  base'[s] = current /\ UNCHANGED <<current, published>>
<1>1. LocalType
  BY DEF CatalogInv
<1>2. CASE ReadCurrent(r) \/ ReadBack(r)
  BY <1>1, <1>2 DEF LocalType, ReadCurrent, ReadBack, store
<1>3. ~ UNCHANGED base
  OBVIOUS
<1>4. ~ \E f, t : Exit(r, f, t)
  BY <1>1 DEF LocalType, Exit
<1>5. ~ \E f : Fail(r, f)
  BY <1>3, <1>4 DEF Fail, local, copy
<1>6. ~ (Acquire(r) \/ GetVersion(r) \/ ListVersions(r) \/ GetFails(r) \/ Crash(r))
  BY <1>3, <1>4 DEF Acquire, GetVersion, ListVersions, GetFails, Crash, local, copy
<1>7. ~ Upload(r)
  BY <1>3, <1>4, <1>5
     DEF Upload, Commit, Send, PutVersion, VersionExists, PutManifest, ManifestExists,
         Fence, Verify, VerifyFails, AssertAgain, LeaseLost, StoreError, TakeSlot,
         local, copy
<1>8. ~ (Cas(r) \/ CasConflict(r) \/ CasUnclear(r) \/ ReadBackDiffers(r))
  BY <1>3, <1>4, <1>5 DEF Cas, CasConflict, CasUnclear, ReadBackDiffers, local, copy
<1>9. ~ Prune(r)
  BY <1>3, <1>4
     DEF Prune, Cleanup, PruneAfterRunEnd, PruneOwn, PlanPruning, DeleteVersion,
         DeleteManifest, Pruned, local, copy
<1> QED BY <1>2, <1>6, <1>7, <1>8, <1>9 DEF Open, PublishCurrent

LEMMA StepKeepsInv ==
    ASSUME CatalogInv, Next
    PROVE  CatalogInv'
<1>1. PICK r \in Run :
        \/ Acquire(r) \/ Open(r) \/ Upload(r) \/ PublishCurrent(r)
        \/ Prune(r) \/ Crash(r)
  BY DEF Next
<1>2. LocalStep(r)
  BY <1>1, OpenIsSane, UploadIsSane, PublishIsSane, PruneIsSane, EndIsSane
     DEF Open, Upload, PublishCurrent, Prune
<1>3. /\ StoreType' /\ LastPublished' /\ topGen <= topGen'
      /\ \A i \in 1..Len(published) : i \in 1..Len(published') /\ published'[i] = published[i]
  <2>1. topGen \in Nat
    BY DEF CatalogInv, StoreType
  <2>2. CASE Acquire(r)
    <3>1. StoreType' /\ topGen' = topGen + 1 /\ UNCHANGED <<current, published>>
      BY <2>1, <2>2 DEF CatalogInv, StoreType, Acquire, store
    <3>2. current # NoPointer => current.gen \in Nat
      BY DEF CatalogInv, StoreType, PointerType
    <3> QED BY <2>1, <3>1, <3>2 DEF CatalogInv, LastPublished
  <2>3. CASE Cas(r) \/ CasUnclear(r)
    <3>1. pc[r] \in {"cas", "replace"} /\ Replace(r) /\ topGen' = topGen
      BY <2>3 DEF Cas, CasUnclear, Fail, Exit, Move, Replace
    <3> QED BY <2>1, <3>1, ReplaceStaysTyped
  <2>4. CASE Aside(r)
    BY <2>1, <2>4, AsideKeepsHistory
  <2> QED BY <1>1, <2>2, <2>3, <2>4 DEF PublishCurrent, Aside
<1>4. topGen' \in Nat
  BY <1>3 DEF StoreType
<1>5. fault' \in Faults /\ gateway' \in BOOLEAN
  BY DEF CatalogInv, Next, setting
<1>6. ASSUME NEW s \in Run, base'[s] # NoPointer
      PROVE  \E i \in 1..Len(published') : published'[i] = base'[s]
  <2>1. CASE base'[s] = base[s]
    BY <1>3, <1>6, <2>1 DEF CatalogInv, Drawn
  <2>2. CASE base'[s] # base[s]
    <3>1. base'[s] = current /\ UNCHANGED published
      BY <1>1, <1>6, <2>2, BaseIsCurrent
    <3>2. published \in Seq(PointerType) /\ published # <<>>
          /\ current = published[Len(published)]
      BY <1>6, <3>1 DEF CatalogInv, StoreType, LastPublished
    <3> QED BY <3>1, <3>2
  <2> QED BY <2>1, <2>2
<1> QED BY <1>2, <1>3, <1>4, <1>5, <1>6, OthersStaySane DEF CatalogInv, LocalStep, Drawn

LEMMA InitInv == Init => CatalogInv
<1> SUFFICES ASSUME Init PROVE CatalogInv
  OBVIOUS
<1>1. StoreType /\ LocalType
  BY CatalogConstants
     DEF Init, StoreType, LocalType, PC, Content, Phase, Seqs
<1>2. LastPublished /\ Drawn
  BY DEF Init, LastPublished, Drawn
<1>3. \A r \in Run : Sane(r)
  BY DEF Init, Sane, Phased, Slotted, Based, BaseSeq, Filled, Opening
<1>4. fault \in Faults /\ gateway \in BOOLEAN
  BY DEF Init
<1> QED BY <1>1, <1>2, <1>3, <1>4 DEF CatalogInv

LEMMA StutterKeepsInv ==
    ASSUME CatalogInv, UNCHANGED vars
    PROVE  CatalogInv'
BY DEF CatalogInv, vars, setting, store, local, copy, StoreType, LocalType,
       LastPublished, Drawn, Sane, Phased, Slotted, Based, BaseSeq

\* The catalog's state keeps its types: no sequence below 1 is ever published,
\* and no manifest is written by a cleanup (working.py, publish.py).
THEOREM CatalogTypeCorrect == Spec => []TypeOK
<1>1. CatalogInv => TypeOK
  BY DEF CatalogInv, StoreType, LocalType, TypeOK
<1>2. CatalogInv /\ [Next]_vars => CatalogInv'
  BY StepKeepsInv, StutterKeepsInv
<1> QED BY <1>1, <1>2, InitInv, PTL DEF Spec

-----------------------------------------------------------------------------
(* Who holds the lease, and what the gateway was asked to put              *)

\* No two runs have the same generation of the lease, and a run that has none
\* is idle.
OneEach ==
    /\ \A r, s \in Run : r # s /\ gen[r] = gen[s] => gen[r] = 0
    /\ \A r \in Run : pc[r] # "idle" => gen[r] # 0

\* Where a run may not lose its lease, it has the newest one.
Alone == fault # "stall" => \A r \in Run : pc[r] \in Prompt => Held(r)

\* The condition of a publish that the gateway is about to put still holds, if
\* the writers are fenced.
Sent(r) ==
    /\ pc[r] \in {"upload", "describe", "replace"} => gateway
    /\ pc[r] = "replace" /\ Fenced => Unmoved(r)

HistoryInv == CatalogInv /\ OneEach /\ Alone /\ \A r \in Run : Sent(r)

\* The steps of a run, but for the one that takes the lease.
Acts(r) == Open(r) \/ Upload(r) \/ PublishCurrent(r) \/ Prune(r) \/ Crash(r)

LEMMA ActsFrame ==
    ASSUME CatalogInv, NEW r \in Run, Acts(r)
    PROVE  /\ Frame(r) /\ UNCHANGED <<topGen, gen>>
           /\ \A s \in Run \ {r} : plan'[s] = plan[s]
           /\ pc[r] # "idle" /\ pc'[r] # "idle"
<1>1. Frame(r)
  BY OpenIsSane, UploadIsSane, PublishIsSane, PruneIsSane, EndIsSane
     DEF Acts, Open, Upload, PublishCurrent, Prune, LocalStep
<1>2. LocalType
  BY DEF CatalogInv
<1>3. CASE Open(r)
  <2>1. CASE ReadCurrent(r) \/ GetVersion(r) \/ ListVersions(r)
    BY <1>1, <1>2, <2>1 DEF LocalType, ReadCurrent, GetVersion, ListVersions, Move
  <2>2. CASE GetFails(r)
    BY <1>1, <1>2, <2>2 DEF LocalType, GetFails, Exit, Move
  <2> QED BY <1>3, <2>1, <2>2 DEF Open
<1>4. CASE \/ Commit(r) \/ Send(r) \/ PutVersion(r) \/ VersionExists(r) \/ PutManifest(r)
           \/ ManifestExists(r) \/ Verify(r) \/ AssertAgain(r)
  BY <1>1, <1>2, <1>4
     DEF LocalType, Commit, Send, PutVersion, VersionExists, TakeSlot, PutManifest,
         ManifestExists, Verify, AssertAgain, Move, local, copy
<1>5. CASE \/ Fence(r) \/ VerifyFails(r) \/ LeaseLost(r) \/ StoreError(r)
           \/ CasConflict(r) \/ CasUnclear(r) \/ ReadBackDiffers(r) \/ Crash(r)
  <2>1. UNCHANGED <<topGen, gen>>
    BY <1>5 DEF Fence, VerifyFails, LeaseLost, StoreError, CasConflict, CasUnclear,
                Replace, ReadBackDiffers, Crash
  <2>2. CASE \E f, t : f # "idle" /\ t # "idle" /\ Exit(r, f, t)
    BY <1>1, <1>2, <2>1, <2>2 DEF LocalType, Exit, Move
  <2>3. CASE \E f : f # "idle" /\ Move(r, f, "work") /\ UNCHANGED plan
    BY <1>1, <1>2, <2>1, <2>3 DEF LocalType, Move
  <2> QED BY <1>5, <2>2, <2>3
      DEF Fence, VerifyFails, LeaseLost, StoreError, CasConflict, CasUnclear,
          ReadBackDiffers, Crash, Fail, TakeSlot, local
<1>6. CASE Cas(r) \/ ReadBack(r)
  BY <1>1, <1>2, <1>6 DEF LocalType, Cas, Replace, ReadBack, Move, local, copy
<1>7. CASE Prune(r)
  <2>1. CASE \/ Cleanup(r) \/ PruneAfterRunEnd(r) \/ PruneOwn(r) \/ PlanPruning(r)
             \/ DeleteVersion(r) \/ DeleteManifest(r)
    BY <1>1, <1>2, <2>1
       DEF LocalType, Cleanup, PruneAfterRunEnd, PruneOwn, PlanPruning,
           DeleteVersion, DeleteManifest, Move, local, copy
  <2>2. CASE Pruned(r)
    BY <1>1, <1>2, <2>2 DEF LocalType, Pruned, Exit, Move, local, copy
  <2> QED BY <1>7, <2>1, <2>2 DEF Prune
<1> QED BY <1>3, <1>4, <1>5, <1>6, <1>7 DEF Acts, Upload, PublishCurrent

\* Who is not the newest is nowhere where it may not lose its lease.
LEMMA OnlyOneHeld ==
    ASSUME HistoryInv, fault # "stall", NEW r \in Run, NEW s \in Run \ {r},
           Held(s), pc[r] # "idle"
    PROVE  ~Held(r) /\ pc[r] \notin Prompt
BY DEF HistoryInv, Alone, OneEach, Held

\* The steps at which nothing may go wrong are among those that delete.
LEMMA PromptFacts ==
    ASSUME CatalogInv, fault # "stall"
    PROVE  /\ Guarded \subseteq Prompt
           /\ Prompt \subseteq Guarded \cup Committing \cup {"fence"}
           /\ fault = "unclear" => Committing \cup {"fence"} \subseteq Prompt
           /\ fault # "unclear" => Prompt = Guarded
           /\ Unclear => fault = "unclear"
BY CatalogConstants DEF CatalogInv, Prompt, Unclear

\* A run that lost its lease does not get to where it may not lose it.
LEMMA OutrunStaysOut ==
    ASSUME HistoryInv, fault # "stall", NEW r \in Run, Acts(r), ~Held(r)
    PROVE  /\ pc[r] \notin Guarded /\ pc'[r] \notin Prompt
           /\ ~ PublishCurrent(r) /\ ~ Prune(r)
           /\ fault = "unclear" => pc[r] \notin Committing
<1>1. CatalogInv /\ LocalType /\ pc[r] \notin Prompt
  BY DEF HistoryInv, Alone, CatalogInv
<1>2. /\ pc[r] \notin Guarded
      /\ fault = "unclear" => pc[r] \notin Committing
      /\ \A p \in {"list", "get", "work", "done", "dead"} : p \notin Prompt
      /\ fault # "unclear" => \A p \in Committing \cup {"fence"} : p \notin Prompt
  BY <1>1, PromptFacts DEF Guarded, Committing
<1>3. ~ PublishCurrent(r)
  BY <1>2 DEF PublishCurrent, Cas, CasConflict, CasUnclear, Fail, Exit, ReadBack,
              ReadBackDiffers, Move, Guarded
<1>4. ~ Prune(r)
  BY <1>2 DEF Prune, Cleanup, PruneAfterRunEnd, PruneOwn, PlanPruning, DeleteVersion,
              DeleteManifest, Pruned, Exit, Move, Guarded
<1>5. CASE Open(r) \/ LeaseLost(r) \/ Crash(r)
  <2>1. pc'[r] \in {"list", "get", "work", "done", "dead"}
    BY <1>1, <1>5 DEF LocalType, Open, ReadCurrent, GetVersion, GetFails,
                      ListVersions, LeaseLost, Crash, Exit, Move
  <2> QED BY <1>2, <1>3, <1>4, <2>1
<1>6. CASE \/ Send(r) \/ PutVersion(r) \/ VersionExists(r) \/ PutManifest(r)
           \/ ManifestExists(r) \/ Verify(r)
  <2>1. pc[r] \in Committing /\ pc'[r] \in Committing \cup {"fence"}
    BY <1>1, <1>2, <1>6
       DEF LocalType, Send, PutVersion, VersionExists, PutManifest, ManifestExists,
           Verify, Move, Committing, Guarded
  <2> QED BY <1>2, <1>3, <1>4, <2>1
<1>7. CASE Fence(r) \/ VerifyFails(r) \/ StoreError(r)
  <2>1. pc'[r] \in {"work", "done", "dead"}
    BY <1>1, <1>7 DEF LocalType, Fence, VerifyFails, StoreError, Fail, Exit, Move
  <2> QED BY <1>2, <1>3, <1>4, <2>1
<1>8. ~ (Commit(r) \/ AssertAgain(r))
  BY DEF Commit, AssertAgain
<1> QED BY <1>3, <1>4, <1>5, <1>6, <1>7, <1>8 DEF Acts, Upload

\* Whoever takes the lease had none, and whoever had it is nowhere where it may
\* not lose it.
LEMMA AcquireKeepsHistory ==
    ASSUME HistoryInv, UNCHANGED setting, NEW r \in Run, Acquire(r)
    PROVE  /\ OneEach' /\ Alone' /\ \A s \in Run : Sent(s)'
           /\ UNCHANGED <<current, published>>
<1>1. CatalogInv /\ LocalType /\ topGen \in Nat
      /\ UNCHANGED <<fault, gateway, current, published, base>>
  BY DEF HistoryInv, CatalogInv, StoreType, Acquire, store, local, copy, setting
<1>2. /\ pc[r] = "idle" /\ pc'[r] = "current"
      /\ gen'[r] = topGen + 1 /\ topGen' = topGen + 1
      /\ \A s \in Run \ {r} : pc'[s] = pc[s] /\ gen'[s] = gen[s]
  BY <1>1 DEF LocalType, Acquire, Move
<1>3. \A s \in Run : gen[s] \in Nat /\ gen[s] <= topGen
  BY <1>1 DEF CatalogInv, LocalType, Sane, Based
<1>4. OneEach'
  BY <1>1, <1>2, <1>3 DEF HistoryInv, OneEach
<1>5. ASSUME fault # "stall", NEW s \in Run
      PROVE  pc'[s] \notin Prompt
  <2>1. pc[s] \in Prompt => FALSE
    BY <1>5 DEF HistoryInv, Alone, Acquire
  <2>2. "current" \notin Prompt
    BY <1>1, <1>5, PromptFacts DEF Guarded, Committing
  <2> QED BY <1>2, <2>1, <2>2
<1>6. Alone'
  BY <1>1, <1>5 DEF Alone, Prompt
<1>7. \A s \in Run : Sent(s)'
  BY <1>1, <1>2 DEF HistoryInv, Sent, Fenced, Unmoved
<1> QED BY <1>1, <1>4, <1>6, <1>7

\* What a step that publishes CURRENT starts from.
LEMMA PublishFacts ==
    ASSUME HistoryInv, NEW r \in Run, Cas(r) \/ CasUnclear(r)
    PROVE  /\ pc[r] \in {"cas", "replace"} /\ Replace(r)
           /\ pc'[r] \notin {"upload", "describe", "replace"}
           /\ Fenced => Unmoved(r)
<1>1. pc[r] \in {"cas", "replace"} /\ Replace(r)
  BY DEF Cas, CasUnclear, Fail, Exit, Move
<1>2. pc'[r] \in {"readback", "work", "done"}
  BY DEF HistoryInv, CatalogInv, LocalType, Cas, CasUnclear, Fail, Exit, Move
<1>3. Fenced => Unmoved(r)
  BY <1>1 DEF HistoryInv, Sent, Replace
<1> QED BY <1>1, <1>2, <1>3

\* What the gateway was asked to put is put, or refused, by the run that asked;
\* no other run publishes while it waits, unless it lost its lease.
LEMMA ActKeepsSent ==
    ASSUME HistoryInv, UNCHANGED setting, NEW r \in Run, Acts(r), NEW s \in Run
    PROVE  Sent(s)'
<1>1. CatalogInv /\ LocalType /\ Frame(r) /\ UNCHANGED <<fault, gateway, topGen, gen>>
      /\ pc[r] # "idle" /\ Sent(s) /\ Fenced' = Fenced
  BY ActsFrame DEF HistoryInv, CatalogInv, setting, Fenced
<1>2. CASE Send(r) /\ s = r
  <2>1. gateway /\ pc'[r] = "replace" => Unmoved(r)
    BY <1>1, <1>2 DEF LocalType, Send, Move
  <2>2. gateway /\ UNCHANGED <<current, base>>
    BY <1>2 DEF Send, store, local, copy
  <2> QED BY <1>1, <1>2, <2>1, <2>2 DEF Sent, Unmoved
<1>3. CASE ~ Send(r) /\ s = r
  <2>1. pc'[r] \notin {"upload", "describe", "replace"}
    <3>1. CASE Cas(r) \/ CasUnclear(r)
      BY <3>1, PublishFacts
    <3>2. CASE \E f, t : t \in {"done", "dead", "work"} /\ pc' = [pc EXCEPT ![r] = t]
      BY <1>1, <3>2 DEF LocalType
    <3>3. CASE ReadCurrent(r) \/ GetVersion(r) \/ ListVersions(r)
      BY <1>1, <3>3 DEF LocalType, ReadCurrent, GetVersion, ListVersions, Move
    <3>4. CASE \/ Commit(r) \/ PutVersion(r) \/ VersionExists(r) \/ PutManifest(r)
               \/ ManifestExists(r) \/ Verify(r) \/ AssertAgain(r)
      BY <1>1, <3>4
         DEF LocalType, Commit, PutVersion, VersionExists, PutManifest, ManifestExists,
             Verify, AssertAgain, Move
    <3>5. CASE ReadBack(r) \/ Prune(r)
      BY <1>1, <3>5
         DEF LocalType, ReadBack, Prune, Cleanup, PruneAfterRunEnd, PruneOwn, PlanPruning,
             DeleteVersion, DeleteManifest, Pruned, Exit, Move
    <3> QED BY <1>3, <3>1, <3>2, <3>3, <3>4, <3>5
        DEF Acts, Open, Upload, PublishCurrent, GetFails, Fence, VerifyFails, LeaseLost,
            CasConflict, ReadBackDiffers, StoreError, Crash, Fail, Exit, Move
  <2> QED BY <1>3, <2>1 DEF Sent
<1>4. CASE s # r
  <2>1. pc'[s] = pc[s] /\ base'[s] = base[s]
    BY <1>4 , <1>1 DEF Frame
  <2>2. ASSUME pc[s] = "replace", Fenced
        PROVE  UNCHANGED current
    <3>1. fault # "stall" /\ Held(s)
      BY <1>1, <2>2, PromptFacts DEF Sent, Fenced, HistoryInv, Alone, Guarded
    <3>2. ~Held(r)
      BY <1>1, <1>4, <3>1, OnlyOneHeld
    <3>3. ~ PublishCurrent(r)
      BY <3>1, <3>2, OutrunStaysOut
    <3> QED BY <1>1, <3>3, AsideKeepsHistory DEF Acts, Aside
  <2> QED BY <1>1, <2>1, <2>2 DEF Sent, Unmoved
<1> QED BY <1>2, <1>3, <1>4

LEMMA ActKeepsHistory ==
    ASSUME HistoryInv, UNCHANGED setting, NEW r \in Run, Acts(r)
    PROVE  /\ OneEach' /\ Alone' /\ \A s \in Run : Sent(s)'
           /\ History!Publish \/ UNCHANGED published
<1>1. CatalogInv /\ Frame(r) /\ UNCHANGED <<fault, topGen, gen>>
      /\ pc[r] # "idle" /\ pc'[r] # "idle"
  BY ActsFrame DEF HistoryInv, setting
<1>2. OneEach'
  BY <1>1 DEF HistoryInv, OneEach, Frame
<1>3. Alone'
  <2>1. Prompt' = Prompt /\ \A s \in Run : Held(s)' <=> Held(s)
    BY <1>1 DEF Prompt, Held
  <2>2. ASSUME fault # "stall", NEW s \in Run, pc'[s] \in Prompt
        PROVE  Held(s)
    <3>1. CASE s = r
      BY <2>2, <3>1, OutrunStaysOut
    <3>2. CASE s # r
      BY <1>1, <2>2, <3>2 DEF HistoryInv, Alone, Frame
    <3> QED BY <3>1, <3>2
  <2> QED BY <1>1, <2>1, <2>2 DEF Alone
<1>4. History!Publish \/ UNCHANGED published
  <2>1. CASE Cas(r) \/ CasUnclear(r)
    BY <1>1, <2>1, PublishFacts, ReplaceFollows
  <2>2. CASE Aside(r)
    BY <1>1, <2>2, AsideKeepsHistory
  <2> QED BY <2>1, <2>2 DEF Acts, PublishCurrent, Aside
<1> QED BY <1>2, <1>3, <1>4, ActKeepsSent

LEMMA StepKeepsHistory ==
    ASSUME HistoryInv, [Next]_vars
    PROVE  HistoryInv' /\ [History!Publish]_published
<1>1. CASE UNCHANGED vars
  <2>1. CatalogInv'
    BY <1>1, StutterKeepsInv DEF HistoryInv
  <2>2. OneEach' /\ Alone'
    BY <1>1 DEF HistoryInv, OneEach, Alone, Prompt, Held, vars, setting
  <2>3. \A r \in Run : Sent(r)'
    BY <1>1 DEF HistoryInv, Sent, Fenced, Unmoved, vars, setting, store, local, copy
  <2> QED BY <1>1, <2>1, <2>2, <2>3 DEF HistoryInv, vars
<1>2. CASE Next
  <2>1. CatalogInv'
    BY <1>2, StepKeepsInv DEF HistoryInv
  <2>2. PICK r \in Run : Acquire(r) \/ Acts(r)
    BY <1>2 DEF Next, Acts
  <2>3. UNCHANGED setting
    BY <1>2 DEF Next
  <2>4. CASE Acquire(r)
    BY <2>1, <2>3, <2>4, AcquireKeepsHistory DEF HistoryInv
  <2>5. CASE Acts(r)
    BY <2>1, <2>3, <2>5, ActKeepsHistory DEF HistoryInv
  <2> QED BY <2>2, <2>4, <2>5
<1> QED BY <1>1, <1>2

LEMMA InitHistory == Init => HistoryInv
<1> SUFFICES ASSUME Init PROVE HistoryInv
  OBVIOUS
<1>1. CatalogInv
  BY InitInv
<1>2. OneEach /\ Alone /\ \A r \in Run : Sent(r)
  BY DEF Init, OneEach, Alone, Held, Sent
<1> QED BY <1>1, <1>2 DEF HistoryInv

\* However many runs there are, and wherever they crash or their calls fail: on a
\* local lake the values of CURRENT are one history without a lost update, however
\* long a run stalls, and on HF as long as no run stalls between an assert_held()
\* and the step it guards.  Where one does on HF, what it publishes is made from a
\* value that CURRENT had, though not always the last one (publish.py, hf.py).
THEOREM CommitsAreOneHistory == Spec => OneHistory
<1>1. Init => History!HInit
  BY DEF Init, History!HInit
<1> QED BY <1>1, InitHistory, StepKeepsHistory, PTL DEF Spec, OneHistory, History!HSpec

-----------------------------------------------------------------------------
(* What CURRENT names is there, unless a run stalls between an             *)
(* assert_held() and the step that it guards: the inductive invariant      *)

\* The sequence of CURRENT is above those of all its earlier values.
LastIsNewest ==
    \A i \in 1..(Len(published) - 1) : published[i].seq < published[Len(published)].seq

Complete ==
    current # NoPointer =>
        /\ version[current.seq] = current.content
        /\ manifest[current.seq] # Missing
        /\ manifest[current.seq].content = current.content

\* What r put of the slot it fills is there.
Uploaded(r) ==
    /\ pc[r] \in Filled => version[Slot(r)] = work[r]
    /\ pc[r] = "describe" => ManifestFree(r)
    /\ pc[r] \in Filled \ {"manifest", "describe"} =>
        /\ manifest[Slot(r)] # Missing
        /\ manifest[Slot(r)].run = r /\ manifest[Slot(r)].content = work[r]

\* CURRENT was replaced by r in a call that raised, so r does not know.  It is
\* r's, and no run-end version is above it unless r has come to its run end.
Astray(r) ==
    /\ fault = "unclear" /\ current # NoPointer
    /\ manifest[current.seq].run = r
    /\ phase[r] # "run_end" =>
        \A t \in Seqs : t > current.seq /\ manifest[t] # Missing =>
            manifest[t].kind = "in_run"

Opened == {"work", "fence", "clean"} \cup Committing \cup Guarded

\* What r knows of CURRENT.
Knows(r) ==
    /\ pc[r] = "readback" => current = Pointer(r)
    /\ pc[r] \in {"get", "list", "prune"} => base[r] = current
    /\ pc[r] \in Opened \ {"readback"} => base[r] = current \/ Astray(r)
    /\ pc[r] = "manifests" /\ phase[r] = "run_end" => base[r] = current

\* A run that no other one can outrun has every slot below its next one.
Above(r) == fault = "unclear" /\ pc[r] \in Opened => \A s \in Stored : s < next[r]

\* What is deleted is not what CURRENT names.
Deletes(r) ==
    /\ pc[r] \in {"delete", "rest"} /\ current # NoPointer => current.seq \notin plan[r]
    /\ pc[r] = "rest" => plan[r] # {}

Knowing(r) == Uploaded(r) /\ Knows(r) /\ Above(r) /\ Deletes(r)

CompleteInv ==
    /\ HistoryInv
    /\ Fenced => LastIsNewest
    /\ Sound => Complete /\ \A r \in Run : Held(r) => Knowing(r)

-----------------------------------------------------------------------------
(* Facts about states                                                      *)

LEMMA LeastOfSequences ==
    ASSUME NEW S \in SUBSET Seqs, S # {}
    PROVE  Min(S) \in S
<1> DEFINE R == {ss \in Nat \X Nat : ss[1] < ss[2]}
<1>1. S \subseteq Nat
  BY DEF Seqs
<1>2. PICK m \in S : \A n \in S : ~ (<<n, m>> \in R)
  <2> HIDE DEF R
  <2>1. IsWellFoundedOn(R, Nat)
    BY LessIsWellFounded DEF R
  <2> QED BY <1>1, <2>1, WFMin, Zenon
<1>3. ASSUME NEW n \in S
      PROVE  m <= n
  <2>1. n \in Nat /\ m \in Nat /\ ~ (<<n, m>> \in R)
    BY <1>1, <1>2
  <2>2. ~ (n < m)
    BY <2>1
  <2> QED BY <2>1, <2>2
<1> QED BY <1>3 DEF Min

\* What is stored is told from what is missing.
LEMMA StoredFacts ==
    ASSUME CatalogInv
    PROVE  /\ \A content \in Content : content # Missing
           /\ current # NoPointer =>
                /\ current \in PointerType /\ current.seq \in Seqs
                /\ current.content \in Content
           /\ \A s \in Seqs : manifest[s] # Missing => manifest[s] \in ManifestType
           /\ version \in [Seqs -> Content \cup {Missing}]
           /\ manifest \in [Seqs -> ManifestType \cup {Missing}]
BY CatalogConstants DEF CatalogInv, StoreType, PointerType

\* The slot that a run fills, or is about to fill.
LEMMA SlotFacts ==
    ASSUME CatalogInv, NEW r \in Run
    PROVE  /\ pc[r] \in Filled => Slot(r) \in Seqs /\ Slot(r) = next[r] - 1
           /\ pc[r] \in {"put", "upload"} => next[r] \in Seqs
           /\ next[r] \in Nat /\ work[r] \in Content
<1>1. BaseSeq(r) \in 0..MaxSeq /\ next[r] \in 1..(MaxSeq + 1) /\ work[r] \in Content
  BY BaseSeqType DEF CatalogInv, LocalType
<1>2. Slotted(r)
  BY DEF CatalogInv, Sane
<1>3. pc[r] \in Filled => next[r] - 1 \in Seqs
  BY <1>1, <1>2, CatalogConstants DEF Slotted, Seqs
<1> QED BY <1>1, <1>2, <1>3 DEF Slotted, Slot

\* On the gateway nothing is promised of a run that loses its lease in a commit.
LEMMA SoundFacts ==
    ASSUME CompleteInv, Sound
    PROVE  /\ fault # "stall" /\ Fenced /\ LastIsNewest
           /\ gateway => fault = "unclear"
           /\ Unclear => fault = "unclear"
BY CatalogConstants DEF CompleteInv, HistoryInv, CatalogInv, Sound, Fenced, Unclear

\* The next slot is above everything that was listed.
LEMMA ListedBelowNext ==
    ASSUME CatalogInv, NEW r \in Run
    PROVE  \A s \in Stored : s < Max(Stored \cup {BaseSeq(r)}) + 1
<1> DEFINE S == Stored \cup {BaseSeq(r)}
<1>1. S \subseteq 0..MaxSeq /\ S # {}
  BY BaseSeqType, CatalogConstants DEF Stored, Seqs
<1>2. \E m \in S : \A n \in S : n <= m
  BY <1>1, CatalogConstants, LargestOfBounded
<1>3. Max(S) \in S /\ \A n \in S : n <= Max(S)
  BY <1>2 DEF Max
<1> QED BY <1>1, <1>3, CatalogConstants

-----------------------------------------------------------------------------
(* A run whose lease was taken                                             *)

\* Nothing that is there changes; and while a run may not lose its lease in a
\* commit, nothing is put.
FillsOnly ==
    /\ UNCHANGED <<setting, topGen, current, published>>
    /\ \A s \in Seqs : version[s] # Missing => version'[s] = version[s]
    /\ \A s \in Seqs : manifest[s] # Missing => manifest'[s] = manifest[s]
    /\ fault = "unclear" => UNCHANGED <<version, manifest>>

LEMMA FilledComplete ==
    ASSUME CatalogInv, Complete, FillsOnly
    PROVE  Complete'
BY StoredFacts DEF Complete, FillsOnly

\* What the newest run knows stays true.
LEMMA FilledKnows ==
    ASSUME CompleteInv, Sound, FillsOnly, NEW s \in Run, Held(s), Knowing(s),
           pc'[s] = pc[s], gen'[s] = gen[s], base'[s] = base[s], next'[s] = next[s],
           work'[s] = work[s], phase'[s] = phase[s], plan'[s] = plan[s]
    PROVE  Knowing(s)'
<1>1. CatalogInv /\ UNCHANGED <<fault, gateway, topGen, current, published>>
  BY DEF CompleteInv, HistoryInv, FillsOnly, setting
<1>2. Uploaded(s)'
  <2>1. pc[s] = "describe" => UNCHANGED manifest
    BY SoundFacts DEF CompleteInv, HistoryInv, Sent, FillsOnly
  <2> QED BY <1>1, <2>1, SlotFacts, StoredFacts
      DEF FillsOnly, Knowing, Uploaded, ManifestFree, Slot, Filled
<1>3. Astray(s) => Astray(s)'
  BY <1>1 DEF FillsOnly, Astray
<1>4. Pointer(s)' = Pointer(s)
  BY DEF Pointer, Slot, BaseSeq
<1>5. Knows(s)'
  BY <1>1, <1>3, <1>4 DEF Knowing, Knows
<1>6. Above(s)'
  BY <1>1 DEF FillsOnly, Knowing, Above, Stored
<1>7. Deletes(s)'
  BY <1>1 DEF Knowing, Deletes
<1> QED BY <1>2, <1>5, <1>6, <1>7 DEF Knowing

LEMMA OutrunOnlyFills ==
    ASSUME CompleteInv, Sound, UNCHANGED setting, NEW r \in Run,
           Acts(r), ~Held(r)
    PROVE  FillsOnly
<1>1. HistoryInv /\ CatalogInv /\ LocalType /\ fault # "stall"
  BY SoundFacts DEF CompleteInv, HistoryInv, CatalogInv
<1>2. /\ ~ PublishCurrent(r) /\ ~ Prune(r) /\ pc[r] \notin {"cas", "replace"}
      /\ fault = "unclear" => pc[r] \notin Committing
  BY <1>1, OutrunStaysOut DEF Guarded
<1>3. CASE UNCHANGED <<topGen, current, published, version, manifest>>
  BY <1>3 DEF FillsOnly
<1>4. CASE PutVersion(r) \/ PutManifest(r)
  <2>1. fault # "unclear" /\ pc[r] \in {"put", "manifest"}
    BY <1>2, <1>4, <1>1, SoundFacts
       DEF PutVersion, PutManifest, Move, Committing, HistoryInv, Sent
  <2>2. CASE PutVersion(r)
    BY <1>1, <2>1, <2>2, SlotFacts, StoredFacts
       DEF FillsOnly, PutVersion, Move, VersionFree
  <2>3. CASE PutManifest(r)
    BY <1>1, <2>1, <2>3, SlotFacts, StoredFacts
       DEF FillsOnly, PutManifest, Move, local, copy, ManifestFree, Filled
  <2> QED BY <1>4, <2>2, <2>3
<1>5. ~ (PutVersion(r) \/ PutManifest(r)) =>
        UNCHANGED <<topGen, current, published, version, manifest>>
  BY <1>2
     DEF Acts, Open, ReadCurrent, GetVersion, GetFails, ListVersions, Crash, Upload,
         Commit, Send, VersionExists, ManifestExists, Fence, Verify, VerifyFails,
         AssertAgain, LeaseLost, StoreError, store
<1> QED BY <1>3, <1>4, <1>5

-----------------------------------------------------------------------------
(* The run that has the newest lease: opening and uploading                *)

\* A run that ended knows nothing.
LEMMA EndedKnows ==
    ASSUME NEW r \in Run, pc'[r] \in Ended
    PROVE  Knowing(r)'
BY DEF Ended, Knowing, Uploaded, Knows, Above, Deletes, Filled, Opened, Committing,
       Guarded

LEMMA SameStoreComplete ==
    ASSUME Complete, UNCHANGED <<current, version, manifest>>
    PROVE  Complete'
BY DEF Complete

LEMMA OpeningKnows ==
    ASSUME CompleteInv, Sound, UNCHANGED setting, NEW r \in Run, Held(r),
           ReadCurrent(r) \/ GetVersion(r) \/ ListVersions(r)
    PROVE  Complete' /\ Knowing(r)'
<1>1. CatalogInv /\ LocalType /\ Complete /\ Knowing(r)
      /\ UNCHANGED <<current, version, manifest>>
  BY DEF CompleteInv, HistoryInv, CatalogInv, ReadCurrent, GetVersion, ListVersions, store
<1> USE DEF Uploaded, Deletes, Filled, Opened, Committing, Guarded
<1>2. Complete'
  BY <1>1, SameStoreComplete
<1>3. CASE ReadCurrent(r) \/ GetVersion(r)
  <2>1. pc'[r] \in {"get", "list"} /\ base'[r] = current
    BY <1>1, <1>3 DEF LocalType, ReadCurrent, GetVersion, Move, Knowing, Knows
  <2> QED BY <1>1, <1>2, <2>1 DEF Knowing, Knows, Above
<1>4. CASE ListVersions(r)
  <2>1. /\ pc'[r] = "work" /\ base'[r] = current
        /\ next'[r] = Max(Stored \cup {BaseSeq(r)}) + 1
    BY <1>1, <1>4 DEF LocalType, ListVersions, Move, Knowing, Knows
  <2>2. Above(r)'
    BY <1>1, <2>1, ListedBelowNext DEF setting, Above, Stored
  <2> QED BY <1>1, <1>2, <2>1, <2>2 DEF Knowing, Knows
<1> QED BY <1>3, <1>4

\* A run strays on when it writes a slot: the manifest of CURRENT is there, and
\* its new ones are of in-run versions up to the run end.
LEMMA StaysAstray ==
    ASSUME CompleteInv, Sound, UNCHANGED <<setting, current>>, NEW r \in Run,
           Astray(r), phase'[r] = phase[r] \/ phase'[r] = "run_end"
                        \/ (phase[r] = "in_run" /\ phase'[r] = "cleanup"),
           \A t \in Seqs : manifest[t] # Missing => manifest'[t] = manifest[t],
           \A t \in Seqs : manifest[t] = Missing =>
                \/ manifest'[t] = Missing
                \/ manifest'[t].kind = phase[r] /\ phase[r] \in {"in_run", "run_end"}
                        /\ phase'[r] = phase[r]
    PROVE  Astray(r)'
<1>1. CatalogInv /\ Complete
  BY DEF CompleteInv, HistoryInv
<1>2. current # NoPointer /\ current.seq \in Seqs /\ manifest[current.seq] # Missing
  BY <1>1, StoredFacts DEF setting, Astray, Complete
<1> QED BY <1>2 DEF setting, Astray

LEMMA CommitKnows ==
    ASSUME CompleteInv, Sound, UNCHANGED setting, NEW r \in Run, Held(r), Commit(r)
    PROVE  Complete' /\ Knowing(r)'
<1>1. CatalogInv /\ LocalType /\ Complete /\ Knowing(r)
      /\ UNCHANGED <<current, version, manifest, next, base>>
  BY DEF CompleteInv, HistoryInv, CatalogInv, Commit, store
<1>2. /\ pc[r] \in {"work", "clean"} /\ pc'[r] = "put"
      /\ phase'[r] = phase[r] \/ phase'[r] = "run_end"
  BY <1>1 DEF LocalType, Commit, Move
<1>3. Astray(r) => Astray(r)'
  BY <1>1, <1>2, StaysAstray
<1>4. Above(r)'
  BY <1>1, <1>2 DEF setting, Knowing, Above, Stored, Opened, Committing
<1> QED BY <1>1, <1>2, <1>3, <1>4, SameStoreComplete
    DEF Knowing, Uploaded, Knows, Deletes, Filled, Opened, Committing

\* The steps of an upload that put nothing.
LEMMA UploadKnows ==
    ASSUME CompleteInv, Sound, UNCHANGED setting, NEW r \in Run, Held(r),
           \/ Send(r) \/ VersionExists(r) \/ ManifestExists(r) \/ Verify(r)
           \/ AssertAgain(r)
    PROVE  Complete' /\ Knowing(r)'
<1>1. CatalogInv /\ LocalType /\ Complete /\ Knowing(r)
      /\ UNCHANGED <<current, version, manifest, work, base, phase, plan>>
  BY DEF CompleteInv, HistoryInv, CatalogInv, Send, VersionExists, ManifestExists, Verify, AssertAgain,
         TakeSlot, store, local, copy
<1>2. \/ pc[r] \in {"put", "upload", "manifest", "describe"} /\ pc'[r] = "fence"
            /\ next'[r] \in {next[r], next[r] + 1}
      \/ pc[r] = "put" /\ pc'[r] = "upload" /\ next'[r] = next[r]
      \/ pc[r] = "manifest" /\ pc'[r] = "describe" /\ next'[r] = next[r] /\ ManifestFree(r)
      \/ pc[r] = "cas" /\ pc'[r] = "replace" /\ next'[r] = next[r]
      \/ pc[r] = "verify" /\ pc'[r] = "assert" /\ next'[r] = next[r]
      \/ pc[r] = "assert" /\ pc'[r] = "cas" /\ next'[r] = next[r]
  <2>1. CASE VersionExists(r)
    BY <1>1, <2>1 DEF LocalType, VersionExists, Move, TakeSlot
  <2>2. CASE Send(r) \/ ManifestExists(r) \/ Verify(r) \/ AssertAgain(r)
    BY <1>1, <2>2
       DEF LocalType, Send, ManifestExists, Verify, AssertAgain, Move, local, copy
  <2> QED BY <2>1, <2>2
<1>3. Astray(r) => Astray(r)'
  BY <1>1, StaysAstray
<1>4. Above(r)'
  <2>1. \A t \in Stored : t \in Nat
    BY DEF Stored, Seqs
  <2> QED BY <1>1, <1>2, <2>1, SlotFacts DEF setting, Knowing, Above, Stored, Opened, Committing, Guarded
<1>5. Uploaded(r)'
  BY <1>1, <1>2 DEF Knowing, Uploaded, ManifestFree, Filled, Slot
<1> QED BY <1>1, <1>2, <1>3, <1>4, <1>5, SameStoreComplete
    DEF Knowing, Knows, Deletes, Filled, Opened, Committing, Guarded

\* The version, then its manifest, are put where nothing is.
LEMMA PutKnows ==
    ASSUME CompleteInv, Sound, UNCHANGED setting, NEW r \in Run, Held(r),
           PutVersion(r) \/ PutManifest(r)
    PROVE  Complete' /\ Knowing(r)'
<1>1. CatalogInv /\ LocalType /\ Complete /\ Knowing(r) /\ next[r] \in Nat
      /\ work[r] \in Content
  BY SlotFacts DEF CompleteInv, HistoryInv, CatalogInv
<1>2. CASE PutVersion(r)
  <2>0. /\ pc[r] \in {"put", "upload"} /\ pc'[r] = "manifest" /\ next'[r] = next[r] + 1
        /\ next[r] \in Seqs /\ (pc[r] = "put" => VersionFree(r))
        /\ version' = [version EXCEPT ![next[r]] = work[r]]
        /\ UNCHANGED <<current, manifest, work, base, phase, plan>>
    BY <1>1, <1>2, SlotFacts DEF LocalType, PutVersion, Move, TakeSlot
  <2>1. VersionFree(r)
    <3>1. CASE pc[r] = "upload"
      <4>1. fault = "unclear"
        BY <3>1, SoundFacts DEF CompleteInv, HistoryInv, Sent
      <4>2. next[r] \notin Stored
        BY <1>1, <3>1, <4>1 DEF setting, Knowing, Above, Opened, Committing
      <4> QED BY <2>0, <4>2 DEF Stored, VersionFree
    <3> QED BY <2>0, <3>1
  <2>2. Complete'
    BY <1>1, <2>0, <2>1, StoredFacts DEF Complete, VersionFree
  <2>3. Uploaded(r)'
    BY <1>1, <2>0, StoredFacts DEF Uploaded, Slot, Filled
  <2>4. Above(r)'
    <3>1. \A t \in Stored' : t \in Stored \/ t = next[r]
      BY <1>1, <2>0, StoredFacts DEF Stored
    <3>2. \A t \in Stored : t \in Nat
      BY DEF Stored, Seqs
    <3> QED BY <1>1, <2>0, <3>1, <3>2 DEF setting, Knowing, Above, Opened, Committing
  <2>5. Astray(r) => Astray(r)'
    BY <2>0, StaysAstray
  <2> QED BY <1>1, <2>0, <2>2, <2>3, <2>4, <2>5
      DEF Knowing, Knows, Deletes, Opened, Committing
<1>3. CASE PutManifest(r)
  <2> DEFINE m == [run |-> r, kind |-> phase[r], content |-> work[r]]
             s == Slot(r)
  <2>1. /\ pc[r] \in {"manifest", "describe"} /\ pc'[r] = "verify" /\ s \in Seqs
        /\ s = next[r] - 1
        /\ manifest[s] = Missing /\ manifest' = [manifest EXCEPT ![s] = m]
        /\ UNCHANGED <<current, version, next, work, base, phase, plan>>
    BY <1>1, <1>3, SlotFacts
       DEF LocalType, PutManifest, ManifestFree, Move, local, copy, Filled, Knowing,
           Uploaded
  <2>2. phase[r] \in {"in_run", "run_end"}
    BY <1>1, <2>1 DEF LocalType, Phase, CatalogInv, Sane, Phased, Filled
  <2>3. m # Missing /\ m.run = r /\ m.kind = phase[r] /\ m.content = work[r]
    BY <1>1, <2>2, CatalogConstants DEF ManifestType
  <2>4. manifest'[s] = m /\ \A t \in Seqs \ {s} : manifest'[t] = manifest[t]
    BY <1>1, <2>1, StoredFacts
  <2> HIDE DEF m
  <2>5. Complete'
    BY <1>1, <2>1, <2>4, StoredFacts DEF Complete
  <2>6. Uploaded(r)'
    <3>1. Slot(r)' = s /\ version[s] = work[r]
      BY <1>1, <2>1 DEF Knowing, Uploaded, Slot, Filled
    <3> QED BY <2>1, <2>3, <2>4, <3>1 DEF Uploaded
  <2>7. Above(r)'
    <3>1. \A t \in Stored' : t \in Stored \/ t = s
      BY <2>1, <2>4 DEF Stored
    <3> QED BY <1>1, <2>1, <3>1 DEF setting, Knowing, Above, Opened, Committing
  <2>8. Astray(r) => Astray(r)'
    BY <2>1, <2>2, <2>3, <2>4, StaysAstray
  <2> QED BY <1>1, <2>1, <2>5, <2>6, <2>7, <2>8
      DEF Knowing, Knows, Deletes, Opened, Committing
<1> QED BY <1>2, <1>3

-----------------------------------------------------------------------------
(* The publish of CURRENT                                                  *)

LEMMA PointerTyped ==
    ASSUME CatalogInv, NEW r \in Run, pc[r] \in Filled
    PROVE  /\ Pointer(r) \in PointerType /\ Pointer(r) # NoPointer
           /\ Pointer(r).seq = Slot(r) /\ Pointer(r).content = work[r]
<1>1. Slot(r) \in Seqs /\ work[r] \in Content /\ gen[r] \in Nat /\ BaseSeq(r) \in 0..MaxSeq
  BY SlotFacts, BaseSeqType DEF CatalogInv, LocalType
<1> QED BY <1>1, CatalogConstants DEF Pointer, PointerType

\* A run that publishes and does not know it strays, until its run end.
LEMMA GoesAstray ==
    ASSUME CompleteInv, fault = "unclear", UNCHANGED <<setting, manifest>>,
           NEW r \in Run, Held(r), pc[r] \in {"cas", "replace", "readback"},
           current' = Pointer(r)
    PROVE  Astray(r)'
<1>1. CatalogInv /\ Uploaded(r) /\ Above(r) /\ pc[r] \in Filled \ {"manifest", "describe"}
      /\ pc[r] \in Opened
  BY DEF CompleteInv, HistoryInv, Sound, Knowing, Filled, Opened, Guarded
<1>2. /\ current' # NoPointer /\ current'.seq = Slot(r) /\ Slot(r) = next[r] - 1
      /\ next[r] \in Nat /\ Slot(r) \in Seqs
  BY <1>1, PointerTyped, SlotFacts
<1>3. manifest[Slot(r)].run = r
  BY <1>1 DEF Uploaded
<1>4. ASSUME NEW t \in Seqs, t > Slot(r)
      PROVE  manifest[t] = Missing
  <2>1. t \in Nat /\ ~ (t < next[r])
    BY <1>2, <1>4 DEF Seqs
  <2> QED BY <1>1, <2>1 DEF setting, Above, Stored
<1> QED BY <1>2, <1>3, <1>4 DEF setting, Astray

\* The verified upload becomes CURRENT.
LEMMA ReplaceCompletes ==
    ASSUME CompleteInv, Sound, NEW r \in Run, Held(r),
           pc[r] \in {"cas", "replace"}, Replace(r)
    PROVE  Complete'
<1>1. CatalogInv /\ Uploaded(r) /\ pc[r] \in Filled \ {"manifest", "describe"}
  BY DEF CompleteInv, HistoryInv, Knowing, Filled
<1>2. current'.seq = Slot(r) /\ current'.content = work[r]
      /\ UNCHANGED <<version, manifest>>
  BY <1>1, PointerTyped DEF Replace
<1> QED BY <1>1, <1>2 DEF Uploaded, Complete

LEMMA PublishKnows ==
    ASSUME CompleteInv, Sound, UNCHANGED setting, NEW r \in Run, Held(r),
           Cas(r) \/ CasUnclear(r) \/ ReadBack(r)
    PROVE  Complete' /\ Knowing(r)'
<1>1. CatalogInv /\ LocalType /\ Complete /\ Knowing(r)
  BY DEF CompleteInv, HistoryInv, CatalogInv
<1>2. CASE Cas(r)
  <2>1. /\ pc[r] \in {"cas", "replace"} /\ pc'[r] = "readback" /\ Replace(r)
        /\ UNCHANGED <<version, manifest, gen, base, next, work, phase, plan>>
        /\ current' = Pointer(r)
    BY <1>1, <1>2 DEF LocalType, Cas, Replace, Move, local, copy
  <2>2. Complete'
    BY <2>1, ReplaceCompletes
  <2>3. Pointer(r)' = Pointer(r)
    BY <2>1 DEF Pointer, Slot, BaseSeq
  <2>4. Uploaded(r)' /\ Above(r)'
    BY <1>1, <2>1
       DEF setting, Knowing, Uploaded, Above, Stored, Slot, Filled, Opened, Guarded
  <2> QED BY <2>1, <2>2, <2>3, <2>4 DEF Knowing, Knows, Deletes
<1>3. CASE CasUnclear(r)
  <2>1. /\ pc[r] \in {"cas", "replace"} /\ Replace(r) /\ Fail(r, pc[r])
        /\ fault = "unclear" /\ UNCHANGED <<version, manifest>>
        /\ current' = Pointer(r)
    BY <1>3, SoundFacts DEF CasUnclear, Fail, Exit, Move, Replace
  <2>2. Complete'
    BY <2>1, ReplaceCompletes
  <2>3. CASE Exit(r, pc[r], "done")
    BY <1>1, <2>2, <2>3, EndedKnows DEF LocalType, Exit, Move, Ended
  <2>4. CASE Move(r, pc[r], "work") /\ UNCHANGED local
    <3>1. pc'[r] = "work" /\ UNCHANGED <<next, plan>>
      BY <1>1, <2>4 DEF LocalType, Move, local, copy
    <3>2. Astray(r)'
      BY <2>1, GoesAstray
    <3>3. Above(r)'
      BY <1>1, <2>1, <3>1 DEF setting, Knowing, Above, Stored, Opened, Guarded
    <3> QED BY <2>2, <3>1, <3>2, <3>3
        DEF Knowing, Uploaded, Knows, Deletes, Filled, Opened
  <2> QED BY <2>1, <2>3, <2>4 DEF Fail
<1>4. CASE ReadBack(r)
  <2>1. /\ pc[r] = "readback" /\ pc'[r] = "prune" /\ base'[r] = current
        /\ UNCHANGED <<current, version, manifest, next, plan>>
    BY <1>1, <1>4 DEF LocalType, ReadBack, Move, store
  <2>2. Above(r)'
    BY <1>1, <2>1 DEF setting, Knowing, Above, Stored, Opened, Guarded
  <2> QED BY <1>1, <2>1, <2>2, SameStoreComplete
      DEF Knowing, Uploaded, Knows, Deletes, Filled, Opened, Committing
<1> QED BY <1>2, <1>3, <1>4

\* The sequences of CURRENT go up.
LEMMA ReplaceIsNewest ==
    ASSUME CompleteInv, Fenced, NEW r \in Run, Cas(r) \/ CasUnclear(r)
    PROVE  LastIsNewest'
<1>1. CatalogInv /\ LastIsNewest /\ StoreType' /\ History!Publish
  BY PublishFacts, ReplaceStaysTyped, ReplaceFollows DEF CompleteInv, HistoryInv
<1>2. /\ published \in Seq(PointerType) /\ published' \in Seq(PointerType)
      /\ Len(published) \in Nat /\ Len(published') = Len(published) + 1
      /\ \A i \in 1..Len(published) : published'[i] = published[i]
  BY <1>1 DEF CatalogInv, StoreType, History!Publish
<1>3. ASSUME NEW i \in 1..Len(published)
      PROVE  published[i].seq < published'[Len(published')].seq
  <2>1. Len(published) \in 1..Len(published) /\ published # <<>>
    BY <1>2
  <2>2. published'[Len(published')].seq > published[Len(published)].seq
    BY <1>1, <2>1 DEF History!Publish, History!Follows
  <2>3. /\ published[i] \in PointerType /\ published[Len(published)] \in PointerType
        /\ published'[Len(published')] \in PointerType
    BY <1>2, <2>1
  <2>4. /\ published[i].seq \in Nat /\ published[Len(published)].seq \in Nat
        /\ published'[Len(published')].seq \in Nat
    <3>1. \A p \in PointerType : p.seq \in Nat
      BY DEF PointerType, Seqs
    <3> QED BY <2>3, <3>1
  <2>5. CASE i = Len(published)
    BY <2>2, <2>4, <2>5
  <2>6. CASE i # Len(published)
    <3>1. i \in 1..(Len(published) - 1)
      BY <1>2, <2>6
    <3>2. published[i].seq < published[Len(published)].seq
      BY <1>1, <3>1 DEF LastIsNewest
    <3> QED BY <2>2, <2>4, <3>2
  <2> QED BY <2>5, <2>6
<1> QED BY <1>2, <1>3 DEF LastIsNewest

-----------------------------------------------------------------------------
(* The end of a commit or of a run                                         *)

\* A run that records the failure of one match goes on.
LEMMA GoesOnKnows ==
    ASSUME CompleteInv, Sound, NEW r \in Run, Held(r),
           UNCHANGED <<setting, current, version, manifest, base, phase, plan>>,
           pc[r] \in {"fence", "put", "upload"} \cup Filled, pc'[r] = "work",
           next'[r] \in {next[r], next[r] + 1},
           pc[r] = "readback" => fault = "unclear"
    PROVE  Complete' /\ Knowing(r)'
<1>1. CatalogInv /\ Complete /\ Knowing(r) /\ next[r] \in Nat
  BY SlotFacts DEF CompleteInv, HistoryInv
<1>2. base'[r] = current' \/ Astray(r)'
  <2>1. CASE pc[r] = "readback"
    BY <1>1, <2>1, GoesAstray DEF Knowing, Knows
  <2>2. CASE pc[r] # "readback"
    <3>1. base[r] = current \/ Astray(r)
      BY <1>1, <2>2 DEF Knowing, Knows, Opened, Committing, Guarded, Filled
    <3> QED BY <3>1 DEF setting, Astray
  <2> QED BY <2>1, <2>2
<1>3. Above(r)'
  <2>1. \A t \in Stored : t \in Nat
    BY DEF Stored, Seqs
  <2>2. pc[r] \in Opened
    BY DEF Opened, Committing, Guarded, Filled
  <2> QED BY <1>1, <2>1, <2>2 DEF setting, Knowing, Above, Stored
<1> QED BY <1>1, <1>2, <1>3, SameStoreComplete
    DEF Knowing, Uploaded, Knows, Deletes, Filled, Opened

LEMMA EndKnows ==
    ASSUME CompleteInv, Sound, UNCHANGED setting, NEW r \in Run, Held(r),
           \/ GetFails(r) \/ Fence(r) \/ VerifyFails(r) \/ LeaseLost(r)
           \/ CasConflict(r) \/ ReadBackDiffers(r) \/ StoreError(r) \/ Crash(r)
    PROVE  Complete' /\ Knowing(r)'
<1>1. LocalType /\ Complete /\ UNCHANGED <<current, version, manifest>>
  BY DEF CompleteInv, HistoryInv, CatalogInv, GetFails, Fence, VerifyFails, LeaseLost, CasConflict,
         ReadBackDiffers, StoreError, Crash, store
<1>2. CASE \E f, t : t \in Ended /\ Exit(r, f, t)
  <2>1. pc'[r] \in Ended
    BY <1>1, <1>2 DEF LocalType, Exit, Move
  <2> QED BY <1>1, <2>1, EndedKnows, SameStoreComplete
<1>3. CASE \E f \in {"fence"} \cup Filled :
                /\ Move(r, f, "work") /\ UNCHANGED local
                /\ f = "readback" => Unclear
  <2>1. /\ pc[r] \in {"fence"} \cup Filled
        /\ pc'[r] = "work" /\ UNCHANGED <<base, phase, plan, next>>
        /\ pc[r] = "readback" => fault = "unclear"
    BY <1>1, <1>3, SoundFacts DEF LocalType, Move, local, copy
  <2> QED BY <1>1, <2>1, GoesOnKnows DEF Filled
<1>4. CASE (Move(r, "put", "work") \/ Move(r, "upload", "work")) /\ TakeSlot(r)
  <2>1. /\ pc[r] \in {"put", "upload"} /\ pc'[r] = "work" /\ next'[r] = next[r] + 1
        /\ UNCHANGED <<base, phase, plan>>
    BY <1>1, <1>4 DEF LocalType, Move, TakeSlot
  <2> QED BY <1>1, <2>1, GoesOnKnows
<1> QED BY <1>2, <1>3, <1>4
    DEF GetFails, Fence, VerifyFails, LeaseLost, CasConflict, ReadBackDiffers,
        StoreError, Crash, Fail, Ended, Filled

-----------------------------------------------------------------------------
(* Pruning                                                                 *)

\* The steps that plan a pruning of all that is stored.
LEMMA ListingKnows ==
    ASSUME CompleteInv, Sound, UNCHANGED setting, NEW r \in Run, Held(r),
           Cleanup(r) \/ PruneAfterRunEnd(r)
    PROVE  Complete' /\ Knowing(r)'
<1>1. CatalogInv /\ LocalType /\ Complete /\ Knowing(r) /\ Phased(r)
      /\ UNCHANGED <<current, version, manifest, base, next>>
  BY DEF CompleteInv, HistoryInv, CatalogInv, Sane, Cleanup, PruneAfterRunEnd, store, copy
<1>2. /\ pc'[r] = "manifests"
      /\ \/ /\ pc[r] = "work" /\ phase[r] = "in_run" /\ phase'[r] = "cleanup"
         \/ /\ pc[r] = "prune" /\ phase'[r] = phase[r]
  BY <1>1 DEF LocalType, Cleanup, PruneAfterRunEnd, Move, Phased
<1>3. Astray(r) => Astray(r)'
  BY <1>1, <1>2, StaysAstray
<1>4. Above(r)'
  BY <1>1, <1>2 DEF setting, Knowing, Above, Stored, Opened, Guarded
<1> QED BY <1>1, <1>2, <1>3, <1>4, SameStoreComplete
    DEF Knowing, Uploaded, Knows, Deletes, Filled, Opened, Committing, Guarded

\* A version that one of the same run superseded is not CURRENT.
LEMMA OwnKnows ==
    ASSUME CompleteInv, Sound, UNCHANGED setting, NEW r \in Run, Held(r),
           PruneOwn(r)
    PROVE  Complete' /\ Knowing(r)'
<1>1. CatalogInv /\ LocalType /\ LastIsNewest /\ Complete /\ Knowing(r)
      /\ UNCHANGED <<current, version, manifest, base, next, phase>>
  BY SoundFacts DEF CompleteInv, HistoryInv, CatalogInv, PruneOwn, store, copy
<1>2. pc[r] = "prune" /\ pc'[r] = "delete" /\ plan'[r] \subseteq Superseded(r)
  BY <1>1 DEF LocalType, PruneOwn, Move
<1>3. current # NoPointer => current.seq \notin Superseded(r)
  <2> SUFFICES ASSUME current # NoPointer,
                      NEW i \in DOMAIN published, NEW j \in DOMAIN published,
                      i < j, published[i].seq = current.seq
               PROVE  FALSE
    BY DEF Superseded
  <2>1. published \in Seq(PointerType) /\ published # <<>>
    BY <1>1 DEF CatalogInv, StoreType, LastPublished
  <2>2. /\ i \in 1..(Len(published) - 1) /\ Len(published) \in 1..Len(published)
        /\ current = published[Len(published)]
    BY <1>1, <2>1 DEF CatalogInv, LastPublished
  <2>3. published[i].seq < current.seq
    BY <1>1, <2>2 DEF LastIsNewest
  <2>4. current.seq \in Int
    BY <1>1, StoredFacts DEF Seqs
  <2> QED BY <2>3, <2>4
<1>4. Above(r)'
  BY <1>1, <1>2 DEF setting, Knowing, Above, Stored, Opened, Guarded
<1> QED BY <1>1, <1>2, <1>3, <1>4, SameStoreComplete
    DEF Knowing, Uploaded, Knows, Deletes, Filled, Opened, Committing, Guarded

\* CURRENT has a manifest, so it is no crashed commit; and it is the base of
\* the run, or its own last in-run version, which no run-end version supersedes.
LEMMA PlanKnows ==
    ASSUME CompleteInv, Sound, UNCHANGED setting, NEW r \in Run, Held(r),
           PlanPruning(r)
    PROVE  Complete' /\ Knowing(r)'
<1> DEFINE complete == {s \in plan[r] : manifest[s] # Missing}
<1>1. CatalogInv /\ LocalType /\ Complete /\ Knowing(r)
      /\ UNCHANGED <<current, version, manifest, base, next, phase>>
  BY DEF CompleteInv, HistoryInv, CatalogInv, PlanPruning, store, copy
<1>2. pc[r] = "manifests" /\ pc'[r] = "delete"
  BY <1>1 DEF LocalType, PlanPruning, Move
<1>3. PICK S \in SUBSET Outdated(r, complete) :
        plan'[r] = ((plan[r] \ complete) \cup S) \ {BaseSeq(r)}
  BY <1>1 DEF LocalType, PlanPruning
<1> HIDE DEF complete
<1>4. base[r] = current \/ (Astray(r) /\ phase[r] # "run_end")
  BY <1>1, <1>2 DEF Knowing, Knows, Opened, Guarded
<1>5. ASSUME current # NoPointer
      PROVE  current.seq \notin plan'[r]
  <2>1. current.seq \in Seqs /\ manifest[current.seq] # Missing
    BY <1>1, <1>5, StoredFacts DEF Complete
  <2>2. CASE base[r] = current
    BY <1>3, <1>5, <2>2 DEF BaseSeq
  <2>3. CASE Astray(r) /\ phase[r] # "run_end"
    <3>1. current.seq \notin plan[r] \ complete
      BY <2>1 DEF complete
    <3>2. ASSUME NEW t \in complete, t > current.seq
          PROVE  manifest[t].kind = "in_run"
      <4>1. t \in Seqs /\ manifest[t] # Missing
        BY <1>1 DEF complete, LocalType
      <4> QED BY <2>3, <3>2, <4>1 DEF setting, Astray
    <3>3. manifest[current.seq].run = r
      BY <2>3 DEF setting, Astray
    <3>4. current.seq \notin Outdated(r, complete)
      BY <3>2, <3>3 DEF Outdated
    <3> QED BY <1>3, <3>1, <3>4
  <2> QED BY <1>4, <2>2, <2>3
<1>6. Above(r)'
  BY <1>1, <1>2 DEF setting, Knowing, Above, Stored, Opened, Guarded
<1>7. Astray(r) => Astray(r)'
  BY <1>1 DEF setting, Astray
<1> QED BY <1>1, <1>2, <1>4, <1>5, <1>6, <1>7, SameStoreComplete
    DEF Knowing, Uploaded, Knows, Deletes, Filled, Opened, Committing, Guarded

\* What is deleted is another version than CURRENT.
LEMMA DeleteKnows ==
    ASSUME CompleteInv, Sound, UNCHANGED setting, NEW r \in Run, Held(r),
           DeleteVersion(r) \/ DeleteManifest(r)
    PROVE  Complete' /\ Knowing(r)'
<1> DEFINE s == Min(plan[r])
<1>1. CatalogInv /\ LocalType /\ Complete /\ Knowing(r)
      /\ UNCHANGED <<current, base, next, phase>>
  BY DEF CompleteInv, HistoryInv, CatalogInv, DeleteVersion, DeleteManifest, local, copy
<1>2. /\ pc[r] \in {"delete", "rest"} /\ pc'[r] \in {"delete", "rest"}
      /\ plan[r] # {} /\ plan[r] \subseteq Seqs
      /\ pc'[r] = "rest" => plan'[r] = plan[r]
      /\ plan'[r] \subseteq plan[r]
  BY <1>1 DEF LocalType, DeleteVersion, DeleteManifest, Move, local, Knowing, Deletes
<1>3. s \in plan[r] /\ s \in Seqs
  BY <1>2, LeastOfSequences
<1>4. /\ version' \in {version, [version EXCEPT ![s] = Missing]}
      /\ manifest' \in {manifest, [manifest EXCEPT ![s] = Missing]}
  BY DEF DeleteVersion, DeleteManifest
<1> HIDE DEF s
<1>5. /\ \A t \in Seqs \ {s} : version'[t] = version[t] /\ manifest'[t] = manifest[t]
      /\ version'[s] \in {version[s], Missing} /\ manifest'[s] \in {manifest[s], Missing}
  BY <1>1, <1>3, <1>4, StoredFacts
<1>6. current # NoPointer => current.seq \in Seqs \ {s}
  BY <1>1, <1>2, <1>3, StoredFacts DEF Knowing, Deletes
<1>7. Complete'
  BY <1>1, <1>5, <1>6 DEF Complete
<1>8. Astray(r) => Astray(r)'
  BY <1>1, <1>5, <1>6 DEF setting, Astray
<1>9. Above(r)'
  <2>1. Stored' \subseteq Stored
    BY <1>5 DEF Stored
  <2> QED BY <1>1, <1>2, <2>1 DEF setting, Knowing, Above, Opened, Guarded
<1> QED BY <1>1, <1>2, <1>7, <1>8, <1>9
    DEF Knowing, Uploaded, Knows, Deletes, Filled, Opened, Committing, Guarded

LEMMA PrunedKnows ==
    ASSUME CompleteInv, Sound, UNCHANGED setting, NEW r \in Run, Held(r),
           Pruned(r)
    PROVE  Complete' /\ Knowing(r)'
<1>1. LocalType /\ Complete /\ Knowing(r) /\ UNCHANGED <<current, version, manifest>>
  BY DEF CompleteInv, HistoryInv, CatalogInv, Pruned, store
<1>2. CASE Exit(r, "delete", "done")
  <2>1. pc'[r] \in Ended
    BY <1>1, <1>2 DEF LocalType, Exit, Move, Ended
  <2> QED BY <1>1, <2>1, EndedKnows, SameStoreComplete
<1>3. CASE (Move(r, "delete", "work") \/ Move(r, "delete", "clean")) /\ UNCHANGED local
  <2>1. /\ pc[r] = "delete" /\ pc'[r] \in {"work", "clean"}
        /\ UNCHANGED <<base, next, phase, plan>>
    BY <1>1, <1>3 DEF LocalType, Move, local, copy
  <2>2. Above(r)'
    BY <1>1, <2>1 DEF setting, Knowing, Above, Stored, Opened, Guarded
  <2>3. Astray(r) => Astray(r)'
    BY <1>1, <2>1 DEF setting, Astray
  <2> QED BY <1>1, <2>1, <2>2, <2>3, SameStoreComplete
      DEF Knowing, Uploaded, Knows, Deletes, Filled, Opened, Committing, Guarded
<1> QED BY <1>2, <1>3 DEF Pruned

-----------------------------------------------------------------------------
(* Every step                                                              *)

\* The run with the newest lease goes on knowing.
LEMMA HolderKnows ==
    ASSUME CompleteInv, Sound, UNCHANGED setting, NEW r \in Run, Held(r), Acts(r)
    PROVE  Complete' /\ Knowing(r)'
BY OpeningKnows, CommitKnows, UploadKnows, PutKnows, PublishKnows, EndKnows,
   ListingKnows, OwnKnows, PlanKnows, DeleteKnows, PrunedKnows
   DEF Acts, Open, Upload, PublishCurrent, Prune

\* The sequences of CURRENT still go up.
LEMMA StaysNewest ==
    ASSUME CompleteInv, Fenced, NEW r \in Run, Acts(r)
    PROVE  LastIsNewest'
<1>1. CASE Cas(r) \/ CasUnclear(r)
  BY <1>1, ReplaceIsNewest
<1>2. CASE Aside(r)
  <2>1. UNCHANGED published
    BY <1>2, AsideKeepsHistory DEF CompleteInv, HistoryInv
  <2> QED BY <2>1 DEF CompleteInv, LastIsNewest
<1> QED BY <1>1, <1>2 DEF Acts, PublishCurrent, Aside

LEMMA ActKeepsComplete ==
    ASSUME CompleteInv, HistoryInv', UNCHANGED setting, NEW r \in Run, Acts(r)
    PROVE  CompleteInv'
<1>1. HistoryInv /\ CatalogInv
  BY DEF CompleteInv, HistoryInv
<1>2. /\ Frame(r) /\ UNCHANGED <<topGen, gen>>
      /\ \A s \in Run \ {r} : plan'[s] = plan[s]
      /\ pc[r] # "idle" /\ (Fenced' = Fenced) /\ (Sound' = Sound)
  BY <1>1, ActsFrame DEF setting, Fenced, Sound
<1>3. Fenced => LastIsNewest'
  BY StaysNewest
<1>4. ASSUME Sound
      PROVE  Complete' /\ \A s \in Run : (Held(s) => Knowing(s))'
  <2>1. (\A s \in Run : Held(s)' <=> Held(s)) /\ fault # "stall"
    BY <1>2, <1>4, SoundFacts DEF Held
  <2>2. CASE Held(r)
    <3>1. Complete' /\ Knowing(r)'
      BY <1>4, <2>2, HolderKnows
    <3>2. \A s \in Run \ {r} : ~Held(s)
      BY <1>1, <1>2, <2>2 DEF HistoryInv, OneEach, Held
    <3> QED BY <2>1, <2>2, <3>1, <3>2
  <2>3. CASE ~Held(r)
    <3>1. FillsOnly
      BY <1>4, <2>3, OutrunOnlyFills
    <3>2. Complete'
      BY <1>1, <1>4, <3>1, FilledComplete DEF CompleteInv
    <3>3. ASSUME NEW s \in Run \ {r}, Held(s)
          PROVE  Knowing(s)'
      <4>1. Knowing(s)
        BY <1>4, <3>3 DEF CompleteInv
      <4> QED BY <1>2, <1>4, <3>1, <3>3, <4>1, FilledKnows DEF Frame
    <3> QED BY <2>1, <2>3, <3>2, <3>3
  <2> QED BY <2>2, <2>3
<1> QED BY <1>2, <1>3, <1>4 DEF CompleteInv

\* Whoever takes the lease knows nothing yet.
LEMMA AcquireKeepsComplete ==
    ASSUME CompleteInv, HistoryInv', UNCHANGED setting, NEW r \in Run, Acquire(r)
    PROVE  CompleteInv'
<1>1. CatalogInv /\ LocalType /\ topGen \in Nat
      /\ UNCHANGED <<current, version, manifest, published, plan>>
      /\ (Fenced' = Fenced) /\ (Sound' = Sound)
  BY DEF CompleteInv, HistoryInv, CatalogInv, StoreType, Acquire, store, local, setting,
         Fenced, Sound
<1>2. /\ pc'[r] = "current" /\ topGen' = topGen + 1
      /\ \A s \in Run \ {r} : gen'[s] = gen[s]
  BY <1>1 DEF LocalType, Acquire, Move
<1>3. \A s \in Run : gen[s] \in Nat /\ gen[s] <= topGen
  BY <1>1 DEF CatalogInv, LocalType, Sane, Based
<1>4. Fenced => LastIsNewest'
  BY <1>1 DEF CompleteInv, LastIsNewest
<1>5. Sound => Complete'
  BY <1>1, SameStoreComplete DEF CompleteInv
<1>6. \A s \in Run \ {r} : ~Held(s)'
  BY <1>1, <1>2, <1>3 DEF Held
<1>7. Knowing(r)'
  BY <1>1, <1>2
     DEF Knowing, Uploaded, Knows, Above, Deletes, Filled, Opened, Committing, Guarded
<1> QED BY <1>1, <1>4, <1>5, <1>6, <1>7 DEF CompleteInv

LEMMA StutterKeepsComplete ==
    ASSUME CompleteInv, HistoryInv', UNCHANGED vars
    PROVE  CompleteInv'
<1>1. LastIsNewest' <=> LastIsNewest
  BY DEF LastIsNewest, vars
<1>2. Complete' <=> Complete
  BY DEF Complete, vars, store
<1>3. \A r \in Run : (Held(r) => Knowing(r))' <=> (Held(r) => Knowing(r))
  BY DEF vars, setting, store, local, copy, Held, Knowing, Uploaded, Knows, Above,
         Deletes, Astray, Stored, Pointer, ManifestFree, Slot, BaseSeq
<1>4. (Fenced' <=> Fenced) /\ (Sound' <=> Sound)
  BY DEF vars, setting, Fenced, Sound
<1> QED BY <1>1, <1>2, <1>3, <1>4 DEF CompleteInv

LEMMA StepKeepsComplete ==
    ASSUME CompleteInv, [Next]_vars
    PROVE  CompleteInv'
<1>1. HistoryInv'
  BY StepKeepsHistory DEF CompleteInv
<1>2. CASE UNCHANGED vars
  BY <1>1, <1>2, StutterKeepsComplete
<1>3. CASE Next
  <2>1. PICK r \in Run : Acquire(r) \/ Acts(r)
    BY <1>3 DEF Next, Acts
  <2> QED BY <1>1, <1>3, <2>1, AcquireKeepsComplete, ActKeepsComplete DEF Next
<1> QED BY <1>2, <1>3

LEMMA InitComplete == Init => CompleteInv
<1> SUFFICES ASSUME Init PROVE CompleteInv
  OBVIOUS
<1>1. HistoryInv
  BY InitHistory
<1>2. LastIsNewest /\ Complete
  BY DEF Init, LastIsNewest, Complete
<1>3. ASSUME NEW r \in Run
      PROVE  Knowing(r)
  BY DEF Init, Knowing, Uploaded, Knows, Above, Deletes, Filled, Opened,
         Committing, Guarded
<1> QED BY <1>1, <1>2, <1>3 DEF CompleteInv

-----------------------------------------------------------------------------
(* The theorem                                                             *)

\* However many runs there are, and wherever they crash or their calls fail: the
\* version that CURRENT names and its manifest are in the store, as the commit that
\* published CURRENT put them, as long as no run stalls between an assert_held() and
\* the step that it guards nor, on HF, loses its lease while it uploads (working.py,
\* publish.py, cleanup.py).
THEOREM CurrentStaysComplete == Spec => []CurrentIsComplete
<1>1. CompleteInv => CurrentIsComplete
  BY DEF CompleteInv, Complete, CurrentIsComplete
<1> QED BY <1>1, InitComplete, StepKeepsComplete, PTL DEF Spec
=============================================================================
