------------------------------ MODULE Catalog ------------------------------
(***************************************************************************)
(* The catalog commits of the lakehouse (src/v2/src/lakehouse/catalog:     *)
(* working.py, publish.py and the version pruning of cleanup.py; the       *)
(* publishes of runs/checkpoint.py).                                       *)
(*                                                                         *)
(* A run builds a working copy from the version that CURRENT names, changes*)
(* it, and publishes it: it asserts the lease, creates the next version and*)
(* its manifest, verifies the upload, asserts the lease again, and replaces*)
(* CURRENT by compare-and-swap.  Under the lease it also deletes versions  *)
(* that retention does not keep.  Every call on the store is a step.       *)
(*                                                                         *)
(* The lease is taken at its word (module Lease): assert_held() passes only*)
(* while no newer generation exists.  A run may stall for so long that its *)
(* lease expires and another run takes it, or a taker that judges an old   *)
(* look takes it from a run that is in time: anywhere, or, in other        *)
(* behaviours, not where the variable fault excludes it.                   *)
(*                                                                         *)
(* The lake is local, where a conditional put is atomic, or on HF, where   *)
(* the gateway honours the condition only of puts that follow one another: *)
(* of two that overlap, both may succeed (ADR-007, the T6 amendment).      *)
(***************************************************************************)
EXTENDS Integers, Sequences, FiniteSets, FiniteSetsExt

CONSTANTS
    Run,          \* the runs; each takes the lease once
    Missing,      \* an object that is not in the store
    NoPointer,    \* no CURRENT: an empty lake
    MaxSeq,       \* bound: the largest sequence of a catalog version
    Faults        \* the kinds of fault to look at

Seqs == 1..MaxSeq
Content == SUBSET (Run \X Seqs)

\* A pointer names a version, its content (a checksum), the lease generation
\* it was published under, and the sequence of the version it was made from.
PointerType == [seq : Seqs, content : Content, gen : Nat, parent : 0..MaxSeq]

\* A manifest names the run that wrote it and whether it ended the run.
ManifestType == [run : Run, kind : {"in_run", "run_end"}, content : Content]

ASSUME CatalogConstants ==
    /\ MaxSeq \in Nat
    /\ Faults \subseteq {"stall", "late", "unclear"}
    /\ NoPointer \notin PointerType
    /\ Missing \notin ManifestType /\ \A content \in Content : content # Missing

VARIABLES
    fault,        \* what may go wrong in this behaviour
    gateway,      \* the lake is behind the HF gateway
    topGen,       \* the newest generation of the lease
    current,      \* CURRENT
    version,      \* version[s]: the catalog in catalog/v/<s>.ducklake
    manifest,     \* manifest[s]: what catalog/v/<s>.files.json describes
    published,    \* history: all values of CURRENT, oldest first
    pc,           \* where a run is
    gen,          \* its lease generation
    base,         \* WorkingCatalog._current
    next,         \* WorkingCatalog._next_seq
    work,         \* the changes in the working copy
    phase,        \* what the run publishes: see Phase
    plan          \* the sequences a pruning looks at, then those it deletes

store == <<current, version, manifest>>
copy == <<base, next, work>>
local == <<copy, phase, plan>>
setting == <<fault, gateway>>
vars == <<setting, topGen, store, published, pc, gen, local>>

\* In-run publishes, then the cleanup, then the run-end publish.
Phase == {"in_run", "cleanup", "run_end"}

Opening == {"current", "get", "list"}
Committing == {"put", "upload", "manifest", "describe", "verify", "assert"}
\* After an assert_held() that nothing repeats before the next step.
Guarded == {"cas", "replace", "readback", "prune", "manifests", "delete", "rest"}
Ended == {"done", "dead"}
PC == {"idle", "work", "fence", "clean"} \cup Opening \cup Committing \cup Guarded \cup Ended

\* A run may lose its lease to another one, since one of the two stalled: at any
\* step; at any step but those that follow an assert_held(); or only while it
\* opens, works and waits.
Prompt ==
    CASE fault = "stall" -> {}
      [] fault = "late" -> Guarded
      [] fault = "unclear" -> Guarded \cup Committing \cup {"fence"}

\* A publish of CURRENT may land, and still raise a store error.
Unclear == fault \in {"stall", "unclear"}

Stored == {s \in Seqs : version[s] # Missing \/ manifest[s] # Missing}
BaseSeq(r) == IF base[r] = NoPointer THEN 0 ELSE base[r].seq

Move(r, from, to) == pc[r] = from /\ pc' = [pc EXCEPT ![r] = to]

\* The process ends; its working copy is never used again.
Exit(r, from, how) ==
    /\ Move(r, from, how)
    /\ base' = [base EXCEPT ![r] = NoPointer]
    /\ next' = [next EXCEPT ![r] = 1]
    /\ work' = [work EXCEPT ![r] = {}]
    /\ phase' = [phase EXCEPT ![r] = "in_run"]
    /\ plan' = [plan EXCEPT ![r] = {}]

\* An error of a commit stops the run, or it is recorded as the failure of one
\* match and the run goes on (_match_guarded): of the errors of a commit only
\* LeaseLostError is fatal there.
Fail(r, from) ==
    \/ Exit(r, from, "done")
    \/ phase[r] = "in_run" /\ Move(r, from, "work") /\ UNCHANGED local

Held(r) == gen[r] = topGen

Init ==
    /\ fault \in Faults /\ gateway \in BOOLEAN
    /\ topGen = 0 /\ current = NoPointer
    /\ version = [s \in Seqs |-> Missing]
    /\ manifest = [s \in Seqs |-> Missing]
    /\ published = <<>>
    /\ pc = [r \in Run |-> "idle"]
    /\ gen = [r \in Run |-> 0]
    /\ base = [r \in Run |-> NoPointer]
    /\ next = [r \in Run |-> 1]
    /\ work = [r \in Run |-> {}]
    /\ phase = [r \in Run |-> "in_run"]
    /\ plan = [r \in Run |-> {}]

\* A run takes the lease: the run that had it released it or died, or one of the
\* two stalled.
Acquire(r) ==
    /\ \A s \in Run : Held(s) => pc[s] \notin Prompt
    /\ Move(r, "idle", "current")
    /\ topGen' = topGen + 1
    /\ gen' = [gen EXCEPT ![r] = topGen + 1]
    /\ UNCHANGED <<store, published, local>>

----------------------------------------------------------------------------
(* WorkingCatalog.open                                                     *)

ReadCurrent(r) ==
    /\ Move(r, "current", IF current = NoPointer THEN "list" ELSE "get")
    /\ base' = [base EXCEPT ![r] = current]
    /\ UNCHANGED <<topGen, store, published, gen, next, work, phase, plan>>

GetVersion(r) ==
    /\ Move(r, "get", "list")
    /\ version[base[r].seq] = base[r].content
    /\ work' = [work EXCEPT ![r] = base[r].content]
    /\ UNCHANGED <<topGen, store, published, gen, base, next, phase, plan>>

\* The version is gone, or is not the one whose checksum CURRENT holds.
GetFails(r) ==
    /\ pc[r] = "get" /\ version[base[r].seq] # base[r].content
    /\ Exit(r, "get", "done")
    /\ UNCHANGED <<topGen, store, published, gen>>

\* Mutant: the largest stored sequence, without the + 1.
ListVersions_Last(r) ==
    /\ Move(r, "list", "work")
    /\ next' = [next EXCEPT ![r] = Max(Stored \cup {BaseSeq(r)})]
    /\ UNCHANGED <<topGen, store, published, gen, base, work, phase, plan>>

ListVersions(r) ==
    /\ Move(r, "list", "work")
    /\ next' = [next EXCEPT ![r] = Max(Stored \cup {BaseSeq(r)}) + 1]
    /\ UNCHANGED <<topGen, store, published, gen, base, work, phase, plan>>

----------------------------------------------------------------------------
(* WorkingCatalog.commit                                                   *)

\* The run changed its working copy and commits it; assert_held() passes.
Commit(r) ==
    /\ Held(r) /\ next[r] \in Seqs
    /\ \/ Move(r, "work", "put") /\ UNCHANGED phase
       \/ /\ Move(r, "work", "put") \/ Move(r, "clean", "put")
          /\ phase' = [phase EXCEPT ![r] = "run_end"]
    /\ work' = [work EXCEPT ![r] = @ \cup {<<r, next[r]>>}]
    /\ UNCHANGED <<topGen, store, published, gen, base, next, plan>>

\* The sequence is used from the put on, whatever happens next.
Slot(r) == next[r] - 1
TakeSlot(r) ==
    /\ next' = [next EXCEPT ![r] = @ + 1]
    /\ UNCHANGED <<base, work, phase, plan>>

\* The conditions of the puts: put_if_absent of a version and of its manifest,
\* replace_if_match of CURRENT.
VersionFree(r) == version[next[r]] = Missing
ManifestFree(r) == manifest[Slot(r)] = Missing
Unmoved(r) == current = base[r]

\* The gateway has found a condition true, and will put whatever happens next;
\* what follows the put is in the action that completes it.
Send(r) ==
    /\ gateway
    /\ \/ Move(r, "put", "upload") /\ VersionFree(r)
       \/ Move(r, "manifest", "describe") /\ ManifestFree(r)
       \/ Move(r, "cas", "replace") /\ Unmoved(r)
    /\ UNCHANGED <<topGen, store, published, gen, local>>

PutVersion(r) ==
    /\ Move(r, "put", "manifest") \/ Move(r, "upload", "manifest")
    /\ pc[r] = "put" => ~gateway /\ VersionFree(r)
    /\ version' = [version EXCEPT ![next[r]] = work[r]]
    /\ TakeSlot(r)
    /\ UNCHANGED <<topGen, current, manifest, published, gen>>

VersionExists(r) ==
    /\ Move(r, "put", "fence") \/ Move(r, "upload", "fence")
    /\ ~VersionFree(r)
    /\ TakeSlot(r)
    /\ UNCHANGED <<topGen, store, published, gen>>

PutManifest(r) ==
    /\ Move(r, "manifest", "verify") \/ Move(r, "describe", "verify")
    /\ pc[r] = "manifest" => ~gateway /\ ManifestFree(r)
    /\ manifest' = [manifest EXCEPT ![Slot(r)] =
                        [run |-> r, kind |-> phase[r], content |-> work[r]]]
    /\ UNCHANGED <<topGen, current, version, published, gen, local>>

ManifestExists(r) ==
    /\ Move(r, "manifest", "fence") \/ Move(r, "describe", "fence")
    /\ ~ManifestFree(r)
    /\ UNCHANGED <<topGen, store, published, gen, local>>

\* _fence_existing: a lost lease or a moved CURRENT stops the run; otherwise
\* it raises an IntegrityError.
Fence(r) ==
    /\ \/ Exit(r, "fence", "done")
       \/ Held(r) /\ current = base[r] /\ Fail(r, "fence")
    /\ UNCHANGED <<topGen, store, published, gen>>

Verify(r) ==
    /\ Move(r, "verify", "assert")
    /\ version[Slot(r)] = work[r]
    /\ UNCHANGED <<topGen, store, published, gen, local>>

VerifyFails(r) ==
    /\ pc[r] = "verify" /\ version[Slot(r)] # work[r]
    /\ Fail(r, "verify")
    /\ UNCHANGED <<topGen, store, published, gen>>

\* Mutant: no second assert_held() between the upload and the publish.
AssertAgain_None(r) ==
    /\ Move(r, "assert", "cas")
    /\ UNCHANGED <<topGen, store, published, gen, local>>

AssertAgain(r) ==
    /\ Held(r)
    /\ Move(r, "assert", "cas")
    /\ UNCHANGED <<topGen, store, published, gen, local>>

\* LeaseLostError of assert_held() before a commit or its publish, or before
\* a cleanup: a newer generation, or too little time left.  Or another error
\* that stops the run outside a commit.
LeaseLost(r) ==
    /\ \E at \in {"work", "clean", "assert"} : Exit(r, at, "done")
    /\ UNCHANGED <<topGen, store, published, gen>>

Pointer(r) == [seq |-> Slot(r), content |-> work[r], gen |-> gen[r],
               parent |-> BaseSeq(r)]

\* Mutant: CURRENT is put, not replaced by compare-and-swap.
Replace_Put(r) ==
    /\ current' = Pointer(r)
    /\ published' = Append(published, Pointer(r))
    /\ UNCHANGED <<topGen, version, manifest, gen>>

Replace(r) ==
    /\ pc[r] = "cas" => ~gateway /\ Unmoved(r)
    /\ current' = Pointer(r)
    /\ published' = Append(published, Pointer(r))
    /\ UNCHANGED <<topGen, version, manifest, gen>>

\* publish_current
Cas(r) ==
    /\ Replace(r)
    /\ Move(r, "cas", "readback") \/ Move(r, "replace", "readback")
    /\ UNCHANGED local

CasConflict(r) ==
    /\ ~Unmoved(r)
    /\ Exit(r, "cas", "done") \/ Exit(r, "replace", "done")
    /\ UNCHANGED <<topGen, store, published, gen>>

\* CURRENT was replaced, but the call raised a store error: the working
\* catalog does not know.
CasUnclear(r) ==
    /\ Unclear /\ Replace(r)
    /\ Fail(r, "cas") \/ Fail(r, "replace")

ReadBack(r) ==
    /\ current = Pointer(r)
    /\ Move(r, "readback", "prune")
    /\ base' = [base EXCEPT ![r] = current]
    /\ UNCHANGED <<topGen, store, published, gen, next, work, phase, plan>>

ReadBackDiffers(r) ==
    /\ pc[r] = "readback" /\ current # Pointer(r)
    /\ Exit(r, "readback", "done")
    /\ UNCHANGED <<topGen, store, published, gen>>

\* A call of the commit raises a store error.  A put that landed and raised is
\* its action, then a StoreError.
StoreError(r) ==
    /\ \/ /\ phase[r] = "in_run"
          /\ Move(r, "put", "work") \/ Move(r, "upload", "work")
          /\ TakeSlot(r)
       \/ Exit(r, "put", "done") \/ Exit(r, "upload", "done")
       \/ \E at \in {"manifest", "describe", "verify", "cas", "replace"} : Fail(r, at)
       \/ Unclear /\ Fail(r, "readback")
    /\ UNCHANGED <<topGen, store, published, gen>>

----------------------------------------------------------------------------
(* Version pruning.  Ages are left open, but for one: a run takes less than*)
(* version_days, so no version it published itself is older than that.     *)
(* Whatever else the clock says, a plan is one of those below.             *)

\* run_cleanup, between the last in-run publish and the run-end one, or in
\* sweep_now; assert_held() passes.
Cleanup(r) ==
    /\ Held(r) /\ base[r] # NoPointer
    /\ Move(r, "work", "manifests")
    /\ plan' = [plan EXCEPT ![r] = Stored]
    /\ phase' = [phase EXCEPT ![r] = "cleanup"]
    /\ UNCHANGED <<topGen, store, published, gen, copy>>

\* _prune_after_run_end, after the run-end commit.
PruneAfterRunEnd(r) ==
    /\ phase[r] = "run_end" /\ Move(r, "prune", "manifests")
    /\ plan' = [plan EXCEPT ![r] = Stored]
    /\ UNCHANGED <<topGen, store, published, gen, copy, phase>>

\* _prune_own, after an in-run commit: versions of this run that another one
\* of its own superseded.
Superseded(r) ==
    {s \in Seqs : \E i, j \in DOMAIN published :
        /\ i < j /\ published[i].seq = s
        /\ published[i].gen = gen[r] /\ published[j].gen = gen[r]}

PruneOwn(r) ==
    /\ phase[r] = "in_run" /\ Move(r, "prune", "delete")
    /\ \E S \in SUBSET Superseded(r) : plan' = [plan EXCEPT ![r] = S]
    /\ UNCHANGED <<topGen, store, published, gen, copy, phase>>

\* Mutant: every older version goes, whoever published it and whatever its kind.
Outdated_Older(r, complete) == {s \in complete : \E t \in complete : t > s}

\* plan_version_pruning reads the manifests of the listed sequences: those
\* without one are crashed commits and go at once.  One with a successor goes
\* when a reader's grace is over, and it is an in-run version that a run-end
\* version supersedes, or older than version_days.  The own CURRENT stays.
Outdated(r, complete) ==
    {s \in complete :
        /\ \E t \in complete : t > s
        /\ \/ manifest[s].run # r
           \/ manifest[s].kind = "in_run"
                /\ \E t \in complete : t > s /\ manifest[t].kind = "run_end"}

PlanPruning(r) ==
    LET complete == {s \in plan[r] : manifest[s] # Missing}
        crashed == plan[r] \ complete
    IN  /\ Move(r, "manifests", "delete")
        /\ \E S \in SUBSET Outdated(r, complete) :
            plan' = [plan EXCEPT ![r] = (crashed \cup S) \ {BaseSeq(r)}]
        /\ UNCHANGED <<topGen, store, published, gen, copy, phase>>

\* delete_versions: the version, then its manifest.  On Windows either delete
\* is postponed while a reader has the object open.
DeleteVersion(r) ==
    /\ plan[r] # {}
    /\ Move(r, "delete", "rest")
    /\ LET s == Min(plan[r])
       IN  version' \in {version, [version EXCEPT ![s] = Missing]}
    /\ UNCHANGED <<topGen, current, manifest, published, gen, local>>

DeleteManifest(r) ==
    /\ Move(r, "rest", "delete")
    /\ LET s == Min(plan[r])
       IN  /\ manifest' \in {manifest, [manifest EXCEPT ![s] = Missing]}
           /\ plan' = [plan EXCEPT ![r] = @ \ {s}]
    /\ UNCHANGED <<topGen, current, version, published, gen, copy, phase>>

Pruned(r) ==
    /\ plan[r] = {}
    /\ \/ phase[r] = "in_run" /\ Move(r, "delete", "work") /\ UNCHANGED local
       \/ phase[r] = "cleanup" /\ Move(r, "delete", "clean") /\ UNCHANGED local
       \/ phase[r] = "run_end" /\ Exit(r, "delete", "done")
    /\ UNCHANGED <<topGen, store, published, gen>>

----------------------------------------------------------------------------
Crash(r) ==
    /\ pc[r] \notin Ended \cup {"idle"}
    /\ Exit(r, pc[r], "dead")
    /\ UNCHANGED <<topGen, store, published, gen>>

Open(r) == ReadCurrent(r) \/ GetVersion(r) \/ GetFails(r) \/ ListVersions(r)

Upload(r) ==
    \/ Commit(r) \/ Send(r) \/ PutVersion(r) \/ VersionExists(r) \/ PutManifest(r)
    \/ ManifestExists(r) \/ Fence(r) \/ Verify(r) \/ VerifyFails(r)
    \/ AssertAgain(r) \/ LeaseLost(r) \/ StoreError(r)

PublishCurrent(r) ==
    \/ Cas(r) \/ CasConflict(r) \/ CasUnclear(r)
    \/ ReadBack(r) \/ ReadBackDiffers(r)

Prune(r) ==
    \/ Cleanup(r) \/ PruneAfterRunEnd(r) \/ PruneOwn(r) \/ PlanPruning(r)
    \/ DeleteVersion(r) \/ DeleteManifest(r) \/ Pruned(r)

Next ==
    /\ UNCHANGED setting
    /\ \E r \in Run :
        \/ Acquire(r) \/ Open(r) \/ Upload(r) \/ PublishCurrent(r)
        \/ Prune(r) \/ Crash(r)

Spec == Init /\ [][Next]_vars

----------------------------------------------------------------------------
TypeOK ==
    /\ fault \in Faults /\ gateway \in BOOLEAN
    /\ topGen \in Nat /\ current \in PointerType \cup {NoPointer}
    /\ version \in [Seqs -> Content \cup {Missing}]
    /\ manifest \in [Seqs -> ManifestType \cup {Missing}]
    /\ published \in Seq(PointerType)
    /\ pc \in [Run -> PC] /\ gen \in [Run -> Nat]
    /\ base \in [Run -> PointerType \cup {NoPointer}]
    /\ next \in [Run -> 1..(MaxSeq + 1)]
    /\ work \in [Run -> Content] /\ phase \in [Run -> Phase]
    /\ plan \in [Run -> SUBSET Seqs]

\* What the owner accepts of HF (ADR-007, the T6 amendment): a run that stalls
\* between its last assert_held() and the write of CURRENT may write over what
\* the next holder published.
Fenced == gateway => fault # "stall"

\* The values of CURRENT are one history without a lost update, in which neither
\* the sequence nor the lease generation ever goes back: on a local lake however
\* long a run stalls, and whatever takes the lease meanwhile; on HF if no run
\* loses its lease between an assert_held() and the step it guards.  Where one
\* does, a value may lack the last one's changes, but it is made from one that
\* was published, and has its changes.
History == INSTANCE CatalogHistory WITH history <- published, fenced <- Fenced
OneHistory == History!HSpec

\* And of the uploads there: one that overlaps the upload of the same sequence
\* by a run that lost its lease may be written over.
Sound == IF gateway THEN fault = "unclear" ELSE fault # "stall"

\* A reader that opens what CURRENT names finds the version and its manifest,
\* and both are those of the commit that CURRENT records.  A run that loses its
\* lease between an assert_held() and the step it guards can break this, and on
\* HF also one that loses it while it uploads; one that stalls anywhere else, a
\* crash, or an error of any call cannot.
CurrentIsComplete ==
    Sound /\ current # NoPointer =>
        /\ version[current.seq] = current.content
        /\ manifest[current.seq] # Missing
        /\ manifest[current.seq].content = current.content

\* What plan_version_pruning says of a version without a manifest: it "is a
\* crashed commit, never CURRENT".
PrunedVersionIsNotCurrent ==
    [][\A r \in Run : (current # NoPointer /\ pc[r] = "delete" /\ pc'[r] = "rest")
        => current.seq # Min(plan[r])]_vars
=============================================================================
