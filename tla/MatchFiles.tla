----------------------------- MODULE MatchFiles -----------------------------
(***************************************************************************)
(* The files of one match in the two roots of a lake: visibility moves and *)
(* their records (src/v2/src/lakehouse/catalog/moves.py), the settling of  *)
(* leftovers at a run's start, restores (catalog/restore.py) and the       *)
(* cleanup with its orphan sweep (catalog/cleanup.py).                     *)
(*                                                                         *)
(* One process at a time holds the lease (module Lease), and the calls of  *)
(* a commit are one step here (module Catalog has them).  What is left open*)
(* is where a process ends: between any two steps, with deletes that no    *)
(* assert_held() repeats still on their way, or with a version stored that *)
(* CURRENT never named; and which runs and restores come after it.         *)
(*                                                                         *)
(* Matches share no files, so one match with one bronze table stands for   *)
(* each; its flag is ops_matches.visibility.                               *)
(*                                                                         *)
(* What the clock decides (which snapshots expire, which versions are old) *)
(* is left open.  Raw files, readers, and the pruning of a run's own in-run*)
(* versions while it goes on (module Catalog) are left out.                *)
(***************************************************************************)
EXTENDS Integers, FiniteSets, FiniteSetsExt

CONSTANTS
    MaxFile,      \* bound: the last write id
    MaxSeq,       \* bound: the last sequence of a version
    Missing,      \* no such version
    NoKey,        \* a record without a new key
    Faults        \* the faults to look at, other than crashes: see below

Key == [root : {"lake", "restricted"}, id : 1..MaxFile]
In(root) == {k \in Key : k.root = root}
Seqs == 1..MaxSeq

\* A row of ops_move_records; "at" is its moved_at, the same for all of a move.
\* Only a to_private record may have no new key.
MoveRecord ==
    [dir : {"to_private"}, old : In("lake"), new : In("restricted") \cup {NoKey},
     at : Nat]
      \cup [dir : {"to_public"}, old : In("restricted"), new : In("lake"), at : Nat]

\* What a catalog holds of the match: the files its head registers, the files
\* that only older snapshots register, the scheduled-deletion list, the move
\* records, the flag, and the sequences that restores dropped.
CatalogType ==
    [head : SUBSET Key, ended : SUBSET Key, scheduled : SUBSET Key,
     moves : SUBSET MoveRecord, flag : {"public", "private"},
     dropped : SUBSET Seqs]

\* A version, and the kind that its manifest tells.
VersionType == [kind : {"in_run", "run_end"}, cat : CatalogType]

ASSUME MatchFilesConstants ==
    /\ MaxFile \in Nat \ {0} /\ MaxSeq \in Nat \ {0}
    /\ NoKey \notin Key /\ Missing \notin VersionType
    /\ Faults \subseteq {"late", "torn", "failed"}

VARIABLES
    faults,       \* the faults of this behaviour
    objects,      \* the match's objects in both roots
    version,      \* version[s]: the catalog, and the kind its manifest tells
    current,      \* the sequence in CURRENT
    fresh,        \* the next write id; a uuid, so never used before
    pc,           \* where the process that holds the lease is
    cat,          \* its working copy
    started,      \* its lease's time: the write ids below are older
    todo,         \* the keys it deletes next
    pruning,      \* the sequences it deletes next
    kept,         \* the kept_file_set of its cleanup
    late,         \* keys that a process without the lease may still delete
    was           \* history: the sequences that CURRENT named

local == <<cat, started, todo, pruning, kept>>
state == <<objects, version, current, fresh, pc, local, late, was>>
vars == <<faults, state>>

PC == {"idle", "settle", "work", "move", "finish", "versions", "scheduled",
       "sweep", "run_end", "restore", "drop"}

Stored == {s \in Seqs : version[s] # Missing}
InRoot(root, keys) == keys \cap In(root)
Tracked(c) == c.head \cup c.ended \cup c.scheduled

----------------------------------------------------------------------------
(* Move records                                                            *)

ToPrivate(moves) == {r \in moves : r.dir = "to_private"}
Moved(moves) == {r.old : r \in ToPrivate(moves)}

\* A key that was moved may get a record again, while DuckLake still tracks it.
First(records) == {r \in records : \A q \in records : q.old = r.old => r.at <= q.at}
Last(records) == {r \in records : \A q \in records : q.old = r.old => q.at <= r.at}

\* The keys, and for the moved ones among them the copies of the given records.
Replaced(keys, moves, records) ==
    (keys \ Moved(moves)) \cup {r.new : r \in {q \in records : q.old \in keys}}

\* _latest_visibility, for a match that has records.
Latest(moves) ==
    IF \E r \in ToPrivate(moves) : \A q \in moves : q.at <= r.at
    THEN "private" ELSE "public"

\* The manifests of all versions in storage but some.
Named(without) == UNION {version[s].cat.head : s \in Stored \ without}

\* Mutant: an old key that was moved stands for itself.
KeptFileSet_Old(moves, without) == Named(without)

\* kept_file_set: an old key stands for the copy of its last record.
KeptFileSet(moves, without) ==
    Replaced(Named(without), moves, Last(ToPrivate(moves))) \ {NoKey}

\* Mutant: a copy keeps the write id of its file.
Copies_SameId(olds, root) == [k \in olds |-> [root |-> root, id |-> k.id]]

\* copy_with_new_write_id for each key, with write ids from "fresh" on.
Copies(olds, root) ==
    [k \in olds |-> [root |-> root,
                     id |-> fresh + Cardinality({o \in olds : o.id < k.id})]]
Image(f) == {f[k] : k \in DOMAIN f}

\* The records of a move: one for each key, with its copy.
Records(dir, new) ==
    {[dir |-> dir, old |-> k, new |-> new[k], at |-> fresh] : k \in DOMAIN new}

MayCopy(olds) == fresh + Cardinality(olds) <= MaxFile + 1

\* swap_match_files: the match's old file of the table ends.
Swap(c, files) == [c EXCEPT !.head = files, !.ended = @ \cup c.head]

----------------------------------------------------------------------------
(* Processes                                                               *)

Move(from, to) == pc = from /\ pc' = to

NoCat == [head |-> {}, ended |-> {}, scheduled |-> {}, moves |-> {},
          flag |-> "public", dropped |-> {}]

Rest ==
    /\ pc' = "idle" /\ cat' = NoCat /\ started' = 1
    /\ todo' = {} /\ pruning' = {} /\ kept' = {}

Init ==
    /\ faults \in {Faults, Faults \ {"late"}}
    /\ \E flag \in {"public", "private"} :
        /\ objects = {[root |-> IF flag = "public" THEN "lake" ELSE "restricted",
                       id |-> 1]}
        /\ version = [s \in Seqs |-> IF s > 1 THEN Missing ELSE
               [kind |-> "run_end",
                cat |-> [NoCat EXCEPT !.head = objects, !.flag = flag]]]
    /\ current = 1 /\ fresh = 2 /\ was = {1}
    /\ pc = "idle" /\ cat = NoCat /\ started = 1
    /\ todo = {} /\ pruning = {} /\ kept = {} /\ late = {}

NextSeq == Max(Stored \cup {current}) + 1

Kind == IF pc \in {"restore", "run_end"} THEN "run_end" ELSE "in_run"

\* commit: the version and its manifest, then CURRENT.
Store ==
    /\ NextSeq \in Seqs
    /\ version' = [version EXCEPT ![NextSeq] = [kind |-> Kind, cat |-> cat]]

Publish ==
    /\ Store
    /\ current' = NextSeq
    /\ was' = was \cup {NextSeq}

\* The deletes of a run start and of a finished move repeat no assert_held();
\* in a cleanup each key, in the sweep each batch, is guarded by an earlier one.
InFlight == IF pc \in {"settle", "finish", "scheduled", "sweep"} THEN todo ELSE {}

\* The process ends with an error, or crashes; or it stalls until its lease is
\* taken, and its deletes are late.
Lose ==
    /\ pc # "idle"
    /\ late' = IF "late" \in faults THEN (late \cup InFlight) \cap objects ELSE late
    /\ Rest
    /\ UNCHANGED <<objects, version, current, fresh, was>>

\* Its commit is torn: the version is stored, and CURRENT not replaced.
LoseCommit ==
    /\ "torn" \in faults
    /\ pc \in {"move", "run_end", "restore"}
    /\ Store /\ Rest
    /\ UNCHANGED <<objects, current, fresh, late, was>>

LateDelete ==
    /\ \E k \in late :
        /\ objects' = objects \ {k}
        /\ late' = late \ {k}
    /\ UNCHANGED <<version, current, fresh, pc, local, was>>

\* storage.delete of one key, accepting "not found".
DeleteKey(at) ==
    /\ pc = at
    /\ \E k \in todo :
        /\ objects' = objects \ {k}
        /\ todo' = todo \ {k}
        /\ late' = late \ {k}
    /\ UNCHANGED <<version, current, fresh, pc, cat, started, pruning, kept, was>>

DeleteVersion(at) ==
    /\ pc = at /\ pruning # {}
    /\ version' = [version EXCEPT ![Min(pruning)] = Missing]
    /\ pruning' = pruning \ {Min(pruning)}
    /\ UNCHANGED <<objects, current, fresh, pc, cat, started, todo, kept, late, was>>

----------------------------------------------------------------------------
(* A run's start: settle_moves                                             *)

\* Mutant: leftovers wait for the cleanup.
Leftovers_None(c) == {}

\* delete_moved_leftovers: the old keys of to_private records are lake keys.
Leftovers(c) == Moved(c.moves) \cap objects

\* assert_no_moved_key_registered stops a run whose CURRENT registers such a key.
StartRun ==
    /\ Move("idle", "settle")
    /\ cat' = version[current].cat
    /\ Moved(cat'.moves) \cap cat'.head = {}
    /\ started' = fresh
    /\ todo' = Leftovers(cat')
    /\ UNCHANGED <<objects, version, current, fresh, pruning, kept, late, was>>

Settled ==
    /\ Move("settle", "work") /\ todo = {}
    /\ UNCHANGED <<objects, version, current, fresh, local, late, was>>

----------------------------------------------------------------------------
(* The work of a run on the match                                          *)

\* MatchWriter.write: a new file, in the root of the new visibility, then the
\* swap, if nothing failed in between.  A public match that becomes private is
\* moved first.  The one table is written anew, so that after a private match
\* became public nothing is left for the move at the end of write.
Write ==
    /\ pc = "work" /\ fresh <= MaxFile
    /\ \E flag \in {"public", "private"} :
        /\ cat.flag = "private" \/ flag = "public"
        /\ LET k == [root |-> IF flag = "public" THEN "lake" ELSE "restricted",
                     id |-> fresh]
           IN  /\ objects' = objects \cup {k}
               /\ \/ cat' = [Swap(cat, {k}) EXCEPT !.flag = flag]
                  \/ "failed" \in faults /\ UNCHANGED cat
    /\ fresh' = fresh + 1
    /\ UNCHANGED <<version, current, pc, started, todo, pruning, kept, late, was>>

\* match_lake_objects: registered or kept, then tracked only or stray.
ToCopy == InRoot("lake", cat.head \cup Named({}))

\* Mutants: nothing but what a version names is recorded; files of either root.
ToForget_None == {}
ToForget_AnyRoot == (Tracked(cat) \cup objects) \ ToCopy

ToForget == InRoot("lake", Tracked(cat) \cup objects) \ ToCopy

\* stage_match_move to the restricted root, with the flag of _stage_register.  A
\* run visits a match once for each of its two channels: when the publish of a
\* private move failed, it does not become public and private again in that run.
StagePrivate ==
    /\ Move("work", "move")
    /\ cat.flag = "public" /\ ToCopy \subseteq objects /\ MayCopy(ToCopy)
    /\ ToCopy \cap Moved(cat.moves) = {}
    /\ LET new == Copies(ToCopy, "restricted")
           none == [k \in ToForget |-> NoKey]
       IN  /\ objects' = objects \cup Image(new)
           /\ cat' = [Swap(cat, {new[k] : k \in InRoot("lake", cat.head)})
                        EXCEPT !.flag = "private",
                               !.moves = @ \cup Records("to_private", new)
                                           \cup Records("to_private", none)]
           /\ todo' = ToCopy \cup ToForget
    /\ fresh' = fresh + Cardinality(ToCopy)
    /\ UNCHANGED <<version, current, started, pruning, kept, late, was>>

\* stage_match_move to the lake root: only the registered files.
StagePublic ==
    /\ Move("work", "move")
    /\ cat.flag = "private" /\ cat.head \subseteq objects /\ MayCopy(cat.head)
    /\ LET new == Copies(cat.head, "lake")
       IN  /\ objects' = objects \cup Image(new)
           /\ cat' = [Swap(cat, Image(new))
                        EXCEPT !.flag = "public",
                               !.moves = @ \cup Records("to_public", new)]
    /\ fresh' = fresh + Cardinality(cat.head)
    /\ UNCHANGED <<version, current, started, todo, pruning, kept, late, was>>

\* A copy or the swap fails: what was copied stays, without a record.
StageFails ==
    /\ "failed" \in faults
    /\ pc = "work"
    /\ \E S \in SUBSET (IF cat.flag = "public" THEN ToCopy ELSE cat.head) :
        /\ S # {} /\ S \subseteq objects /\ MayCopy(S)
        /\ objects' = objects \cup
               Image(Copies(S, IF cat.flag = "public" THEN "restricted" ELSE "lake"))
        /\ fresh' = fresh + Cardinality(S)
    /\ UNCHANGED <<version, current, pc, local, late, was>>

\* checkpoints.now("move"), then finish_match_move.
PublishMove ==
    /\ Move("move", "finish")
    /\ Publish
    /\ UNCHANGED <<objects, fresh, local, late>>

\* The publish raises, its version stored or not: the visibility pass ends the
\* run (Lose, LoseCommit), a match's failure is recorded and the run goes on
\* with the working copy as it is.
PublishMoveFails ==
    /\ "failed" \in faults
    /\ Move("move", "work")
    /\ ("torn" \in faults /\ Store) \/ UNCHANGED version
    /\ todo' = {}
    /\ UNCHANGED <<objects, current, fresh, cat, started, pruning, kept, late, was>>

Finished ==
    /\ Move("finish", "work") /\ todo = {}
    /\ UNCHANGED <<objects, version, current, fresh, local, late, was>>

\* A checkpoint publishes what the working copy holds; one that changes nothing
\* of the match is left out, as it only takes a sequence.
Checkpoint ==
    /\ pc = "work" /\ cat # version[current].cat
    /\ Publish
    /\ UNCHANGED <<objects, fresh, pc, local, late>>

----------------------------------------------------------------------------
(* The end of a run: run_cleanup, the run-end commit, its pruning           *)

\* plan_version_pruning: a version goes when its successor is old enough (it
\* is not after grace), and a restore dropped it, or it is older than the
\* retention (before cut), or it is an in-run one that a run end superseded.
Outdated(v, cur, dropped, grace, cut) ==
    LET in == {s \in Seqs : v[s] # Missing}
    IN  {s \in in \ {cur} :
            /\ \E t \in in : s < t /\ t <= grace
            /\ \/ s \in dropped \/ s < cut
               \/ v[s].kind = "in_run" /\ \E t \in in : s < t /\ v[t].kind = "run_end"}

\* The scheduled-deletion list, after the snapshots that are old enough expire.
Cleanup ==
    /\ Move("work", "versions")
    /\ Moved(cat.moves) \cap version[current].cat.head = {}
    /\ \E expired \in SUBSET cat.ended, grace, cut \in 0..MaxSeq :
        /\ cat' = [cat EXCEPT !.ended = @ \ expired, !.scheduled = @ \cup expired]
        /\ pruning' = Outdated(version, current, cat.dropped, grace, cut)
        /\ kept' = KeptFileSet(cat.moves, pruning')
    /\ todo' = cat'.scheduled \ kept'
    /\ UNCHANGED <<objects, version, current, fresh, started, late, was>>

VersionsDeleted ==
    /\ Move("versions", "scheduled") /\ pruning = {}
    /\ UNCHANGED <<objects, version, current, fresh, local, late, was>>

Doomed(c) == {k \in objects : k \notin kept \cup Tracked(c) /\ k.id < started}

\* The rows of what was deleted go; then the sweep lists both roots.  Its guard
\* against too large a sweep stops the run (Lose).
Sweep ==
    /\ Move("scheduled", "sweep") /\ todo = {}
    /\ cat' = [cat EXCEPT !.scheduled = @ \cap kept]
    /\ version[current].cat.head \subseteq objects
    /\ Doomed(cat') \cap version[current].cat.head = {}
    /\ todo' = Doomed(cat') /\ kept' = {}
    /\ UNCHANGED <<objects, version, current, fresh, started, pruning, late, was>>

\* Mutant: only what DuckLake tracks keeps its record.
NeedsRecord_Tracked(k) == k \in Tracked(cat)

NeedsRecord(k) == k \in Named({}) \cup Tracked(cat)

\* prune_move_records
Swept ==
    /\ Move("sweep", "run_end") /\ todo = {}
    /\ cat' = [cat EXCEPT !.moves = {r \in @ : NeedsRecord(r.old)}]
    /\ UNCHANGED <<objects, version, current, fresh, started, todo, pruning, kept, late, was>>

\* checkpoints.run_end(); its pruning reads what restores dropped, too.
RunEnd ==
    /\ Move("run_end", "drop")
    /\ Publish
    /\ \E grace, cut \in 0..MaxSeq :
           pruning' = Outdated(version', current', cat.dropped, grace, cut)
    /\ UNCHANGED <<objects, fresh, cat, started, todo, kept, late>>

----------------------------------------------------------------------------
(* restore                                                                 *)

\* _resolve_moved_keys: the first record of an old key tells its copy.
Resolve(moves, keys) == Replaced(keys, moves, First(ToPrivate(moves)))

\* _restore_held, up to the checks before its commit.  The restored copy has
\* the records, the flag and the drops of CURRENT, not its own.  Operators
\* restore versions that were published.
Restore ==
    /\ Move("idle", "restore")
    /\ \E t \in (Stored \cap was) \ {current} :
        LET now == version[current].cat
            files == Resolve(now.moves, version[t].cat.head)
            flag == IF now.moves = {} THEN version[t].cat.flag ELSE Latest(now.moves)
            hidden == IF now.moves = {} \/ flag = "private" THEN {}
                      ELSE InRoot("restricted", files)
            new == Copies(hidden, "lake")
        IN  /\ now.moves # {} => flag = now.flag                \* _check_flags
            /\ NoKey \notin files
            /\ (now.moves # {} /\ flag = "private") => InRoot("lake", files) = {}
            /\ hidden \subseteq objects /\ MayCopy(hidden)
            /\ objects' = objects \cup Image(new)
            /\ fresh' = fresh + Cardinality(hidden)
            /\ cat' = [version[t].cat EXCEPT
                          !.head = (files \ hidden) \cup Image(new),
                          !.flag = flag,
                          !.moves = now.moves \cup Records("to_public", new),
                          !.dropped = now.dropped \cup (t + 1)..(NextSeq - 1)]
            /\ pruning' = Stored \cap (t + 1)..(NextSeq - 1)
    /\ UNCHANGED <<version, current, started, todo, kept, late, was>>

\* The dropped versions go after the commit.
RestoreCommit ==
    /\ Move("restore", "drop")
    /\ cat.head \subseteq objects
    /\ Publish
    /\ UNCHANGED <<objects, fresh, local, late>>

\* The lease is released.
Release ==
    /\ pc = "drop" /\ pruning = {}
    /\ Rest
    /\ UNCHANGED <<objects, version, current, fresh, late, was>>

----------------------------------------------------------------------------
Visit ==
    \/ StartRun \/ DeleteKey("settle") \/ Settled
    \/ Write \/ StagePrivate \/ StagePublic \/ StageFails
    \/ PublishMove \/ PublishMoveFails \/ DeleteKey("finish") \/ Finished
    \/ Checkpoint

EndOfRun ==
    \/ Cleanup \/ DeleteVersion("versions") \/ VersionsDeleted
    \/ DeleteKey("scheduled") \/ Sweep \/ DeleteKey("sweep") \/ Swept \/ RunEnd
    \/ DeleteVersion("drop") \/ Release

Next ==
    /\ UNCHANGED faults
    /\ \/ Visit \/ EndOfRun \/ Restore \/ RestoreCommit
       \/ Lose \/ LoseCommit \/ LateDelete

Spec == Init /\ [][Next]_vars

\* Runs start again and again and each process ends; a crash does not
\* come before the first delete of every run.
Fairness ==
    /\ SF_state(StartRun) /\ WF_state(Lose)
    /\ SF_state(DeleteKey("settle"))

FairSpec == Spec /\ Fairness

----------------------------------------------------------------------------
TypeOK ==
    /\ objects \subseteq Key /\ kept \subseteq Key
    /\ todo \subseteq Key /\ late \subseteq Key
    /\ version \in [Seqs -> VersionType \cup {Missing}]
    /\ current \in Seqs /\ was \subseteq Seqs /\ pruning \subseteq Seqs
    /\ fresh \in 1..(MaxFile + 1) /\ started \in 1..(MaxFile + 1)
    /\ pc \in PC /\ cat \in CatalogType

\* "A unique file name per write makes this impossible in normal operation, so
\* the guard catches only a bug" (assert_no_moved_key_registered): however moves
\* fail and restores follow them, no version in storage, and no working copy,
\* registers a lake key together with a record that it was moved away.
MovedKeyNeverReturns ==
    \A c \in {cat} \cup {version[s].cat : s \in Stored} : Moved(c.moves) \cap c.head = {}

\* The restore points: what CURRENT named, but for what a restore dropped.
RestorePoints == (Stored \cap was) \ version[current].cat.dropped

\* "Every restore point keeps working after visibility moves": each file of each
\* version that a restore may name, CURRENT among them, is in storage under its
\* own key or the key of its copy, and of a private match none is in the lake
\* root.  Moves, cleanups, sweeps, restores and the pruning of records and versions
\* all have to agree for this, whatever crashes, fails or is torn.  It is not
\* promised if a process that lost its lease still deletes: such a delete may hit a
\* file that has become part of a restore point since.
RestorePointsWork ==
    LET now == version[current].cat
    IN  "late" \notin faults => \A s \in RestorePoints :
            LET files == Resolve(now.moves, version[s].cat.head)
            IN  /\ files \subseteq objects
                /\ now.flag = "private" => InRoot("lake", files) = {}

\* What is still readable of a private match in the public root, and that a
\* restore point or DuckLake may lead to.
PublicCopies ==
    LET now == version[current].cat
        named == UNION {version[s].cat.head : s \in RestorePoints}
    IN  IF now.flag = "public" THEN {}
        ELSE InRoot("lake", objects) \cap (Tracked(now) \cup named)

\* No public copy of a private match is forgotten: a move that crashed or failed
\* half way, a restore, or a pruning of records leaves none without the record
\* by which the next run start deletes it.
PublicCopyHasRecord == PublicCopies \subseteq Moved(version[current].cat.moves)

\* And it is deleted, or the match is public again: a crash between the publish
\* and the deletes exposes it until the start of the next run only.
PublicCopyGoes ==
    \A id \in 1..MaxFile :
        LET k == [root |-> "lake", id |-> id]
        IN  k \in PublicCopies ~> k \notin PublicCopies

\* "The ops_matches flag of the pre-restore CURRENT must agree with" the newest
\* move record of the match, "else the restore stops": so that restores are
\* possible, it has to agree in every CURRENT.
NewestRecordIsFlag ==
    LET now == version[current].cat
    IN  now.moves # {} => Latest(now.moves) = now.flag

\* "Every lake-root bronze object of the match that the current catalog registers
\* or a kept version names gets a restricted copy": it is there to be copied.
MoveFindsItsFiles ==
    pc = "work" /\ cat.flag = "public" => ToCopy \subseteq objects
=============================================================================
