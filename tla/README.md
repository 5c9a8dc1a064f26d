# TLA+ models of the lakehouse (v2)

The repository holds two generations of one product. The first (`src/src`, dbt, notebooks, terraform, the Taipy app)
runs on Databricks and keeps its state in Delta tables. The second, `src/v2/src/lakehouse`, is a program of its own:
it ingests football match data from several providers into a DuckLake catalog that lies as plain objects in two
storage roots (`lake` and `restricted`), on a laptop's disk or in Hugging Face buckets. There is no database server
and no lock service: single-writer safety, atomic publication, retention and privacy are protocols over an object
store, run by processes that stall, crash and overlap. These protocols are what is modelled here.

## The parts of the system

| part | state | operations | interacts with |
|---|---|---|---|
| storage (`storage/base,local,hf`) | objects of two roots | get, put, put_if_absent, replace_if_match, list, delete | everything |
| lease (`storage/lease.py`) | generation objects `runs/lease/<g>.json`, anchors, markers; a heartbeat thread | acquire, renew, assert_held, confirm, release | storage; every writer |
| HF ledger (`storage/ledger.py`) | one file in a Hub repository | head, claim | lease, on HF |
| working catalog (`catalog/working.py`, `publish.py`) | versions, manifests, `CURRENT`; a local working copy | open, commit, publish_current | lease, storage |
| checkpoint policy (`runs/checkpoint.py`) | pending work, the run's own publishes | maybe, now, run_end, pruning | working catalog, cleanup |
| cleanup (`catalog/cleanup.py`) | the stored versions and files | prune versions, delete released files, sweep orphans | lease, DuckLake metadata, anchors, move records |
| restore, relocate (`catalog/restore.py`, `relocate.py`) | restore records | publish a copy of an older version, drop the newer ones | lease, catalog, moves |
| visibility moves (`catalog/moves.py`, `runs/visibility.py`, `match_files.py`) | move records, files in both roots | stage, publish, delete, settle leftovers | catalog, raw archive |
| readers (`catalog/reader.py`) | attachments with a user count | session | CURRENT, pruning |
| run engine (`runs/run.py` and its helpers) | history tables, working copy, stop flag | fold skips, settle moves, visibility pass, modules, finish | all of the above |
| config and decisions (`config/store.py`, `resolve/decisions.py`) | config document, its history, the decision log | load, save, append | storage under a config lock |
| review (`resolve/links,bands`, `services/review.py`) | link tables, holds, applied requests (catalog); decisions and requests (config side) | decide, accept, undo; one pass of every run | operators, run engine, restore |
| clusters (`resolve/nway.py`, `links.py`) | canonical pointers and the log of their moves | union-find, split, compare | the review's links |
| matchers, lineage, precedence, ids | none (pure) | scores, orderings, hashes | review, bronze |
| sources, parsers, bronze (`sources`, `parsers`, `bronze`, `net`) | caches | list, fetch, parse, write files | run engine |
| web, services, UI, schedule, CLI | sessions, sockets, unit files | sign in and out, actions, install | services |

What is hard, by part:

- **lease**: several runs race for the next generation after stale reads; clocks differ; a heartbeat thread writes
  beside the main thread; a process dies anywhere; a create tears; a release waits for the thread; old generations
  are pruned while a slow run still holds one; and what a run judges it read a while ago. It is correct when a lease
  that is renewed in time is taken by no run that looked at it in time, two runs hold a live lease only in that case,
  the newest generation is never pruned, a release is final, and a dead holder is replaced.
- **catalog**: a run may lose its lease between any two calls; a put or a compare-and-swap may land and raise; a crash
  leaves half a commit; a pruning acts on what it read earlier; on HF two conditional puts that overlap may both succeed.
  It is correct when the values of `CURRENT` are one history without a lost update, and what `CURRENT` names is complete,
  but for the residuals that the design accepts for HF.
- **cleanup, restore, moves, readers**: deletes that depend on earlier listings, on move records and on a reader's
  grace; recovery after a crash between a publish and the deletes that depend on it.
- **review and clusters**: operators decide, accept and undo while a run is between its two listings; a run that
  applied a request crashes or is restored away before it publishes; links of earlier batches are weighed anew against
  later decisions and other candidates; the split of a cluster depends on the order of its placing. It is correct when
  people have the last word in the end, an undo is not undone by machines, a request is applied once and not lost, only
  people link a record to two records of a provider, and clusters and pointers follow the links.
- **config and decisions**: two writes that are not atomic, and a lock that covers one process or one local lake.

## Modules

| module | models | proofs |
|---|---|---|
| `LeaseChain` | the abstract promise of the lease: one chain of generations | |
| `Lease` | `Lease.acquire` on a local store, `renew`, `assert_held`, `release`, generation pruning | `Lease_proofs` |
| `LeaseLedger` | the same lease on HF: `Lease._acquire_on_ledger`, `HubLedger.head/claim`, the ledger's part of `assert_held` | `LeaseLedger_proofs`, `LeaseLedgerTakeover_proofs` |
| `CatalogHistory` | the abstract promise: one history of pointers | |
| `Catalog` | `WorkingCatalog.open/commit/_publish`, `publish_current`, version pruning | `Catalog_proofs` |
| `MatchFiles` | a match's files through `settle_moves`, `stage_match_move`, `finish_match_move`, `MatchWriter.write`, `run_cleanup` with its sweep, and `restore` | `MatchFiles_proofs`, `MatchFilesRestore_proofs` |
| `Resolution` | `ReviewService.decide/accept_recommended/undo_batch`, `DecisionStore.load`, `resolve_all` for one entity type, the run around it, restore | `Resolution_proofs` |
| `Clusters` | `resolve_clusters`, `_split`, `_pointers`, `_move_reason` | `Clusters_proofs` |
| `MCLease`, `MCLeaseLedger`, `MCCatalog`, `MCMatchFiles`, `MCResolution`, `MCClusters` | instances for TLC, with symmetry where it is sound | |

`LeaseLedger` composes with `Lease` (it extends it), both refine `LeaseChain`, `Catalog` refines `CatalogHistory` and
takes from `Lease` what `Lease_proofs` proves of it, and `MatchFiles` and `Resolution` take a commit as one step, as
`Catalog` and its proof allow. `Clusters` takes any links, also those that no pass of `Resolution` makes.

### LeaseChain

What a run may count on, wherever the lease is kept. `newest` is the last generation given away, `holder` the run it
was given to, `lapsed` whether it was released or has expired on its holder's own clock, `seized` whether it went to a
taker that judged an old look at the one before. `Give` makes the next generation, when the last one has lapsed or for
such a taker; `Lapse` is all that happens to a generation that was given. So no generation is left out or given twice,
none changes hands, and none that lapsed comes back. `Lease` maps `newest` to `top` and `holder` to the run that
`top`'s object names; `LeaseLedger` maps both to the last commit, and a generation whose object its winner has not put
has lapsed when the expiry it will put has passed. The two protocols agree in nothing else: one decides by a create of
an object and a fresh listing, the other by a parent check.

### Lease

Every storage call and every reading of the clock that decides something is an action; between two of them other runs,
the run's own heartbeat thread, the clock and a crash may act. `stored` and `object` are the generation objects;
`anchored` and `marked` the run anchors and acquisition markers; `pc[r]`, `seen[r]`, `copy[r]`, `fresh[r]`,
`generation[r]`, `expires[r]` and `ownExpires[r]` the locals of the call in progress and the lease's `_state`; `beat[r]`
and `beatExpires[r]` the heartbeat thread inside `renew()`. Time is the store's clock and a run reads it `skew[r]` ahead,
by one of the functions in `Skews`, at most `MaxSkew`. `top`, `looked`, `seized`, `over` and `late` are history variables
that only properties read (no guard uses them).

`acquire` reads the top generation's object (`Read`) and judges its copy by the clock later (`JudgeFree`, `JudgeHeld`);
the second reading of the clock, from which the new expiry counts, is that of `JudgeFree`, since what is free stays
free. In between the holder may renew, and nothing in the create notices: it is conditional on N+1 alone.
`TAKEOVER_GRACE` is there for the skew between machines, and it covers a delay as well, but only the two together: a
look is old (`OldLook`) when the taker's clock at its judgement is more than the grace ahead of the store's clock at
its read. The code has no bound on that delay, so the properties name the case: `seized` are the generations taken on
an old look. With equal clocks it takes a stall of more than two minutes between `lease.py:363` and `:365`. The old
holder then stops at its next `assert_held()`, which asks for N+1; up to there both work, and `Catalog` looks at what
that does to commits (its fault `stall`).

An object that cannot be parsed is one whose `run` is `NoRun`; its expiry is then its modified time plus `LEASE_TTL`,
as `_held_until` counts it. A put of an own generation (`PutOwn`) creates the object when it was pruned, as a file put
does. `Trigger` lets the schedule start the next run in the place of a skipped one.

Runs:

- `lease_safety`: 3 runs, 3 generations, 3 instants, skew up to 1, `LEASE_TTL = TAKEOVER_GRACE = COMMIT_MARGIN = 1`,
  `KEEP_NEWEST = 1`, `PRUNE_AFTER = 0`. Small times make expiry, takeover, old looks, pruning of a generation that its
  holder still renews, and its re-creation all happen within 3 generations: with `KEEP_NEWEST = 1` the second taker
  prunes the first generation, and the third finds a chain with a hole. Three runs are needed for a slow creator, a
  winner and a successor. It checks that a renewed lease is taken on an old look only
  (`LiveLeaseIsTakenOnOldLookOnly`), that winners differ and any two of them hold a live lease only then
  (`OneLiveHolder`), that pruning keeps the top (`ChainKeepsItsTop`), that no winner meets its own anchor or marker
  (`AnchorIsFirst`), that no heartbeat undoes a release (`ReleasedTopStaysReleased`), and that the lease implements
  `LeaseChain` (`LeaseIsAChain`). Without the exception for old looks `OneLiveHolder` and the first of these fail in
  this run.
- `lease_stall` (violation of `TakenOnlyOnceExpired`; 2 runs, equal clocks): ADR-007, line 23, says that a taker creates
  N+1 "only when N is released, or when N's expiry plus `TAKEOVER_GRACE` (2 min) has passed". A run reads the object,
  stalls while the holder renews, finds the expiry it read long over, and creates N+1.
- `lease_live`: 2 runs under `FairSpec`. A dead holder is replaced (`DeadHolderIsReplaced`), unless every run has
  ended; and every holder comes to its end (`EveryHolderEnds`).
- `lease_assert_race` (violation): `assert_held()` looks for the next generation first and reads its own expiry
  second. A process that wakes up after its lease was taken can renew in between, and `assert_held()` then accepts an
  expiry that was put after the takeover, which the module's documentation rules out. `CURRENT` is still safe: see
  `OneHistory`.

Fairness: time passes; a process that is alive takes its next step; the heartbeat puts or fails; a run finishes its
work in the end (strong, since assert_held may come between), and a release that waits for the heartbeat's lock gets
it (strong: the thread sleeps for `HEARTBEAT` without the lock, so the lock is free again and again). No fault
(`CreateTorn`, `StoreFails`, `Crash`) is fair: nothing has to fail.

### LeaseLedger

On HF the bucket's gateway does not make `put_if_absent` atomic. A run wins a generation by a commit to a Hub
repository whose parent is the head it read, and the objects of `Lease` follow as a second fence. The module extends
`Lease` and uses its actions for what both variants share (the read of an existing object, anchor and marker, pruning,
heartbeat, the bucket part of `assert_held`, release); its own variables are `ledger` (the commits of `lease.json`,
each with the server's time), `parent[r]` (the head `r` read), `named[r]` (the head just named `r`) and `floating`
(commits that raised and may land later). `LEASE_TTL` and `TAKEOVER_GRACE` after the commit's time a generation without
a bucket object is free (the 12-minute rule). Here, too, a run first looks for the object (`Exists`, `Absent`) and
reads it (`LRead`), and judges later by its clock; an object that was absent may be put and renewed in between. A
commit's `old` (history) tells whether it was made on an old look. The parent check catches a generation that was taken
meanwhile, not one that was renewed: the heartbeat writes to the bucket alone.

What the Hub and the gateway do is modelled from what the code says of them: a commit with another parent is refused
(`PARENT_CHECK_STATUS`); one that raises otherwise may have landed, may land later or never; a head read within the
instant of a commit may show an older one (the comment at `lease.py:438`); a put may write over an object
(`GatewayPut`), or be repeated by the client and meet its own object (`PutObjectFails`, `StoredTwice`). A 409 is taken
to mean that the commit did not land, as the code does.

Runs:

- `ledger_safety`: 3 runs, 3 generations, 2 instants, `TAKEOVER_GRACE = 1` and `LEASE_TTL = 0`: a lease expires at the
  end of its instant, and one run's clock is ahead (`OneAhead`), so that it takes over by expiry and by the 12-minute
  rule. Enough for a winner that stalls or dies before its bucket put, a late put or landing after the next takeover, and
  a third run that reads an object which the second prunes. One winner per generation, whose object it is
  (`BucketFollowsLedger`), a generation given away only when the last one is over (`TakenOnlyWhenOver`), one live holder
  (`OneLiveHolder`), and no run that skips while the head names it (`SkippedRunIsNotNamed`). With these times a holder
  cannot renew before its lease has once lapsed, so no live lease is taken on an old look here; that is in the other run.
- `ledger_live`: 2 runs, 2 generations, 4 instants, `LEASE_TTL = TAKEOVER_GRACE = 1`, no skew, under `LFairSpec`: a run
  may read an object, stall while its holder renews twice, and judge. Two live holders only then (`OneLiveHolder`,
  which fails here without the exception), the ledger implements `LeaseChain` (`LedgerIsAChain`), and a winner that is
  gone before its bucket put is replaced (`GoneWinnerIsReplaced`). Fairness is that of `Lease`; in addition a run whose
  confirmation fails gives up in the end.

### Catalog

`current`, `version[s]` and `manifest[s]` are the objects; a catalog's content is the set of changes it carries (run
and sequence), which is what lost updates and overwritten versions are told by; a pointer names its version, the
content (the checksum of the code), the lease generation and the parent. The lease is taken at its word: `topGen` is
the newest generation and `assert_held()` passes (`Held`) only for its holder, which is what `Lease` establishes but
for the race above; a lease that is lost while nothing newer exists is `LeaseLost`. A run whose live lease was taken on
an old look has lost it, too, without a stall of its own: under `stall` that may happen at any step, and the other
faults assume that it does not happen in the steps they exclude. What a run publishes next (`in_run`, the cleanup's
pruning, `run_end`) is `phase`. Ages are left open: whatever the clocks say, a pruning plan is one of the subsets
allowed by `Outdated`, given that a run takes less than `version_days` (1 or more).

A conditional put (`put_if_absent` of a version and of its manifest, the write of `CURRENT`) checks and puts in one
step on a local lake. The HF gateway (`gateway`, chosen once per behaviour) honours conditions of sequential puts only
(ADR-007, T6 amendment; `publish.py:209`): there it finds the condition true (`Send`) and puts later, whatever was put
in between, or it answers that the condition fails by now. So two overlapping uploads of a sequence both succeed, and
so do two writes of `CURRENT`, the second over the first. The read-back (`ReadBack`) finds a `CURRENT` that was written
over before it looks.

What may go wrong is chosen once per behaviour, by `fault`:

- `stall`: a run may lose its lease at any step, and a publish may land and raise;
- `late`: a lease may be lost at any step but those after an `assert_held()` that nothing repeats (the compare-and-swap,
  the deletes). These are the steps the 60 seconds of `COMMIT_MARGIN` are for;
- `unclear`: a lease may be lost only while a run opens and works, but a publish may land and raise.

Crashes and store errors are in all three. On HF two residuals are accepted by the owner (ADR-007, line 94, and the T6
design, D2 and D3): a holder that stalls between its last `assert_held()` and the write of `CURRENT` may silently write
over what the next holder published, and uploads of one sequence by a stalled writer and the new holder may overlap and
both succeed. Both properties say so by what they exclude. Behind the gateway and under `stall`, `OneHistory` only
promises that a value is made from one that was published (not `Fenced`); everywhere else, that it is made from the last
one. `CurrentIsComplete` is said of the gateway under `unclear` only, where no run loses its lease while it uploads
(`Sound`); `late` is where the overlapping upload writes over the version that the new holder has verified.

`CurrentIsComplete` excludes `stall` on a local lake, too, since a stall of more than the margin between the check and
a delete can break it (see below); the combination of an unclear publish with a late manifest of another run can too,
which is why `late` and `unclear` are separate.

Runs (2 runs, 3 sequences: enough for a commit, its successor, a pruned slot and a late put into it; of a local lake, 4
sequences and 3 runs were checked once per fault with the same result):

- `catalog_safety`: `OneHistory` (refinement of `CatalogHistory`, under every fault, local and HF) and
  `CurrentIsComplete`. With `Fenced` or `Sound` weakened to the condition of a local lake, both fail in this run: the
  lost update of D3 and the overwritten version of D2 are among its behaviours.
- `catalog_stale_prune` (violation of `PrunedVersionIsNotCurrent`): deletes planned from an earlier look.

Two more observations, from reading and from earlier versions of these runs: a stalled run's version put finds an empty
slot when the published version of that sequence has been pruned meanwhile, and fills it (`docs/adrs/ADR-007`, line 35:
"A published version is never overwritten."); and `_fence_existing` raises an error that, with the lease held, the
match guard records as the failure of one match, while line 44 says "the run stops". Neither breaks `OneHistory` or
`CurrentIsComplete`: `CURRENT` names its content by checksum, and the retry takes another sequence.

Deadlock is not checked: a run ends, and the sequences and generations are bounded.

### MatchFiles

A match's files lie in one of two roots, and everything that deletes one depends on tables written by somebody else at
another time: the heads of the versions in storage, DuckLake's tracked files, and the move records. The module follows
the files of one match; matches share none, so one stands for each, and one bronze table stands for all of them.

| state | code |
|---|---|
| `objects` | the match's objects in both roots; a key is a root and a write id, and `fresh` the next write id (a uuid) |
| `version`, `current`, `was` | the versions with the kind their manifest tells, `CURRENT`, and what `CURRENT` named so far (history) |
| a catalog: `head`, `ended`, `scheduled` | the files its last snapshot registers, that only older snapshots do, and DuckLake's scheduled-deletion list |
| a catalog: `moves`, `flag`, `dropped` | `ops_move_records`, `ops_matches.visibility`, the sequences of `ops_restores` |
| `pc`, `cat`, `started`, `todo`, `pruning`, `kept` | the process that holds the lease: where it is, its working copy, its generation's time, the deletes it has left, its kept file set |
| `late` | keys that a process may still delete after its lease was taken |

A run is `StartRun` (open `CURRENT`, `assert_no_moved_key_registered`, the leftovers of `delete_moved_leftovers`), any
number of `Write`, `StagePrivate`, `StagePublic` and `Checkpoint`, and the end: `Cleanup` (snapshots expire, the
version pruning is planned, `kept_file_set`), the deletes of versions and of scheduled files, `Sweep`, `Swept`
(`prune_move_records`), `RunEnd` and its pruning. A staged move is published (`PublishMove`) and only then are the old
keys deleted (`finish_match_move`). `Restore` is `_restore_held` up to its last check and `RestoreCommit` its commit;
the dropped versions go afterwards. `Lose` ends a process anywhere.

Which snapshots expire and which versions are old is left open, so every plan the ages allow is looked at. `Faults`
names what may go wrong besides crashes: `late` (the deletes of a run start and of a finished move repeat no
`assert_held`, those of a cleanup are guarded by an earlier one, so they may land when another process works), `torn`
(a commit that stored its version and did not replace `CURRENT`), `failed` (a copy, a swap or a publish raises and the
match guard goes on). A run visits a match once for each of its two channels; so after a failed publish of a move to
private it does not come to make the match public and private again within one run, which is the last guard of
`StagePrivate`.

Runs:

- `files_faults` (3 write ids, 3 versions; each behaviour has all faults, or all but `late`: the variable `faults`),
  under `FairSpec`: enough for a move, a write in the other root, a pruning and a restore over it. No moved key comes
  back (`MovedKeyNeverReturns`), no public copy of a private match is without its record (`PublicCopyHasRecord`), and one
  is deleted in the end (`PublicCopyGoes`), whatever the faults. Every restore point leads to files in storage and of a
  private match to none in the public root (`RestorePointsWork`) in the behaviours without late deletes; with them that
  fails, though not within these bounds (see the proofs), so the property does not speak of them. Outside the listed
  runs the invariants were checked with crashes alone at 4 write ids and 4 versions, with all faults at 4 write ids and
  3 versions (3.2 million states) and at 3 and 4 (1.8 million), and with `failed` at 5 and 3 (11.6 million).
- `files_second_move` (violation of `MoveFindsItsFiles`): public, private, public and to be private again, while a
  version of the first public time is kept. `stage_match_move` copies every lake key that a version names, also the
  one that its first move deleted.

Fairness: runs start again and again (`SF` on `StartRun`, which restores may disable), every process ends (`WF` on
`Lose`; no step of its work is fair), and not every run crashes before its first delete (`SF` on the deletes of a run
start). Nothing else is fair: `PublicCopyGoes` rests on the settling at a run's start alone, not on cleanup. Deadlock
is not checked, as write ids and sequences are bounded.

Two observations. `NewestRecordIsFlag` does not hold (checked at 4 write ids and 3 versions, without faults): a private
match that a delivery makes public is written anew in the lake root; nothing is left to move, so no `to_public` record
is made, and every later restore stops at `_check_flags`. And when the publish of a move fails in a match, the move
stays staged in the working copy, and the next checkpoint publishes it without `finish_match_move`. The public copies
then stay until the next run starts, although `moves.py:328` counts on the deletes that follow a publish;
`PublicCopyHasRecord` and `PublicCopyGoes` hold all the same.

### Resolution

Operators store decisions and requests as objects of the config side that nobody changes; a run reads them, makes the
links of an entity type anew, and publishes the links with the requests it applied. The lease lets one run or restore
work at a time.

| state | code |
|---|---|
| `decisions`, `requests` | the objects of `DecisionStore`, by their time |
| `versions` | the kept catalog versions, oldest first; of each the link table (`links`), `ops_holds` (`held`), `ops_applied_requests` (`applied`) |
| `run` | the run that holds the lease: the version it began from, the decisions it listed, then the catalog it will publish |

`Decide`, `AcceptRecommended` and `UndoBatch` are the operators; they may come between any two steps of a run: `Begin`
(opens `CURRENT`), `LoadDecisions` and `Resolve` (the two listings of `DecisionStore.load`, decisions first, requests
after them), `Commit` (the run-end version and the retention) or, anywhere, `Abandon`. `Restore` goes back to a kept
version and leaves the config side alone. `Resolved` is the pass: hand links, earlier batches that stay, automatic
links, what the pending accept requests take, and what the setting takes, each with its guards (`Latest`, `Shadowed`,
`Open`, `Held`). A candidate's score is one of `none`, `close`, `clear` (recommended) and `auto`, chosen anew in every
pass, as new records, bands and names change it; the matchers pair a record with at most one of another provider, and
records may leave bronze and come back (`known`).

Runs:

- `resolution` (two providers with three records, 1 decision, 2 requests, 2 batches of the setting, 2 kept versions):
  a pair and a competing pair, an accept and an undo, a decision against them, a crash and a restore at every place.
  No version accepts a pair it holds (`HeldIsNeverAccepted`), only people link a record to two of one provider
  (`OnlyPeopleDoubleLink`), a request is applied once (`RequestIsAppliedOnce`) and in the end (`RequestIsApplied`), and a
  rejection takes effect in the end (`RejectionTakesEffect`). Outside the listed runs: the invariants with 4 batches
  (330,588 states), and with 2 decisions (117,517, one kept version); all properties with 3 batches (281,550), and on one
  pair with 2 decisions, 2 requests and 3 batches (55,893).

Fairness: `[]<><<Commit>>_vars`. Runs are triggered again and again, and again and again one of them comes to its end.
It says of the four steps of a run together what strong fairness of each would, as crashes and restores may come
between any two of them. No operator has to do anything, and deadlock is checked (a run may always begin).

Four observations; TLC refutes the first two at once on one pair, 2 requests and 2 kept versions:

- `UndoneBatchIsGone`. The undo selector offers every accept request. If one is undone before a run has applied it, the
  run applies the undo first, to no link, and accepts the batch after it; both count as applied, and the links stay,
  although the page says (`ui/pages/review.py:88`) that an undo "reverses that batch's accepted links on the next run".
  A restore to a version before both requests has the same effect. A second undo heals it.
- `HeldWaitsForPerson`. The holds keep the requests and the setting from a pair, and not the automatic band, so a held
  pair links by itself when its score or the bands change; the design (line 580) says that it "stays in the queue until a
  person confirms or rejects it".
- A rejection parts its pair only: the two records can still be in one cluster through a third one, since `Clusters`
  knows links and no rejections.
- `decisions.py` says that a run reads the decisions "once at its start", while `finish()` reads them near its end. The
  listings are one after the other, so a run may apply a request that is younger than a rejection it did not read. The
  next run then takes the link away (`RejectionTakesEffect`).

### Clusters

`links` are the links of the last pass with their confidence, and `pointer` is `ops_canonical_pointers`. One action,
`Pass`, takes any records and any links between them: what a pass is given is the result of everything in `Resolution`
and the matchers, so nothing is assumed of it. `ClustersOf` is `resolve_clusters` (union-find as the least set that is
closed under links), `Split` is `_split`, and `MoveReason` is `_move_reason`. `_split` places its records one by one,
and what a record finds taken are the anchors of the earlier records of its own provider alone: `Placed` says so as a
recursive function over the records, without the order in which records of different providers come.

Runs:

- `clusters` (five records of three providers, one confidence, so that ties are frequent): every graph, and every two in
  a row. Each component without a conflict is one cluster, a split holds one record of a provider in each
  (`ClustersFollowLinks`), and passes over a stronger anchor only when it is taken by another record of the provider
  (`PassedOverWhenTaken`); a pass moves no pointer of a component that did not change (`UntouchedStays`), and the log
  tells the truth about a move (`MovesTellTrue`). With two confidences the same was checked on four records, of three
  providers and of two.

One observation: `JoinsWhatItLinks` does not hold (on two records of each of two providers). `nway.py` says that a record
of a split joins an anchor "it links to"; one whose anchor is taken joins another, to which it has no link and so
confidence 0.

No liveness: a pass is one step. Deadlock is checked.

## Proofs

`Lease_proofs` proves, for every value of the constants that satisfies the named assumption `LeaseConstants`, the type
invariant and each safety property of `lease_safety`; nothing is assumed of the clocks' skew or of a stall. The chain
properties rest on one inductive invariant: a generation above 1 exists only above one that was over (released, or
expired on its holder's own clock) and remains so, or was taken on an old look; the objects a listing showed are below
`top`; a creator's generation names it; and an expiry in a heartbeat's hands is never beyond its clock plus
`LEASE_TTL`. `LiveLeaseIsTakenOnOldLookOnly` alone is not inductive: it needs that a copy which shows, at the instant
it was made, a lease that has run out, is of a generation in `over` (`DecidedOnFree`); any other copy is judged free
only when the look has become old.

That `Lease` implements `LeaseChain` (`LeaseImplementsChain`) needs all of this, and one thing more: the object of the
newest generation names the run that owns it (`TopNamesItsOwner`). A step either keeps `top`, and then only its owner
puts its object, or it is a create above it, and then `top` lapsed or the look was old. A create of a pruned
generation is a stutter.

`LeaseLedger_proofs` proves the type invariant and `BucketFollowsLedger`, from `LeaseConstants` alone: the winner does
not depend on clocks. A run that may put an object was given its generation by the ledger; one that asks, asks for a
generation above the head it read; and a commit that may still land would add a generation above the last. The parent
check then makes each commit a larger generation, whatever heads were stale.

`LeaseLedgerTakeover_proofs` proves the other safety properties of the ledger runs, all from `LeaseConstants` alone.
`SkippedRunIsNotNamed` follows from the invariant `SkipInv`: a run before its commit, or one that skipped, has no
commit that is the last one or may still land; a run whose commit raised asked for a generation above the head it read,
its commit can land only while that head is the last one, and if the last commit is its own, it is that one. So a head
that names another run with this generation or a later one proves that the own commit is lost. The invariant of
`TakenOnlyWhenOver`, `TakeInv`, says that a run that is about to commit on top of the last commit, and a commit that
may still land there, were made when the last generation had lapsed or on an old look, and that what has lapsed remains
so: the object that a late winner puts has the expiry of its commit (`TakeSane`), which is at most a TTL after the
commit on the winner's clock (`Times`), and the pruning never takes the last object away. `OneLiveHolder` needs an
invariant of its own (`HoldInv`). A winner whose generation was followed by another one has a lease that is over, or it
will put an object that has expired, or the next one was seized; this holds from the moment the ledger grows past it.
The hard case is a run that skipped and comes back: a stale head must not name it by its earlier commit, with the
expiry it has now. It cannot, since a head is stale within one instant only, and of two commits of one instant the
winner of the first has put its object, or was overtaken on an old look (`InTime`), so that it did not skip. That
`LeaseLedger` implements `LeaseChain` (`LedgerImplementsChain`) is `TakeInv` with two additions (`NextInv`): a run that
asks from the last head asks for the successor of the last generation, and so does each commit that may still land.
Between two commits, a step is a stutter or `Lapse`, since only the winner's own put touches the last generation
(`Patient`) and what it puts late has expired (`LapsedStays`).

`Catalog_proofs` proves the type invariant and that `Catalog` implements `CatalogHistory` (`OneHistory`) under every
fault, on a local lake and on HF. Its invariant says that a run's working copy contains its base, that its slot is above
its base, that a base is a published value whose generation is not newer than the run's, and that `CURRENT` is the last
value of the history. On a local lake the compare-and-swap then appends a pointer that follows the last one, whatever
the lease does. On HF the condition was true when the put was sent (`Sent`), and unless the fault is `stall`, a run past
its last `assert_held()` is alone (`Alone`): nobody else can have replaced `CURRENT` in between. Under `stall` there,
the pointer follows the base, which was published.

It also proves `CurrentIsComplete`, from `CatalogConstants` alone, which says that an absent object is told from a
version and from a manifest. `CurrentIsComplete` is far from inductive: that no delete takes the version of `CURRENT`
depends on what the pruning run knows of `CURRENT`, and that on who else may publish. The invariant `CompleteInv` says,
while `Sound` holds, that only the run with the newest generation is at a step where it may not lose its lease
(`Prompt`), and that this run knows enough (`Knowing`): what it uploaded is there (`Uploaded`); its base is `CURRENT`,
or it went astray: a publish landed in a call that raised, so `CURRENT` is its own version, which no run-end version
supersedes before its own run end (`Astray`, which needs that all stored sequences are below its next slot, `Above`);
and what it deletes is not the sequence of `CURRENT` (`Deletes`). A run that was outrun can only fill empty slots
(`FillsOnly`), which takes nothing of this away. That no version superseded by one of the same run is `CURRENT` rests
on the sequences of the history going up (`LastIsNewest`).

`MatchFiles_proofs` proves, for any number of write ids and versions and under every fault, the type invariant,
`MovedKeyNeverReturns`, that the version that `CURRENT` names is never deleted, and that a private match registers no
public file in it. The invariant `MatchFilesInv` says of each catalog, stored or at work, that it is sound: it
registers no key its records moved away, a private one registers no lake key, and its lake keys and moved keys are
older than `fresh`. The last part is what makes the others inductive: a copy or a new file can only clash with a record
if its write id was used before. A planned pruning never holds the sequence of `CURRENT`. It rests on
`MatchFilesConstants` alone.

From the same assumption, and so with late deletes, torn commits and failing moves, it proves `PublicCopyHasRecord`. The
invariant `CopiesInv` says what a catalog has to have records of (`Secret`): every lake object that a private version
tracks, or that a restore point names which a restore of a private version would keep; and, once the match is private and
has records, every lake object that any published version tracks, since a restore then keeps the records of `CURRENT` but
takes the lists of the old version. The working copy has to cover the same for the restore points that it leaves, and
its own files (`Own`), because a publish makes it `CURRENT`. A move covers all of it, since `match_lake_objects` takes
every lake object of the match. The pruning of records is the hard step: it drops the record of a key that no version
names and DuckLake no longer tracks, though an older version may still track it. Such a key is no object any more: a
run's working copy tracks the newer lake objects of every version (`Older`), and the sweep deleted the older ones, for
no moved key is in the `kept_file_set`.

`MatchFilesRestore_proofs` proves `RestorePointsWork` for any number of write ids and versions, with torn commits and
failing moves; the property speaks of the behaviours without late deletes. Its invariant `RestoreInv` has three parts.
Of `CURRENT` (`NowInv`): each key that a version names has at most one record, made after that version, by which it is
in storage; and a version that may come back as private was published after the older ones were moved (`PrivateOnce`),
which is what a restore to the time before all moves needs. Of the working copy (`HeirInv`): it could become `CURRENT`,
since it carries each record of a key that a version names. And of the process in between (`PhaseInv`): a move that is
staged and not published shows as a registered key that is recorded as moved, which stops a cleanup, so that a cleanup
and a sweep delete by the same records as a restore reads; what they delete is in no kept set and found by no restore
point. With late deletes it does not hold: a move fails in a run whose `CURRENT` no longer tracks the file of a version
that a restore dropped and nobody pruned yet, a sweep of the run deletes that file after its lease was taken, and the
dropped version is restored (21 steps, with 5 write ids and 4 versions; TLC does not get there in the time of a listed
run). It takes a process that stalls in its deletes beyond its lease, and a restore to a version that an earlier
restore dropped.

`Resolution_proofs` proves, for any records, decisions, requests, batches and retention, the type invariant,
`HeldIsNeverAccepted`, `OnlyPeopleDoubleLink` and `RequestIsAppliedOnce`, from `ResolutionConstants` alone. Its invariant
`ResolutionInv` says that each version, and what a run is about to publish, is sound, and that each version follows the
one before it, as the run's work follows `CURRENT`. Sound is more than the properties say: a pair has one link
(`LinksOnce`), no accepted link is held (`HeldApart`), and no link but a hand link competes with another (`OneEach`).
`HeldApart` is not inductive alone: that an undo takes the accepted link of a pair away says nothing of a second link of
the pair, so it needs `LinksOnce`; and that two batches that stay do not compete is known only from `OneEach` of the
version before. The candidates' part rests on the matchers' promise in `Scores`. A crash changes nothing, and a restore
keeps a prefix of the versions.

`Clusters_proofs` proves the four properties of `clusters`, for any finite set of records (told apart by provider and id)
and any links, from `ClustersConstants` alone. Three facts carry them. Components part the records: what a closed set
leaves is closed too (`SameComponent`). The recursion of `Placed` has exactly one solution (`PlacedIsPlacement`): of any
records some come first, since the ranks of a provider's records are a total order (`FirstInTurn`), so two solutions
cannot differ anywhere, and the largest set of records that can be placed is all of them (`PlacementExists`). And two
records of a provider never share an anchor (`SplitKeepsProvidersApart`), which is the assertion at the end of
`resolve_clusters`, here for every input. The invariant `ClustersInv` says that the pointers are those of the links, so
that a pointer is shared in a cluster and nowhere else (`PointerIsOfCluster`). `UntouchedStays` then needs that a
component's links decide its split (`SamePlaces`), and `MovesTellTrue` that a cluster which keeps its old canonical
record can only have got one of a higher-ranked provider.

Only model-checked: the liveness properties (TLAPS has no ENABLED and no fairness) and the counterexamples. No
recursive operator is used.

## Not modelled

What a next step would take up, in this order:

- passes of `Resolution` and `Clusters` in one module, with the rejections that a cluster does not see;
- the raw files of a move beside the bronze files, and the column flip that a move is on an encrypted local lake;
- `confirm()`, skip records and anchors of the lease; the run anchors of the sweep, which only widen its size guard.

What is left out because a model would have little to say:

- config store: a save is a version check and two puts under one lock; a second writer, which the lock does not cover
  on HF, is ruled out by the deployment and not by the code;
- readers: an attachment of an immutable version, protected from the pruning by a grace in minutes against the
  session's own length, which no call checks;
- `relocate.py`, the preview of a cleanup, merging and compaction; a restore to a version that was stored and never
  published (operators restore published ones); the deletes that Windows postpones, in `MatchFiles`;
- the matchers' scores, the measured bands, lineage, precedence, ids: pure functions of tables, and numeric heuristics;
- the import of decisions that were made elsewhere, with earlier times than those already read; the four entity types
  of a pass beside each other (matches take the clusters of the teams); the queue as it is shown;
- sources, parsers and bronze conversions, rendering, logging, telemetry, schedule files: data and wiring without
  shared state; web sessions: maps of one process, asked again for every request and socket message;
- S3 and Hub request details below what the callers rely on;
- the first generation of the product (`src/src`, dbt, notebooks, terraform, the Taipy app): batch jobs whose state
  lies in Delta tables and external services.
