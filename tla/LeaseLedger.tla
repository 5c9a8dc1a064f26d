---------------------------- MODULE LeaseLedger ----------------------------
(***************************************************************************)
(* The single-writer lease on the HF ledger (src/v2/src/lakehouse/storage: *)
(* Lease._acquire_on_ledger of lease.py, and ledger.py).                   *)
(*                                                                         *)
(* The gateway of the bucket does not make put_if_absent atomic, so a run  *)
(* wins generation N+1 by a commit to a Hub repository whose parent is the *)
(* head that the run read.  The generation object of module Lease follows, *)
(* as a second fence, and so do the anchor, the marker, the heartbeat, the *)
(* pruning and the release; assert_held() asks the ledger before the rest. *)
(*                                                                         *)
(* A commit may raise and still land, at once or later; a head read right  *)
(* after a commit may still show an older head; a conditional put may land *)
(* and be answered with "exists", since the client repeats it.             *)
(***************************************************************************)
EXTENDS Lease, Sequences

VARIABLES
    ledger,       \* the commits of lease.json, oldest first
    parent,       \* parent[r]: the commits in the head that r read
    named,        \* named[r]: the head r has just read names r's generation
    floating      \* commits that raised, and may land later

ledgerVars == <<ledger, parent, named, floating>>
allVars == <<vars, ledgerVars>>

\* A commit: its entry, acquired_at counted on to the expiry it gives, whether
\* it was made on an old look (history), and the server's time.
Commit == [run : Run, generation : Gen, expires : 0..LastReading,
           old : BOOLEAN, at : 0..MaxTime]

Generation(n) == IF n = 0 THEN 0 ELSE ledger[n].generation
CommittedAt(n) == IF n = 0 THEN 0 ELSE ledger[n].at

\* HubLedger.head: the last commit, or an older one as long as what followed
\* it is of this instant.
Heads == {n \in 0..Len(ledger) : n < Len(ledger) => ledger[n + 1].at = time}

\* Mutant: a head of the same generation is the own one, whoever committed it.
Names_AnyRun(n, r) == n > 0 /\ ledger[n].generation = generation[r]

Names(n, r) == n > 0 /\ ledger[n].run = r /\ ledger[n].generation = generation[r]

LInit ==
    /\ Init
    /\ ledger = <<>> /\ floating = {}
    /\ parent = [r \in Run |-> 0]
    /\ named = [r \in Run |-> FALSE]

Forgotten(r) ==
    /\ parent' = [parent EXCEPT ![r] = 0]
    /\ named' = [named EXCEPT ![r] = FALSE]

\* The process ends without a call on the store.
LExit(r, from, how) ==
    /\ Exit(r, from, how)
    /\ Forgotten(r)
    /\ UNCHANGED <<time, skew, store, ledger, floating>>
    /\ Observe

----------------------------------------------------------------------------
(* Steps 1 to 3: the head, the listing, the current generation.            *)

ReadHead(r) ==
    /\ Move(r, "idle", "list")
    /\ \E n \in Heads : parent' = [parent EXCEPT ![r] = n]
    /\ UNCHANGED <<time, skew, store, local, thread, ledger, named, floating>>
    /\ Observe

\* The current generation is the higher of the ledger's and the bucket's.
LListed(r) == Max({Generation(parent[r])} \cup stored)

\* Mutant: the grace, which is for the takers' clocks, is given to the holder.
LListEmpty_Grace(r) ==
    /\ LListed(r) = 0
    /\ Move(r, "list", "create")
    /\ expires' = [expires EXCEPT ![r] = Clock(r) + LEASE_TTL + TAKEOVER_GRACE]
    /\ UNCHANGED <<time, skew, store, seen, look, fresh, generation, ownExpires,
                   thread, ledgerVars>>
    /\ Observe

LListEmpty(r) ==
    /\ LListed(r) = 0
    /\ Move(r, "list", "create")
    /\ expires' = [expires EXCEPT ![r] = Clock(r) + LEASE_TTL]
    /\ UNCHANGED <<time, skew, store, seen, look, fresh, generation, ownExpires,
                   thread, ledgerVars>>
    /\ Observe

LList(r) ==
    /\ LListed(r) > 0
    /\ Move(r, "list", "exists")
    /\ seen' = [seen EXCEPT ![r] = LListed(r)]
    /\ UNCHANGED <<time, skew, store, look, fresh, generation, expires, ownExpires,
                   thread, ledgerVars>>
    /\ Observe

Exists(r) ==
    /\ seen[r] \in stored
    /\ Move(r, "exists", "read")
    /\ UNCHANGED <<time, skew, store, local, thread, ledgerVars>>
    /\ Observe

\* There is none: the object may be put at any time from here on.
Absent(r) ==
    /\ seen[r] \notin stored
    /\ Move(r, "exists", "absent")
    /\ looked' = [looked EXCEPT ![r] = time]
    /\ UNCHANGED <<time, skew, store, seen, copy, fresh, generation, expires,
                   ownExpires, thread, ledgerVars>>
    /\ Observe

\* Mutant: a generation without a bucket object is free at once.
AbsentFree_Now(r) == TRUE

\* Mutant: a generation without a bucket object waits for its winner.
AbsentFree_Never(r) == FALSE

\* A ledger generation without a bucket object: its winner crashed, or stalls
\* before its put.
AbsentFree(r) == Clock(r) > CommittedAt(parent[r]) + LEASE_TTL + TAKEOVER_GRACE

JudgeAbsentFree(r) ==
    /\ AbsentFree(r)
    /\ Move(r, "absent", "create")
    /\ expires' = [expires EXCEPT ![r] = Clock(r) + LEASE_TTL]
    /\ UNCHANGED <<time, skew, store, seen, look, fresh, generation, ownExpires,
                   thread, ledgerVars>>
    /\ Observe

JudgeAbsentHeld(r) == ~AbsentFree(r) /\ LExit(r, "absent", "skipped")

\* The existing object is read and judged as on a local store.
LRead(r) == Read(r) /\ UNCHANGED ledgerVars

LReadGone(r) ==
    /\ ReadGone(r)
    /\ Forgotten(r)
    /\ UNCHANGED <<ledger, floating>>

LJudgeFree(r) == JudgeFree(r) /\ UNCHANGED ledgerVars

LJudgeHeld(r) == ~Free(r) /\ LExit(r, "judge", "skipped")

----------------------------------------------------------------------------
(* Steps 4 and 5: the commit, and its outcome.                             *)

Entry(r) == [run |-> r, generation |-> seen[r] + 1, expires |-> expires[r],
             old |-> OldLook(r)]

Append1(entry) ==
    /\ ledger' = Append(ledger, [run |-> entry.run, generation |-> entry.generation,
                                  expires |-> entry.expires, old |-> entry.old,
                                  at |-> time])
    /\ floating' = {}
    /\ seized' = IF entry.old THEN seized \cup {entry.generation} ELSE seized
    /\ UNCHANGED <<stored, object, anchored, marked, top>>

\* The run goes on with the generation it asked for.
Ask(r, to) ==
    /\ seen[r] + 1 \in Gen
    /\ Move(r, "create", to)
    /\ generation' = [generation EXCEPT ![r] = seen[r] + 1]
    /\ seen' = [seen EXCEPT ![r] = 0]
    /\ looked' = [looked EXCEPT ![r] = 0]
    /\ UNCHANGED <<time, skew, copy, fresh, expires, ownExpires, thread, named>>
    /\ Observe

\* Mutant: the commit names no parent.
Parented_Not(r) == TRUE

\* The Hub refuses a commit whose parent is not the head.
Parented(r) == parent[r] = Len(ledger)

Claim(r) ==
    /\ Parented(r)
    /\ Append1(Entry(r))
    /\ Ask(r, "bucket")
    /\ parent' = [parent EXCEPT ![r] = 0]

\* A lost race; the head read after it only names the winner.
ClaimConflict(r) == ~Parented(r) /\ LExit(r, "create", "skipped")

\* Another error: the commit may land at once, later, or never.
ClaimUnclear(r) ==
    /\ UNCHANGED <<store, ledger, parent>>
    /\ Ask(r, "unclear")
    /\ floating' = IF Parented(r) THEN floating \cup {Entry(r)} ELSE floating

Land(entry) ==
    /\ Append1(entry)
    /\ UNCHANGED <<time, skew, pc, local, thread, parent, named>>
    /\ Observe

\* The head decides: it names this run, it names another one that has taken
\* this generation or a later one, or the outcome is not clear.
UnclearWon(r) ==
    /\ \E n \in Heads : Names(n, r)
    /\ Move(r, "unclear", "bucket")
    /\ parent' = [parent EXCEPT ![r] = 0]
    /\ UNCHANGED <<time, skew, store, local, thread, ledger, named, floating>>
    /\ Observe

\* Mutant: a head that moved is another run's, whoever it names.
Overtaken_Moved(r, n) == n # parent[r]

Overtaken(r, n) ==
    /\ n # parent[r] /\ Generation(n) >= generation[r]
    /\ ~Names(n, r)

UnclearLost(r) ==
    /\ \E n \in Heads : Overtaken(r, n)
    /\ LExit(r, "unclear", "skipped")

UnclearFails(r) ==
    /\ \E n \in Heads : ~Names(n, r) /\ ~Overtaken(r, n)
    /\ LExit(r, "unclear", "failed")

----------------------------------------------------------------------------
(* Steps 6 and 7: the generation object, the anchor, the marker.           *)

\* The gateway does not make the create atomic: it may write over an object
\* that is there.
GatewayPut(r) ==
    /\ stored' = stored \cup {generation[r]}
    /\ object' = [object EXCEPT ![generation[r]] =
            [run |-> r, expires |-> expires[r], released |-> FALSE]]
    /\ top' = IF generation[r] > top THEN generation[r] ELSE top
    /\ UNCHANGED <<anchored, marked, seized>>

PutObject(r) ==
    /\ GatewayPut(r)
    /\ Move(r, "bucket", "anchor")
    /\ UNCHANGED <<time, skew, local, thread, ledgerVars>>
    /\ Observe

\* The put raises, or it is repeated and meets the object it created itself.
PutObjectFails(r) ==
    /\ GatewayPut(r) \/ UNCHANGED store
    /\ Exit(r, "bucket", "failed")
    /\ Forgotten(r)
    /\ UNCHANGED <<time, skew, ledger, floating>>
    /\ Observe

\* _confirm_entry, and the first check of assert_held.
Confirm(r) ==
    /\ pc[r] \in {"anchor", "stat", "held"} /\ ~named[r]
    /\ \E n \in Heads : Names(n, r)
    /\ named' = [named EXCEPT ![r] = TRUE]
    /\ UNCHANGED <<time, skew, store, pc, local, thread, ledger, parent, floating>>
    /\ Observe

\* The head names another generation, an old one, or cannot be read.
ConfirmFails(r) ==
    /\ ~named[r]
    /\ LExit(r, "anchor", "failed") \/ LExit(r, "stat", "failed")

LStoreAnchor(r) == named[r] /\ StoreAnchor(r) /\ UNCHANGED ledgerVars

Unname(r) ==
    /\ named' = [named EXCEPT ![r] = FALSE]
    /\ UNCHANGED <<ledger, parent, floating>>

LStoreMarker(r) == StoreMarker(r) /\ Unname(r)

LStoreFails(r) == named[r] /\ StoreFails(r) /\ Unname(r)

\* The put of the anchor or the marker is repeated and meets its own object.
StoredTwice(r) ==
    /\ named[r]
    /\ \/ Exit(r, "anchor", "failed") /\ anchored' = anchored \cup {generation[r]}
            /\ UNCHANGED marked
       \/ Exit(r, "marker", "failed") /\ marked' = marked \cup {generation[r]}
            /\ UNCHANGED anchored
    /\ Forgotten(r)
    /\ UNCHANGED <<time, skew, stored, object, top, seized, ledger, floating>>
    /\ Observe

\* The own object's modified time, and the listing that is pruned.
StatAndList(r) ==
    /\ named[r] /\ generation[r] \in stored
    /\ Move(r, "stat", "prune")
    /\ fresh' = [fresh EXCEPT ![r] = stored]
    /\ UNCHANGED <<time, skew, store, seen, look, generation, expires, ownExpires,
                   thread>>
    /\ Unname(r)
    /\ Observe

LPrune(r) ==
    /\ PruneKeep(r) \/ PruneMarker(r) \/ PruneObject(r) \/ Hold(r)
    /\ UNCHANGED ledgerVars

LObjectGone(r) ==
    /\ pc[r] = "stat" => named[r]
    /\ ObjectGone(r)
    /\ Unname(r)

----------------------------------------------------------------------------
(* The held lease.                                                         *)

LHeartbeat(r) == (RenewRead(r) \/ RenewPut(r) \/ RenewFails(r)) /\ UNCHANGED ledgerVars

\* The rest of assert_held, once the head named this run.
LAssertHeld(r) ==
    /\ pc[r] = "held" => named[r]
    /\ AssertNext(r) \/ AssertOwn(r) \/ AssertClock(r) \/ AssertLost(r)
    /\ Unname(r)

\* An unreadable ledger, or another head, fails closed; or the run ends.
LFinish(r) == ~named[r] /\ Finish(r) /\ UNCHANGED ledgerVars

LRelease(r) == (ReleaseStop(r) \/ ReleasePut(r)) /\ UNCHANGED ledgerVars

----------------------------------------------------------------------------
\* The ledger cannot be read, or it refuses the commit for its rate limit.
LedgerDown(r) ==
    \/ LExit(r, "idle", "failed") \/ LExit(r, "create", "failed")
    \/ LExit(r, "unclear", "failed")

LCrash(r) ==
    /\ Crash(r)
    /\ Forgotten(r)
    /\ UNCHANGED <<ledger, floating>>

LTrigger(r) == Trigger(r) /\ UNCHANGED ledgerVars

LTick == Tick /\ UNCHANGED ledgerVars

LAcquire(r) ==
    \/ ReadHead(r) \/ LListEmpty(r) \/ LList(r) \/ Exists(r)
    \/ Absent(r) \/ JudgeAbsentFree(r) \/ JudgeAbsentHeld(r)
    \/ LRead(r) \/ LReadGone(r) \/ LJudgeFree(r) \/ LJudgeHeld(r)
    \/ Claim(r) \/ ClaimConflict(r)
    \/ UnclearWon(r) \/ UnclearLost(r) \/ UnclearFails(r)
    \/ PutObject(r) \/ Confirm(r)
    \/ LStoreAnchor(r) \/ LStoreMarker(r)
    \/ StatAndList(r) \/ LPrune(r) \/ LObjectGone(r)

LFault(r) ==
    \/ ClaimUnclear(r) \/ PutObjectFails(r) \/ ConfirmFails(r)
    \/ LStoreFails(r) \/ StoredTwice(r) \/ LedgerDown(r) \/ LCrash(r)

LNext ==
    \/ LTick
    \/ \E entry \in floating : Land(entry)
    \/ \E r \in Run :
        \/ LAcquire(r) \/ LFault(r) \/ LHeartbeat(r) \/ LAssertHeld(r)
        \/ LFinish(r) \/ LRelease(r) \/ LTrigger(r)

LSpec == LInit /\ [][LNext]_allVars

\* As in module Lease; a run that the head no longer names stops.
LFairness ==
    /\ WF_allVars(LTick)
    /\ \A r \in Run :
        /\ WF_allVars(LAcquire(r) \/ ConfirmFails(r)) /\ WF_allVars(LTrigger(r))
        /\ WF_allVars(LHeartbeat(r))
        /\ WF_allVars(LAssertHeld(r)) /\ SF_allVars(LFinish(r))
        /\ SF_allVars(ReleaseStop(r) /\ UNCHANGED ledgerVars)
        /\ WF_allVars(ReleasePut(r) /\ UNCHANGED ledgerVars)

LFairSpec == LSpec /\ LFairness

----------------------------------------------------------------------------
LTypeOK ==
    /\ time \in 0..MaxTime /\ skew \in [Run -> 0..MaxSkew]
    /\ stored \subseteq Gen /\ object \in [Gen -> Object]
    /\ anchored \subseteq Gen /\ marked \subseteq Gen
    /\ top \in 0..MaxGen /\ seized \subseteq Gen
    /\ over \subseteq Gen /\ late \subseteq Gen
    /\ pc \in [Run -> PC \cup {"list", "exists", "absent", "unclear", "bucket"}]
    /\ copy \in [Run -> Object] /\ looked \in [Run -> 0..MaxTime]
    /\ seen \in [Run -> 0..MaxGen] /\ fresh \in [Run -> SUBSET Gen]
    /\ generation \in [Run -> 0..MaxGen]
    /\ expires \in [Run -> 0..LastReading]
    /\ ownExpires \in [Run -> 0..LastReading]
    /\ beat \in [Run -> {"off", "wait", "put"}]
    /\ beatExpires \in [Run -> 0..LastReading]
    /\ ledger \in Seq(Commit)
    /\ parent \in [Run -> Nat] /\ named \in [Run -> BOOLEAN]
    /\ floating \subseteq [run : Run, generation : Gen,
                     expires : 0..LastReading, old : BOOLEAN]

\* The ledger hands out each generation once, in order, and every generation
\* object in the bucket is the one of the run that the ledger gave it to: no
\* stale head, no unclear commit and no repeated put makes two winners.
BucketFollowsLedger ==
    /\ \A m, n \in DOMAIN ledger : m < n => Generation(m) < Generation(n)
    /\ \A g \in stored : \E n \in DOMAIN ledger :
        Generation(n) = g /\ ledger[n].run = object[g].run

Last == ledger[Len(ledger)]

\* The last generation was released or had expired on its holder's clock, or
\* its winner has not put its object yet, and the expiry it will put has passed
\* on its clock.
Lapsed ==
    \/ Last.generation \in over
    \/ Last.generation \notin stored /\ Clock(Last.run) > Last.expires

\* The ledger gives a new generation away only when the last one has lapsed, or
\* to a taker that judged an old look at it.
TakenOnlyWhenOver ==
    [][(ledger' # ledger /\ ledger # <<>>)
        => Lapsed \/ ledger'[Len(ledger')].old]_allVars

\* The ledger keeps the promise of the chain of generations, too: no commit on
\* a stale head, no unclear commit that lands late and no lagging object in the
\* bucket leaves a generation out or gives a live one away but on an old look,
\* and a generation that lapsed before its object was put does not come back
\* with it.
LedgerPromise == INSTANCE LeaseChain WITH
    newest <- Generation(Len(ledger)),
    holder <- IF ledger = <<>> THEN NoRun ELSE Last.run,
    lapsed <- ledger # <<>> /\ Lapsed,
    seized <- ledger # <<>> /\ Last.old

LedgerIsAChain == LedgerPromise!CSpec

\* A run that gives up with "another run is in progress" is never the one that
\* the ledger names, so no generation is left held by a run that skipped.
SkippedRunIsNotNamed ==
    \A r \in Run : pc[r] = "skipped" /\ ledger # <<>> =>
        ledger[Len(ledger)].run # r

\* A winner that is gone before it stored its generation object does not block
\* the lake: once its commit is a TTL and the grace old, a run that is triggered
\* again and again takes the next generation.
GoneWinnerIsReplaced ==
    \A n \in 1..(MaxGen - 1) :
        /\ Len(ledger) = n /\ Generation(n) < MaxGen
        /\ Generation(n) \notin stored
        /\ \A r \in Run : generation[r] # Generation(n)
        /\ CommittedAt(n) + LEASE_TTL + TAKEOVER_GRACE < MaxTime
        ~> Len(ledger) > n \/ \A r \in Run : ~Alive(r)

=============================================================================
