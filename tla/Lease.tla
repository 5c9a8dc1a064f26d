------------------------------- MODULE Lease -------------------------------
(***************************************************************************)
(* The single-writer lease of the lakehouse on a local store               *)
(* (src/v2/src/lakehouse/storage/lease.py).                                *)
(*                                                                         *)
(* The lease is a chain of generation objects runs/lease/<g>.json.  A run  *)
(* takes the lease by creating generation N+1 (put_if_absent) once N is    *)
(* released or has expired for longer than TAKEOVER_GRACE.  The winner     *)
(* renews its own object from a heartbeat thread with a plain put, and     *)
(* asks assert_held() before it publishes or deletes anything.             *)
(*                                                                         *)
(* Every call on the store is a step of its own: a run may stall between   *)
(* any two of them for any time, its heartbeat thread runs beside it, and  *)
(* a process may die anywhere.  A run reads its own clock, skew[r] ahead   *)
(* of the store's, and judges with it what it read before.                 *)
(***************************************************************************)
EXTENDS Integers, FiniteSets, FiniteSetsExt

CONSTANTS
    Run,          \* the runs (run ids); each tries to take the lease once
    NoRun,        \* the holder of an object nobody can parse
    MaxGen,       \* bound: the chain's last generation
    MaxTime,      \* bound: the last instant of the store's clock
    MaxSkew,      \* how far ahead of the store a run's clock may be
    Skews,        \* the ways in which the runs' clocks are ahead
    LEASE_TTL, TAKEOVER_GRACE, COMMIT_MARGIN,
    KEEP_NEWEST, PRUNE_AFTER

ASSUME LeaseConstants ==
    /\ NoRun \notin Run
    /\ {MaxGen, MaxTime, MaxSkew, LEASE_TTL, TAKEOVER_GRACE, COMMIT_MARGIN,
        PRUNE_AFTER} \subseteq Nat
    /\ Skews \subseteq [Run -> 0..MaxSkew]
    /\ KEEP_NEWEST \in Nat \ {0}

VARIABLES
    time,         \* the store's clock
    skew,         \* skew[r]: how far r's clock is ahead of it
    stored,       \* the generations whose object is in the store
    object,       \* object[g]: what g's object says, while g \in stored
    anchored,     \* the generations with a run anchor
    marked,       \* the generations with an acquisition marker
    top,          \* history: the largest generation ever created
    seized,       \* history: generations taken on an old look: see OldLook
    over,         \* history: generations once seen released or expired
    late,         \* history: generations renewed after a newer one existed
    pc,           \* where r's main thread is
    seen,         \* the newest generation r found when it listed the chain
    copy,         \* r's copy of that generation's object
    looked,       \* when r made it, by the store's clock
    fresh,        \* what is left to look at of the listing after the create
    generation,   \* the generation r created
    expires,      \* Lease._state.expires_at: the expiry r last wrote
    ownExpires,   \* the expiry assert_held read from r's own object
    beat,         \* r's heartbeat thread: not running, waiting, or putting
    beatExpires   \* the expiry the heartbeat is about to put

store == <<stored, object, anchored, marked, top, seized>>
look == <<copy, looked>>
local == <<seen, look, fresh, generation, expires, ownExpires>>
thread == <<beat, beatExpires>>
vars == <<time, skew, store, over, late, pc, local, thread>>

Gen == 1..MaxGen
LastReading == MaxTime + MaxSkew + LEASE_TTL
Object == [run : Run \cup {NoRun}, expires : 0..LastReading,
           released : BOOLEAN]

Unread == [run |-> NoRun, expires |-> 0, released |-> FALSE]

Pruning == {"prune", "delete"}
Acquiring == {"read", "judge", "create", "relist", "anchor", "marker", "stat"} \cup Pruning
Holding == {"held", "own", "clock"}
Releasing == {"release", "releasing"}
Ended == {"skipped", "failed", "done", "dead"}
PC == {"idle"} \cup Acquiring \cup Holding \cup Releasing \cup Ended

\* The program counters of a run that has created its generation, and of one
\* whose fresh listing then showed no newer generation.
Winner == {"anchor", "marker", "stat"} \cup Pruning \cup Holding \cup Releasing
Creator == {"relist"} \cup Winner

Clock(r) == time + skew[r]

\* The clock of whoever wrote g's object; the store's own for a partial one,
\* whose expiry is counted from its modified time.
OwnClock(g) ==
    IF object[g].run = NoRun THEN time ELSE Clock(object[g].run)

Observe ==
    /\ over' = over \cup {g \in stored' :
                \/ object'[g].released
                \/ OwnClock(g)' > object'[g].expires}
    /\ late' = {g \in Gen :
                /\ \E r \in Run : generation'[r] = g
                /\ \/ g \in late
                   \/ g < top /\ object'[g].expires > object[g].expires}

Move(r, from, to) == pc[r] = from /\ pc' = [pc EXCEPT ![r] = to]

\* The process ends: its memory and its heartbeat thread are gone.
Exit(r, from, how) ==
    /\ Move(r, from, how)
    /\ seen' = [seen EXCEPT ![r] = 0]
    /\ copy' = [copy EXCEPT ![r] = Unread]
    /\ looked' = [looked EXCEPT ![r] = 0]
    /\ fresh' = [fresh EXCEPT ![r] = {}]
    /\ generation' = [generation EXCEPT ![r] = 0]
    /\ expires' = [expires EXCEPT ![r] = 0]
    /\ ownExpires' = [ownExpires EXCEPT ![r] = 0]
    /\ beat' = [beat EXCEPT ![r] = "off"]
    /\ beatExpires' = [beatExpires EXCEPT ![r] = 0]

----------------------------------------------------------------------------
Init ==
    /\ time = 0
    /\ skew \in Skews
    /\ stored = {} /\ anchored = {} /\ marked = {}
    /\ object = [g \in Gen |-> Unread]
    /\ top = 0 /\ seized = {} /\ over = {} /\ late = {}
    /\ pc = [r \in Run |-> "idle"]
    /\ seen = [r \in Run |-> 0]
    /\ copy = [r \in Run |-> Unread]
    /\ looked = [r \in Run |-> 0]
    /\ fresh = [r \in Run |-> {}]
    /\ generation = [r \in Run |-> 0]
    /\ expires = [r \in Run |-> 0]
    /\ ownExpires = [r \in Run |-> 0]
    /\ beat = [r \in Run |-> "off"]
    /\ beatExpires = [r \in Run |-> 0]

Tick ==
    /\ time < MaxTime
    /\ time' = time + 1
    /\ UNCHANGED <<skew, store, pc, local, thread>>
    /\ Observe

----------------------------------------------------------------------------
(* Lease.acquire                                                           *)

\* _generations: the store lists the chain; the largest number counts.
ListEmpty(r) ==
    /\ stored = {}
    /\ Move(r, "idle", "create")
    /\ seen' = [seen EXCEPT ![r] = 0]
    /\ expires' = [expires EXCEPT ![r] = Clock(r) + LEASE_TTL]
    /\ UNCHANGED <<time, skew, store, look, fresh, generation, ownExpires, thread>>
    /\ Observe

List(r) ==
    /\ stored # {}
    /\ Move(r, "idle", "read")
    /\ seen' = [seen EXCEPT ![r] = Max(stored)]
    /\ UNCHANGED <<time, skew, store, look, fresh, generation, expires,
                   ownExpires, thread>>
    /\ Observe

\* _read_state: the run has a copy of the object, whatever becomes of it.
Read(r) ==
    /\ seen[r] \in stored
    /\ Move(r, "read", "judge")
    /\ copy' = [copy EXCEPT ![r] = object[seen[r]]]
    /\ looked' = [looked EXCEPT ![r] = time]
    /\ UNCHANGED <<time, skew, store, seen, fresh, generation, expires,
                   ownExpires, thread>>
    /\ Observe

\* The listed generation was pruned before r read it, or, if its copy cannot be
\* parsed, before r asked for its modified time: the get or the stat raises.
ReadGone(r) ==
    /\ seen[r] \notin stored
    /\ \/ Exit(r, "read", "failed")
       \/ copy[r].run = NoRun /\ Exit(r, "judge", "failed")
    /\ UNCHANGED <<time, skew, store>>
    /\ Observe

\* Mutant: a lapsed lease is taken at once, without the grace.
Free_NoGrace(r) == copy[r].released \/ Clock(r) > copy[r].expires

\* Mutant: an expiry does not free the lease, only its own holder does.
Free_Never(r) == copy[r].released \/ copy[r].run = r

\* The top generation is free when the copy says that it is released, or when
\* the copy's expiry and the grace have passed on the taker's clock now.
Free(r) == copy[r].released \/ Clock(r) > copy[r].expires + TAKEOVER_GRACE

\* The clock of the judgement is also the one the new expiry is counted from:
\* what is free stays free until the second reading, acquire's "now".
JudgeFree(r) ==
    /\ Free(r)
    /\ Move(r, "judge", "create")
    /\ expires' = [expires EXCEPT ![r] = Clock(r) + LEASE_TTL]
    /\ copy' = [copy EXCEPT ![r] = Unread]
    /\ UNCHANGED <<time, skew, store, seen, looked, fresh, generation,
                   ownExpires, thread>>
    /\ Observe

JudgeHeld(r) ==
    /\ ~Free(r)
    /\ Exit(r, "judge", "skipped")
    /\ UNCHANGED <<time, skew, store>>
    /\ Observe

\* What r judged was read so long before that the grace, which is there for
\* the skew of the clocks, does not cover the delay and the skew together.
OldLook(r) == seen[r] > 0 /\ expires[r] - LEASE_TTL > looked[r] + TAKEOVER_GRACE

\* A plain put of r's own generation object.
PutOwn(r, expiry, isReleased) ==
    /\ stored' = stored \cup {generation[r]}
    /\ object' = [object EXCEPT ![generation[r]] =
            [run |-> r, expires |-> expiry, released |-> isReleased]]
    /\ UNCHANGED <<anchored, marked, top, seized>>

PutIfAbsent(r, g, content) ==
    /\ g \in Gen \ stored
    /\ stored' = stored \cup {g}
    /\ object' = [object EXCEPT ![g] = content]
    /\ top' = IF g > top THEN g ELSE top
    /\ seized' = IF g > top /\ OldLook(r) THEN seized \cup {g} ELSE seized
    /\ UNCHANGED <<anchored, marked>>

Create(r) ==
    /\ PutIfAbsent(r, seen[r] + 1,
            [run |-> r, expires |-> expires[r], released |-> FALSE])
    /\ Move(r, "create", "relist")
    /\ generation' = [generation EXCEPT ![r] = seen[r] + 1]
    /\ seen' = [seen EXCEPT ![r] = 0]
    /\ looked' = [looked EXCEPT ![r] = 0]
    /\ UNCHANGED <<time, skew, copy, fresh, expires, ownExpires, thread>>
    /\ Observe

CreateLost(r) ==
    /\ seen[r] + 1 \in stored
    /\ Exit(r, "create", "skipped")
    /\ UNCHANGED <<time, skew, store>>
    /\ Observe

\* Without hard links a create is an exclusive open and a copy: a crash
\* between them leaves an object that nobody can parse, held until its
\* modified time plus LEASE_TTL plus the grace.
CreateTorn(r) ==
    /\ PutIfAbsent(r, seen[r] + 1, [run |-> NoRun,
            expires |-> time + LEASE_TTL, released |-> FALSE])
    /\ Exit(r, "create", "dead")
    /\ UNCHANGED <<time, skew>>
    /\ Observe

\* Mutant: the winner of the create does not list the chain again.
Relist_None(r) ==
    /\ Move(r, "relist", "anchor")
    /\ fresh' = [fresh EXCEPT ![r] = stored]
    /\ UNCHANGED <<time, skew, store, seen, look, generation, expires,
                   ownExpires, thread>>
    /\ Observe

\* The fresh listing: a generation above the own one means that the first
\* listing was stale.
Relist(r) ==
    /\ \A g \in stored : g <= generation[r]
    /\ Move(r, "relist", "anchor")
    /\ fresh' = [fresh EXCEPT ![r] = stored]
    /\ UNCHANGED <<time, skew, store, seen, look, generation, expires,
                   ownExpires, thread>>
    /\ Observe

RelistStale(r) ==
    /\ \E g \in stored : g > generation[r]
    /\ Exit(r, "relist", "skipped")
    /\ PutOwn(r, expires[r], TRUE)
    /\ UNCHANGED <<time, skew>>
    /\ Observe

\* _store_anchor_and_marker.  On an atomic store neither object can be there
\* already (AnchorIsFirst below), so that branch has no action here.
StoreAnchor(r) ==
    /\ generation[r] \notin anchored
    /\ Move(r, "anchor", "marker")
    /\ anchored' = anchored \cup {generation[r]}
    /\ UNCHANGED <<time, skew, stored, object, marked, top, seized, local, thread>>
    /\ Observe

StoreMarker(r) ==
    /\ generation[r] \notin marked
    /\ Move(r, "marker", "stat")
    /\ marked' = marked \cup {generation[r]}
    /\ UNCHANGED <<time, skew, stored, object, anchored, top, seized, local, thread>>
    /\ Observe

\* _store_once: a store error releases the generation and stops the run.
StoreFails(r) ==
    /\ \/ Exit(r, "anchor", "failed")
       \/ Exit(r, "marker", "failed")
    /\ PutOwn(r, expires[r], TRUE)
    /\ UNCHANGED <<time, skew>>
    /\ Observe

Stat(r) ==
    /\ generation[r] \in stored
    /\ Move(r, "stat", "prune")
    /\ UNCHANGED <<time, skew, store, local, thread>>
    /\ Observe

\* Mutant: one generation too many is pruned.
Prunable_One(r) == {g \in fresh[r] :
    Cardinality({h \in fresh[r] : h > g}) >= KEEP_NEWEST - 1}

\* _prune walks the fresh listing from its oldest generation, but for the
\* newest KEEP_NEWEST, and deletes what expired more than PRUNE_AFTER ago:
\* the marker, then the object.
Prunable(r) == {g \in fresh[r] : Cardinality({h \in fresh[r] : h > g}) >= KEEP_NEWEST}

Candidate(r, g) == Prunable(r) # {} /\ g = Min(fresh[r])

Old(r, g) ==
    object[g].expires + (IF object[g].run = NoRun THEN TAKEOVER_GRACE ELSE 0)
        < Clock(r) - PRUNE_AFTER

Forget(r, g) ==
    /\ fresh' = [fresh EXCEPT ![r] = @ \ {g}]
    /\ UNCHANGED <<seen, look, generation, expires, ownExpires>>

PruneKeep(r) ==
    /\ Move(r, "prune", "prune")
    /\ \E g \in stored : Candidate(r, g) /\ ~Old(r, g) /\ Forget(r, g)
    /\ UNCHANGED <<time, skew, store, thread>>
    /\ Observe

PruneMarker(r) ==
    /\ Move(r, "prune", "delete")
    /\ \E g \in stored :
        /\ Candidate(r, g) /\ Old(r, g)
        /\ marked' = marked \ {g}
    /\ UNCHANGED <<time, skew, stored, object, anchored, top, seized, local, thread>>
    /\ Observe

PruneObject(r) ==
    /\ Move(r, "delete", "prune")
    /\ \E g \in Prunable(r) :
        /\ Candidate(r, g)
        /\ stored' = stored \ {g}
        /\ Forget(r, g)
    /\ UNCHANGED <<time, skew, object, anchored, marked, top, seized, thread>>
    /\ Observe

\* Another run pruned the object that r is about to stat or to read.
ObjectGone(r) ==
    /\ \/ generation[r] \notin stored /\ Exit(r, "stat", "failed")
       \/ /\ \E g \in Prunable(r) \ stored : Candidate(r, g)
          /\ Exit(r, "prune", "failed")
    /\ UNCHANGED <<time, skew, store>>
    /\ Observe

\* acquire returns.  A run then starts the heartbeat; the sweep, restore and
\* relocate commands work on the lease without one.
Hold(r) ==
    /\ Prunable(r) = {}
    /\ Move(r, "prune", "held")
    /\ fresh' = [fresh EXCEPT ![r] = {}]
    /\ \E b \in {"wait", "off"} : beat' = [beat EXCEPT ![r] = b]
    /\ UNCHANGED <<time, skew, store, seen, look, generation, expires, ownExpires,
                   beatExpires>>
    /\ Observe

----------------------------------------------------------------------------
(* The heartbeat thread: renew() reads the clock, then puts.               *)

\* Mutant: the new expiry is counted from the old one, not from the clock.
RenewRead_Extend(r) ==
    /\ beat[r] = "wait"
    /\ beat' = [beat EXCEPT ![r] = "put"]
    /\ beatExpires' = [beatExpires EXCEPT ![r] = expires[r] + LEASE_TTL]
    /\ UNCHANGED <<time, skew, store, pc, local>>
    /\ Observe

RenewRead(r) ==
    /\ beat[r] = "wait"
    /\ beat' = [beat EXCEPT ![r] = "put"]
    /\ beatExpires' = [beatExpires EXCEPT ![r] = Clock(r) + LEASE_TTL]
    /\ UNCHANGED <<time, skew, store, pc, local>>
    /\ Observe

RenewPut(r) ==
    /\ beat[r] = "put"
    /\ PutOwn(r, beatExpires[r], FALSE)
    /\ expires' = [expires EXCEPT ![r] = beatExpires[r]]
    /\ beat' = [beat EXCEPT ![r] = "wait"]
    /\ beatExpires' = [beatExpires EXCEPT ![r] = 0]
    /\ UNCHANGED <<time, skew, pc, seen, look, fresh, generation, ownExpires>>
    /\ Observe

\* The put fails; the thread lives on and tries again at the next beat.
RenewFails(r) ==
    /\ beat[r] = "put"
    /\ beat' = [beat EXCEPT ![r] = "wait"]
    /\ beatExpires' = [beatExpires EXCEPT ![r] = 0]
    /\ UNCHANGED <<time, skew, store, pc, local>>
    /\ Observe

----------------------------------------------------------------------------
(* assert_held: the next generation, the own object, then the own clock.   *)

AssertNext(r) ==
    /\ generation[r] + 1 \notin stored
    /\ Move(r, "held", "own")
    /\ UNCHANGED <<time, skew, store, local, thread>>
    /\ Observe

AssertOwn(r) ==
    /\ generation[r] \in stored
    /\ object[generation[r]].run = r /\ ~object[generation[r]].released
    /\ Move(r, "own", "clock")
    /\ ownExpires' = [ownExpires EXCEPT ![r] = object[generation[r]].expires]
    /\ UNCHANGED <<time, skew, store, seen, look, fresh, generation, expires,
                   thread>>
    /\ Observe

AssertClock(r) ==
    /\ Clock(r) <= ownExpires[r] - COMMIT_MARGIN
    /\ Move(r, "clock", "held")
    /\ ownExpires' = [ownExpires EXCEPT ![r] = 0]
    /\ UNCHANGED <<time, skew, store, seen, look, fresh, generation, expires,
                   thread>>
    /\ Observe

\* LeaseLostError: the run stops, and releases in its finally block.
AssertLost(r) ==
    /\ \/ generation[r] + 1 \in stored /\ Move(r, "held", "release")
       \/ /\ Move(r, "own", "release")
          /\ \/ generation[r] \notin stored
             \/ object[generation[r]].run # r
             \/ object[generation[r]].released
       \/ /\ Clock(r) > ownExpires[r] - COMMIT_MARGIN
          /\ Move(r, "clock", "release")
    /\ ownExpires' = [ownExpires EXCEPT ![r] = 0]
    /\ UNCHANGED <<time, skew, store, seen, look, fresh, generation, expires,
                   thread>>
    /\ Observe

----------------------------------------------------------------------------
(* release, and the death of a process                                     *)

\* The run ends, by an error or after its last publish, and calls release().
Finish(r) ==
    /\ Move(r, "held", "release")
    /\ UNCHANGED <<time, skew, store, local, thread>>
    /\ Observe

\* Mutant: the heartbeat is not stopped before the release is put.
ReleaseStop_Beating(r) ==
    /\ Move(r, "release", "releasing")
    /\ UNCHANGED <<time, skew, store, local, thread>>
    /\ Observe

\* Mutant: the release waits for a heartbeat that is never told to stop.
ReleaseStop_Join(r) ==
    /\ beat[r] = "off"
    /\ Move(r, "release", "releasing")
    /\ UNCHANGED <<time, skew, store, local, thread>>
    /\ Observe

\* _stopped is set under the lock renew() holds, and the thread is joined.
ReleaseStop(r) ==
    /\ beat[r] # "put"
    /\ Move(r, "release", "releasing")
    /\ beat' = [beat EXCEPT ![r] = "off"]
    /\ UNCHANGED <<time, skew, store, local, beatExpires>>
    /\ Observe

ReleasePut(r) ==
    /\ Move(r, "releasing", "done")
    /\ PutOwn(r, expires[r], TRUE)
    /\ UNCHANGED <<time, skew, local, thread>>
    /\ Observe

Crash(r) ==
    /\ pc[r] \notin Ended
    /\ Exit(r, pc[r], "dead")
    /\ UNCHANGED <<time, skew, store>>
    /\ Observe

\* The schedule (or the user) starts the next run in the place of a skipped
\* one, with a run id of its own.
Trigger(r) ==
    /\ Move(r, "skipped", "idle")
    /\ UNCHANGED <<time, skew, store, local, thread>>
    /\ Observe

----------------------------------------------------------------------------
Acquire(r) ==
    \/ ListEmpty(r) \/ List(r) \/ Read(r) \/ ReadGone(r)
    \/ JudgeFree(r) \/ JudgeHeld(r)
    \/ Create(r) \/ CreateLost(r) \/ Relist(r) \/ RelistStale(r)
    \/ StoreAnchor(r) \/ StoreMarker(r) \/ Stat(r)
    \/ PruneKeep(r) \/ PruneMarker(r) \/ PruneObject(r) \/ ObjectGone(r)
    \/ Hold(r)

Heartbeat(r) == RenewRead(r) \/ RenewPut(r)

AssertHeld(r) ==
    AssertNext(r) \/ AssertOwn(r) \/ AssertClock(r) \/ AssertLost(r)

Release(r) == ReleaseStop(r) \/ ReleasePut(r)

Fault(r) == CreateTorn(r) \/ StoreFails(r) \/ RenewFails(r) \/ Crash(r)

Next ==
    \/ Tick
    \/ \E r \in Run :
        \/ Acquire(r) \/ Heartbeat(r) \/ AssertHeld(r)
        \/ Finish(r) \/ Release(r) \/ Fault(r) \/ Trigger(r)

Spec == Init /\ [][Next]_vars

\* Time passes; a live process gets on with its work, and a run's work ends.
\* The heartbeat sleeps between two beats without the lock, so a release that
\* waits for the lock gets it in the end.  Nothing has to fail.
Fairness ==
    /\ WF_vars(Tick)
    /\ \A r \in Run :
        /\ WF_vars(Acquire(r)) /\ WF_vars(Trigger(r))
        /\ WF_vars(RenewPut(r) \/ RenewFails(r))
        /\ WF_vars(AssertHeld(r)) /\ SF_vars(Finish(r))
        /\ SF_vars(ReleaseStop(r)) /\ WF_vars(ReleasePut(r))

FairSpec == Spec /\ Fairness

----------------------------------------------------------------------------
TypeOK ==
    /\ time \in 0..MaxTime /\ skew \in [Run -> 0..MaxSkew]
    /\ stored \subseteq Gen /\ object \in [Gen -> Object]
    /\ anchored \subseteq Gen /\ marked \subseteq Gen
    /\ top \in 0..MaxGen /\ seized \subseteq Gen
    /\ over \subseteq Gen /\ late \subseteq Gen
    /\ pc \in [Run -> PC]
    /\ copy \in [Run -> Object] /\ looked \in [Run -> 0..MaxTime]
    /\ seen \in [Run -> 0..MaxGen] /\ fresh \in [Run -> SUBSET Gen]
    /\ generation \in [Run -> 0..MaxGen]
    /\ expires \in [Run -> 0..LastReading]
    /\ ownExpires \in [Run -> 0..LastReading]
    /\ beat \in [Run -> {"off", "wait", "put"}]
    /\ beatExpires \in [Run -> 0..LastReading]

\* A lease that is renewed in time is taken by nobody who looked at it in time:
\* a generation has a successor only if it was released, or was seen expired on
\* its own holder's clock, whatever the skew between the machines, or if the
\* taker judged an old look at it.
LiveLeaseIsTakenOnOldLookOnly ==
    \A g \in 1..(top - 1) : g \in over \/ g + 1 \in seized

\* What ADR-007 says of the lease: "A taker creates generation N+1 only when N
\* is released, or when N's expiry plus TAKEOVER_GRACE (2 min) has passed."
TakenOnlyOnceExpired == \A g \in 1..(top - 1) : g \in over

\* The lease keeps the promise of its chain: no create starts it again or
\* leaves a generation out, and the newest generation never changes hands.
Promise == INSTANCE LeaseChain WITH
    newest <- top,
    holder <- IF top = 0 THEN NoRun ELSE object[top].run,
    lapsed <- top \in over,
    seized <- top \in seized

LeaseIsAChain == Promise!CSpec

\* Two runs never hold the same generation, and of any two runs that got
\* through acquire() the one with the older generation has a lease that lapsed,
\* or it was taken over on an old look.
OneLiveHolder ==
    \A r, s \in Run :
        (r # s /\ pc[r] \in Winner /\ pc[s] \in Winner) =>
            /\ generation[r] # generation[s]
            /\ generation[r] < generation[s] =>
                generation[r] \in over \/ generation[r] + 1 \in seized

\* Pruning never takes the newest generation away, so no taker starts the
\* chain again below a live lease.
ChainKeepsItsTop == top > 0 => top \in stored

\* "Only the generation's winner writes them": on an atomic store no winner
\* finds its anchor or its marker already there, not even one that created a
\* pruned generation again after a long stall.
AnchorIsFirst ==
    \A r \in Run :
        /\ pc[r] = "anchor" => generation[r] \notin anchored
        /\ pc[r] = "marker" => generation[r] \notin marked

\* No late heartbeat clears the released flag of the current generation, so
\* the next run takes over at once.
ReleasedTopStaysReleased ==
    [][(top > 0 /\ top \in stored /\ object[top].released /\ top' = top)
        => object'[top].released]_vars

Alive(r) == pc[r] \notin {"failed", "done", "dead"}

\* A crash never blocks the lake: when the holder of the current generation is
\* gone, and its expiry and the grace end before the bound on time, then a run
\* that is triggered again and again takes the next generation.
DeadHolderIsReplaced ==
    \A g \in 1..(MaxGen - 1) :
        /\ top = g /\ \A r \in Run : generation[r] # g
        /\ object[g].expires + TAKEOVER_GRACE < MaxTime
        ~> top > g \/ \A r \in Run : ~Alive(r)

\* Every run comes to an end: no wait between the heartbeat's lock, the join
\* of its thread and the release is a deadlock.
EveryHolderEnds ==
    \A r \in Run : pc[r] \in Creator ~> pc[r] \in Ended

\* What the module's docstring says of the check before a write step, which is
\* assert_held(): it "never trusts a renew: a renew is a plain put that succeeds
\* after a takeover".  So no assert_held() accepts an expiry that was put when a
\* newer generation existed already.
NoRenewalAfterTakeoverIsTrusted ==
    [][\A r \in Run :
        (pc[r] = "own" /\ pc'[r] = "clock") => generation[r] \notin late]_vars

=============================================================================
