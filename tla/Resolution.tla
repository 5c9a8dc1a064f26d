----------------------------- MODULE Resolution -----------------------------
(***************************************************************************)
(* The review of entity links (src/v2/src/lakehouse/resolve: links.py,     *)
(* decisions.py, bands.py; services/review.py).                            *)
(*                                                                         *)
(* Operators store decisions (must link, cannot link) and requests (accept *)
(* what is recommended, undo a batch) as objects of the config side, and   *)
(* never change them.  Each run reads them, makes the links of one entity  *)
(* type anew from the candidates it finds, and publishes the links with    *)
(* the requests it applied in one catalog version.  A run may end before   *)
(* that; a restore goes back to an older version, and leaves the config    *)
(* side alone.  The lease lets one run or restore at a time (module Lease).*)
(***************************************************************************)
EXTENDS Naturals, Sequences

CONSTANTS
    Record,        \* records, each with its provider
    MaxDecision,   \* bounds the decisions
    MaxRequest,    \* bounds the requests
    MaxSetting,    \* bounds the batches of the setting that are in use
    KeepVersions   \* versions that the retention keeps

ASSUME ResolutionConstants ==
    /\ \A x \in Record : x.provider \in Nat
    /\ MaxDecision \in Nat /\ MaxRequest \in Nat
    /\ MaxSetting \in Nat /\ KeepVersions \in Nat \ {0}

VARIABLES
    decisions,     \* the decisions, by the time they were made
    requests,      \* the requests, by the time they were made
    versions,      \* the kept versions of the catalog, oldest first
    run            \* the run that holds the lease

vars == <<decisions, requests, versions, run>>

\* Two records of different providers.
Pair ==
    {p \in SUBSET Record : \E x, y \in p : x.provider # y.provider /\ p = {x, y}}

Providers(p) == {x.provider : x \in p}

\* Another record of the same provider for one of p's records.
Competes(p, q) == p # q /\ p \cap q # {} /\ Providers(p) = Providers(q)

\* A batch is named for the request, or for the run whose setting accepted it.
RequestBatch == [by : {"request"}, n : 1..MaxRequest]
SettingBatch == [by : {"setting"}, n : 1..MaxSetting]
NoBatch == [by |-> "none", n |-> 0]
Batch == RequestBatch \cup SettingBatch
BatchOf(i) == [by |-> "request", n |-> i]

Link == [pair : Pair, accepted_by : {"hand", "auto"}, batch : {NoBatch}]
        \cup [pair : Pair, accepted_by : {"recommended"}, batch : Batch]

\* A request selects every pair, or the pairs of two providers.
Selection == {Pair} \cup {{q \in Pair : Providers(q) = Providers(p)} : p \in Pair}

Decision == [pair : Pair, kind : {"must", "cannot"}]
Request == [kind : {"accept"}, pairs : Selection] \cup [kind : {"undo"}, batch : Batch]

\* What a version holds of the review: gold_*_links, ops_holds and
\* ops_applied_requests.
Catalog == [links : SUBSET Link, held : SUBSET Pair, applied : SUBSET (1..MaxRequest)]

Current == versions[Len(versions)]
Empty == [links |-> {}, held |-> {}, applied |-> {}]

Idle == [step |-> "idle"]

Init ==
    /\ decisions = <<>> /\ requests = <<>>
    /\ versions = <<Empty>> /\ run = Idle

-----------------------------------------------------------------------------
(* The operators, through ReviewService and DecisionStore.                 *)

Decide(p, kind) ==
    /\ Len(decisions) < MaxDecision
    /\ decisions' = Append(decisions, [pair |-> p, kind |-> kind])
    /\ UNCHANGED <<requests, versions, run>>

Ask(request) ==
    /\ Len(requests) < MaxRequest
    /\ requests' = Append(requests, request)
    /\ UNCHANGED <<decisions, versions, run>>

AcceptRecommended(selection) == Ask([kind |-> "accept", pairs |-> selection])

\* The Review page offers every accept request, also one that is pending; the
\* batches of the setting are named in the links.
Offered ==
    {BatchOf(i) : i \in {j \in 1..Len(requests) : requests[j].kind = "accept"}}
    \cup {l.batch : l \in {k \in Current.links : k.accepted_by = "recommended"}}

UndoBatch(batch) == batch \in Offered /\ Ask([kind |-> "undo", batch |-> batch])

-----------------------------------------------------------------------------
(* One pass over the records.                                              *)

\* The latest of the first n decisions on a pair.
Latest(n, p) ==
    LET on == {i \in 1..n : decisions[i].pair = p}
    IN  IF on = {} THEN "none"
        ELSE decisions[CHOOSE i \in on : \A j \in on : j <= i].kind

\* What the matchers and the bands make of a pair: no candidate, or one below
\* the bands; one that waits, and beats its runner-up by the margin or does
\* not; one that links by itself.  They pair each record with at most one
\* record of another provider.
Scores(known) ==
    {scores \in [Pair -> {"none", "close", "clear", "auto"}] :
        /\ \A p \in Pair : scores[p] # "none" => p \subseteq known
        /\ \A p, q \in Pair : scores[p] # "none" /\ scores[q] # "none" => ~Competes(p, q)}

Pairs(links) == {l.pair : l \in links}

\* Mutant: a record may link to two records of a provider.
Shadowed_Never(p, links) == FALSE

\* One of p's records links to another record of the other one's provider.
Shadowed(p, links) == \E q \in Pairs(links) : Competes(p, q)

HandLinks(n, known) ==
    {[pair |-> p, accepted_by |-> "hand", batch |-> NoBatch] :
        p \in {q \in Pair : Latest(n, q) = "must" /\ q \subseteq known}}

\* Mutant: a request that was applied is pending again.
Pending_All(old, kind) == {i \in 1..Len(requests) : requests[i].kind = kind}

Pending(old, kind) == {i \in 1..Len(requests) : requests[i].kind = kind} \ old.applied

\* The links that the pending undo requests take away; their pairs are held.
Undone(old) ==
    {l \in old.links : \E i \in Pending(old, "undo") : l.batch = requests[i].batch}

\* Mutant: an earlier batch outlives a later decision.
Stay_Blocked(old, n, hand, known) ==
    {l \in old.links \ Undone(old) :
        /\ l.accepted_by = "recommended" /\ l.pair \subseteq known
        /\ l.pair \notin Pairs(hand) /\ ~Shadowed(l.pair, hand)}

\* The earlier batches that stay.  Two of their links never compete (see
\* OnlyPeopleDoubleLink), so that only a hand link can shadow one.
Stay(old, n, hand, known) ==
    {l \in old.links \ Undone(old) :
        /\ l.accepted_by = "recommended" /\ l.pair \subseteq known
        /\ Latest(n, l.pair) # "cannot"
        /\ l.pair \notin Pairs(hand) /\ ~Shadowed(l.pair, hand)}

\* The candidates of some scores that the links leave open.
Open(scores, n, links, some) ==
    {p \in Pair : /\ scores[p] \in some
                  /\ p \notin Pairs(links) /\ Latest(n, p) # "cannot"
                  /\ ~Shadowed(p, links)}

AutoLinks(scores, n, links) ==
    {[pair |-> p, accepted_by |-> "auto", batch |-> NoBatch] :
        p \in Open(scores, n, links, {"auto"})}

Held(old) == old.held \cup Pairs(Undone(old))

\* Mutant: the holds are not looked up.
Recommended_Any(old, scores, n, links) == Open(scores, n, links, {"clear"})

Recommended(old, scores, n, links) == Open(scores, n, links, {"clear"}) \ Held(old)

\* Each recommended pair goes to the first pending request that selects it, or
\* else to the setting.
Takers(old, p) == {i \in Pending(old, "accept") : p \in requests[i].pairs}

AcceptedLinks(old, scores, n, links, setting) ==
    {l \in Link :
        /\ l.accepted_by = "recommended"
        /\ l.pair \in Recommended(old, scores, n, links)
        /\ IF Takers(old, l.pair) # {}
           THEN \E i \in Takers(old, l.pair) :
                    l.batch = BatchOf(i) /\ \A j \in Takers(old, l.pair) : i <= j
           ELSE l.batch = setting}

\* Mutant: only the accept requests are recorded as applied.
Applied_Accepts(old) == old.applied \cup Pending(old, "accept")

Applied(old) == old.applied \cup Pending(old, "accept") \cup Pending(old, "undo")

\* The next catalog, from n decisions, all requests and the records of bronze.
\* setting is the run's own batch, or NoBatch if the setting is off.
Resolved(old, n, setting, known, scores) ==
    LET hand == HandLinks(n, known)
        kept == hand \cup Stay(old, n, hand, known)
    IN  [links |-> kept \cup AutoLinks(scores, n, kept)
                        \cup AcceptedLinks(old, scores, n, kept, setting),
         held |-> Held(old), applied |-> Applied(old)]

-----------------------------------------------------------------------------
(* The run, and the restore.                                               *)

\* A run starts from the version that CURRENT names.
Begin ==
    /\ run.step = "idle"
    /\ run' = [step |-> "begun", work |-> Current]
    /\ UNCHANGED <<decisions, requests, versions>>

\* DecisionStore.load lists the decisions first, and the requests after them.
LoadDecisions ==
    /\ run.step = "begun"
    /\ run' = [step |-> "loaded", work |-> run.work, read |-> Len(decisions)]
    /\ UNCHANGED <<decisions, requests, versions>>

\* A batch name that no link and no request uses.
FreshBatch ==
    {b \in SettingBatch :
        /\ \A i \in 1..Len(versions) : \A l \in versions[i].links : l.batch # b
        /\ \A i \in 1..Len(requests) : requests[i].kind = "undo" => requests[i].batch # b}

\* The setting is off, or on with a batch of the run's own.
Setting == {NoBatch} \cup {b \in FreshBatch : \A c \in FreshBatch : b.n <= c.n}

Resolve ==
    /\ run.step = "loaded"
    /\ \E setting \in Setting : \E known \in SUBSET Record : \E scores \in Scores(known) :
            run' = [step |-> "resolved",
                    work |-> Resolved(run.work, run.read, setting, known, scores)]
    /\ UNCHANGED <<decisions, requests, versions>>

\* Mutant: the retention keeps one version too many.
Retained_More(all) == IF Len(all) > KeepVersions + 1 THEN Tail(all) ELSE all

Retained(all) == IF Len(all) > KeepVersions THEN Tail(all) ELSE all

\* The run-end commit, and the retention.
Commit ==
    /\ run.step = "resolved"
    /\ versions' = Retained(Append(versions, run.work))
    /\ run' = Idle
    /\ UNCHANGED <<decisions, requests>>

\* A crash, a lost lease, a signal, a failing step.
Abandon ==
    /\ run.step # "idle"
    /\ run' = Idle
    /\ UNCHANGED <<decisions, requests, versions>>

Restore(n) ==
    /\ run.step = "idle"
    /\ n < Len(versions)
    /\ versions' = SubSeq(versions, 1, n)
    /\ UNCHANGED <<decisions, requests, run>>

Next ==
    \/ \E p \in Pair : Decide(p, "must") \/ Decide(p, "cannot")
    \/ \E selection \in Selection : AcceptRecommended(selection)
    \/ \E batch \in Batch : UndoBatch(batch)
    \/ Begin \/ LoadDecisions \/ Resolve \/ Commit \/ Abandon
    \/ \E n \in 1..KeepVersions : Restore(n)

Spec == Init /\ [][Next]_vars

\* Runs are triggered again and again, and again and again one of them comes to
\* its end: strong fairness of its steps, in one formula.
Fairness == []<><<Commit>>_vars

FairSpec == Spec /\ Fairness

-----------------------------------------------------------------------------
TypeOK ==
    /\ decisions \in Seq(Decision) /\ Len(decisions) <= MaxDecision
    /\ requests \in Seq(Request) /\ Len(requests) <= MaxRequest
    /\ versions \in Seq(Catalog) /\ Len(versions) \in 1..KeepVersions
    /\ run \in {Idle} \cup [step : {"begun", "resolved"}, work : Catalog]
              \cup [step : {"loaded"}, work : Catalog, read : 0..MaxDecision]

Published == {versions[i] : i \in 1..Len(versions)}

\* Neither the setting nor a later accept request accepts a pair again once an
\* undo has held it, over any later runs, decisions and crashed runs.
HeldIsNeverAccepted ==
    \A catalog \in Published : \A l \in catalog.links :
        l.accepted_by = "recommended" => l.pair \notin catalog.held

\* Only people link a record to two records of one provider: a link of the
\* bands, of a request or of the setting has both its records to itself,
\* whatever was decided, undone or restored since it was made.
OnlyPeopleDoubleLink ==
    \A catalog \in Published : \A l, m \in catalog.links :
        l.accepted_by # "hand" => ~Competes(l.pair, m.pair)

\* A request is applied once: a version has no new link of a request's batch
\* once the version before it names the request as applied.
RequestIsAppliedOnce ==
    \A v \in 2..Len(versions) : \A i \in versions[v - 1].applied :
        \A l \in versions[v].links \ versions[v - 1].links : l.batch # BatchOf(i)

\* A person has the last word: once no decision is to come, a pair that was
\* last rejected has no link in the end, whoever linked it before and however
\* many runs fail; also a batch that an operator accepted gives way.
RejectionTakesEffect ==
    \A p \in Pair :
        Len(decisions) = MaxDecision /\ Latest(MaxDecision, p) = "cannot"
            ~> p \notin Pairs(Current.links)

\* No request is pending for ever, however often a run fails after it has
\* applied it and before it has published.
RequestIsApplied ==
    \A i \in 1..MaxRequest : Len(requests) >= i ~> i \in Current.applied

\* "It reverses that batch's accepted links on the next run" (the Review page):
\* no version has links of a batch whose undo it names as applied.  Not kept:
\* one pass can apply an accept request and the undo of it, the undo first.
UndoneBatchIsGone ==
    \A catalog \in Published : \A i \in catalog.applied :
        requests[i].kind = "undo" =>
            \A l \in catalog.links : l.batch # requests[i].batch

\* "A held pair stays in the queue until a person confirms or rejects it" (the
\* design): only a person links it.  Not kept: the bands do not ask for holds.
HeldWaitsForPerson ==
    \A catalog \in Published : \A l \in catalog.links :
        l.pair \in catalog.held => l.accepted_by = "hand"

=============================================================================
