------------------------- MODULE LeaseLedger_proofs -------------------------
(* Proofs about the lease on the HF ledger, for any number of runs and     *)
(* generations, any clocks, any stall of a run, and any commit that lands  *)
(* late or goes unanswered.                                                *)
EXTENDS LeaseLedger, WellFoundedInduction, TLAPS

-----------------------------------------------------------------------------
(* A set of naturals with a bound has a largest member                     *)

LEMMA LessIsWellFounded ==
    IsWellFoundedOn({ss \in Nat \X Nat : ss[1] < ss[2]}, Nat)
BY NatLessThanWellFounded, Zenon DEF OpToRel

LEMMA LargestOfBounded ==
    ASSUME NEW N \in Nat, NEW S \in SUBSET (0..N), S # {}
    PROVE  \E m \in S : \A n \in S : n <= m
<1> DEFINE R == {ss \in Nat \X Nat : ss[1] < ss[2]}
           T == {N - x : x \in S}
<1>1. T \subseteq Nat /\ T # {}
  <2>1. \A x \in S : N - x \in Nat
    OBVIOUS
  <2> QED BY <2>1, Zenon
<1>2. PICK t \in T : \A u \in T : ~ (<<u, t>> \in R)
  <2> HIDE DEF T, R
  <2>1. IsWellFoundedOn(R, Nat)
    BY LessIsWellFounded DEF R
  <2> QED BY <1>1, <2>1, WFMin, Zenon
<1>3. PICK m \in S : t = N - m
  OBVIOUS
<1>4. \A n \in S : N - n \in T /\ ~ (N - n < t)
  BY <1>1, <1>2
<1> QED BY <1>3, <1>4

-----------------------------------------------------------------------------
(* The inductive invariant                                                 *)

LPC == PC \cup {"list", "exists", "absent", "unclear", "bucket"}

Claimed == [run : Run, generation : Gen, expires : 0..LastReading,
            old : BOOLEAN]

ClockType ==
    /\ time \in 0..MaxTime /\ skew \in [Run -> 0..MaxSkew]
    /\ over \subseteq Gen /\ late \subseteq Gen

StoreType ==
    /\ stored \subseteq Gen /\ object \in [Gen -> Object]
    /\ anchored \subseteq Gen /\ marked \subseteq Gen /\ top \in 0..MaxGen
    /\ seized \subseteq Gen

LocalType ==
    /\ pc \in [Run -> LPC]
    /\ seen \in [Run -> 0..MaxGen] /\ fresh \in [Run -> SUBSET Gen]
    /\ copy \in [Run -> Object] /\ looked \in [Run -> 0..MaxTime]
    /\ generation \in [Run -> 0..MaxGen]
    /\ expires \in [Run -> 0..LastReading]
    /\ ownExpires \in [Run -> 0..LastReading]
    /\ beat \in [Run -> {"off", "wait", "put"}]
    /\ beatExpires \in [Run -> 0..LastReading]
    /\ parent \in [Run -> Nat] /\ named \in [Run -> BOOLEAN]

LedgerType == ledger \in Seq(Commit) /\ floating \subseteq Claimed

\* The ledger gives its generations away once, in order; a commit that may
\* still land would add a generation above them.
Ordered == \A m, n \in 1..Len(ledger) : m < n => ledger[m].generation < ledger[n].generation
Floats == \A entry \in floating : entry.generation > Generation(Len(ledger))

\* The ledger gave generation g to run r.
Gave(r, g) == \E n \in 1..Len(ledger) : ledger[n].run = r /\ ledger[n].generation = g

StoreOwned == \A g \in stored : Gave(object[g].run, g)

Putting == {"bucket", "anchor", "marker", "stat"} \cup Pruning \cup Holding \cup Releasing

Asking == {"exists", "absent", "read", "judge", "create"}

\* A run that puts a generation object was given that generation, and one that
\* asks for a generation asks for one above the head that it read.
RunSane(r) ==
    /\ pc[r] \in Putting => Gave(r, generation[r])
    /\ beat[r] # "off" => pc[r] \in Holding \cup {"release"}
    /\ parent[r] <= Len(ledger)
    /\ pc[r] \in Asking => Generation(parent[r]) <= seen[r]

LInv ==
    /\ ClockType /\ StoreType /\ LocalType /\ LedgerType
    /\ Ordered /\ Floats /\ StoreOwned
    /\ \A r \in Run : RunSane(r)

-----------------------------------------------------------------------------
(* Facts about states                                                      *)

\* The expiry a run computes from its clock fits the range of expiries.
LEMMA ReadingInRange ==
    ASSUME LInv, NEW r \in Run
    PROVE  Clock(r) + LEASE_TTL \in 0..LastReading
BY LeaseConstants DEF LInv, ClockType, Clock, LastReading

LEMMA Zero ==
    /\ 0 \in 0..MaxGen /\ 0 \in 0..LastReading /\ 0 \in 0..MaxTime
    /\ Unread \in Object
BY LeaseConstants DEF LastReading, Unread, Object

LEMMA LengthType ==
    ASSUME LInv
    PROVE  Len(ledger) \in Nat
BY DEF LInv, LedgerType

LEMMA CommitType ==
    ASSUME LInv, NEW n \in 1..Len(ledger)
    PROVE  ledger[n] \in Commit /\ ledger[n].generation \in Gen
<1>1. ledger[n] \in Commit
  BY DEF LInv, LedgerType
<1> QED BY <1>1 DEF Commit

\* The generation at a place of the ledger.
LEMMA GenerationType ==
    ASSUME LInv, NEW n \in 0..Len(ledger)
    PROVE  Generation(n) \in 0..MaxGen
<1>1. CASE n = 0
  BY <1>1, Zero DEF Generation
<1>2. CASE n # 0
  BY <1>2, CommitType, LengthType, LeaseConstants DEF Generation, Gen
<1> QED BY <1>1, <1>2

\* Nothing in the ledger is above its last commit.
LEMMA LastIsLargest ==
    ASSUME LInv, NEW n \in 1..Len(ledger)
    PROVE  ledger[n].generation <= Generation(Len(ledger))
<1>1. Len(ledger) \in Nat /\ \A m \in 1..Len(ledger) : ledger[m].generation \in Nat
  BY LengthType, CommitType DEF Gen
<1>2. CASE n = Len(ledger)
  BY <1>1, <1>2 DEF Generation
<1>3. CASE n < Len(ledger)
  BY <1>1, <1>3 DEF LInv, Ordered, Generation
<1> QED BY <1>1, <1>2, <1>3

\* A run that was given a generation has a number for it.
LEMMA GivenInGen ==
    ASSUME LInv, NEW r, NEW g, Gave(r, g)
    PROVE  g \in Gen
BY CommitType DEF Gave

\* The heartbeat of a run runs while the run holds the lease.
LEMMA RunFacts ==
    ASSUME LInv, NEW r \in Run
    PROVE  /\ LocalType
           /\ parent[r] <= Len(ledger)
           /\ beat[r] # "off" => pc[r] \in Holding \cup {"release"}
BY DEF LInv, RunSane

\* A run that puts an object puts one of a generation it was given.
LEMMA PutterFacts ==
    ASSUME LInv, NEW r \in Run, pc[r] \in Putting
    PROVE  Gave(r, generation[r]) /\ generation[r] \in Gen
<1>1. Gave(r, generation[r])
  BY DEF LInv, RunSane
<1> QED BY <1>1, GivenInGen

\* The head that a run reads is a place of the ledger.
LEMMA HeadType ==
    ASSUME LInv, NEW n \in Heads
    PROVE  n \in Nat /\ n <= Len(ledger)
BY LengthType DEF Heads

\* A head that names a run's generation: the ledger gave it to the run.
LEMMA NamesGives ==
    ASSUME LInv, NEW r \in Run, NEW n \in Heads, Names(n, r)
    PROVE  Gave(r, generation[r])
BY HeadType DEF Names, Gave

\* The current generation is a number, and not below the head's.
LEMMA ListedFacts ==
    ASSUME LInv, NEW r \in Run
    PROVE  /\ LListed(r) \in 0..MaxGen /\ Generation(parent[r]) \in 0..MaxGen
           /\ Generation(parent[r]) <= LListed(r)
           /\ LListed(r) \in {Generation(parent[r])} \cup stored
<1> DEFINE S == {Generation(parent[r])} \cup stored
<1>1. S \in SUBSET (0..MaxGen) /\ S # {}
  <2>1. parent[r] \in 0..Len(ledger)
    BY LengthType DEF LInv, LocalType, RunSane
  <2>2. Generation(parent[r]) \in 0..MaxGen
    BY <2>1, GenerationType
  <2>3. stored \subseteq 0..MaxGen
    BY DEF LInv, StoreType, Gen
  <2> QED BY <2>2, <2>3
<1>2. MaxGen \in Nat
  BY LeaseConstants
<1>3. \E m \in S : \A n \in S : n <= m
  <2> HIDE DEF S
  <2> QED BY <1>1, <1>2, LargestOfBounded
<1>4. Max(S) \in S /\ \A n \in S : n <= Max(S)
  <2> HIDE DEF S
  <2> QED BY <1>1, <1>3 DEF Max
<1> QED BY <1>1, <1>4 DEF LListed

-----------------------------------------------------------------------------
(* Facts about steps                                                       *)

\* The ledger only grows, and only r's part of the local state changes.
Grown ==
    /\ Len(ledger) <= Len(ledger') /\ Len(ledger') \in Nat
    /\ \A n \in 1..Len(ledger) : ledger'[n] = ledger[n]

OthersSame(r) ==
    \A s \in Run \ {r} :
        /\ pc'[s] = pc[s] /\ generation'[s] = generation[s]
        /\ seen'[s] = seen[s] /\ beat'[s] = beat[s] /\ parent'[s] = parent[s]
        /\ copy'[s] = copy[s] /\ looked'[s] = looked[s]
        /\ expires'[s] = expires[s]

LEMMA GaveStays ==
    ASSUME LInv, Grown, NEW r, NEW g, Gave(r, g)
    PROVE  Gave(r, g)'
BY DEF LInv, LedgerType, Grown, Gave

LEMMA GenerationStays ==
    ASSUME LInv, Grown, NEW n \in 0..Len(ledger)
    PROVE  Generation(n)' = Generation(n)
BY DEF LInv, LedgerType, Grown, Generation

LEMMA StaysSane ==
    ASSUME LInv, Grown, NEW s \in Run,
           pc'[s] = pc[s], generation'[s] = generation[s], seen'[s] = seen[s],
           beat'[s] = beat[s], parent'[s] = parent[s]
    PROVE  RunSane(s)'
<1>1. parent[s] \in 0..Len(ledger) /\ parent'[s] <= Len(ledger')
  BY DEF LInv, LocalType, LedgerType, RunSane, Grown
<1>2. pc'[s] \in Asking => Generation(parent[s])' <= seen'[s]
  BY <1>1, GenerationStays DEF LInv, RunSane
<1>3. pc'[s] \in Putting => Gave(s, generation[s])'
  BY GaveStays DEF LInv, RunSane
<1>4. beat'[s] # "off" => pc'[s] \in Holding \cup {"release"}
  BY DEF LInv, RunSane
<1> QED BY <1>1, <1>2, <1>3, <1>4 DEF RunSane

LEMMA ObserveType ==
    ASSUME LInv, stored' \subseteq Gen, Observe
    PROVE  over' \subseteq Gen /\ late' \subseteq Gen
BY DEF LInv, ClockType, Observe

LEMMA SameLedger ==
    ASSUME LInv, UNCHANGED ledger
    PROVE  Grown
BY DEF LInv, LedgerType, Grown

\* A step of r that leaves the ledger alone keeps the invariant when it keeps
\* the parts that it writes.
LEMMA StepKeeps ==
    ASSUME LInv, NEW r \in Run, UNCHANGED <<time, skew, ledger, floating>>,
           StoreType', StoreOwned', LocalType', OthersSame(r), RunSane(r)',
           Observe
    PROVE  LInv'
<1>1. Grown
  BY SameLedger
<1>2. \A s \in Run \ {r} : RunSane(s)'
  BY <1>1, StaysSane DEF OthersSame
<1>3. ClockType'
  BY ObserveType DEF LInv, ClockType, StoreType
<1>4. LedgerType' /\ Ordered' /\ Floats'
  BY DEF LInv, LedgerType, Ordered, Floats, Generation
<1> QED BY <1>2, <1>3, <1>4 DEF LInv

\* The run's own part, while the ledger stands still.
LEMMA RunKeeps ==
    ASSUME LInv, NEW r \in Run, UNCHANGED ledger,
           pc'[r] \in Putting => Gave(r, generation'[r]),
           beat'[r] # "off" => pc'[r] \in Holding \cup {"release"},
           parent'[r] <= Len(ledger),
           pc'[r] \in Asking =>
                Generation(parent'[r]) <= seen'[r]
    PROVE  RunSane(r)'
<1>1. Gave(r, generation'[r]) => Gave(r, generation[r])'
  BY DEF Gave
<1>2. Generation(parent'[r]) = Generation(parent[r])'
  BY DEF Generation
<1> QED BY <1>1, <1>2 DEF RunSane

\* A run that keeps its place among those that put, or among those that ask.
LEMMA RunStays ==
    ASSUME LInv, NEW r \in Run, UNCHANGED ledger,
           pc'[r] \in Putting => pc[r] \in Putting /\ generation'[r] = generation[r],
           beat'[r] # "off" => pc'[r] \in Holding \cup {"release"},
           parent'[r] = parent[r] \/ parent'[r] = 0,
           pc'[r] \in Asking =>
                /\ pc[r] \in Asking
                /\ parent'[r] = parent[r] /\ seen'[r] = seen[r]
    PROVE  RunSane(r)'
<1>1. parent'[r] <= Len(ledger)
  BY LengthType DEF LInv, RunSane
<1>2. pc'[r] \in Putting => Gave(r, generation'[r])
  BY DEF LInv, RunSane
<1>3. pc'[r] \in Asking => Generation(parent'[r]) <= seen'[r]
  BY DEF LInv, RunSane
<1> QED BY <1>1, <1>2, <1>3, RunKeeps

\* The store is left alone, or it loses objects.
LEMMA StoreKept ==
    ASSUME LInv, UNCHANGED <<object, ledger>>, stored' \subseteq stored
    PROVE  StoreOwned'
BY DEF LInv, StoreOwned, Gave

\* A run puts an object of a generation that the ledger gave it.
LEMMA OwnPut ==
    ASSUME LInv, NEW r \in Run, UNCHANGED ledger, Gave(r, generation[r]),
           NEW c \in Object, c.run = r,
           stored' = stored \cup {generation[r]},
           object' = [object EXCEPT ![generation[r]] = c]
    PROVE  StoreOwned' /\ stored' \subseteq Gen /\ object' \in [Gen -> Object]
<1>1. generation[r] \in Gen
  BY GivenInGen
<1>2. stored' \subseteq Gen /\ object' \in [Gen -> Object]
  BY <1>1 DEF LInv, StoreType
<1>3. \A g \in stored' : Gave(object'[g].run, g)
  BY <1>1 DEF LInv, StoreType, StoreOwned
<1>4. StoreOwned'
  BY <1>3 DEF StoreOwned, Gave
<1> QED BY <1>2, <1>4

LEMMA NamedType ==
    ASSUME LInv, NEW r \in Run, NEW b \in BOOLEAN,
           named' = [named EXCEPT ![r] = b]
    PROVE  named' \in [Run -> BOOLEAN]
BY Zenon DEF LInv, LocalType

\* The end of a process.
LEMMA ExitKeeps ==
    ASSUME LInv, NEW r \in Run, NEW f, NEW t \in Ended, Exit(r, f, t),
           UNCHANGED <<time, skew, ledger, floating>>,
           StoreType', StoreOwned', Forgotten(r) \/ Unname(r), Observe
    PROVE  LInv'
<1>1. /\ t \in LPC /\ t \notin Putting \cup Asking
      /\ pc' = [pc EXCEPT ![r] = t]
  BY DEF Exit, Move, LPC, PC, Putting, Asking, Pruning, Holding, Releasing, Ended
<1>2. LocalType'
  <2>1. parent' \in [Run -> Nat]
    BY DEF LInv, LocalType, Forgotten, Unname
  <2>2. named' \in [Run -> BOOLEAN]
    BY NamedType DEF Forgotten, Unname
  <2>3. pc' \in [Run -> LPC]
    BY <1>1 DEF LInv, LocalType
  <2> QED BY <2>1, <2>2, <2>3, Zero DEF LInv, LocalType, Exit
<1>3. OthersSame(r)
  BY <1>1 DEF LInv, LocalType, Exit, OthersSame, Forgotten, Unname
<1>4. RunSane(r)'
  <2>1. pc'[r] = t /\ beat'[r] = "off"
    BY <1>1 DEF LInv, LocalType, Exit
  <2>2. parent'[r] <= Len(ledger')
    BY DEF LInv, LocalType, LedgerType, RunSane, Forgotten, Unname
  <2> QED BY <1>1, <2>1, <2>2 DEF RunSane
<1> QED BY <1>2, <1>3, <1>4, StepKeeps

LEMMA LExitKeeps ==
    ASSUME LInv, NEW r \in Run, NEW f, NEW t \in Ended, LExit(r, f, t)
    PROVE  LInv'
<1>1. StoreType' /\ StoreOwned'
  BY StoreKept DEF LExit, store, LInv, StoreType
<1> QED BY <1>1, ExitKeeps DEF LExit

-----------------------------------------------------------------------------
(* The steps of a run, each with the parts of the invariant it writes      *)

\* Reading the head, the bucket and the current generation.
LEMMA ReadingKeeps ==
    ASSUME LInv, NEW r \in Run,
           \/ ReadHead(r)
           \/ LListEmpty(r)
           \/ LList(r)
           \/ Exists(r)
           \/ Absent(r)
           \/ JudgeAbsentFree(r)
           \/ LRead(r)
           \/ LJudgeFree(r)
    PROVE  LInv'
<1> USE DEF look, local, thread, store, ledgerVars, Move, LPC, PC, Acquiring, Pruning,
            Holding, Releasing, Ended, Putting, Asking
<1>1. CASE ReadHead(r)
  <2>1. LocalType'
    BY <1>1, HeadType DEF ReadHead, LInv, LocalType
  <2>2. OthersSame(r)
    BY <1>1 DEF ReadHead, LInv, LocalType, OthersSame
  <2>3. StoreType' /\ StoreOwned'
    BY <1>1, StoreKept DEF ReadHead, LInv, StoreType
  <2>4. RunSane(r)'
    BY <1>1, RunFacts, HeadType, RunKeeps DEF ReadHead, LocalType
  <2> QED BY <1>1, <2>1, <2>2, <2>3, <2>4, StepKeeps DEF ReadHead
<1>2. CASE LListEmpty(r)
  <2>1. LocalType'
    BY <1>2, ReadingInRange DEF LListEmpty, LInv, LocalType
  <2>2. OthersSame(r)
    BY <1>2 DEF LListEmpty, LInv, LocalType, OthersSame
  <2>3. StoreType' /\ StoreOwned'
    BY <1>2, StoreKept DEF LListEmpty, LInv, StoreType
  <2>4. RunSane(r)'
    <3>1. Generation(parent[r]) <= seen[r] /\ seen'[r] = seen[r] /\ parent'[r] = parent[r]
      BY <1>2, ListedFacts, RunFacts DEF LListEmpty, LocalType
    <3> QED BY <1>2, <3>1, RunFacts, RunKeeps DEF LListEmpty, LocalType
  <2> QED BY <1>2, <2>1, <2>2, <2>3, <2>4, StepKeeps DEF LListEmpty
<1>3. CASE LList(r)
  <2>1. LocalType'
    BY <1>3, ListedFacts DEF LList, LInv, LocalType
  <2>2. OthersSame(r)
    BY <1>3 DEF LList, LInv, LocalType, OthersSame
  <2>3. StoreType' /\ StoreOwned'
    BY <1>3, StoreKept DEF LList, LInv, StoreType
  <2>4. RunSane(r)'
    BY <1>3, RunFacts, ListedFacts, RunKeeps DEF LList, LocalType
  <2> QED BY <1>3, <2>1, <2>2, <2>3, <2>4, StepKeeps DEF LList
<1>4. CASE Exists(r)
  <2>1. LocalType'
    BY <1>4 DEF Exists, LInv, LocalType
  <2>2. OthersSame(r)
    BY <1>4 DEF Exists, LInv, LocalType, OthersSame
  <2>3. StoreType' /\ StoreOwned'
    BY <1>4, StoreKept DEF Exists, LInv, StoreType
  <2>4. RunSane(r)'
    BY <1>4, RunFacts, RunStays DEF Exists, LocalType
  <2> QED BY <1>4, <2>1, <2>2, <2>3, <2>4, StepKeeps DEF Exists
<1>5. CASE Absent(r)
  <2>1. LocalType'
    BY <1>5 DEF Absent, LInv, LocalType, ClockType
  <2>2. OthersSame(r)
    BY <1>5 DEF Absent, LInv, LocalType, OthersSame
  <2>3. StoreType' /\ StoreOwned'
    BY <1>5, StoreKept DEF Absent, LInv, StoreType
  <2>4. RunSane(r)'
    BY <1>5, RunFacts, RunStays DEF Absent, LocalType
  <2> QED BY <1>5, <2>1, <2>2, <2>3, <2>4, StepKeeps DEF Absent
<1>6. CASE JudgeAbsentFree(r)
  <2>1. LocalType'
    BY <1>6, ReadingInRange DEF JudgeAbsentFree, LInv, LocalType
  <2>2. OthersSame(r)
    BY <1>6 DEF JudgeAbsentFree, LInv, LocalType, OthersSame
  <2>3. StoreType' /\ StoreOwned'
    BY <1>6, StoreKept DEF JudgeAbsentFree, LInv, StoreType
  <2>4. RunSane(r)'
    BY <1>6, RunFacts, RunStays DEF JudgeAbsentFree, LocalType
  <2> QED BY <1>6, <2>1, <2>2, <2>3, <2>4, StepKeeps DEF JudgeAbsentFree
<1>7. CASE LRead(r)
  <2>1. LocalType'
    <3>1. object[seen[r]] \in Object /\ time \in 0..MaxTime
      BY <1>7 DEF LRead, Read, LInv, StoreType, ClockType
    <3>2. copy' \in [Run -> Object] /\ looked' \in [Run -> 0..MaxTime]
      BY <1>7, <3>1 DEF LRead, Read, LInv, LocalType
    <3> QED BY <1>7, <3>2 DEF LRead, Read, LInv, LocalType
  <2>2. OthersSame(r)
    BY <1>7 DEF LRead, Read, LInv, LocalType, OthersSame
  <2>3. StoreType' /\ StoreOwned'
    BY <1>7, StoreKept DEF LRead, Read, LInv, StoreType
  <2>4. RunSane(r)'
    BY <1>7, RunFacts, RunStays DEF LRead, Read, LocalType
  <2> QED BY <1>7, <2>1, <2>2, <2>3, <2>4, StepKeeps DEF LRead, Read
<1>8. CASE LJudgeFree(r)
  <2>1. LocalType'
    <3>1. copy' \in [Run -> Object]
      BY <1>8, Zero DEF LJudgeFree, JudgeFree, LInv, LocalType
    <3> QED BY <1>8, <3>1, ReadingInRange DEF LJudgeFree, JudgeFree, LInv, LocalType
  <2>2. OthersSame(r)
    BY <1>8 DEF LJudgeFree, JudgeFree, LInv, LocalType, OthersSame
  <2>3. StoreType' /\ StoreOwned'
    BY <1>8, StoreKept DEF LJudgeFree, JudgeFree, LInv, StoreType
  <2>4. RunSane(r)'
    BY <1>8, RunFacts, RunStays DEF LJudgeFree, JudgeFree, LocalType
  <2> QED BY <1>8, <2>1, <2>2, <2>3, <2>4, StepKeeps DEF LJudgeFree, JudgeFree
<1> QED BY <1>1, <1>2, <1>3, <1>4, <1>5, <1>6, <1>7, <1>8

\* From the commit to the held lease.
LEMMA AcquiringKeeps ==
    ASSUME LInv, NEW r \in Run,
           \/ UnclearWon(r)
           \/ Confirm(r)
           \/ LStoreAnchor(r)
           \/ LStoreMarker(r)
           \/ StatAndList(r)
           \/ PruneKeep(r) /\ UNCHANGED ledgerVars
           \/ PruneMarker(r) /\ UNCHANGED ledgerVars
           \/ PruneObject(r) /\ UNCHANGED ledgerVars
           \/ Hold(r) /\ UNCHANGED ledgerVars
    PROVE  LInv'
<1> USE DEF look, local, thread, store, ledgerVars, Move, LPC, PC, Acquiring, Pruning,
            Holding, Releasing, Ended, Putting, Asking
<1>1. CASE UnclearWon(r)
  <2>1. LocalType'
    BY <1>1 DEF UnclearWon, LInv, LocalType
  <2>2. OthersSame(r)
    BY <1>1 DEF UnclearWon, LInv, LocalType, OthersSame
  <2>3. StoreType' /\ StoreOwned'
    BY <1>1, StoreKept DEF UnclearWon, LInv, StoreType
  <2>4. RunSane(r)'
    <3>1. Gave(r, generation[r])
      BY <1>1, NamesGives DEF UnclearWon
    <3>2. 0 <= Len(ledger)
      BY LengthType
    <3> QED BY <1>1, <3>1, <3>2, RunFacts, RunKeeps DEF UnclearWon, LocalType
  <2> QED BY <1>1, <2>1, <2>2, <2>3, <2>4, StepKeeps DEF UnclearWon
<1>2. CASE Confirm(r)
  <2>1. LocalType'
    BY <1>2, NamedType DEF Confirm, LInv, LocalType
  <2>2. OthersSame(r)
    BY <1>2 DEF Confirm, LInv, LocalType, OthersSame
  <2>3. StoreType' /\ StoreOwned'
    BY <1>2, StoreKept DEF Confirm, LInv, StoreType
  <2>4. RunSane(r)'
    BY <1>2, RunFacts, RunStays DEF Confirm, LocalType
  <2> QED BY <1>2, <2>1, <2>2, <2>3, <2>4, StepKeeps DEF Confirm
<1>3. CASE LStoreAnchor(r)
  <2>1. LocalType'
    BY <1>3, NamedType DEF LStoreAnchor, StoreAnchor, LInv, LocalType
  <2>2. OthersSame(r)
    BY <1>3 DEF LStoreAnchor, StoreAnchor, LInv, LocalType, OthersSame
  <2>3. StoreType' /\ StoreOwned'
    BY <1>3, PutterFacts, StoreKept DEF LStoreAnchor, StoreAnchor, LInv, StoreType
  <2>4. RunSane(r)'
    BY <1>3, RunFacts, RunStays DEF LStoreAnchor, StoreAnchor, LocalType
  <2> QED BY <1>3, <2>1, <2>2, <2>3, <2>4, StepKeeps DEF LStoreAnchor, StoreAnchor
<1>4. CASE LStoreMarker(r)
  <2>1. LocalType'
    BY <1>4, NamedType DEF LStoreMarker, StoreMarker, Unname, LInv, LocalType
  <2>2. OthersSame(r)
    BY <1>4 DEF LStoreMarker, StoreMarker, Unname, LInv, LocalType, OthersSame
  <2>3. StoreType' /\ StoreOwned'
    BY <1>4, PutterFacts, StoreKept DEF LStoreMarker, StoreMarker, Unname, LInv, StoreType
  <2>4. RunSane(r)'
    BY <1>4, RunFacts, RunStays DEF LStoreMarker, StoreMarker, Unname, LocalType
  <2> QED BY <1>4, <2>1, <2>2, <2>3, <2>4, StepKeeps DEF LStoreMarker, StoreMarker, Unname
<1>5. CASE StatAndList(r)
  <2>1. LocalType'
    BY <1>5, NamedType DEF StatAndList, Unname, LInv, LocalType, StoreType
  <2>2. OthersSame(r)
    BY <1>5 DEF StatAndList, Unname, LInv, LocalType, OthersSame
  <2>3. StoreType' /\ StoreOwned'
    BY <1>5, StoreKept DEF StatAndList, Unname, LInv, StoreType
  <2>4. RunSane(r)'
    BY <1>5, RunFacts, RunStays DEF StatAndList, Unname, LocalType
  <2> QED BY <1>5, <2>1, <2>2, <2>3, <2>4, StepKeeps DEF StatAndList, Unname
<1>6. CASE PruneKeep(r) /\ UNCHANGED ledgerVars
  <2>1. LocalType'
    BY <1>6 DEF PruneKeep, Forget, LInv, LocalType
  <2>2. OthersSame(r)
    BY <1>6 DEF PruneKeep, Forget, LInv, LocalType, OthersSame
  <2>3. StoreType' /\ StoreOwned'
    BY <1>6, StoreKept DEF PruneKeep, Forget, LInv, StoreType
  <2>4. RunSane(r)'
    BY <1>6, RunFacts, RunStays DEF PruneKeep, Forget, LocalType
  <2> QED BY <1>6, <2>1, <2>2, <2>3, <2>4, StepKeeps DEF PruneKeep, Forget
<1>7. CASE PruneMarker(r) /\ UNCHANGED ledgerVars
  <2>1. LocalType'
    BY <1>7 DEF PruneMarker, LInv, LocalType
  <2>2. OthersSame(r)
    BY <1>7 DEF PruneMarker, LInv, LocalType, OthersSame
  <2>3. StoreType' /\ StoreOwned'
    BY <1>7, StoreKept DEF PruneMarker, LInv, StoreType
  <2>4. RunSane(r)'
    BY <1>7, RunFacts, RunStays DEF PruneMarker, LocalType
  <2> QED BY <1>7, <2>1, <2>2, <2>3, <2>4, StepKeeps DEF PruneMarker
<1>8. CASE PruneObject(r) /\ UNCHANGED ledgerVars
  <2>1. LocalType'
    BY <1>8 DEF PruneObject, Forget, Prunable, LInv, LocalType
  <2>2. OthersSame(r)
    BY <1>8 DEF PruneObject, Forget, Prunable, LInv, LocalType, OthersSame
  <2>3. StoreType' /\ StoreOwned'
    BY <1>8, StoreKept DEF PruneObject, Forget, Prunable, LInv, StoreType
  <2>4. RunSane(r)'
    BY <1>8, RunFacts, RunStays DEF PruneObject, Forget, Prunable, LocalType
  <2> QED BY <1>8, <2>1, <2>2, <2>3, <2>4, StepKeeps DEF PruneObject, Forget, Prunable
<1>9. CASE Hold(r) /\ UNCHANGED ledgerVars
  <2>1. LocalType'
    BY <1>9 DEF Hold, LInv, LocalType
  <2>2. OthersSame(r)
    BY <1>9 DEF Hold, LInv, LocalType, OthersSame
  <2>3. StoreType' /\ StoreOwned'
    BY <1>9, StoreKept DEF Hold, LInv, StoreType
  <2>4. RunSane(r)'
    BY <1>9, RunFacts, RunStays DEF Hold, LocalType
  <2> QED BY <1>9, <2>1, <2>2, <2>3, <2>4, StepKeeps DEF Hold
<1> QED BY <1>1, <1>2, <1>3, <1>4, <1>5, <1>6, <1>7, <1>8, <1>9

\* The held lease, but for its puts.
LEMMA HoldingKeeps ==
    ASSUME LInv, NEW r \in Run,
           \/ RenewRead(r) /\ UNCHANGED ledgerVars
           \/ RenewFails(r) /\ UNCHANGED ledgerVars
           \/ AssertNext(r) /\ Unname(r)
           \/ AssertOwn(r) /\ Unname(r)
           \/ AssertClock(r) /\ Unname(r)
           \/ AssertLost(r) /\ Unname(r)
           \/ LFinish(r)
           \/ ReleaseStop(r) /\ UNCHANGED ledgerVars
           \/ LTrigger(r)
    PROVE  LInv'
<1> USE DEF look, local, thread, store, ledgerVars, Move, LPC, PC, Acquiring, Pruning,
            Holding, Releasing, Ended, Putting, Asking
<1>1. CASE RenewRead(r) /\ UNCHANGED ledgerVars
  <2>1. LocalType'
    BY <1>1, ReadingInRange DEF RenewRead, LInv, LocalType
  <2>2. OthersSame(r)
    BY <1>1 DEF RenewRead, LInv, LocalType, OthersSame
  <2>3. StoreType' /\ StoreOwned'
    BY <1>1, StoreKept DEF RenewRead, LInv, StoreType
  <2>4. RunSane(r)'
    BY <1>1, RunFacts, RunStays DEF RenewRead, LocalType
  <2> QED BY <1>1, <2>1, <2>2, <2>3, <2>4, StepKeeps DEF RenewRead
<1>2. CASE RenewFails(r) /\ UNCHANGED ledgerVars
  <2>1. LocalType'
    BY <1>2, Zero DEF RenewFails, LInv, LocalType
  <2>2. OthersSame(r)
    BY <1>2 DEF RenewFails, LInv, LocalType, OthersSame
  <2>3. StoreType' /\ StoreOwned'
    BY <1>2, StoreKept DEF RenewFails, LInv, StoreType
  <2>4. RunSane(r)'
    BY <1>2, RunFacts, RunStays DEF RenewFails, LocalType
  <2> QED BY <1>2, <2>1, <2>2, <2>3, <2>4, StepKeeps DEF RenewFails
<1>3. CASE AssertNext(r) /\ Unname(r)
  <2>1. LocalType'
    BY <1>3, NamedType DEF AssertNext, Unname, LInv, LocalType
  <2>2. OthersSame(r)
    BY <1>3 DEF AssertNext, Unname, LInv, LocalType, OthersSame
  <2>3. StoreType' /\ StoreOwned'
    BY <1>3, StoreKept DEF AssertNext, Unname, LInv, StoreType
  <2>4. RunSane(r)'
    BY <1>3, RunFacts, RunStays DEF AssertNext, Unname, LocalType
  <2> QED BY <1>3, <2>1, <2>2, <2>3, <2>4, StepKeeps DEF AssertNext, Unname
<1>4. CASE AssertOwn(r) /\ Unname(r)
  <2>1. LocalType'
    BY <1>4, NamedType, PutterFacts DEF AssertOwn, Unname, LInv, LocalType, StoreType, Object
  <2>2. OthersSame(r)
    BY <1>4 DEF AssertOwn, Unname, LInv, LocalType, OthersSame
  <2>3. StoreType' /\ StoreOwned'
    BY <1>4, StoreKept DEF AssertOwn, Unname, LInv, StoreType
  <2>4. RunSane(r)'
    BY <1>4, RunFacts, RunStays DEF AssertOwn, Unname, LocalType
  <2> QED BY <1>4, <2>1, <2>2, <2>3, <2>4, StepKeeps DEF AssertOwn, Unname
<1>5. CASE AssertClock(r) /\ Unname(r)
  <2>1. LocalType'
    BY <1>5, NamedType, Zero DEF AssertClock, Unname, LInv, LocalType
  <2>2. OthersSame(r)
    BY <1>5 DEF AssertClock, Unname, LInv, LocalType, OthersSame
  <2>3. StoreType' /\ StoreOwned'
    BY <1>5, StoreKept DEF AssertClock, Unname, LInv, StoreType
  <2>4. RunSane(r)'
    BY <1>5, RunFacts, RunStays DEF AssertClock, Unname, LocalType
  <2> QED BY <1>5, <2>1, <2>2, <2>3, <2>4, StepKeeps DEF AssertClock, Unname
<1>6. CASE AssertLost(r) /\ Unname(r)
  <2>1. LocalType'
    BY <1>6, NamedType, Zero DEF AssertLost, Unname, LInv, LocalType
  <2>2. OthersSame(r)
    BY <1>6 DEF AssertLost, Unname, LInv, LocalType, OthersSame
  <2>3. StoreType' /\ StoreOwned'
    BY <1>6, StoreKept DEF AssertLost, Unname, LInv, StoreType
  <2>4. RunSane(r)'
    BY <1>6, RunFacts, RunStays DEF AssertLost, Unname, LocalType
  <2> QED BY <1>6, <2>1, <2>2, <2>3, <2>4, StepKeeps DEF AssertLost, Unname
<1>7. CASE LFinish(r)
  <2>1. LocalType'
    BY <1>7 DEF LFinish, Finish, LInv, LocalType
  <2>2. OthersSame(r)
    BY <1>7 DEF LFinish, Finish, LInv, LocalType, OthersSame
  <2>3. StoreType' /\ StoreOwned'
    BY <1>7, StoreKept DEF LFinish, Finish, LInv, StoreType
  <2>4. RunSane(r)'
    BY <1>7, RunFacts, RunStays DEF LFinish, Finish, LocalType
  <2> QED BY <1>7, <2>1, <2>2, <2>3, <2>4, StepKeeps DEF LFinish, Finish
<1>8. CASE ReleaseStop(r) /\ UNCHANGED ledgerVars
  <2>1. LocalType'
    BY <1>8 DEF ReleaseStop, LInv, LocalType
  <2>2. OthersSame(r)
    BY <1>8 DEF ReleaseStop, LInv, LocalType, OthersSame
  <2>3. StoreType' /\ StoreOwned'
    BY <1>8, StoreKept DEF ReleaseStop, LInv, StoreType
  <2>4. RunSane(r)'
    BY <1>8, RunFacts, RunStays DEF ReleaseStop, LocalType
  <2> QED BY <1>8, <2>1, <2>2, <2>3, <2>4, StepKeeps DEF ReleaseStop
<1>9. CASE LTrigger(r)
  <2>1. LocalType'
    BY <1>9 DEF LTrigger, Trigger, LInv, LocalType
  <2>2. OthersSame(r)
    BY <1>9 DEF LTrigger, Trigger, LInv, LocalType, OthersSame
  <2>3. StoreType' /\ StoreOwned'
    BY <1>9, StoreKept DEF LTrigger, Trigger, LInv, StoreType
  <2>4. RunSane(r)'
    BY <1>9, RunFacts, RunStays DEF LTrigger, Trigger, LocalType
  <2> QED BY <1>9, <2>1, <2>2, <2>3, <2>4, StepKeeps DEF LTrigger, Trigger
<1> QED BY <1>1, <1>2, <1>3, <1>4, <1>5, <1>6, <1>7, <1>8, <1>9

\* The puts of a run that goes on: its generation object, a renewal, the
\* release.
LEMMA PuttingKeeps ==
    ASSUME LInv, NEW r \in Run,
           \/ PutObject(r)
           \/ RenewPut(r) /\ UNCHANGED ledgerVars
           \/ ReleasePut(r) /\ UNCHANGED ledgerVars
    PROVE  LInv'
<1> USE DEF look, local, thread, ledgerVars, Move, LPC, PC, Acquiring, Pruning,
            Holding, Releasing, Ended, Putting, Asking
<1>1. pc[r] \in Putting
  BY RunFacts DEF PutObject, RenewPut, ReleasePut
<1>2. Gave(r, generation[r]) /\ generation[r] \in Gen
  BY <1>1, PutterFacts
<1>3. PICK c \in Object :
        /\ c.run = r /\ stored' = stored \cup {generation[r]}
        /\ object' = [object EXCEPT ![generation[r]] = c]
  BY RunFacts DEF PutObject, GatewayPut, RenewPut, ReleasePut, PutOwn, LocalType, Object
<1>4. UNCHANGED <<time, skew, ledger, floating, anchored, marked, seized>> /\ Observe
  BY DEF PutObject, GatewayPut, RenewPut, ReleasePut, PutOwn
<1>5. top' \in 0..MaxGen
  BY <1>2, LeaseConstants
     DEF LInv, StoreType, Gen, PutObject, GatewayPut, RenewPut, ReleasePut, PutOwn
<1>6. StoreType' /\ StoreOwned'
  BY <1>2, <1>3, <1>4, <1>5, OwnPut DEF LInv, StoreType
<1>7. LocalType'
  <2>1. CASE PutObject(r) \/ (ReleasePut(r) /\ UNCHANGED ledgerVars)
    BY <2>1, RunFacts DEF LocalType, PutObject, ReleasePut
  <2>2. CASE RenewPut(r) /\ UNCHANGED ledgerVars
    BY <2>2, RunFacts, Zero DEF LocalType, RenewPut
  <2> QED BY <2>1, <2>2
<1>8. OthersSame(r)
  <2>1. CASE PutObject(r) \/ (ReleasePut(r) /\ UNCHANGED ledgerVars)
    BY <2>1, RunFacts DEF LocalType, OthersSame, PutObject, ReleasePut
  <2>2. CASE RenewPut(r) /\ UNCHANGED ledgerVars
    <3>1. \A s \in Run \ {r} : expires'[s] = expires[s]
      BY <2>2, RunFacts DEF LocalType, RenewPut
    <3> QED BY <2>2, <3>1, RunFacts DEF LocalType, OthersSame, RenewPut
  <2> QED BY <2>1, <2>2
<1>9. RunSane(r)'
  BY RunFacts, RunStays DEF LocalType, PutObject, RenewPut, ReleasePut
<1> QED BY <1>4, <1>6, <1>7, <1>8, <1>9, StepKeeps

\* The puts of a run that ends with them.
LEMMA FailedPutKeeps ==
    ASSUME LInv, NEW r \in Run, PutObjectFails(r) \/ LStoreFails(r)
    PROVE  LInv'
<1> USE DEF store, Move, Putting
<1>1. PICK f \in {"bucket", "anchor", "marker"} : Exit(r, f, "failed")
  BY DEF PutObjectFails, LStoreFails, StoreFails
<1>2. pc[r] = f
  BY <1>1 DEF Exit
<1>3. f \in Putting \cup {"marker"}
  BY <1>1
<1>4. Forgotten(r) \/ Unname(r)
  BY DEF PutObjectFails, LStoreFails
<1>5. UNCHANGED <<time, skew, ledger, floating, anchored, marked, seized>> /\ Observe
  BY DEF PutObjectFails, LStoreFails, StoreFails, GatewayPut, PutOwn, Unname
<1>6. Gave(r, generation[r]) /\ generation[r] \in Gen
  BY <1>2, <1>3, PutterFacts
<1>7. CASE UNCHANGED store
  <2>1. StoreType' /\ StoreOwned'
    BY <1>5, <1>7, StoreKept DEF LInv, StoreType
  <2> QED BY <1>1, <1>4, <1>5, <2>1, ExitKeeps DEF Ended
<1>8. CASE GatewayPut(r) \/ (\E e \in {expires[r]} : PutOwn(r, e, TRUE))
  <2>1. PICK c \in Object :
        /\ c.run = r /\ stored' = stored \cup {generation[r]}
        /\ object' = [object EXCEPT ![generation[r]] = c]
    BY <1>8, RunFacts DEF GatewayPut, PutOwn, LocalType, Object
  <2>2. top' \in 0..MaxGen
    BY <1>6, <1>8, LeaseConstants DEF LInv, StoreType, Gen, GatewayPut, PutOwn
  <2>3. StoreType' /\ StoreOwned'
    BY <1>5, <1>6, <2>1, <2>2, OwnPut DEF LInv, StoreType
  <2> QED BY <1>1, <1>4, <1>5, <2>3, ExitKeeps DEF Ended
<1> QED BY <1>7, <1>8 DEF PutObjectFails, LStoreFails, StoreFails

\* The steps that end a run without a put of a generation object.
LEMMA EndingKeeps ==
    ASSUME LInv, NEW r \in Run,
           \/ JudgeAbsentHeld(r) \/ LJudgeHeld(r)
           \/ ClaimConflict(r) \/ UnclearLost(r) \/ UnclearFails(r)
           \/ ConfirmFails(r) \/ LedgerDown(r)
    PROVE  LInv'
BY LExitKeeps
   DEF Ended, JudgeAbsentHeld, LJudgeHeld, ClaimConflict, UnclearLost, UnclearFails, ConfirmFails, LedgerDown

LEMMA StoppingKeeps ==
    ASSUME LInv, NEW r \in Run,
           LReadGone(r) \/ LObjectGone(r) \/ StoredTwice(r) \/ LCrash(r)
    PROVE  LInv'
<1> USE DEF store, Ended
<1>1. CASE LObjectGone(r)
  <2>1. StoreType' /\ StoreOwned'
    BY <1>1, StoreKept DEF LObjectGone, ObjectGone, Unname, LInv, StoreType
  <2>2. Exit(r, "stat", "failed") \/ Exit(r, "prune", "failed")
    BY <1>1 DEF LObjectGone, ObjectGone
  <2> QED BY <1>1, <2>1, <2>2, ExitKeeps DEF LObjectGone, ObjectGone, Unname
<1>2. CASE StoredTwice(r)
  <2>1. Exit(r, "anchor", "failed") \/ Exit(r, "marker", "failed")
    BY <1>2 DEF StoredTwice
  <2>2. generation[r] \in Gen
    BY <2>1, PutterFacts DEF Exit, Move, Putting
  <2>3. StoreType' /\ StoreOwned'
    BY <1>2, <2>2, StoreKept DEF StoredTwice, LInv, StoreType
  <2> QED BY <1>2, <2>1, <2>3, ExitKeeps DEF StoredTwice
<1>3. CASE LCrash(r)
  <2>1. StoreType' /\ StoreOwned'
    BY <1>3, StoreKept DEF LCrash, Crash, LInv, StoreType
  <2> QED BY <1>3, <2>1, ExitKeeps DEF LCrash, Crash
<1>4. CASE LReadGone(r)
  <2>1. StoreType' /\ StoreOwned'
    BY <1>4, StoreKept DEF LReadGone, ReadGone, LInv, StoreType
  <2>2. Exit(r, "read", "failed") \/ Exit(r, "judge", "failed")
    BY <1>4 DEF LReadGone, ReadGone
  <2> QED BY <1>4, <2>1, <2>2, ExitKeeps DEF LReadGone, ReadGone
<1> QED BY <1>1, <1>2, <1>3, <1>4

-----------------------------------------------------------------------------
(* The commits                                                             *)

\* A commit of a generation above the last one keeps the ledger in order, and
\* leaves nothing that could land after it.
LEMMA AppendKeeps ==
    ASSUME LInv, NEW entry \in Claimed,
           entry.generation > Generation(Len(ledger)), Append1(entry)
    PROVE  /\ StoreType' /\ LedgerType' /\ Ordered' /\ Floats' /\ StoreOwned' /\ Grown
           /\ Gave(entry.run, entry.generation)'
<1> DEFINE c == [run |-> entry.run, generation |-> entry.generation,
                 expires |-> entry.expires, old |-> entry.old, at |-> time]
<1>1. c \in Commit
  BY DEF Claimed, Commit, LInv, ClockType
<1>2. /\ ledger' = Append(ledger, c) /\ floating' = {}
      /\ UNCHANGED <<stored, object>>
  BY DEF Append1
<1>9. StoreType'
  <2>1. entry.generation \in Gen
    BY DEF Claimed
  <2>2. seized' \subseteq seized \cup {entry.generation}
    BY DEF Append1
  <2> QED BY <2>1, <2>2 DEF Append1, LInv, StoreType
<1>3. c.run = entry.run /\ c.generation = entry.generation
  OBVIOUS
<1> HIDE DEF c
<1>4. /\ ledger' \in Seq(Commit) /\ Len(ledger') = Len(ledger) + 1
      /\ \A n \in 1..Len(ledger) : ledger'[n] = ledger[n]
      /\ ledger'[Len(ledger) + 1] = c
  BY <1>1, <1>2 DEF LInv, LedgerType
<1>5. Grown
  BY <1>4, LengthType DEF Grown
<1>6. Ordered'
  <2> SUFFICES ASSUME NEW m \in 1..Len(ledger'), NEW n \in 1..Len(ledger'), m < n
               PROVE  ledger'[m].generation < ledger'[n].generation
    BY DEF Ordered
  <2>1. m \in 1..Len(ledger) /\ ledger'[m] = ledger[m]
    BY <1>4, LengthType
  <2>2. CASE n \in 1..Len(ledger)
    BY <1>4, <2>1, <2>2 DEF LInv, Ordered
  <2>3. CASE n = Len(ledger) + 1
    <3>1. ledger[m].generation <= Generation(Len(ledger))
      BY <2>1, LastIsLargest
    <3>2. ledger[m].generation \in Nat /\ Generation(Len(ledger)) \in Nat
      <4>1. ledger[m].generation \in Gen
        BY <2>1, CommitType
      <4>2. Generation(Len(ledger)) \in 0..MaxGen
        BY GenerationType, LengthType
      <4> QED BY <4>1, <4>2 DEF Gen
    <3>3. entry.generation \in Nat
      BY DEF Claimed, Gen
    <3> QED BY <1>3, <1>4, <2>1, <2>3, <3>1, <3>2, <3>3
  <2> QED BY <1>4, <2>2, <2>3, LengthType
<1>7. StoreOwned'
  <2>1. \A g \in stored : Gave(object[g].run, g)
    BY DEF LInv, StoreOwned
  <2>2. \A run, g : Gave(run, g) => \E n \in 1..Len(ledger') :
            ledger'[n].run = run /\ ledger'[n].generation = g
    BY <1>5, LengthType DEF Grown, Gave
  <2> QED BY <1>2, <2>1, <2>2 DEF StoreOwned, Gave
<1>8. Gave(entry.run, entry.generation)'
  BY <1>3, <1>4, LengthType DEF Gave
<1> QED BY <1>2, <1>4, <1>5, <1>6, <1>7, <1>8, <1>9 DEF LedgerType, Floats

\* A run asks for a generation above the head that it read.
LEMMA ClaimedIsNew ==
    ASSUME LInv, NEW r \in Run, seen[r] + 1 \in Gen, pc[r] = "create"
    PROVE  /\ Entry(r) \in Claimed /\ Entry(r).run = r
           /\ Entry(r).generation = seen[r] + 1
           /\ parent[r] = Len(ledger) => Entry(r).generation > Generation(Len(ledger))
<1>1. /\ Entry(r) \in Claimed /\ Entry(r).run = r
      /\ Entry(r).generation = seen[r] + 1
  <2>1. OldLook(r) \in BOOLEAN
    BY DEF OldLook
  <2> QED BY <2>1, RunFacts DEF Entry, Claimed, LocalType
<1>2. parent[r] = Len(ledger) => seen[r] + 1 > Generation(Len(ledger))
  <2>1. Generation(parent[r]) <= seen[r] /\ seen[r] \in Nat
    BY DEF LInv, RunSane, Asking, LocalType
  <2>2. Generation(Len(ledger)) \in Nat
    BY GenerationType, LengthType
  <2> QED BY <2>1, <2>2
<1> QED BY <1>1, <1>2

\* What a run asks for, and what the step that asks does besides.
LEMMA AskFacts ==
    ASSUME LInv, NEW r \in Run, NEW t \in {"bucket", "unclear"}, Ask(r, t),
           StoreType',
           parent' = parent \/ parent' = [parent EXCEPT ![r] = 0]
    PROVE  /\ Entry(r) \in Claimed /\ Entry(r).run = r
           /\ Entry(r).generation = generation'[r]
           /\ parent[r] = Len(ledger) => Entry(r).generation > Generation(Len(ledger))
           /\ ClockType' /\ LocalType' /\ OthersSame(r)
           /\ pc'[r] = t /\ beat'[r] = "off" /\ parent'[r] <= Len(ledger)
<1> USE DEF Ask, Move, look, local, thread, store
<1>1. /\ Entry(r) \in Claimed /\ Entry(r).run = r
      /\ Entry(r).generation = seen[r] + 1
      /\ parent[r] = Len(ledger) => Entry(r).generation > Generation(Len(ledger))
  BY ClaimedIsNew
<1>2. generation'[r] = seen[r] + 1
  BY RunFacts DEF LocalType
<1>4. ClockType'
  BY ObserveType DEF LInv, ClockType, StoreType
<1>5. LocalType'
  <2>1. parent' \in [Run -> Nat] /\ t \in LPC
    BY RunFacts DEF LocalType, LPC
  <2>2. seen[r] + 1 \in 0..MaxGen
    BY DEF Gen
  <2> QED BY <2>1, <2>2, RunFacts, Zero DEF LocalType
<1>6. OthersSame(r) /\ pc'[r] = t
  BY RunFacts DEF LocalType, OthersSame
<1>7. beat'[r] = "off" /\ parent'[r] <= Len(ledger)
  <2>1. pc[r] = "create" /\ beat' = beat
    OBVIOUS
  <2>2. beat[r] = "off"
    BY <2>1, RunFacts DEF LocalType, Holding
  <2>3. parent[r] \in Nat /\ parent[r] <= Len(ledger) /\ parent \in [Run -> Nat]
    BY RunFacts DEF LocalType
  <2> QED BY <2>1, <2>2, <2>3, LengthType
<1> QED BY <1>1, <1>2, <1>4, <1>5, <1>6, <1>7

LEMMA ClaimKeeps ==
    ASSUME LInv, NEW r \in Run, Claim(r)
    PROVE  LInv'
<1>1. Ask(r, "bucket") /\ Append1(Entry(r)) /\ parent[r] = Len(ledger)
      /\ parent' = [parent EXCEPT ![r] = 0]
  BY DEF Claim, Parented
<1>2. Entry(r) \in Claimed /\ Entry(r).generation > Generation(Len(ledger))
  BY <1>1, ClaimedIsNew DEF Ask, Move
<1>3. PICK entry \in Claimed : entry = Entry(r)
  BY <1>2
<1>4. /\ StoreType' /\ LedgerType' /\ Ordered' /\ Floats' /\ StoreOwned' /\ Grown
      /\ Gave(entry.run, entry.generation)'
  BY <1>1, <1>2, <1>3, AppendKeeps
<1>5. /\ Entry(r).run = r /\ Entry(r).generation = generation'[r]
      /\ ClockType' /\ LocalType' /\ OthersSame(r)
      /\ pc'[r] = "bucket" /\ beat'[r] = "off"
  BY <1>1, <1>4, AskFacts
<1>6. \A s \in Run \ {r} : RunSane(s)'
  BY <1>4, <1>5, StaysSane DEF OthersSame
<1>7. RunSane(r)'
  <2>1. parent'[r] = 0 /\ 0 <= Len(ledger')
    BY <1>1, <1>4, RunFacts, LengthType DEF LocalType, Grown
  <2>2. Gave(r, generation[r])'
    BY <1>3, <1>4, <1>5 DEF Gave
  <2> QED BY <1>5, <2>1, <2>2 DEF RunSane, Asking
<1> QED BY <1>4, <1>5, <1>6, <1>7 DEF LInv

LEMMA UnclearKeeps ==
    ASSUME LInv, NEW r \in Run, ClaimUnclear(r)
    PROVE  LInv'
<1>1. /\ Ask(r, "unclear") /\ UNCHANGED <<ledger, parent, stored, object>>
      /\ floating' = IF Parented(r) THEN floating \cup {Entry(r)} ELSE floating
      /\ StoreType'
  BY DEF ClaimUnclear, store, LInv, StoreType
<1>2. /\ Entry(r) \in Claimed
      /\ Parented(r) => Entry(r).generation > Generation(Len(ledger))
      /\ ClockType' /\ LocalType' /\ OthersSame(r)
      /\ pc'[r] = "unclear" /\ beat'[r] = "off" /\ parent'[r] <= Len(ledger)
  BY <1>1, AskFacts DEF Parented
<1>3. Grown
  BY <1>1, SameLedger
<1>4. LedgerType' /\ Ordered' /\ StoreOwned'
  BY <1>1, <1>2, StoreKept DEF LInv, LedgerType, Ordered
<1>5. Floats'
  <2>1. \A entry \in floating' : entry.generation > Generation(Len(ledger))
    BY <1>1, <1>2 DEF LInv, Floats
  <2> QED BY <1>1, <2>1 DEF Floats, Generation
<1>6. \A s \in Run \ {r} : RunSane(s)'
  BY <1>2, <1>3, StaysSane DEF OthersSame
<1>7. RunSane(r)'
  BY <1>1, <1>2 DEF RunSane, Asking, Putting, Pruning, Holding, Releasing
<1> QED BY <1>1, <1>2, <1>4, <1>5, <1>6, <1>7 DEF LInv

\* A commit lands after its run was told of an error.
LEMMA LandKeeps ==
    ASSUME LInv, NEW entry \in floating, Land(entry)
    PROVE  LInv'
<1> USE DEF Land, store, look, local, thread
<1>1. entry \in Claimed /\ entry.generation > Generation(Len(ledger))
  BY DEF LInv, LedgerType, Floats
<1>2. /\ StoreType' /\ LedgerType' /\ Ordered' /\ Floats' /\ StoreOwned'
      /\ Grown
  BY <1>1, AppendKeeps
<1>3. \A s \in Run : RunSane(s)'
  BY <1>2, StaysSane
<1>4. ClockType' /\ LocalType'
  BY <1>2, ObserveType DEF LInv, ClockType, StoreType, LocalType
<1> QED BY <1>2, <1>3, <1>4 DEF LInv

-----------------------------------------------------------------------------
(* Every step                                                              *)

LEMMA IdleKeeps ==
    ASSUME LInv, UNCHANGED <<skew, store, pc, local, thread, ledgerVars>>,
           time' \in 0..MaxTime, over' \subseteq Gen, late' \subseteq Gen
    PROVE  LInv'
<1> USE DEF store, look, local, thread, ledgerVars
<1>1. Grown
  BY SameLedger
<1>2. \A s \in Run : RunSane(s)'
  BY <1>1, StaysSane
<1>3. ClockType' /\ StoreType' /\ LocalType'
  BY DEF LInv, ClockType, StoreType, LocalType
<1>4. LedgerType' /\ Ordered' /\ Floats' /\ StoreOwned'
  BY StoreKept DEF LInv, LedgerType, Ordered, Floats, Generation
<1> QED BY <1>2, <1>3, <1>4 DEF LInv

LEMMA LStep == LInv /\ [LNext]_allVars => LInv'
<1> SUFFICES ASSUME LInv, [LNext]_allVars PROVE LInv'
  OBVIOUS
<1>1. CASE UNCHANGED allVars
  <2>1. time' \in 0..MaxTime /\ over' \subseteq Gen /\ late' \subseteq Gen
    BY <1>1 DEF allVars, vars, LInv, ClockType
  <2> QED BY <1>1, <2>1, IdleKeeps DEF allVars, vars
<1>2. CASE LTick
  <2>1. time' \in 0..MaxTime
    BY <1>2, LeaseConstants DEF LTick, Tick, LInv, ClockType
  <2>2. over' \subseteq Gen /\ late' \subseteq Gen
    BY <1>2, ObserveType DEF LTick, Tick, store, LInv, StoreType
  <2> QED BY <1>2, <2>1, <2>2, IdleKeeps DEF LTick, Tick
<1>3. CASE \E entry \in floating : Land(entry)
  BY <1>3, LandKeeps
<1>4. ASSUME NEW r \in Run,
             \/ LAcquire(r) \/ LFault(r) \/ LHeartbeat(r) \/ LAssertHeld(r)
             \/ LFinish(r) \/ LRelease(r) \/ LTrigger(r)
      PROVE  LInv'
  <2>1. CASE LAcquire(r)
    BY <2>1, ReadingKeeps, EndingKeeps, ClaimKeeps, AcquiringKeeps, PuttingKeeps,
       StoppingKeeps
       DEF LAcquire, LPrune
  <2>2. CASE LFault(r)
    BY <2>2, UnclearKeeps, FailedPutKeeps, EndingKeeps, StoppingKeeps DEF LFault
  <2>3. CASE LHeartbeat(r)
    BY <2>3, HoldingKeeps, PuttingKeeps DEF LHeartbeat
  <2>4. CASE LAssertHeld(r)
    BY <2>4, HoldingKeeps DEF LAssertHeld
  <2>5. CASE LFinish(r) \/ LTrigger(r)
    BY <2>5, HoldingKeeps
  <2>6. CASE LRelease(r)
    BY <2>6, HoldingKeeps, PuttingKeeps DEF LRelease
  <2> QED BY <1>4, <2>1, <2>2, <2>3, <2>4, <2>5, <2>6
<1> QED BY <1>1, <1>2, <1>3, <1>4 DEF LNext

LEMMA LInitial == LInit => LInv
<1> SUFFICES ASSUME LInit PROVE LInv
  OBVIOUS
<1> USE DEF LInit, Init
<1>1. ClockType /\ StoreType
  <2>1. skew \in [Run -> 0..MaxSkew] /\ object \in [Gen -> Object]
    BY Zero, LeaseConstants
  <2> QED BY <2>1, Zero, LeaseConstants DEF ClockType, StoreType
<1>2. LocalType
  <2>1. copy \in [Run -> Object]
    BY Zero
  <2> QED BY <2>1, Zero DEF LocalType, LPC, PC
<1>3. ledger = <<>> /\ Len(ledger) = 0
  OBVIOUS
<1>4. LedgerType /\ Ordered /\ Floats /\ StoreOwned
  BY <1>3 DEF LedgerType, Ordered, Floats, StoreOwned
<1>5. \A r \in Run : RunSane(r)
  BY <1>3 DEF RunSane, Asking, Putting, Pruning, Holding, Releasing
<1> QED BY <1>1, <1>2, <1>4, <1>5 DEF LInv

\* Type correctness: no step of any run, and no commit that lands late, leaves
\* the ranges of the state.
THEOREM LedgerTypeCorrect == LSpec => []LTypeOK
<1>1. LInv => LTypeOK
  BY DEF LInv, LTypeOK, ClockType, StoreType, LocalType, LedgerType, LPC, Claimed
<1> QED BY <1>1, LInitial, LStep, PTL DEF LSpec

\* The parent check makes the ledger one chain, and every generation object is
\* the one of the run that the ledger gave its generation to, though the put
\* of that object is not atomic.
THEOREM LedgerIsTheFence == LSpec => []BucketFollowsLedger
<1>1. LInv => BucketFollowsLedger
  <2> SUFFICES ASSUME LInv PROVE BucketFollowsLedger
    OBVIOUS
  <2>1. DOMAIN ledger = 1..Len(ledger) /\ Len(ledger) \in Nat
    BY DEF LInv, LedgerType
  <2>2. \A n \in DOMAIN ledger : Generation(n) = ledger[n].generation
    BY <2>1 DEF Generation
  <2> QED BY <2>1, <2>2 DEF LInv, Ordered, StoreOwned, Gave, BucketFollowsLedger
<1> QED BY <1>1, LInitial, LStep, PTL DEF LSpec

=============================================================================
