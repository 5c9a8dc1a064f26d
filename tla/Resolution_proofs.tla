-------------------------- MODULE Resolution_proofs --------------------------
(***************************************************************************)
(* Proofs about the review of entity links: its types, and for every       *)
(* number of records, decisions, requests and versions that a held pair is *)
(* never accepted, that only people link a record twice, and that a        *)
(* request is applied once.                                                *)
(***************************************************************************)
EXTENDS Resolution, SequenceTheorems, TLAPS

-----------------------------------------------------------------------------
(* What each catalog keeps to.                                             *)

LinksOnce(c) == \A l, m \in c.links : l.pair = m.pair => l = m

HeldApart(c) == \A l \in c.links : l.accepted_by = "recommended" => l.pair \notin c.held

OneEach(c) == \A l, m \in c.links : l.accepted_by # "hand" => ~Competes(l.pair, m.pair)

Sound(c) == LinksOnce(c) /\ HeldApart(c) /\ OneEach(c)

\* No link of d is new and of a batch that c has applied.
Follows(c, d) == \A i \in c.applied : \A l \in d.links \ c.links : l.batch # BatchOf(i)

VersionsSound ==
    /\ \A v \in 1..Len(versions) : Sound(versions[v])
    /\ \A v \in 2..Len(versions) : Follows(versions[v - 1], versions[v])

RunSound ==
    /\ run.step # "idle" => Sound(run.work)
    /\ run.step \in {"begun", "loaded"} => run.work = Current
    /\ run.step = "resolved" => Follows(Current, run.work)

ResolutionInv == TypeOK /\ VersionsSound /\ RunSound

-----------------------------------------------------------------------------
(* The links of a pass.                                                    *)

LEMMA CompetesBothWays == \A p, q : Competes(p, q) <=> Competes(q, p)
  BY DEF Competes

\* What each of the four kinds of links is.
LEMMA HandLink ==
    ASSUME NEW n, NEW known, NEW l \in HandLinks(n, known)
    PROVE  /\ l = [pair |-> l.pair, accepted_by |-> "hand", batch |-> NoBatch]
           /\ l.pair \in Pair /\ l.accepted_by = "hand" /\ l.batch = NoBatch
  BY DEF HandLinks

LEMMA AutoLink ==
    ASSUME NEW n, NEW scores, NEW kept, NEW l \in AutoLinks(scores, n, kept)
    PROVE  /\ l = [pair |-> l.pair, accepted_by |-> "auto", batch |-> NoBatch]
           /\ l.pair \in Pair /\ scores[l.pair] = "auto"
           /\ l.pair \notin Pairs(kept) /\ ~Shadowed(l.pair, kept)
  BY DEF AutoLinks, Open

LEMMA AcceptedLink ==
    ASSUME NEW n, NEW scores, NEW kept, NEW setting, NEW old,
           NEW l \in AcceptedLinks(old, scores, n, kept, setting)
    PROVE  /\ l \in Link /\ l.accepted_by = "recommended"
           /\ l.pair \in Pair /\ scores[l.pair] = "clear"
           /\ l.pair \notin Pairs(kept) /\ ~Shadowed(l.pair, kept)
           /\ l.pair \notin Held(old)
  BY DEF AcceptedLinks, Recommended, Open

LEMMA StayLink ==
    ASSUME NEW n, NEW known, NEW hand, NEW old, NEW l \in Stay(old, n, hand, known)
    PROVE  /\ l \in old.links /\ l \notin Undone(old) /\ l.accepted_by = "recommended"
           /\ l.pair \notin Pairs(hand) /\ ~Shadowed(l.pair, hand)
  BY DEF Stay

LEMMA NotShadowed ==
    ASSUME NEW p, NEW links, ~Shadowed(p, links), NEW m \in links
    PROVE  ~Competes(p, m.pair)
  BY DEF Shadowed, Pairs

LEMMA ScoresApart ==
    ASSUME NEW known, NEW scores \in Scores(known), NEW p \in Pair, NEW q \in Pair,
           scores[p] # "none", scores[q] # "none"
    PROVE  ~Competes(p, q)
  BY DEF Scores

-----------------------------------------------------------------------------
LEMMA PendingBounded ==
    ASSUME requests \in Seq(Request), Len(requests) <= MaxRequest, NEW old, NEW kind
    PROVE  Pending(old, kind) \subseteq 1..MaxRequest
  <1>1. Len(requests) \in Nat /\ MaxRequest \in Nat
    BY ResolutionConstants
  <1> QED
    BY <1>1 DEF Pending

LEMMA ResolvedType ==
    ASSUME requests \in Seq(Request), Len(requests) <= MaxRequest,
           NEW old \in Catalog, NEW n, NEW setting, NEW known, NEW scores
    PROVE  Resolved(old, n, setting, known, scores) \in Catalog
  <1> DEFINE hand == HandLinks(n, known)
             kept == hand \cup Stay(old, n, hand, known)
             all == kept \cup AutoLinks(scores, n, kept)
                         \cup AcceptedLinks(old, scores, n, kept, setting)
  <1>1. old.links \subseteq Link /\ old.held \subseteq Pair /\ old.applied \subseteq 1..MaxRequest
    BY DEF Catalog
  <1>2. hand \subseteq Link
    <2>1. \A l \in hand : l = [pair |-> l.pair, accepted_by |-> "hand", batch |-> NoBatch]
                          /\ l.pair \in Pair
      BY HandLink
    <2> QED
      BY <2>1 DEF Link
  <1>3. Stay(old, n, hand, known) \subseteq Link
    BY <1>1, StayLink
  <1>4. AutoLinks(scores, n, kept) \subseteq Link
    <2> HIDE DEF kept
    <2> SUFFICES ASSUME NEW l \in AutoLinks(scores, n, kept)
                 PROVE  l \in Link
      OBVIOUS
    <2>1. l = [pair |-> l.pair, accepted_by |-> "auto", batch |-> NoBatch] /\ l.pair \in Pair
      BY AutoLink
    <2> QED
      BY <2>1 DEF Link
  <1>5. AcceptedLinks(old, scores, n, kept, setting) \subseteq Link
    BY DEF AcceptedLinks, Recommended
  <1>6. Held(old) \subseteq Pair
    <2>1. \A l \in old.links : l.pair \in Pair
      BY <1>1 DEF Link
    <2> QED
      BY <1>1, <2>1 DEF Held, Pairs, Undone
  <1>7. Applied(old) \subseteq 1..MaxRequest
    BY <1>1, PendingBounded DEF Applied
  <1>8. Resolved(old, n, setting, known, scores)
            = [links |-> all, held |-> Held(old), applied |-> Applied(old)]
    BY DEF Resolved
  <1>9. all \subseteq Link
    BY <1>2, <1>3, <1>4, <1>5
  <1> HIDE DEF all
  <1> QED
    BY <1>6, <1>7, <1>8, <1>9 DEF Catalog

-----------------------------------------------------------------------------
(* A pass makes a sound catalog of a sound one, and applies what is pending.  *)

LEMMA ResolvedLinks ==
    ASSUME NEW old, NEW n, NEW setting, NEW known, NEW scores
    PROVE  LET hand == HandLinks(n, known)
               stay == Stay(old, n, hand, known)
               kept == hand \cup stay
               new == Resolved(old, n, setting, known, scores)
           IN  /\ new.links = hand \cup stay \cup AutoLinks(scores, n, kept)
                                \cup AcceptedLinks(old, scores, n, kept, setting)
               /\ new.held = Held(old) /\ new.applied = Applied(old)
  BY DEF Resolved

LEMMA SamePending ==
    ASSUME NEW old, NEW i \in old.applied
    PROVE  \A kind : i \notin Pending(old, kind)
  BY DEF Pending

LEMMA ResolvedFollows ==
    ASSUME NEW old \in Catalog, NEW n, NEW setting \in Batch \cup {NoBatch}, NEW known, NEW scores,
           setting.by # "request"
    PROVE  Follows(old, Resolved(old, n, setting, known, scores))
  <1> DEFINE hand == HandLinks(n, known)
             stay == Stay(old, n, hand, known)
             kept == hand \cup stay
             auto == AutoLinks(scores, n, kept)
             accepted == AcceptedLinks(old, scores, n, kept, setting)
             new == Resolved(old, n, setting, known, scores)
  <1> SUFFICES ASSUME NEW i \in old.applied, NEW l \in new.links \ old.links
               PROVE  l.batch # BatchOf(i)
    BY DEF Follows
  <1>1. l \in hand \/ l \in stay \/ l \in auto \/ l \in accepted
    BY ResolvedLinks
  <1>2. NoBatch # BatchOf(i) /\ setting # BatchOf(i)
    BY DEF NoBatch, BatchOf
  <1> HIDE DEF hand, stay, kept, auto, accepted, new
  <1>3. CASE l \in hand
    BY <1>2, <1>3, HandLink DEF hand
  <1>4. CASE l \in stay
    BY <1>4, StayLink DEF stay
  <1>5. CASE l \in auto
    BY <1>2, <1>5, AutoLink DEF auto
  <1>6. CASE l \in accepted
    <2>1. CASE Takers(old, l.pair) # {}
      <3>1. PICK j \in Takers(old, l.pair) : l.batch = BatchOf(j)
        BY <1>6, <2>1 DEF accepted, AcceptedLinks, Recommended
      <3>2. j \in Pending(old, "accept")
        BY DEF Takers
      <3>3. j # i
        BY <3>2, SamePending
      <3> QED
        BY <3>1, <3>3 DEF BatchOf
    <2>2. CASE Takers(old, l.pair) = {}
      BY <1>2, <1>6, <2>2 DEF accepted, AcceptedLinks, Recommended
    <2> QED
      BY <2>1, <2>2
  <1> QED
    BY <1>1, <1>3, <1>4, <1>5, <1>6

LEMMA ResolvedSound ==
    ASSUME NEW old \in Catalog, Sound(old), NEW n, NEW setting, NEW known,
           NEW scores \in Scores(known)
    PROVE  Sound(Resolved(old, n, setting, known, scores))
  <1> DEFINE hand == HandLinks(n, known)
             stay == Stay(old, n, hand, known)
             kept == hand \cup stay
             auto == AutoLinks(scores, n, kept)
             accepted == AcceptedLinks(old, scores, n, kept, setting)
             new == Resolved(old, n, setting, known, scores)
  <1>1. new.links = kept \cup auto \cup accepted /\ new.held = Held(old)
    BY ResolvedLinks
  <1>2. \A l \in hand : /\ l = [pair |-> l.pair, accepted_by |-> "hand", batch |-> NoBatch]
                        /\ l.accepted_by = "hand"
    BY HandLink
  <1>3. \A l \in stay : /\ l \in old.links /\ l \notin Undone(old) /\ l.accepted_by = "recommended"
                        /\ l.pair \notin Pairs(hand) /\ ~Shadowed(l.pair, hand)
    BY StayLink
  <1> HIDE DEF hand, stay
  <1>4. \A l \in auto : /\ l = [pair |-> l.pair, accepted_by |-> "auto", batch |-> NoBatch]
                        /\ l.accepted_by = "auto" /\ l.pair \in Pair /\ scores[l.pair] = "auto"
                        /\ l.pair \notin Pairs(kept) /\ ~Shadowed(l.pair, kept)
    <2> HIDE DEF kept
    <2> SUFFICES ASSUME NEW l \in auto
                 PROVE  /\ l = [pair |-> l.pair, accepted_by |-> "auto", batch |-> NoBatch]
                        /\ l.accepted_by = "auto" /\ l.pair \in Pair /\ scores[l.pair] = "auto"
                        /\ l.pair \notin Pairs(kept) /\ ~Shadowed(l.pair, kept)
      OBVIOUS
    <2>1. l = [pair |-> l.pair, accepted_by |-> "auto", batch |-> NoBatch]
      BY AutoLink
    <2>2. l.accepted_by = "auto"
      BY <2>1
    <2> QED
      BY <2>1, <2>2, AutoLink
  <1>5. \A l \in accepted : /\ l \in Link /\ l.accepted_by = "recommended"
                            /\ l.pair \in Pair /\ scores[l.pair] = "clear"
                            /\ l.pair \notin Pairs(kept) /\ ~Shadowed(l.pair, kept)
                            /\ l.pair \notin Held(old)
    <2> HIDE DEF kept
    <2> QED
      BY AcceptedLink
  <1>6. \A l, m \in accepted : l.pair = m.pair => l = m
    <2> SUFFICES ASSUME NEW l \in accepted, NEW m \in accepted, l.pair = m.pair
                 PROVE  l = m
      OBVIOUS
    <2>1. l.batch = m.batch
      <3> HIDE DEF kept
      <3>1. CASE Takers(old, l.pair) = {}
        BY <3>1 DEF AcceptedLinks, Recommended
      <3>2. CASE Takers(old, l.pair) # {}
        <4>1. PICK i \in Takers(old, l.pair) :
                  l.batch = BatchOf(i) /\ \A j \in Takers(old, l.pair) : i <= j
          BY <3>2 DEF AcceptedLinks, Recommended
        <4>2. PICK k \in Takers(old, l.pair) :
                  m.batch = BatchOf(k) /\ \A j \in Takers(old, l.pair) : k <= j
          BY <3>2 DEF AcceptedLinks, Recommended
        <4>3. i \in Int /\ k \in Int
          BY DEF Takers, Pending
        <4>4. i = k
          BY <4>1, <4>2, <4>3
        <4> QED
          BY <4>1, <4>2, <4>4
      <3> QED
        BY <3>1, <3>2
    <2>2. /\ l \in Link /\ m \in Link
          /\ l.accepted_by = "recommended" /\ m.accepted_by = "recommended"
      BY <1>5
    <2> HIDE DEF accepted
    <2>3. /\ l = [pair |-> l.pair, accepted_by |-> l.accepted_by, batch |-> l.batch]
          /\ m = [pair |-> m.pair, accepted_by |-> m.accepted_by, batch |-> m.batch]
      BY <2>2 DEF Link
    <2> QED
      BY <2>1, <2>2, <2>3
  <1> HIDE DEF auto, accepted, new
  <1>7. LinksOnce(old) /\ HeldApart(old) /\ OneEach(old)
    BY DEF Sound
  <1>8. \A l \in kept : l.pair \in Pairs(kept)
    BY DEF Pairs
  <1>9. \A l \in hand : l.pair \in Pairs(hand)
    BY DEF Pairs
  <1>10. LinksOnce(new)
    <2> SUFFICES ASSUME NEW l \in new.links, NEW m \in new.links, l.pair = m.pair
                 PROVE  l = m
      BY DEF LinksOnce
    <2>1. CASE l \in kept /\ m \in kept
      <3>1. CASE l \in hand /\ m \in hand
        BY <1>2, <3>1
      <3>2. CASE l \in stay /\ m \in stay
        BY <1>3, <1>7, <3>2 DEF LinksOnce
      <3> QED
        BY <1>3, <1>9, <2>1, <3>1, <3>2
    <2>2. CASE l \in auto /\ m \in auto
      BY <1>4, <2>2
    <2>3. CASE l \in accepted /\ m \in accepted
      BY <1>6, <2>3
    <2>4. ~(l \in auto /\ m \in accepted) /\ ~(l \in accepted /\ m \in auto)
      BY <1>4, <1>5
    <2> HIDE DEF kept
    <2>5. ~(l \in kept /\ m \in auto \cup accepted) /\ ~(l \in auto \cup accepted /\ m \in kept)
      BY <1>4, <1>5, <1>8
    <2> QED
      BY <1>1, <2>1, <2>2, <2>3, <2>4, <2>5
  <1>11. HeldApart(new)
    <2> SUFFICES ASSUME NEW l \in new.links, l.accepted_by = "recommended"
                 PROVE  l.pair \notin Held(old)
      BY <1>1 DEF HeldApart
    <2>1. CASE l \in stay
      <3>1. l.pair \notin old.held
        BY <1>3, <1>7, <2>1 DEF HeldApart
      <3>2. l.pair \notin Pairs(Undone(old))
        BY <1>3, <1>7, <2>1 DEF LinksOnce, Pairs, Undone
      <3> QED
        BY <3>1, <3>2 DEF Held
    <2>2. CASE l \in accepted
      BY <1>5, <2>2
    <2> QED
      BY <1>1, <1>2, <1>4, <2>1, <2>2
  <1>12. OneEach(new)
    <2> SUFFICES ASSUME NEW l \in new.links, NEW m \in new.links, l.accepted_by # "hand"
                 PROVE  ~Competes(l.pair, m.pair)
      BY DEF OneEach
    <2>1. CASE l \in stay /\ m \in hand
      BY <1>3, <2>1, NotShadowed
    <2>2. CASE l \in stay /\ m \in stay
      BY <1>3, <1>7, <2>2 DEF OneEach
    <2> HIDE DEF kept
    <2>3. CASE l \in auto \cup accepted /\ m \in kept
      BY <1>4, <1>5, <2>3, NotShadowed
    <2>4. CASE l \in kept /\ m \in auto \cup accepted
      BY <1>4, <1>5, <2>4, NotShadowed, CompetesBothWays
    <2>5. CASE l \in auto \cup accepted /\ m \in auto \cup accepted
      BY <1>4, <1>5, <2>5, ScoresApart
    <2>6. l \notin hand
      BY <1>2
    <2> QED
      BY <1>1, <2>1, <2>2, <2>3, <2>4, <2>5, <2>6 DEF kept
  <1> QED
    BY <1>10, <1>11, <1>12 DEF Sound, new

-----------------------------------------------------------------------------
(* The versions that are kept.                                             *)

\* t keeps neighbours of s neighbours, and has e last if it has it.
Continues(s, e, t) ==
    /\ t \in Seq(Catalog) /\ Len(t) \in 1..KeepVersions
    /\ \A v \in 1..Len(t) : t[v] = e \/ \E w \in 1..Len(s) : t[v] = s[w]
    /\ \A v \in 2..Len(t) :
          \/ t[v] = e /\ t[v - 1] = s[Len(s)]
          \/ \E w \in 2..Len(s) : t[v] = s[w] /\ t[v - 1] = s[w - 1]

\* The retention drops the oldest version at most; the new one comes last.
LEMMA RetainedVersions ==
    ASSUME NEW s \in Seq(Catalog), Len(s) \in 1..KeepVersions, NEW e \in Catalog,
           NEW t, t = Retained(Append(s, e))
    PROVE  Continues(s, e, t)
  <1> DEFINE all == Append(s, e)
  <1>1. /\ all \in Seq(Catalog) /\ Len(all) = Len(s) + 1 /\ all[Len(s) + 1] = e
        /\ \A v \in 1..Len(s) : all[v] = s[v]
    BY AppendProperties
  <1>2. Len(s) \in Nat /\ KeepVersions \in Nat /\ Len(s) >= 1 /\ Len(s) <= KeepVersions
    BY ResolutionConstants
  <1> HIDE DEF all
  <1>3. CASE Len(all) > KeepVersions
    <2>1. t = Tail(all)
      BY <1>3 DEF Retained, all
    <2>2. /\ Tail(all) \in Seq(Catalog) /\ Len(Tail(all)) = Len(all) - 1
          /\ \A v \in 1..Len(Tail(all)) : Tail(all)[v] = all[v + 1]
      <3>1. all # << >>
        BY <1>1, <1>2, EmptySeq
      <3> QED
        BY <1>1, <3>1, HeadTailProperties
    <2>3. t \in Seq(Catalog) /\ Len(t) = Len(s) /\ \A v \in 1..Len(s) : t[v] = all[v + 1]
      BY <1>1, <1>2, <2>1, <2>2
    <2>4. ASSUME NEW v \in 1..Len(t)
          PROVE  t[v] = e \/ \E w \in 1..Len(s) : t[v] = s[w]
      <3>1. CASE v = Len(s)
        BY <1>1, <2>3, <3>1
      <3>2. CASE v # Len(s)
        <4>1. v + 1 \in 1..Len(s) /\ t[v] = s[v + 1]
          BY <1>1, <1>2, <2>3, <3>2
        <4> QED
          BY <4>1
      <3> QED
        BY <3>1, <3>2
    <2>5. ASSUME NEW v \in 2..Len(t)
          PROVE  \/ t[v] = e /\ t[v - 1] = s[Len(s)]
                 \/ \E w \in 2..Len(s) : t[v] = s[w] /\ t[v - 1] = s[w - 1]
      <3>1. t[v - 1] = s[v] /\ v \in 1..Len(s)
        BY <1>1, <1>2, <2>3
      <3>2. CASE v = Len(s)
        BY <1>1, <2>3, <3>1, <3>2
      <3>3. CASE v # Len(s)
        <4>1. /\ v + 1 \in 2..Len(s) /\ t[v] = s[v + 1] /\ (v + 1) - 1 = v
          BY <1>1, <1>2, <2>3, <3>3
        <4> QED
          BY <3>1, <4>1
      <3> QED
        BY <3>2, <3>3
    <2> QED
      BY <1>2, <2>3, <2>4, <2>5 DEF Continues
  <1>4. CASE ~(Len(all) > KeepVersions)
    <2>1. t = all
      BY <1>4 DEF Retained, all
    <2>2. ASSUME NEW v \in 1..Len(t)
          PROVE  t[v] = e \/ \E w \in 1..Len(s) : t[v] = s[w]
      <3>1. v = Len(s) + 1 \/ v \in 1..Len(s)
        BY <1>1, <1>2, <2>1
      <3> QED
        BY <1>1, <2>1, <3>1
    <2>3. ASSUME NEW v \in 2..Len(t)
          PROVE  \/ t[v] = e /\ t[v - 1] = s[Len(s)]
                 \/ \E w \in 2..Len(s) : t[v] = s[w] /\ t[v - 1] = s[w - 1]
      <3>1. t[v - 1] = s[v - 1]
        BY <1>1, <1>2, <2>1
      <3>2. CASE v = Len(s) + 1
        BY <1>1, <1>2, <2>1, <3>1, <3>2
      <3>3. CASE v # Len(s) + 1
        <4>1. v \in 2..Len(s) /\ t[v] = s[v]
          BY <1>1, <1>2, <2>1, <3>3
        <4> QED
          BY <3>1, <4>1
      <3> QED
        BY <3>2, <3>3
    <2>4. Len(t) \in 1..KeepVersions
      BY <1>1, <1>2, <1>4, <2>1
    <2> QED
      BY <1>1, <2>1, <2>2, <2>3, <2>4 DEF Continues
  <1> QED
    BY <1>3, <1>4

LEMMA RestoredVersions ==
    ASSUME NEW S, NEW s \in Seq(S), Len(s) \in 1..KeepVersions, NEW n \in 1..KeepVersions, n < Len(s),
           NEW t, t = SubSeq(s, 1, n)
    PROVE  /\ t \in Seq(S) /\ Len(t) = n
           /\ \A v \in 1..n : v \in 1..Len(s) /\ t[v] = s[v]
  <1>1. Len(s) \in Nat /\ KeepVersions \in Nat /\ n \in 1..Len(s)
    BY ResolutionConstants
  <1>2. t \in Seq(S) /\ Len(t) = n /\ \A v \in 1..n : t[v] = s[v]
    <2>1. \A v \in 1..n : s[v] \in S
      BY <1>1, ElementOfSeq
    <2> QED
      BY <1>1, <2>1, SubSeqProperties
  <1> QED
    BY <1>1, <1>2

-----------------------------------------------------------------------------
(* The invariant.                                                          *)

LEMMA TypedParts ==
    ASSUME TypeOK
    PROVE  /\ Len(versions) \in 1..Len(versions) /\ Len(versions) \in 1..KeepVersions
           /\ Current \in Catalog
           /\ \A v \in 1..Len(versions) : versions[v] \in Catalog
           /\ run.step # "idle" => run.work \in Catalog
  <1>1. Len(versions) \in Nat /\ Len(versions) >= 1
    BY ResolutionConstants DEF TypeOK
  <1>2. \A v \in 1..Len(versions) : versions[v] \in Catalog
    BY ElementOfSeq DEF TypeOK
  <1>3. run.step # "idle" => run.work \in Catalog
    BY DEF TypeOK, Idle
  <1> QED
    BY <1>1, <1>2, <1>3 DEF Current, TypeOK

LEMMA InitHolds == Init => ResolutionInv
  <1> SUFFICES ASSUME Init
               PROVE  ResolutionInv
    OBVIOUS
  <1> USE DEF Init
  <1>1. Empty \in Catalog
    BY DEF Empty, Catalog
  <1>2. /\ <<Empty>> \in Seq(Catalog) /\ Len(<<Empty>>) = 1 /\ <<Empty>>[1] = Empty
    BY <1>1
  <1>3. TypeOK
    <2>1. /\ <<>> \in Seq(Decision) /\ <<>> \in Seq(Request) /\ Len(<<>>) = 0
      BY EmptySeq
    <2>2. 0 <= MaxDecision /\ 0 <= MaxRequest /\ 1 \in 1..KeepVersions
      BY ResolutionConstants
    <2> QED
      BY <1>2, <2>1, <2>2 DEF TypeOK, Idle
  <1>4. Sound(Empty)
    BY DEF Sound, LinksOnce, HeldApart, OneEach, Empty
  <1>5. VersionsSound
    BY <1>2, <1>4 DEF VersionsSound
  <1>6. RunSound
    BY DEF RunSound, Idle
  <1> QED
    BY <1>3, <1>5, <1>6 DEF ResolutionInv

\* A step that leaves the versions and the run alone needs types only.
LEMMA OperatorStep ==
    ASSUME ResolutionInv, UNCHANGED <<versions, run>>, TypeOK'
    PROVE  ResolutionInv'
  BY DEF ResolutionInv, VersionsSound, RunSound, Current, Sound, LinksOnce, HeldApart,
         OneEach, Follows

LEMMA DecideStep ==
    ASSUME ResolutionInv, NEW p \in Pair, NEW kind \in {"must", "cannot"}, Decide(p, kind)
    PROVE  ResolutionInv'
  <1> USE DEF Decide
  <1>1. [pair |-> p, kind |-> kind] \in Decision
    BY DEF Decision
  <1>2. decisions' \in Seq(Decision) /\ Len(decisions') = Len(decisions) + 1
    BY <1>1, AppendProperties DEF ResolutionInv, TypeOK
  <1>3. Len(decisions') <= MaxDecision
    <2>1. Len(decisions) \in Nat /\ MaxDecision \in Nat
      BY ResolutionConstants, LenProperties DEF ResolutionInv, TypeOK
    <2> QED
      BY <1>2, <2>1
  <1>4. TypeOK'
    BY <1>2, <1>3 DEF ResolutionInv, TypeOK
  <1> QED
    BY <1>4, OperatorStep

LEMMA AskStep ==
    ASSUME ResolutionInv, NEW request \in Request, Ask(request)
    PROVE  ResolutionInv'
  <1> USE DEF Ask
  <1>1. requests' \in Seq(Request) /\ Len(requests') = Len(requests) + 1
    BY AppendProperties DEF ResolutionInv, TypeOK
  <1>2. Len(requests') <= MaxRequest
    <2>1. Len(requests) \in Nat /\ MaxRequest \in Nat
      BY ResolutionConstants, LenProperties DEF ResolutionInv, TypeOK
    <2> QED
      BY <1>1, <2>1
  <1>3. TypeOK'
    BY <1>1, <1>2 DEF ResolutionInv, TypeOK
  <1> QED
    BY <1>3, OperatorStep

LEMMA BeginStep ==
    ASSUME ResolutionInv, Begin
    PROVE  ResolutionInv'
  <1> USE DEF Begin
  <1>1. Current \in Catalog /\ Sound(Current)
    BY TypedParts DEF ResolutionInv, VersionsSound, Current
  <1>2. TypeOK'
    BY <1>1 DEF ResolutionInv, TypeOK
  <1>3. VersionsSound'
    BY DEF ResolutionInv, VersionsSound
  <1>4. RunSound'
    BY <1>1 DEF RunSound, Current
  <1> QED
    BY <1>2, <1>3, <1>4 DEF ResolutionInv

LEMMA LoadStep ==
    ASSUME ResolutionInv, LoadDecisions
    PROVE  ResolutionInv'
  <1> USE DEF LoadDecisions
  <1>1. Len(decisions) \in 0..MaxDecision /\ run.work \in Catalog
    <2>1. Len(decisions) \in Nat /\ MaxDecision \in Nat /\ Len(decisions) <= MaxDecision
      BY ResolutionConstants, LenProperties DEF ResolutionInv, TypeOK
    <2> QED
      BY <2>1, TypedParts DEF ResolutionInv
  <1>2. TypeOK'
    BY <1>1 DEF ResolutionInv, TypeOK
  <1>3. VersionsSound'
    BY DEF ResolutionInv, VersionsSound
  <1>4. RunSound'
    BY DEF ResolutionInv, RunSound, Current
  <1> QED
    BY <1>2, <1>3, <1>4 DEF ResolutionInv

LEMMA ResolveStep ==
    ASSUME ResolutionInv, Resolve
    PROVE  ResolutionInv'
  <1>1. PICK setting \in Setting, known \in SUBSET Record : \E scores \in Scores(known) :
            run' = [step |-> "resolved",
                    work |-> Resolved(run.work, run.read, setting, known, scores)]
    BY DEF Resolve
  <1>2. PICK scores \in Scores(known) :
            run' = [step |-> "resolved",
                    work |-> Resolved(run.work, run.read, setting, known, scores)]
    BY <1>1
  <1> DEFINE new == Resolved(run.work, run.read, setting, known, scores)
  <1>3. /\ run.step = "loaded" /\ UNCHANGED <<decisions, requests, versions>>
        /\ run.work = Current /\ run.work \in Catalog /\ Sound(run.work)
    BY TypedParts DEF Resolve, ResolutionInv, RunSound
  <1>4. setting \in Batch \cup {NoBatch} /\ setting.by # "request"
    BY DEF Setting, FreshBatch, Batch, SettingBatch, NoBatch
  <1>5. new \in Catalog
    BY <1>3, ResolvedType DEF ResolutionInv, TypeOK
  <1>6. Sound(new)
    BY <1>3, ResolvedSound
  <1>7. Follows(run.work, new)
    BY <1>3, <1>4, ResolvedFollows
  <1> HIDE DEF new
  <1>8. run' = [step |-> "resolved", work |-> new]
    BY <1>2 DEF new
  <1>9. TypeOK'
    BY <1>3, <1>5, <1>8 DEF ResolutionInv, TypeOK
  <1>10. VersionsSound'
    BY <1>3 DEF ResolutionInv, VersionsSound
  <1>11. RunSound'
    BY <1>3, <1>6, <1>7, <1>8 DEF RunSound, Current
  <1> QED
    BY <1>9, <1>10, <1>11 DEF ResolutionInv

LEMMA CommitStep ==
    ASSUME ResolutionInv, Commit
    PROVE  ResolutionInv'
  <1>1. /\ run.step = "resolved" /\ versions' = Retained(Append(versions, run.work))
        /\ run' = Idle /\ UNCHANGED <<decisions, requests>>
    BY DEF Commit
  <1>2. /\ versions \in Seq(Catalog) /\ Len(versions) \in 1..KeepVersions
        /\ run.work \in Catalog /\ Sound(run.work) /\ Follows(Current, run.work)
    BY <1>1, TypedParts DEF ResolutionInv, TypeOK, RunSound
  <1>3. /\ versions' \in Seq(Catalog) /\ Len(versions') \in 1..KeepVersions
        /\ \A v \in 1..Len(versions') :
              versions'[v] = run.work \/ \E w \in 1..Len(versions) : versions'[v] = versions[w]
        /\ \A v \in 2..Len(versions') :
              \/ versions'[v] = run.work /\ versions'[v - 1] = versions[Len(versions)]
              \/ \E w \in 2..Len(versions) :
                    versions'[v] = versions[w] /\ versions'[v - 1] = versions[w - 1]
    <2>1. Continues(versions, run.work, versions')
      BY <1>1, <1>2, RetainedVersions
    <2> QED
      BY <2>1 DEF Continues
  <1>4. TypeOK'
    BY <1>1, <1>3 DEF ResolutionInv, TypeOK
  <1>5. VersionsSound'
    <2>1. \A v \in 1..Len(versions') : Sound(versions'[v])
      BY <1>2, <1>3 DEF ResolutionInv, VersionsSound
    <2>2. ASSUME NEW v \in 2..Len(versions')
          PROVE  Follows(versions'[v - 1], versions'[v])
      BY <1>2, <1>3 DEF ResolutionInv, VersionsSound, Current
    <2> QED
      BY <2>1, <2>2 DEF VersionsSound, Sound, LinksOnce, HeldApart, OneEach, Follows
  <1>6. RunSound'
    BY <1>1 DEF RunSound, Idle
  <1> QED
    BY <1>4, <1>5, <1>6 DEF ResolutionInv

LEMMA AbandonStep ==
    ASSUME ResolutionInv, Abandon
    PROVE  ResolutionInv'
  BY DEF Abandon, ResolutionInv, TypeOK, VersionsSound, RunSound, Idle

LEMMA RestoreStep ==
    ASSUME ResolutionInv, NEW n \in 1..KeepVersions, Restore(n)
    PROVE  ResolutionInv'
  <1>1. /\ run.step = "idle" /\ n < Len(versions) /\ versions' = SubSeq(versions, 1, n)
        /\ UNCHANGED <<decisions, requests, run>>
    BY DEF Restore
  <1>2. /\ versions' \in Seq(Catalog) /\ Len(versions') = n
        /\ \A v \in 1..n : v \in 1..Len(versions) /\ versions'[v] = versions[v]
    BY <1>1, RestoredVersions DEF ResolutionInv, TypeOK
  <1>3. TypeOK'
    BY <1>1, <1>2 DEF ResolutionInv, TypeOK
  <1>4. VersionsSound'
    <2>1. n \in Nat /\ Len(versions) \in Nat
      BY ResolutionConstants DEF ResolutionInv, TypeOK
    <2>2. \A v \in 1..n : Sound(versions'[v])
      BY <1>2 DEF ResolutionInv, VersionsSound
    <2>3. ASSUME NEW v \in 2..n
          PROVE  Follows(versions'[v - 1], versions'[v])
      <3>1. v \in 1..n /\ v - 1 \in 1..n /\ v \in 2..Len(versions)
        BY <1>1, <2>1
      <3> QED
        BY <1>2, <3>1 DEF ResolutionInv, VersionsSound
    <2> QED
      BY <1>2, <2>2, <2>3 DEF VersionsSound
  <1>5. RunSound'
    BY <1>1 DEF RunSound
  <1> QED
    BY <1>3, <1>4, <1>5 DEF ResolutionInv

LEMMA NextHolds == ResolutionInv /\ [Next]_vars => ResolutionInv'
  <1> SUFFICES ASSUME ResolutionInv, [Next]_vars
               PROVE  ResolutionInv'
    OBVIOUS
  <1>1. ASSUME NEW p \in Pair, Decide(p, "must") \/ Decide(p, "cannot")
        PROVE  ResolutionInv'
    BY <1>1, DecideStep
  <1>2. ASSUME NEW selection \in Selection, AcceptRecommended(selection)
        PROVE  ResolutionInv'
    <2>1. [kind |-> "accept", pairs |-> selection] \in Request
      BY DEF Request
    <2> QED
      BY <1>2, <2>1, AskStep DEF AcceptRecommended
  <1>3. ASSUME NEW batch \in Batch, UndoBatch(batch)
        PROVE  ResolutionInv'
    <2>1. [kind |-> "undo", batch |-> batch] \in Request
      BY DEF Request
    <2> QED
      BY <1>3, <2>1, AskStep DEF UndoBatch
  <1>4. CASE UNCHANGED vars
    BY <1>4, OperatorStep DEF vars, ResolutionInv, TypeOK
  <1>5. ASSUME NEW n \in 1..KeepVersions, Restore(n)
        PROVE  ResolutionInv'
    BY <1>5, RestoreStep
  <1> QED
    BY <1>1, <1>2, <1>3, <1>4, <1>5, BeginStep, LoadStep, ResolveStep, CommitStep, AbandonStep
       DEF Next

LEMMA InvAlways == Spec => []ResolutionInv
  BY InitHolds, NextHolds, PTL DEF Spec

-----------------------------------------------------------------------------
\* Every reachable state of the review is well typed, for all constants: what a
\* pass makes of the decisions and requests is a catalog again.
THEOREM ResolutionTypeCorrect == Spec => []TypeOK
  <1>1. ResolutionInv => TypeOK
    BY DEF ResolutionInv
  <1> QED
    BY <1>1, InvAlways, PTL

\* An undo holds its pairs for good: whatever runs, crashes, restores, decisions
\* and requests follow, no version accepts a pair that it holds.
THEOREM UndoIsKept == Spec => []HeldIsNeverAccepted
  <1>1. ResolutionInv => HeldIsNeverAccepted
    BY DEF ResolutionInv, VersionsSound, Sound, HeldApart, HeldIsNeverAccepted, Published
  <1> QED
    BY <1>1, InvAlways, PTL

\* No automatic, accepted or earlier link shares a record with another link to
\* the same provider.
THEOREM MachinesLinkOnce == Spec => []OnlyPeopleDoubleLink
  <1>1. ResolutionInv => OnlyPeopleDoubleLink
    BY DEF ResolutionInv, VersionsSound, Sound, OneEach, OnlyPeopleDoubleLink, Published
  <1> QED
    BY <1>1, InvAlways, PTL

\* A version that follows one which names a request as applied has no new link
\* of its batch, also when a restore came between.
THEOREM AppliedOnce == Spec => []RequestIsAppliedOnce
  <1>1. ResolutionInv => RequestIsAppliedOnce
    BY DEF ResolutionInv, VersionsSound, Follows, RequestIsAppliedOnce
  <1> QED
    BY <1>1, InvAlways, PTL

=============================================================================
