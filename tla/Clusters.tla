------------------------------ MODULE Clusters ------------------------------
(***************************************************************************)
(* N-way clustering (src/v2/src/lakehouse/resolve/nway.py) and the         *)
(* canonical pointers (links.py).  A pass makes clusters of the records    *)
(* from the links of all provider pairs: a component of the links that     *)
(* holds two records of a provider is split by the same-source guard, and  *)
(* each record points to the canonical member of its cluster.  A pointer   *)
(* that moves is logged with a reason.                                     *)
(*                                                                         *)
(* A record has a provider, given by its rank, and an id; links gives each *)
(* linked pair of records its confidence.                                  *)
(***************************************************************************)
EXTENDS Naturals, FiniteSets

CONSTANTS
    Record,         \* the records that may come, each with a provider and an id
    MaxConfidence   \* bounds the confidence of a link

ASSUME ClustersConstants ==
    /\ Record \subseteq [provider : Nat, id : Nat] /\ IsFiniteSet(Record)
    /\ MaxConfidence \in Nat

VARIABLES
    links,     \* the links of the last pass
    pointer    \* ops_canonical_pointers

vars == <<links, pointer>>

\* _rank
Before(x, y) == x.provider < y.provider \/ (x.provider = y.provider /\ x.id <= y.id)

\* canonical_of
Canonical(members) == CHOOSE x \in members : \A y \in members : Before(x, y)

\* confidence, of a record and an anchor
Confidence(graph, x, y) == IF {x, y} \in DOMAIN graph THEN graph[{x, y}] ELSE 0

\* Mutant: a record is joined with its own links only.
Component_Links(records, graph, x) ==
    {y \in records : x = y \/ {x, y} \in DOMAIN graph}

\* What union-find joins: the records that no set closed under links parts
\* from x.
Component(records, graph, x) ==
    {y \in records : \A S \in SUBSET records :
        x \in S /\ (\A p \in DOMAIN graph : p \cap S # {} => p \subseteq S) => y \in S}

ProvidersOf(members) == {x.provider : x \in members}

Conflicted(members) == Cardinality(ProvidersOf(members)) # Cardinality(members)

Of(members, provider) == {x \in members : x.provider = provider}

\* Mutant: the records are counted in the lake, not in the component.
AnchorProvider_Lake(members) ==
    CHOOSE p \in ProvidersOf(members) :
        \A q \in ProvidersOf(members) \ {p} :
            LET np == Cardinality(Of(DOMAIN pointer, p))
                nq == Cardinality(Of(DOMAIN pointer, q))
            IN  np > nq \/ (np = nq /\ p < q)

\* The provider with the most records; the higher-ranked one of a tie.
AnchorProvider(members) ==
    CHOOSE p \in ProvidersOf(members) :
        \A q \in ProvidersOf(members) \ {p} :
            LET np == Cardinality(Of(members, p))
                nq == Cardinality(Of(members, q))
            IN  np > nq \/ (np = nq /\ p < q)

Anchors(members) == Of(members, AnchorProvider(members))

Strongest(graph, x, anchors) ==
    CHOOSE c \in {Confidence(graph, x, a) : a \in anchors} :
        \A a \in anchors : Confidence(graph, x, a) <= c

\* The records of x's provider that choose an anchor before x: those with a
\* stronger best link to an anchor; of a tie the lower id.
Earlier(graph, anchors, peers, x) ==
    LET best(y) == Strongest(graph, y, anchors)
    IN  {y \in peers \ {x} : best(y) > best(x) \/ (best(y) = best(x) /\ Before(y, x))}

\* Mutant: a record joins its weakest anchor.
Better_Not(graph, x, a, b) ==
    \/ Confidence(graph, x, a) < Confidence(graph, x, b)
    \/ Confidence(graph, x, a) = Confidence(graph, x, b) /\ Before(a, b)

Better(graph, x, a, b) ==
    \/ Confidence(graph, x, a) > Confidence(graph, x, b)
    \/ Confidence(graph, x, a) = Confidence(graph, x, b) /\ Before(a, b)

\* A record joins its strongest anchor that has room, and else stays alone.
Join(graph, room, x) ==
    IF room = {} THEN x ELSE CHOOSE a \in room : \A b \in room : Better(graph, x, a, b)

\* The anchor of each record.  An anchor has room for a record while no earlier
\* one of the same provider is with it; other providers are in nobody's way.
Placed(graph, members) ==
    LET anchors == Anchors(members)
        placed[x \in members] ==
            IF x \in anchors THEN x
            ELSE LET peers == Of(members, x.provider)
                     claimed == {placed[y] : y \in Earlier(graph, anchors, peers, x)}
                 IN  Join(graph, anchors \ claimed, x)
    IN  placed

\* _split
Split(graph, members) ==
    LET placed == Placed(graph, members)
    IN  {{y \in members : placed[y] = a} : a \in {placed[x] : x \in members}}

\* resolve_clusters
ClustersOf(records, graph) ==
    UNION {IF Conflicted(m) THEN Split(graph, m) ELSE {m} :
              m \in {Component(records, graph, x) : x \in records}}

Pointers(records, graph) ==
    LET clusters == ClustersOf(records, graph)
    IN  [x \in records |-> Canonical(CHOOSE m \in clusters : x \in m)]

-----------------------------------------------------------------------------
PairsOf(records) == {p \in SUBSET records : Cardinality(p) = 2 /\ ~Conflicted(p)}

Graphs(records) == UNION {[P -> 1..MaxConfidence] : P \in SUBSET PairsOf(records)}

Init == links = [p \in {} |-> 0] /\ pointer = [x \in {} |-> x]

\* One pass over the records of bronze and the links that it made of them.
Pass(records, graph) ==
    /\ links' = graph
    /\ pointer' = Pointers(records, graph)

Next == \E records \in SUBSET Record : \E graph \in Graphs(records) : Pass(records, graph)

Spec == Init /\ [][Next]_vars

-----------------------------------------------------------------------------
\* Mutant: the ranks are compared the wrong way round.
MoveReason_Rank(old, new, x) ==
    IF old \notin DOMAIN pointer' \/ pointer'[old] # pointer'[x] THEN "left"
    ELSE IF new.provider > old.provider THEN "joined" ELSE "changed"

\* _move_reason, of a move that a pass logs: the canonical record left the
\* cluster, a higher-ranked record joined it, or the cluster changed.
MoveReason(old, new, x) ==
    IF old \notin DOMAIN pointer' \/ pointer'[old] # pointer'[x] THEN "left"
    ELSE IF new.provider < old.provider THEN "joined" ELSE "changed"

Known == DOMAIN pointer

Together(x) == {y \in Known : pointer[y] = pointer[x]}

\* The clusters follow the links: one cluster for each component, which points
\* to its highest-ranked record, unless two records of a provider are in it;
\* those never share a pointer, nor do records that no chain of links joins.
ClustersFollowLinks ==
    \A x \in Known :
        LET all == Component(Known, links, x)
        IN  /\ Together(x) \subseteq all /\ (~Conflicted(all) => Together(x) = all)
            /\ ~Conflicted(Together(x))
            /\ pointer[x] \in Together(x)
            /\ \A y \in Together(x) : Before(pointer[x], y)

\* In a split, a stronger anchor is passed over for one reason only: it holds
\* another record of the provider.
PassedOverWhenTaken ==
    \A x \in Known :
        LET all == Component(Known, links, x)
        IN  Conflicted(all) /\ x \notin Anchors(all) =>
                \A b \in Anchors(all) \ Together(x) :
                    \/ \E y \in Together(b) : y # x /\ y.provider = x.provider
                    \/ \E a \in Anchors(all) \cap Together(x) :
                            Confidence(links, x, a) >= Confidence(links, x, b)

\* A pass moves no pointer of a component that it found as the last one did,
\* whatever happened to all the others.
UntouchedStays ==
    [][\A x \in Known \cap Known' :
        LET all == Component(Known, links, x)
        IN  /\ all = Component(Known', links', x)
            /\ \A p \in PairsOf(all) : p \in DOMAIN links \cup DOMAIN links' =>
                    p \in DOMAIN links \cap DOMAIN links' /\ links[p] = links'[p]
            => pointer'[x] = pointer[x]]_vars

\* The log of the moves tells the truth: a record that "joined" was not in the
\* cluster, and there is no third reason, since a cluster that keeps its old
\* canonical record can only get one of another provider.
MovesTellTrue ==
    [][\A x \in Known \cap Known' : pointer'[x] # pointer[x] =>
        LET reason == MoveReason(pointer[x], pointer'[x], x)
        IN  /\ reason # "changed"
            /\ reason = "joined" => pointer'[x] \notin Together(x)]_vars

\* "Each other record joins the anchor it links to" (nway.py): a split leaves no
\* record with an anchor that it has no link to.  Not kept: an anchor without a
\* link counts as one with confidence 0, and takes what the others do not.
JoinsWhatItLinks ==
    \A x \in Known :
        LET all == Component(Known, links, x)
        IN  Conflicted(all) =>
                \A a \in Together(x) \cap Anchors(all) : a = x \/ {a, x} \in DOMAIN links

=============================================================================
