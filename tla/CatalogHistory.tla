--------------------------- MODULE CatalogHistory ---------------------------
(***************************************************************************)
(* What the catalog promises its readers and its restore points: one       *)
(* history of published versions, each made from the one before it         *)
(* (src/v2/src/lakehouse/catalog, ADR-007).                                *)
(***************************************************************************)
EXTENDS Integers, Sequences

VARIABLES
    history,     \* the pointers that CURRENT held, oldest first
    fenced       \* no publish of a run that lost its lease can succeed

\* The pointer "next" may replace the pointer "last": it names it as its
\* parent, has a newer sequence, was published under the same or a newer lease
\* generation, and its catalog has every change of the last one.
Follows(last, next) ==
    /\ next.parent = last.seq
    /\ next.seq > last.seq
    /\ next.gen >= last.gen
    /\ last.content \subseteq next.content

HInit == history = <<>>

\* The new pointer is made from an earlier one, or, if it is the first such, from
\* an empty lake: from the last one, if the writers are fenced.
Publish ==
    /\ Len(history') = Len(history) + 1
    /\ \A i \in 1..Len(history) : history'[i] = history[i]
    /\ \E i \in 0..Len(history) :
        /\ fenced => i = Len(history)
        /\ LET next == history'[Len(history')]
           IN  IF i = 0 THEN next.parent = 0 ELSE Follows(history[i], next)

HSpec == HInit /\ [][Publish]_history
=============================================================================
