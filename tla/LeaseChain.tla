----------------------------- MODULE LeaseChain -----------------------------
(***************************************************************************)
(* What the single-writer lease promises, whatever its generations are     *)
(* kept in (src/v2/src/lakehouse/storage/lease.py): they are given away    *)
(* one at a time, in order, each to one run for good, and the next one     *)
(* only when the last one has lapsed, or to a taker that judges by an old  *)
(* look at it.                                                             *)
(***************************************************************************)
EXTENDS Integers

CONSTANTS Run, NoRun

VARIABLES
    newest,       \* the last generation given away
    holder,       \* whom it was given to; NoRun if the create was torn
    seized,       \* it was given to a taker with an old look at the one before
    lapsed        \* it was released, or expired on its holder's own clock

chain == <<newest, holder, seized, lapsed>>

CInit == newest = 0 /\ holder = NoRun /\ seized = FALSE /\ lapsed = FALSE

\* A generation may have lapsed when it is created: its run stalled for longer
\* than its time to live after it had read its clock.
Give ==
    /\ seized' \in BOOLEAN
    /\ newest = 0 \/ lapsed \/ seized'
    /\ newest' = newest + 1
    /\ holder' \in Run \cup {NoRun}
    /\ lapsed' \in BOOLEAN

Lapse ==
    /\ newest > 0 /\ ~lapsed
    /\ lapsed'
    /\ UNCHANGED <<newest, holder, seized>>

CSpec == CInit /\ [][Give \/ Lapse]_chain
=============================================================================
