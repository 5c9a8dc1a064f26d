----------------------------- MODULE MCClusters -----------------------------
(* Instances of Clusters for TLC. *)
EXTENDS Clusters

A1 == [provider |-> 1, id |-> 1]
A2 == [provider |-> 1, id |-> 2]
B1 == [provider |-> 2, id |-> 1]
B2 == [provider |-> 2, id |-> 2]
C1 == [provider |-> 3, id |-> 1]

Two == {A1, A2, B1, B2}
Four == {A1, B1, B2, C1}
Five == {A1, A2, B1, B2, C1}
=============================================================================
