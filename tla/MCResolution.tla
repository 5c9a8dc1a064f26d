---------------------------- MODULE MCResolution ----------------------------
(* Instances of Resolution for TLC. *)
EXTENDS Resolution

A1 == [provider |-> 1, id |-> 1]
B1 == [provider |-> 2, id |-> 1]
B2 == [provider |-> 2, id |-> 2]
C1 == [provider |-> 3, id |-> 1]

OnePair == {A1, B1}
TwoProviders == {A1, B1, B2}
ThreeProviders == {A1, B1, C1}
=============================================================================
