---------------------------- MODULE MCMatchFiles ----------------------------
(* Instances of MatchFiles for TLC.                                        *)
EXTENDS MatchFiles, TLC
=============================================================================
