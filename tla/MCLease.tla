------------------------------ MODULE MCLease ------------------------------
(* Instances of Lease for TLC.                                             *)
EXTENDS Lease, TLC

\* Any run's clock may be ahead; that of one run is.
AnySkew == [Run -> 0..MaxSkew]
OneAhead == {f \in AnySkew : \E r \in Run : \A s \in Run : f[s] = IF s = r THEN MaxSkew ELSE 0}

RunSymmetry == Permutations(Run)
=============================================================================
