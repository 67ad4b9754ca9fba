------------------------------- MODULE MCSync -------------------------------
(* Instances of Sync for TLC: every result belongs to the poller k1. *)
EXTENDS Sync, TLC

CONSTANT k1
AllOfK1 == [s \in Samples |-> k1]
Symmetry == Permutations(Recs) \cup Permutations(Samples)
=============================================================================
