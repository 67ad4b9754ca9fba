----------------------------- MODULE MCEntities -----------------------------
(* Instances of Entities for TLC. *)
EXTENDS Entities, TLC

Symmetry == Permutations(Clients)
=============================================================================
