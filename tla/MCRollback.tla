----------------------------- MODULE MCRollback -----------------------------
(* Rollback on small instances, see the MCRollback*.cfg files. *)
EXTENDS Rollback, TLC

Symmetry == Permutations(Adapters)
=============================================================================
