---------------------------- MODULE MCLifecycle ----------------------------
(* Lifecycle on small instances, see the MCLifecycle*.cfg files. *)
EXTENDS Lifecycle
=============================================================================
