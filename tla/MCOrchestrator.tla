--------------------------- MODULE MCOrchestrator ---------------------------
(* Orchestrator on small instances, see the MCOrchestrator*.cfg files. *)
EXTENDS Orchestrator, TLC

\* Clicks, and the names of pollers and of tickers, are interchangeable.
Symmetry == Permutations(Clicks) \cup Permutations(Pollers) \cup Permutations(Tickers)
=============================================================================
