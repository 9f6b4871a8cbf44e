---------------------------- MODULE MCGamePoller ----------------------------
(* GamePoller on a small instance, see MCGamePollerUnbound.cfg; MCParts checks the rest. *)
EXTENDS GamePoller
=============================================================================
