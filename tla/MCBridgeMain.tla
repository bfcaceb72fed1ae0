----------------------------- MODULE MCBridgeMain -----------------------------
(* BridgeMain on small instances. *)
EXTENDS BridgeMain
==============================================================================
