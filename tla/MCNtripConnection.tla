------------------------- MODULE MCNtripConnection -------------------------
(* NtripConnection on small instances. *)
EXTENDS NtripConnection
==============================================================================
