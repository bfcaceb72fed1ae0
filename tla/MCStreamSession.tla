--------------------------- MODULE MCStreamSession ---------------------------
(* StreamSession on small instances. *)
EXTENDS StreamSession
==============================================================================
