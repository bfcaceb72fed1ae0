------------------------------ MODULE MCLogger ------------------------------
(* Logger on small instances. *)
EXTENDS Logger
==============================================================================
