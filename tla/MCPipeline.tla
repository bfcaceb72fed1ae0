----------------------------- MODULE MCPipeline -----------------------------
(* Pipeline with two sources of one subject and one of another. *)
EXTENDS Pipeline

MCSubject == <<"A", "A", "B">>
==============================================================================
