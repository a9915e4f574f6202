----------------------------- MODULE MCPipeline -----------------------------
(* Pipeline for TLC.  Requests differ in nothing but the handler they call. *)
EXTENDS Pipeline, TLC

Symmetry == Permutations(Reqs)
=============================================================================
