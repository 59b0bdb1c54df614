----------------------------- MODULE MCPipeline -----------------------------
(***************************************************************************)
(* KnowledgePipeline for TLC.  Its run checks liveness, so the documents,  *)
(* workers and searches are not declared symmetric.                        *)
(***************************************************************************)
EXTENDS KnowledgePipeline, TLC
=============================================================================
