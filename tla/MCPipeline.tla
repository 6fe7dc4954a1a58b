----------------------------- MODULE MCPipeline -----------------------------
(***************************************************************************)
(* Pipeline on the instance of MCOrderRouter.                              *)
(***************************************************************************)
EXTENDS MCOrderRouter, Pipeline
=============================================================================
