----------------------------- MODULE MCPipeline -----------------------------
(* OryxPipeline on small instances: everything is given its value in the    *)
(* cfg.                                                                     *)
EXTENDS OryxPipeline
=============================================================================
