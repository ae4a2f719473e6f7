------------------------------ MODULE MCFiles ------------------------------
(* OryxFiles on small instances: everything is given its value in the cfg.  *)
EXTENDS OryxFiles
=============================================================================
