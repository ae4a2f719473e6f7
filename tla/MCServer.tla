------------------------------ MODULE MCServer ------------------------------
(* OryxServer on a small instance, with the life of a process it implements. *)
EXTENDS OryxServerLife, TLC

WorkerSymmetry == Permutations(Workers)
=============================================================================
