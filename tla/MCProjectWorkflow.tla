-------------------------- MODULE MCProjectWorkflow --------------------------
(***************************************************************************)
(* Model checking of ProjectWorkflow.  The processes are interchangeable:  *)
(* no configuration treats one of them apart, and the safety runs use it.  *)
(***************************************************************************)
EXTENDS ProjectWorkflow, TLC

ServerSymmetry == Permutations(Servers)
=============================================================================
