------------------------------- MODULE MCFlock -------------------------------
(* Flock on small instances.                                                *)
EXTENDS Flock, TLC
Symmetry == Permutations(Callers)
=============================================================================
