-------------------------------- MODULE MCGc --------------------------------
(* Instances of Gc for TLC: objects and host variables are interchangeable. *)
EXTENDS Gc, TLC

Symmetry == Permutations(Objects) \cup Permutations(RootVars)
===============================================================================
