------------------------------ MODULE MCEnvTree ------------------------------
(* Instances of EnvTree for TLC: the structures of the host are alike. *)
EXTENDS EnvTree, TLC

Symmetry == Permutations(Envs)
===============================================================================
