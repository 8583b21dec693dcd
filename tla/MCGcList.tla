------------------------------- MODULE MCGcList -------------------------------
(* Instances of GcList for TLC. *)
EXTENDS GcList, TLC

Symmetry == Permutations(Objects)
===============================================================================
