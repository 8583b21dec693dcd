----------------------------- MODULE MCHashTable -----------------------------
(* Instances of HashTable for TLC. *)
EXTENDS HashTable, TLC

CONSTANTS k1, k2, k3, k4, v1, v2

\* k1 and k2 share a bucket in the smaller tables and part in one of 8 buckets, k3
\* joins them when the table shrinks to 2.
Hashes == k1 :> 0 @@ k2 :> 4 @@ k3 :> 2 @@ k4 :> 1

ValuesSymmetry == Permutations(Values)
===============================================================================
