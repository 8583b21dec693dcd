---------------------------------- MODULE Map ----------------------------------
(***************************************************************************)
(* What common/hash.h promises: a map from keys to values whose operations *)
(* answer whether the key was there and, if so, with which value.  Nothing *)
(* is said of buckets, chains, capacities or the memory of keys.           *)
(***************************************************************************)
CONSTANTS Keys, Values

VARIABLES
  map,      \* a partial function from Keys to Values
  answer    \* what the last operation answered: the value found, or Absent

Absent == "absent"

Lookup(k) == IF k \in DOMAIN map THEN map[k] ELSE Absent

Get(k) == answer' = Lookup(k) /\ UNCHANGED map

Set(k, v) ==
  /\ answer' = Lookup(k)
  /\ map' = [x \in DOMAIN map \cup {k} |-> IF x = k THEN v ELSE map[x]]

Delete(k) ==
  /\ answer' = Lookup(k)
  /\ map' = [x \in DOMAIN map \ {k} |-> map[x]]

Clear == answer' = Absent /\ map' = [x \in {} |-> Absent]

Init == answer = Absent /\ map = [x \in {} |-> Absent]

Next ==
  \/ \E k \in Keys : Get(k) \/ Delete(k)
  \/ \E k \in Keys, v \in Values : Set(k, v)
  \/ Clear

Spec == Init /\ [][Next]_<<map, answer>>
===============================================================================
