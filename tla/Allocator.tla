------------------------------ MODULE Allocator ------------------------------
(***************************************************************************)
(* What an environment's heap promises its callers, whatever it does with  *)
(* headers and free lists: the ranges handed out lie inside the arena and  *)
(* never overlap, a range stays where it is until its owner frees or       *)
(* resizes it, and resizing never shrinks what the owner can use.          *)
(***************************************************************************)
EXTENDS Naturals

CONSTANTS
  ArenaSize,   \* bytes in the arena
  Starts,      \* addresses a range may start at
  Lengths      \* lengths a range may have

VARIABLE owned \* ranges [at, len] handed out and not given back

Ranges == [at : Starts, len : Lengths]

InArena(r) == r.at + r.len <= ArenaSize

Apart(r, s) == r.at + r.len <= s.at \/ s.at + s.len <= r.at

Give(r) ==
  /\ owned' = owned \cup {r}
  /\ InArena(r)
  /\ \A s \in owned : Apart(r, s)

TakeBack(r) ==
  /\ r \in owned
  /\ owned' = owned \ {r}

\* The owner's data moves with the range: in place, or to a range apart from
\* every other one, the old one included.
Resize(r, s) ==
  /\ r \in owned
  /\ InArena(s)
  /\ s.len >= r.len
  /\ s.at = r.at \/ Apart(r, s)
  /\ \A t \in owned \ {r} : Apart(s, t)
  /\ owned' = (owned \ {r}) \cup {s}

Init == owned = {}

Next ==
  \/ \E r \in Ranges : Give(r)
  \/ \E r \in owned : TakeBack(r)
  \/ \E r \in owned : \E s \in Ranges : Resize(r, s)

Spec == Init /\ [][Next]_owned
===============================================================================
