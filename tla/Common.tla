--------------------------------- MODULE Common ---------------------------------
(***************************************************************************)
(* An arena and strings over one process heap, used by one host, and       *)
(* values, which use no heap and are compared while it is empty.           *)
(***************************************************************************)
EXTENDS Arena, Strings, Values

vars == <<live, arenaVars, stringVars, operands>>

Init == live = {} /\ ArenaInit /\ StringsInit /\ ValuesInit

Next ==
  \/ ArenaNext /\ UNCHANGED stringVars /\ operands' = NoOperands
  \/ StringsNext /\ UNCHANGED arenaVars /\ operands' = NoOperands
  \/ /\ live = {} /\ \A s \in Names : str[s] = NULL
     /\ ValuesNext
     /\ UNCHANGED <<live, arenaVars, stringVars>>

Spec == Init /\ [][Next]_vars

Owned == {str[s].chars.at : s \in {x \in Names : HasChars(x) /\ str[x].clear}}

\* Every live block is a block of the arena or the characters of a string that will
\* free them, and of no two: nothing is leaked, freed early or freed twice, in any
\* order of resets, duplicates, copies and frees.
HeapIsOwned ==
  /\ live = FreedBlocks \cup Owned
  /\ FreedBlocks \cap Owned = {}
  /\ Cardinality(FreedBlocks) = Len(chain)
===============================================================================
