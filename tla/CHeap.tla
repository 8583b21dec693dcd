--------------------------------- MODULE CHeap ---------------------------------
(***************************************************************************)
(* The process heap behind piMalloc, piCalloc and piFree (lib/common/      *)
(* memory.c).  malloc is external: it answers the lowest block that is not *)
(* live.  Where it fails the process ends (pi_CheckNotNull), so no caller  *)
(* ever sees NULL, and the branches of callers that test for it are dead.  *)
(* The statistics of PI_ENABLE_MEMORY_TRACKING are left out.               *)
(***************************************************************************)
EXTENDS Integers, FiniteSets, FiniteSetsExt

CONSTANT Addresses    \* bound of the model: blocks that may be live at once

ASSUME HeapAssumption == Addresses \subseteq Nat /\ IsFiniteSet(Addresses)

VARIABLE live         \* addresses of the live blocks

CanMalloc == Addresses \ live # {}
Answered == Min(Addresses \ live)

Malloc == CanMalloc /\ live' = live \cup {Answered}

\* Freeing twice, or what was never allocated, is no step.
Free(blocks) == blocks \subseteq live /\ live' = live \ blocks
===============================================================================
