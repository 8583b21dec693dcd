--------------------------------- MODULE Arena ---------------------------------
(***************************************************************************)
(* The arena (lib/common/arena.c): a chain of blocks of the process heap,  *)
(* the newest at its head, out of whose current block ranges are handed.   *)
(* A block stands for its PiArenaBlock and the data behind it.             *)
(***************************************************************************)
EXTENDS CHeap, Sequences, SequencesExt

CONSTANTS
  Alignment,     \* PI_ARENA_ALIGNMENT
  WordSize,      \* SIZE_MAX + 1: size_t arithmetic wraps
  AddressSpace,  \* bytes malloc can ever have given out at once
  BlockSizes,    \* sizes the host initialises an arena with
  Sizes,         \* sizes it asks for
  MaxHanded      \* bound of the model: ranges it holds at once

ASSUME ArenaAssumption ==
  /\ Alignment \in Nat \ {0}
  /\ WordSize \in Nat \ {0} /\ WordSize % Alignment = 0
  /\ AddressSpace \in 0 .. WordSize - 1
  /\ BlockSizes \subseteq 1 .. WordSize - 1 /\ Sizes \subseteq 1 .. WordSize - 1
  /\ MaxHanded \in Nat

VARIABLES
  blockSize, totalAllocated,
  chain,         \* the blocks from arena->head on: address, size, used
  curr,          \* the place of arena->curr in the chain, 0 for NULL
  handed         \* ranges handed out since the last reset: address, from, size

arenaVars == <<blockSize, totalAllocated, chain, curr, handed>>

\* mutant: sizes are rounded down
AlignSizeDown(size) == Max({1, size \div Alignment}) * Alignment

AlignSize(size) ==
  LET past == (size + (Alignment - 1)) % WordSize IN past - (past % Alignment)

UsedWith(size) == (chain[curr].used + AlignSize(size)) % WordSize

Fits(size) == curr # 0 /\ UsedWith(size) <= chain[curr].size

NewBlockSize(size) == Max({AlignSize(size), blockSize})

ArenaAllocHere(size) ==
  LET block == chain[curr]
  IN  /\ Fits(size)
      /\ chain' = [chain EXCEPT ![curr].used = UsedWith(size)]
      /\ handed' = handed \cup {[at |-> block.at, from |-> block.used, size |-> size]}
      /\ UNCHANGED <<live, blockSize, totalAllocated, curr>>

\* The new block goes to the head of the chain, whatever room the others have.  The
\* process ends where there is no memory for it.
ArenaAllocNew(size) ==
  /\ ~Fits(size)
  /\ totalAllocated + NewBlockSize(size) <= AddressSpace
  /\ Malloc
  /\ chain' = <<[at |-> Answered, size |-> NewBlockSize(size), used |-> AlignSize(size)]>>
                \o chain
  /\ curr' = 1
  /\ totalAllocated' = totalAllocated + NewBlockSize(size)
  /\ handed' = handed \cup {[at |-> Answered, from |-> 0, size |-> size]}
  /\ UNCHANGED blockSize

ArenaAlloc(size) == ArenaAllocHere(size) \/ ArenaAllocNew(size)

\* Only the head is ever filled again: the blocks behind it wait for piFreeArena.
ArenaReset ==
  /\ chain' = [i \in DOMAIN chain |-> [chain[i] EXCEPT !.used = 0]]
  /\ curr' = IF chain = <<>> THEN 0 ELSE 1
  /\ handed' = {}
  /\ UNCHANGED <<live, blockSize, totalAllocated>>

\* mutant: the loop stops at the last block
FreedButLast == {chain[i].at : i \in 1 .. Len(chain) - 1}

FreedBlocks == {chain[i].at : i \in DOMAIN chain}

FreeArena ==
  /\ Free(FreedBlocks)
  /\ chain' = <<>> /\ curr' = 0 /\ totalAllocated' = 0
  /\ handed' = {}
  /\ UNCHANGED blockSize

\* Initialised once, or again after it was freed.
InitArena(size) ==
  /\ chain = <<>>
  /\ blockSize' = size /\ totalAllocated' = 0
  /\ chain' = <<>> /\ curr' = 0 /\ handed' = {}
  /\ UNCHANGED live

ArenaNext ==
  \/ Cardinality(handed) < MaxHanded /\ \E size \in Sizes : ArenaAlloc(size)
  \/ ArenaReset \/ FreeArena
  \/ \E size \in BlockSizes : InitArena(size)

ArenaInit ==
  /\ blockSize \in BlockSizes /\ totalAllocated = 0
  /\ chain = <<>> /\ curr = 0 /\ handed = {}

-------------------------------------------------------------------------------
BlockAt(a) == chain[CHOOSE i \in DOMAIN chain : chain[i].at = a]

Apart(r, q) == r.at # q.at \/ r.from + r.size <= q.from \/ q.from + q.size <= r.from

\* Neither the rounding of a size nor the sum with what is used of a block wraps.
Measurable(size) == size + (Alignment - 1) + AddressSpace < WordSize

\* Until a request so large that its arithmetic wraps is served, and again after the
\* reset that follows it, what the arena hands out is aligned, lies inside live blocks
\* of the arena and never overlaps, through new blocks, resets and reuse; and the
\* total it reports is always the room its blocks have.
ArenaSound ==
  /\ (\A r \in handed : Measurable(r.size)) =>
       /\ \A r \in handed :
            /\ \E i \in DOMAIN chain : chain[i].at = r.at
            /\ r.from % Alignment = 0
            /\ r.from + r.size <= BlockAt(r.at).size
       /\ \A r, q \in handed : r = q \/ Apart(r, q)
  /\ totalAllocated = SumFunctionOnSet([a \in FreedBlocks |-> BlockAt(a).size], FreedBlocks)
===============================================================================
