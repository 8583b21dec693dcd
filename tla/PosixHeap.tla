------------------------------ MODULE PosixHeap ------------------------------
(***************************************************************************)
(* The first-fit free-list allocator behind every environment on POSIX     *)
(* (lib/runtime/env.c).  Addresses are offsets from the base of the mapped *)
(* region.  A block is a header followed by its data; `next' links blocks  *)
(* in address order and the free list links the free ones in the order     *)
(* frees and splits leave them.  Freed and reallocated blocks merge with   *)
(* the block after them only.                                              *)
(***************************************************************************)
EXTENDS Integers, Sequences, FiniteSets, FiniteSetsExt, SequencesExt

CONSTANTS
  HeapSize,      \* totalSize, a multiple of the page size
  Align,         \* PI_HEAP_ALIGNMENT
  MinBlock,      \* PI_HEAP_MIN_BLOCK_SIZE
  HeaderSize,    \* sizeof(PiBlockHeader)
  WordSize,      \* SIZE_MAX + 1: size_t arithmetic wraps
  Requests,      \* sizes callers ask for
  NULL

ASSUME HeapAssumption ==
  /\ HeaderSize \in Nat \ {0} /\ MinBlock \in Nat \ {0} /\ Align \in Nat \ {0}
  /\ HeapSize \in Nat /\ HeapSize >= HeaderSize + MinBlock
  /\ HeaderSize % Align = 0 /\ MinBlock % Align = 0 /\ HeapSize % Align = 0
  /\ WordSize \in Nat \ {0} /\ WordSize % Align = 0
  /\ Requests \subseteq 0 .. WordSize - 1
  /\ NULL \notin Int

VARIABLES
  heap,          \* hdr: block address -> header; freeList; usedSize
  want           \* history: pointer the host owns -> bytes it last asked for

vars == <<heap, want>>

Blocks(h) == DOMAIN h.hdr
FreeBlocks(h) == {b \in Blocks(h) : ~h.hdr[b].used}
UsedBlocks(h) == {b \in Blocks(h) : h.hdr[b].used}

End(h, b) == b + HeaderSize + h.hdr[b].size
DataOf(b) == b + HeaderSize
BlockOf(p) == p - HeaderSize

-------------------------------------------------------------------------------
(* The allocator's functions, from a heap to a heap.                          *)

AlignUpNot(n) == n % WordSize              \* mutant: requests are not rounded
AlignUp(n) == LET m == (n + Align - 1) % WordSize IN m - (m % Align)

BlockSize(n) == IF AlignUp(n) < MinBlock THEN MinBlock ELSE AlignUp(n)

Candidates(h, n) == {i \in DOMAIN h.freeList : h.hdr[h.freeList[i]].size >= BlockSize(n)}

FirstFit(h, n) == CHOOSE i \in Candidates(h, n) : \A j \in Candidates(h, n) : i <= j

CanServe(h, n) == n # 0 /\ Candidates(h, n) # {}

\* Where the allocation of n bytes is placed.
Placed(h, n) == h.freeList[FirstFit(h, n)]

\* The rest of the block becomes a block that takes over its free-list slot.
Split(h, i, b, n) ==
  LET new == b + HeaderSize + n
  IN  [hdr |-> [x \in Blocks(h) \cup {new} |->
                  IF x = b THEN [size |-> n, used |-> TRUE, next |-> new]
                  ELSE IF x = new
                         THEN [size |-> h.hdr[b].size - n - HeaderSize, used |-> FALSE,
                               next |-> h.hdr[b].next]
                         ELSE h.hdr[x]],
       freeList |-> ReplaceAt(h.freeList, i, new),
       usedSize |-> h.usedSize + n]

TakeWhole(h, i, b) ==
  [hdr |-> [h.hdr EXCEPT ![b].used = TRUE],
   freeList |-> RemoveAt(h.freeList, i),
   usedSize |-> h.usedSize + h.hdr[b].size]

HeapAlloc(h, n) ==
  LET i == FirstFit(h, n)
      b == Placed(h, n)
  IN  IF ~CanServe(h, n) THEN h
      ELSE IF h.hdr[b].size - BlockSize(n) >= HeaderSize + MinBlock
             THEN Split(h, i, b, BlockSize(n))
             ELSE TakeWhole(h, i, b)

NextIsFree(h, b) == h.hdr[b].next # NULL /\ ~h.hdr[h.hdr[b].next].used

\* The search both Free and Realloc run to unlink the following block.
Unlink(fl, b) ==
  LET at == {i \in DOMAIN fl : fl[i] = b}
  IN  IF at = {} THEN fl ELSE RemoveAt(fl, CHOOSE i \in at : \A j \in at : i <= j)

\* mutant: the swallowed header is lost
MergedSizeNoHeader(h, b) == h.hdr[b].size + h.hdr[h.hdr[b].next].size

MergedSize(h, b) == h.hdr[b].size + HeaderSize + h.hdr[h.hdr[b].next].size

\* Block b swallows the free block after it.
MergeNext(h, b) ==
  LET nx == h.hdr[b].next
  IN  [h EXCEPT !.hdr = [x \in Blocks(h) \ {nx} |->
                           IF x = b THEN [h.hdr[b] EXCEPT !.size = MergedSize(h, b),
                                                          !.next = h.hdr[nx].next]
                                    ELSE h.hdr[x]],
                !.freeList = Unlink(h.freeList, nx)]

HeapFree(h, b) ==
  LET m == IF NextIsFree(h, b) THEN MergeNext(h, b) ELSE h
  IN  IF ~h.hdr[b].used THEN h
      ELSE [hdr |-> [m.hdr EXCEPT ![b].used = FALSE],
            freeList |-> <<b>> \o m.freeList,
            usedSize |-> h.usedSize - h.hdr[b].size]

CanGrowInPlace(h, b, n) == NextIsFree(h, b) /\ MergedSize(h, b) >= BlockSize(n)

GrowInPlace(h, b) ==
  LET m == MergeNext(h, b)
  IN  [m EXCEPT !.usedSize = @ - h.hdr[b].size + MergedSize(h, b)]

-------------------------------------------------------------------------------
(* The calls a host makes.                                                    *)

Forget(p) == [q \in DOMAIN want \ {p} |-> want[q]]
Learn(w, p, n) == [q \in DOMAIN w \cup {p} |-> IF q = p THEN n ELSE w[q]]

Alloc(n) ==
  /\ heap' = HeapAlloc(heap, n)
  /\ want' = IF CanServe(heap, n) THEN Learn(want, DataOf(Placed(heap, n)), n) ELSE want

Free(p) ==
  /\ heap' = HeapFree(heap, BlockOf(p))
  /\ want' = Forget(p)

\* Realloc(NULL, n) is Alloc(n) and Realloc(p, 0) is Free(p).
ReallocInPlace(p, n) ==
  /\ n > 0
  /\ heap.hdr[BlockOf(p)].size >= BlockSize(n)
  /\ want' = [want EXCEPT ![p] = n]
  /\ UNCHANGED heap

ReallocGrow(p, n) ==
  /\ n > 0
  /\ heap.hdr[BlockOf(p)].size < BlockSize(n)
  /\ CanGrowInPlace(heap, BlockOf(p), n)
  /\ heap' = GrowInPlace(heap, BlockOf(p))
  /\ want' = [want EXCEPT ![p] = n]

\* A new block, a copy, and the old block freed; all or nothing.
ReallocMove(p, n) ==
  /\ n > 0
  /\ heap.hdr[BlockOf(p)].size < BlockSize(n)
  /\ ~CanGrowInPlace(heap, BlockOf(p), n)
  /\ IF CanServe(heap, BlockSize(n))
       THEN /\ heap' = HeapFree(HeapAlloc(heap, BlockSize(n)), BlockOf(p))
            /\ want' = Learn(Forget(p), DataOf(Placed(heap, BlockSize(n))), n)
       ELSE UNCHANGED vars

Init ==
  /\ heap = [hdr |-> [b \in {0} |-> [size |-> HeapSize - HeaderSize, used |-> FALSE,
                                     next |-> NULL]],
             freeList |-> <<0>>, usedSize |-> 0]
  /\ want = [p \in {} |-> 0]

Next ==
  \/ \E n \in Requests : Alloc(n)
  \/ \E p \in DOMAIN want : Free(p)
  \/ \E p \in DOMAIN want, n \in Requests : ReallocInPlace(p, n)
  \/ \E p \in DOMAIN want, n \in Requests : ReallocGrow(p, n)
  \/ \E p \in DOMAIN want, n \in Requests : ReallocMove(p, n)

Spec == Init /\ [][Next]_vars

-------------------------------------------------------------------------------
(* Properties.                                                                *)

HeaderType == [size : Nat, used : BOOLEAN, next : Nat \cup {NULL}]

\* Types of the heap structure and of the history.
TypeOK ==
  /\ heap = [hdr |-> heap.hdr, freeList |-> heap.freeList, usedSize |-> heap.usedSize]
  /\ Blocks(heap) \subseteq Nat
  /\ heap.hdr \in [Blocks(heap) -> HeaderType]
  /\ heap.freeList \in Seq(Nat)
  /\ heap.usedSize \in Nat
  /\ DOMAIN want \subseteq Nat

\* The chain of next links from the first block tiles the mapped region: no gap,
\* no overlap, no block beyond the end, whatever splits and merges came before.
Tiled(h) ==
  /\ 0 \in Blocks(h)
  /\ \A b \in Blocks(h) :
       /\ h.hdr[b].size >= MinBlock
       /\ IF h.hdr[b].next = NULL THEN End(h, b) = HeapSize
                                  ELSE h.hdr[b].next \in Blocks(h) /\ h.hdr[b].next = End(h, b)
       /\ \A c \in Blocks(h) : b < c => End(h, b) <= c

BlocksTile == Tiled(heap)

\* The free list holds every free block once and nothing else, so a merge always
\* finds the block it swallows and no block is ever handed out twice.
FreeListed(h) ==
  /\ ToSet(h.freeList) = FreeBlocks(h)
  /\ \A i, j \in DOMAIN h.freeList : i # j => h.freeList[i] # h.freeList[j]

FreeListExact == FreeListed(heap)

\* usedSize is the data of the used blocks.
UsedSizeExact ==
  heap.usedSize = SumFunctionOnSet([b \in Blocks(heap) |-> heap.hdr[b].size], UsedBlocks(heap))

\* Each pointer the host owns is the data of one used block, each used block has
\* its owner, and the block is as large as the owner last asked.
OwnersExact ==
  /\ DOMAIN want = {DataOf(b) : b \in UsedBlocks(heap)}
  /\ \A p \in DOMAIN want : heap.hdr[BlockOf(p)].size >= want[p]

\* Headers, free list, statistics and owners agree whatever was split, merged, grown
\* or moved before.
HeapIsSound == BlocksTile /\ FreeListExact /\ UsedSizeExact /\ OwnersExact

Owned == {[at |-> p, len |-> heap.hdr[BlockOf(p)].size] : p \in DOMAIN want}

Aligned == {a \in 0 .. HeapSize : a % Align = 0}

Abstract == INSTANCE Allocator WITH
  ArenaSize <- HeapSize, Starts <- Aligned, Lengths <- Aligned \ {0}, owned <- Owned

\* What the free list and the headers do together implements an allocator:
\* aligned ranges inside the region, apart, moved only by their owner's call, and
\* untouched by a call that fails.
ImplementsAllocator == Abstract!Spec
===============================================================================
