---------------------------- MODULE PosixHeapProofs ----------------------------
(***************************************************************************)
(* Proofs about PosixHeap, for every size of the heap, its headers, blocks *)
(* and alignment, and every set of requests; one theorem asks that no      *)
(* request wraps around when it is rounded up.                             *)
(***************************************************************************)
EXTENDS PosixHeap, DataLemmas

USE HeapAssumption

\* The requests that size_t can round up.
RequestsRoundUp == \A n \in Requests : n + Align - 1 < WordSize

-------------------------------------------------------------------------------
(* What holds of a heap between any two calls.                                *)

Typed(h) ==
  /\ h = [hdr |-> h.hdr, freeList |-> h.freeList, usedSize |-> h.usedSize]
  /\ Blocks(h) \subseteq Nat
  /\ h.hdr \in [Blocks(h) -> HeaderType]
  /\ h.freeList \in Seq(Nat)
  /\ h.usedSize \in Nat

\* No block reaches beyond the region, and all are aligned in place and size.
Placement(h) ==
  \A b \in Blocks(h) : End(h, b) <= HeapSize /\ b % Align = 0 /\ h.hdr[b].size % Align = 0

Sound(h) == Typed(h) /\ Tiled(h) /\ FreeListed(h) /\ Placement(h)

Sizes(h) == [b \in Blocks(h) |-> h.hdr[b].size]
UsedBytes(h) == SumFunctionOnSet(Sizes(h), UsedBlocks(h))

\* The sizes a caller asks for, rounded.
LEMMA BlockSizeFacts ==
  ASSUME NEW n \in Nat
  PROVE  /\ AlignUp(n) \in Nat /\ AlignUp(n) % Align = 0 /\ AlignUp(n) < WordSize
         /\ n + Align - 1 < WordSize => n <= AlignUp(n)
         /\ BlockSize(n) \in Nat /\ BlockSize(n) >= MinBlock /\ BlockSize(n) % Align = 0
         /\ n + Align - 1 < WordSize => n <= BlockSize(n)
<1> DEFINE m == (n + Align - 1) % WordSize
<1>1. n + Align - 1 \in Nat
  OBVIOUS
<1>2. m \in 0 .. WordSize - 1 /\ (n + Align - 1 < WordSize => m = n + Align - 1)
  BY <1>1
<1> HIDE DEF m
<1>3. AlignUp(n) = m - (m % Align)
  BY DEF AlignUp, m
<1>4. m \in Nat /\ m % Align \in 0 .. Align - 1 /\ m - (m % Align) \in Nat
      /\ (m - (m % Align)) % Align = 0
  <2>1. m \in Nat
    BY <1>2
  <2>2. m % Align \in 0 .. Align - 1
    BY <2>1
  <2>3. m - (m % Align) \in Nat /\ (m - (m % Align)) % Align = 0
    BY <2>1, RoundedDown
  <2>4. QED
    BY <2>1, <2>2, <2>3
<1>5. AlignUp(n) \in Nat /\ AlignUp(n) % Align = 0 /\ AlignUp(n) < WordSize
  BY <1>2, <1>3, <1>4
<1>6. n + Align - 1 < WordSize => n <= AlignUp(n)
  BY <1>2, <1>3, <1>4
<1>7. /\ BlockSize(n) \in Nat /\ BlockSize(n) >= MinBlock /\ BlockSize(n) % Align = 0
      /\ AlignUp(n) <= BlockSize(n)
  BY <1>5 DEF BlockSize
<1>8. QED
  BY <1>5, <1>6, <1>7

\* A rounded size is asked for again by realloc, and is rounded already.
LEMMA BlockSizeAgain ==
  ASSUME NEW n \in Nat, n + Align - 1 < WordSize
  PROVE  n <= BlockSize(BlockSize(n))
<1>1. CASE AlignUp(n) < MinBlock
  <2>1. BlockSize(n) = MinBlock
    BY <1>1 DEF BlockSize
  <2>2. BlockSize(MinBlock) >= MinBlock /\ n <= MinBlock
    BY <2>1, BlockSizeFacts
  <2>3. QED
    BY <2>1, <2>2, BlockSizeFacts
<1>2. CASE ~(AlignUp(n) < MinBlock)
  <2> DEFINE a == AlignUp(n)
  <2>1. BlockSize(n) = a
    BY <1>2 DEF BlockSize
  <2>2. a \in Nat /\ a % Align = 0 /\ a < WordSize /\ n <= a
    BY BlockSizeFacts
  <2> HIDE DEF a
  <2>3. a + Align <= WordSize
    BY <2>2, MultiplesApart
  <2>4. a + Align - 1 < WordSize
    BY <2>2, <2>3
  <2>5. a <= BlockSize(a) /\ BlockSize(a) \in Nat
    BY <2>2, <2>4, BlockSizeFacts
  <2>6. QED
    BY <2>1, <2>2, <2>5
<1>3. QED
  BY <1>1, <1>2

OnGrid(m) == m \in Nat /\ m % Align = 0

\* Sums and differences of multiples of the alignment are multiples of it.
LEMMA GridFacts ==
  /\ OnGrid(HeaderSize) /\ OnGrid(MinBlock) /\ OnGrid(HeapSize)
  /\ \A m, n : OnGrid(m) /\ OnGrid(n) => OnGrid(m + n) /\ (n <= m => OnGrid(m - n))
<1>1. OnGrid(HeaderSize) /\ OnGrid(MinBlock) /\ OnGrid(HeapSize)
  BY DEF OnGrid
<1>2. ASSUME NEW m, NEW n, OnGrid(m) /\ OnGrid(n)
      PROVE  OnGrid(m + n) /\ (n <= m => OnGrid(m - n))
  <2>1. m \in Nat /\ n \in Nat /\ m % Align = 0 /\ n % Align = 0 /\ Align \in Nat \ {0}
    BY <1>2 DEF OnGrid
  <2>2. (m + n) % Align = 0 /\ (n <= m => (m - n) % Align = 0)
    BY <2>1, MultiplesAdd
  <2>3. QED
    BY <2>1, <2>2 DEF OnGrid
<1>3. QED
  BY <1>1, <1>2

\* A heap has finitely many blocks.
LEMMA BlocksFinite ==
  ASSUME NEW h, Sound(h)
  PROVE  IsFiniteSet(Blocks(h)) /\ IsFiniteSet(UsedBlocks(h))
<1>1. Blocks(h) \subseteq 0 .. HeapSize
  BY DEF Sound, Typed, Placement, End, HeaderType
<1>2. IsFiniteSet(0 .. HeapSize)
  BY FS_Interval
<1>3. UsedBlocks(h) \subseteq Blocks(h)
  BY DEF UsedBlocks
<1>4. QED
  BY <1>1, <1>2, <1>3, FS_Subset

\* What the header of a block says.
LEMMA HeaderFacts ==
  ASSUME NEW h, Sound(h), NEW b \in Blocks(h)
  PROVE  /\ b \in Nat /\ h.hdr[b] \in HeaderType
         /\ h.hdr[b].size \in Nat /\ h.hdr[b].used \in BOOLEAN
         /\ h.hdr[b].next \in Nat \cup {NULL}
         /\ h.hdr[b].size >= MinBlock
         /\ b % Align = 0 /\ h.hdr[b].size % Align = 0
         /\ b + HeaderSize + h.hdr[b].size <= HeapSize
         /\ IF h.hdr[b].next = NULL THEN b + HeaderSize + h.hdr[b].size = HeapSize
            ELSE h.hdr[b].next \in Blocks(h) /\ h.hdr[b].next = b + HeaderSize + h.hdr[b].size
         /\ \A c \in Blocks(h) : b < c => b + HeaderSize + h.hdr[b].size <= c
  BY DEF Sound, Typed, Tiled, Placement, End, HeaderType

-------------------------------------------------------------------------------
(* What each function of the allocator makes of a sound heap.                 *)

\* Block b of h became one of n bytes at least that is in use; nothing else that is in
\* use changed.
Allocated(h, g, b, n) ==
  /\ Sound(g)
  /\ b \in FreeBlocks(h) /\ UsedBlocks(g) = UsedBlocks(h) \cup {b}
  /\ g.hdr[b].size >= n
  /\ \A c \in UsedBlocks(h) : g.hdr[c].size = h.hdr[c].size
  /\ g.usedSize = h.usedSize + g.hdr[b].size

\* The sequence fl has each element of S once and nothing else.
Lists(fl, S) ==
  /\ fl \in Seq(Nat) /\ ToSet(fl) = S
  /\ \A k, l \in DOMAIN fl : fl[k] = fl[l] => k = l

\* Slot i of the free list holds b.
Slot(h, i, b) == i \in DOMAIN h.freeList /\ h.freeList[i] = b

\* A list takes an element in place of another.
LEMMA ListsReplace ==
  ASSUME NEW fl, NEW S, Lists(fl, S), NEW i \in DOMAIN fl, NEW v \in Nat, v \notin S
  PROVE  Lists(ReplaceAt(fl, i, v), (S \ {fl[i]}) \cup {v})
<1>1. fl \in Seq(Nat) /\ v \notin ToSet(fl) /\ \A k, l \in DOMAIN fl : fl[k] = fl[l] => k = l
  BY DEF Lists
<1>2. ToSet(fl) = S
  BY DEF Lists
<1> DEFINE r == ReplaceAt(fl, i, v)
<1>3. /\ r \in Seq(Nat)
      /\ \A k, l \in DOMAIN r : r[k] = r[l] => k = l
      /\ ToSet(r) = (ToSet(fl) \ {fl[i]}) \cup {v}
  BY <1>1, ReplaceOnlyFacts
<1> HIDE DEF r
<1>4. Lists(r, (S \ {fl[i]}) \cup {v})
  BY <1>2, <1>3 DEF Lists
<1>5. QED
  BY <1>4 DEF r

\* A list loses an element.
LEMMA ListsRemove ==
  ASSUME NEW fl, NEW S, Lists(fl, S), NEW i \in DOMAIN fl
  PROVE  Lists(RemoveAt(fl, i), S \ {fl[i]})
<1>1. fl \in Seq(Nat) /\ \A k, l \in DOMAIN fl : fl[k] = fl[l] => k = l
  BY DEF Lists
<1>2. ToSet(fl) = S
  BY DEF Lists
<1> DEFINE r == RemoveAt(fl, i)
<1>3. r \in Seq(Nat)
  BY <1>1, RemoveAtFacts
<1>4. /\ \A k, l \in DOMAIN r : r[k] = r[l] => k = l
      /\ ToSet(r) = ToSet(fl) \ {fl[i]}
  BY <1>1, RemoveOnlyFacts
<1> HIDE DEF r
<1>5. Lists(r, S \ {fl[i]})
  BY <1>2, <1>3, <1>4 DEF Lists
<1>6. QED
  BY <1>5 DEF r

\* A list takes an element in front.
LEMMA ListsPrepend ==
  ASSUME NEW fl, NEW S, Lists(fl, S), NEW v \in Nat, v \notin S
  PROVE  Lists(<<v>> \o fl, S \cup {v})
<1>1. fl \in Seq(Nat) /\ v \notin ToSet(fl) /\ \A k, l \in DOMAIN fl : fl[k] = fl[l] => k = l
  BY DEF Lists
<1>2. ToSet(fl) = S
  BY DEF Lists
<1> DEFINE r == <<v>> \o fl
<1>3. /\ r \in Seq(Nat)
      /\ \A k, l \in DOMAIN r : r[k] = r[l] => k = l
      /\ ToSet(r) = ToSet(fl) \cup {v}
  BY <1>1, PrependOnlyFacts
<1> HIDE DEF r
<1>4. Lists(r, S \cup {v})
  BY <1>2, <1>3 DEF Lists
<1>5. QED
  BY <1>4 DEF r

\* A block of the free list is a free block, and the list has it once.
LEMMA FreeListFacts ==
  ASSUME NEW h, Sound(h)
  PROVE  /\ Lists(h.freeList, FreeBlocks(h))
         /\ \A i \in DOMAIN h.freeList : h.freeList[i] \in Blocks(h) /\ ~h.hdr[h.freeList[i]].used
         /\ FreeBlocks(h) \cap UsedBlocks(h) = {} /\ FreeBlocks(h) \cup UsedBlocks(h) = Blocks(h)
<1>1. /\ h.freeList \in Seq(Nat)
      /\ ToSet(h.freeList) = FreeBlocks(h)
      /\ \A i, j \in DOMAIN h.freeList : h.freeList[i] = h.freeList[j] => i = j
  BY DEF Sound, Typed, FreeListed
<1>2. \A i \in DOMAIN h.freeList : h.freeList[i] \in FreeBlocks(h)
  BY <1>1 DEF ToSet
<1>3. QED
  BY <1>1, <1>2 DEF FreeBlocks, UsedBlocks, Lists

\* The rest of a block that is split becomes a block of its own.
LEMMA SplitFacts ==
  ASSUME NEW h, Sound(h), NEW i, NEW b, Slot(h, i, b),
         NEW n \in Nat, n >= MinBlock, n % Align = 0,
         h.hdr[b].size - n >= HeaderSize + MinBlock
  PROVE  Allocated(h, Split(h, i, b, n), b, n)
<1> DEFINE new == b + HeaderSize + n
           rest == h.hdr[b].size - n - HeaderSize
           g == Split(h, i, b, n)
<1>1. b \in Blocks(h) /\ ~h.hdr[b].used
  BY FreeListFacts DEF Slot
<1>2. /\ b \in Nat /\ h.hdr[b].size \in Nat /\ h.hdr[b].next \in Nat \cup {NULL}
      /\ b % Align = 0 /\ h.hdr[b].size % Align = 0
      /\ b + HeaderSize + h.hdr[b].size <= HeapSize
      /\ IF h.hdr[b].next = NULL THEN b + HeaderSize + h.hdr[b].size = HeapSize
         ELSE h.hdr[b].next \in Blocks(h) /\ h.hdr[b].next = b + HeaderSize + h.hdr[b].size
      /\ \A c \in Blocks(h) : b < c => b + HeaderSize + h.hdr[b].size <= c
  BY <1>1, HeaderFacts
<1>3. /\ new \in Nat /\ rest \in Nat /\ rest >= MinBlock /\ b < new
      /\ new + HeaderSize + rest = b + HeaderSize + h.hdr[b].size
      /\ new < b + HeaderSize + h.hdr[b].size
  BY <1>2
<1>4. new \notin Blocks(h)
  BY <1>2, <1>3
<1>5. new % Align = 0 /\ rest % Align = 0
  <2>1. OnGrid(b) /\ OnGrid(n) /\ OnGrid(h.hdr[b].size) /\ OnGrid(HeaderSize)
    BY <1>2, GridFacts DEF OnGrid
  <2>2. OnGrid(b + HeaderSize + n)
    BY <2>1, GridFacts
  <2>3. n <= h.hdr[b].size /\ HeaderSize <= h.hdr[b].size - n
    BY <1>2
  <2>4. OnGrid(h.hdr[b].size - n - HeaderSize)
    BY <2>1, <2>3, GridFacts
  <2>5. QED
    BY <2>2, <2>4 DEF OnGrid
<1>6. /\ g = [hdr |-> g.hdr, freeList |-> g.freeList, usedSize |-> g.usedSize]
      /\ g.hdr = [x \in Blocks(h) \cup {new} |->
                    IF x = b THEN [size |-> n, used |-> TRUE, next |-> new]
                    ELSE IF x = new
                           THEN [size |-> rest, used |-> FALSE, next |-> h.hdr[b].next]
                           ELSE h.hdr[x]]
      /\ g.freeList = ReplaceAt(h.freeList, i, new)
      /\ g.usedSize = h.usedSize + n
  BY DEF Split
<1> HIDE DEF g, new, rest
<1>7. /\ Blocks(g) = Blocks(h) \cup {new}
      /\ g.hdr[b] = [size |-> n, used |-> TRUE, next |-> new]
      /\ g.hdr[new] = [size |-> rest, used |-> FALSE, next |-> h.hdr[b].next]
      /\ \A c \in Blocks(h) : c # b => g.hdr[c] = h.hdr[c]
  BY <1>1, <1>4, <1>6 DEF Blocks
<1>9. Tiled(g)
  <2>1. 0 \in Blocks(g)
    BY <1>7 DEF Sound, Tiled
  <2>2. ASSUME NEW c \in Blocks(g)
        PROVE  /\ g.hdr[c].size >= MinBlock
               /\ IF g.hdr[c].next = NULL THEN c + HeaderSize + g.hdr[c].size = HeapSize
                  ELSE /\ g.hdr[c].next \in Blocks(g)
                       /\ g.hdr[c].next = c + HeaderSize + g.hdr[c].size
               /\ \A d \in Blocks(g) : c < d => c + HeaderSize + g.hdr[c].size <= d
    <3>1. CASE c = b
      <4>1. g.hdr[c].size = n /\ g.hdr[c].next = new /\ new # NULL
        BY <3>1, <1>3, <1>7
      <4>2. new = c + HeaderSize + n
        BY <3>1 DEF new
      <4>3. \A d \in Blocks(g) : c < d => c + HeaderSize + n <= d
        BY <3>1, <1>2, <1>3, <1>7, <4>2
      <4>4. QED
        BY <1>7, <4>1, <4>2, <4>3
    <3>2. CASE c = new
      <4>1. g.hdr[c].size = rest /\ g.hdr[c].next = h.hdr[b].next
        BY <3>2, <1>7
      <4>2. c + HeaderSize + rest = b + HeaderSize + h.hdr[b].size
        BY <3>2, <1>3
      <4>3. \A d \in Blocks(g) : c < d => c + HeaderSize + rest <= d
        <5>1. ASSUME NEW d \in Blocks(h), new < d
              PROVE  b < d
          <6>1. d \in Nat
            BY HeaderFacts
          <6>2. QED
            BY <1>2, <1>3, <5>1, <6>1
        <5>2. QED
          BY <3>2, <1>2, <1>3, <1>7, <4>2, <5>1
      <4>4. QED
        BY <1>2, <1>3, <1>7, <4>1, <4>2, <4>3
    <3>3. CASE c # b /\ c # new
      <4>1. c \in Blocks(h) /\ g.hdr[c] = h.hdr[c]
        BY <3>3, <1>7
      <4>2. /\ c \in Nat /\ h.hdr[c].size \in Nat /\ h.hdr[c].size >= MinBlock
            /\ IF h.hdr[c].next = NULL THEN c + HeaderSize + h.hdr[c].size = HeapSize
               ELSE h.hdr[c].next \in Blocks(h) /\ h.hdr[c].next = c + HeaderSize + h.hdr[c].size
            /\ \A d \in Blocks(h) : c < d => c + HeaderSize + h.hdr[c].size <= d
        BY <4>1, HeaderFacts
      <4>3. c < new => c + HeaderSize + h.hdr[c].size <= new
        <5>1. CASE c < b
          <6>1. c + HeaderSize + h.hdr[c].size <= b
            BY <5>1, <4>2, <1>1
          <6>2. QED
            BY <6>1, <4>2, <1>2, <1>3
        <5>2. CASE b < c
          BY <5>2, <1>2, <1>3, <4>1, <4>2
        <5>3. QED
          BY <5>1, <5>2, <3>3, <4>2, <1>2
      <4>4. QED
        BY <4>1, <4>2, <4>3, <1>7
    <3>4. QED
      BY <3>1, <3>2, <3>3
  <2>3. QED
    BY <2>1, <2>2 DEF Tiled, End
<1>10. \A c \in Blocks(h) : g.hdr[c].used <=> (h.hdr[c].used \/ c = b)
  BY <1>7
<1>11. ~g.hdr[new].used
  BY <1>7
<1>12. /\ UsedBlocks(g) = UsedBlocks(h) \cup {b}
       /\ FreeBlocks(g) = (FreeBlocks(h) \ {b}) \cup {new}
       /\ b \in FreeBlocks(h)
  <2>1. UsedBlocks(g) = UsedBlocks(h) \cup {b}
    BY <1>1, <1>4, <1>7, <1>10, <1>11 DEF UsedBlocks
  <2>2. FreeBlocks(g) = (FreeBlocks(h) \ {b}) \cup {new}
    BY <1>1, <1>4, <1>7, <1>10, <1>11 DEF FreeBlocks
  <2>3. QED
    BY <2>1, <2>2, <1>1 DEF FreeBlocks
<1>13. Lists(g.freeList, FreeBlocks(g))
  <2>1. Lists(h.freeList, FreeBlocks(h)) /\ new \notin FreeBlocks(h)
    BY <1>4, FreeListFacts DEF FreeBlocks
  <2>2. Lists(ReplaceAt(h.freeList, i, new), (FreeBlocks(h) \ {h.freeList[i]}) \cup {new})
    BY <1>3, <2>1, ListsReplace DEF Slot
  <2>3. h.freeList[i] = b
    BY DEF Slot
  <2>4. QED
    BY <1>6, <1>12, <2>2, <2>3
<1>14. Typed(g)
  <2>1. \A c \in Blocks(g) : g.hdr[c] \in HeaderType
    <3>1. [size |-> n, used |-> TRUE, next |-> new] \in HeaderType
      BY <1>3 DEF HeaderType
    <3>2. [size |-> rest, used |-> FALSE, next |-> h.hdr[b].next] \in HeaderType
      BY <1>2, <1>3 DEF HeaderType
    <3>3. \A c \in Blocks(h) : h.hdr[c] \in HeaderType
      BY HeaderFacts
    <3>4. QED
      BY <1>7, <3>1, <3>2, <3>3
  <2>2. g.hdr \in [Blocks(g) -> HeaderType]
    BY <1>6, <1>7, <2>1
  <2>3. Blocks(g) \subseteq Nat
    BY <1>3, <1>7, HeaderFacts
  <2>4. h.usedSize \in Nat
    BY DEF Sound, Typed
  <2>5. g.freeList \in Seq(Nat)
    BY <1>13 DEF Lists
  <2>6. g.usedSize \in Nat
    BY <1>6, <2>4
  <2>7. QED
    BY <1>6, <2>2, <2>3, <2>5, <2>6 DEF Typed
<1>8. Placement(g)
  <2>1. ASSUME NEW c \in Blocks(g)
        PROVE  /\ c + HeaderSize + g.hdr[c].size <= HeapSize
               /\ c % Align = 0 /\ g.hdr[c].size % Align = 0
    <3>1. CASE c = b
      <4>1. g.hdr[c].size = n /\ c + HeaderSize + n = new
        BY <3>1, <1>7 DEF new
      <4>2. QED
        BY <3>1, <1>2, <1>3, <4>1
    <3>2. CASE c = new
      BY <3>2, <1>2, <1>3, <1>5, <1>7
    <3>3. CASE c # b /\ c # new
      BY <3>3, <1>7, HeaderFacts
    <3>4. QED
      BY <3>1, <3>2, <3>3
  <2>2. QED
    BY <2>1 DEF Placement, End
<1>15. \A c \in UsedBlocks(h) : g.hdr[c].size = h.hdr[c].size
  BY <1>1, <1>7 DEF UsedBlocks
<1>16. g.hdr[b].size = n
  BY <1>7
<1>17. Sound(g)
  BY <1>8, <1>9, <1>13, <1>14 DEF Sound, Lists, FreeListed
<1>18. Allocated(h, g, b, n)
  <2>1. g.usedSize = h.usedSize + g.hdr[b].size /\ g.hdr[b].size >= n
    BY <1>6, <1>16
  <2>2. QED
    BY <2>1, <1>12, <1>15, <1>17 DEF Allocated
<1>19. QED
  BY <1>18 DEF g

\* A block that leaves too little is taken whole.
LEMMA TakeWholeFacts ==
  ASSUME NEW h, Sound(h), NEW i, NEW b, Slot(h, i, b),
         NEW n \in Nat, h.hdr[b].size >= n
  PROVE  Allocated(h, TakeWhole(h, i, b), b, n)
<1> DEFINE g == TakeWhole(h, i, b)
           taken == [h.hdr[b] EXCEPT !.used = TRUE]
<1>1. b \in Blocks(h) /\ ~h.hdr[b].used
  BY FreeListFacts DEF Slot
<1>2. h.hdr \in [Blocks(h) -> HeaderType] /\ h.usedSize \in Nat /\ Blocks(h) \subseteq Nat
  BY DEF Sound, Typed
<1>3. /\ g = [hdr |-> g.hdr, freeList |-> g.freeList, usedSize |-> g.usedSize]
      /\ g.hdr = [h.hdr EXCEPT ![b] = taken]
      /\ g.freeList = RemoveAt(h.freeList, i)
      /\ g.usedSize = h.usedSize + h.hdr[b].size
  BY DEF TakeWhole
<1>4. h.hdr[b] \in HeaderType /\ h.hdr[b].size \in Nat
  BY <1>1, HeaderFacts
<1>5. /\ taken \in HeaderType /\ taken.size = h.hdr[b].size /\ taken.next = h.hdr[b].next
      /\ taken.used = TRUE
  <2> DEFINE o == h.hdr[b]
  <2> HIDE DEF o
  <2>1. LET t == [o EXCEPT !.used = TRUE]
        IN  t \in HeaderType /\ t.size = o.size /\ t.next = o.next /\ t.used = TRUE
    <3>1. o \in HeaderType
      BY <1>4 DEF o
    <3>2. QED
      BY <3>1 DEF HeaderType
  <2>2. QED
    BY <2>1 DEF o
<1> HIDE DEF g, taken
<1>6. /\ Blocks(g) = Blocks(h)
      /\ g.hdr[b] = taken
      /\ \A c \in Blocks(h) : c # b => g.hdr[c] = h.hdr[c]
  BY <1>1, <1>3 DEF Blocks
<1>7. \A c \in Blocks(h) : g.hdr[c].size = h.hdr[c].size /\ g.hdr[c].next = h.hdr[c].next
  BY <1>5, <1>6
<1>8. \A c \in Blocks(h) : g.hdr[c].used <=> (h.hdr[c].used \/ c = b)
  BY <1>5, <1>6
<1>9. Tiled(g) /\ Placement(g)
  BY <1>6, <1>7 DEF Sound, Tiled, Placement, End
<1>10. /\ UsedBlocks(g) = UsedBlocks(h) \cup {b}
       /\ FreeBlocks(g) = FreeBlocks(h) \ {b}
       /\ b \in FreeBlocks(h)
  <2>1. UsedBlocks(g) = UsedBlocks(h) \cup {b}
    BY <1>1, <1>6, <1>8 DEF UsedBlocks
  <2>2. FreeBlocks(g) = FreeBlocks(h) \ {b}
    BY <1>1, <1>6, <1>8 DEF FreeBlocks
  <2>3. QED
    BY <2>1, <2>2, <1>1 DEF FreeBlocks
<1>11. Lists(g.freeList, FreeBlocks(g))
  <2>1. Lists(h.freeList, FreeBlocks(h))
    BY FreeListFacts
  <2>2. Lists(RemoveAt(h.freeList, i), FreeBlocks(h) \ {h.freeList[i]})
    BY <2>1, ListsRemove DEF Slot
  <2>3. h.freeList[i] = b
    BY DEF Slot
  <2>4. QED
    BY <1>3, <1>10, <2>2, <2>3
<1>12. Typed(g)
  <2>1. g.hdr \in [Blocks(g) -> HeaderType]
    BY <1>2, <1>3, <1>5, <1>6
  <2>2. g.freeList \in Seq(Nat)
    BY <1>11 DEF Lists
  <2>3. g.usedSize \in Nat
    BY <1>2, <1>3, <1>4
  <2>4. QED
    BY <1>2, <1>3, <1>6, <2>1, <2>2, <2>3 DEF Typed
<1>13. \A c \in UsedBlocks(h) : g.hdr[c].size = h.hdr[c].size
  BY <1>7 DEF UsedBlocks
<1>14. g.hdr[b].size = h.hdr[b].size
  BY <1>1, <1>7
<1>15. Sound(g)
  BY <1>9, <1>11, <1>12 DEF Sound, Lists, FreeListed
<1>16. Allocated(h, g, b, n)
  BY <1>3, <1>10, <1>13, <1>14, <1>15 DEF Allocated
<1>17. QED
  BY <1>16 DEF g
\* First fit finds a free block that is large enough, and takes it.
LEMMA HeapAllocFacts ==
  ASSUME NEW h, Sound(h), NEW n \in Nat
  PROVE  /\ CanServe(h, n) => Allocated(h, HeapAlloc(h, n), Placed(h, n), BlockSize(n))
         /\ ~CanServe(h, n) => HeapAlloc(h, n) = h
<1> DEFINE k == BlockSize(n)
           i == FirstFit(h, n)
           b == Placed(h, n)
<1>1. k \in Nat /\ k >= MinBlock /\ k % Align = 0
  BY BlockSizeFacts
<1>2. ASSUME CanServe(h, n)
      PROVE  Slot(h, i, b) /\ h.hdr[b].size >= k
  <2>1. Candidates(h, n) # {} /\ Candidates(h, n) \subseteq DOMAIN h.freeList
    BY <1>2 DEF CanServe, Candidates
  <2>2. DOMAIN h.freeList \subseteq Nat
    BY FreeListFacts DEF Lists
  <2>3. \E j \in Candidates(h, n) : \A l \in Candidates(h, n) : j <= l
    BY <2>1, <2>2, LeastNatural
  <2>4. i \in Candidates(h, n)
    BY <2>3 DEF FirstFit
  <2>5. QED
    BY <2>1, <2>4 DEF Candidates, Slot, Placed
<1>3. ASSUME CanServe(h, n)
      PROVE  Allocated(h, HeapAlloc(h, n), b, k)
  <2>1. Slot(h, i, b) /\ h.hdr[b].size >= k
    BY <1>2, <1>3
  <2>2. HeapAlloc(h, n) = IF h.hdr[b].size - k >= HeaderSize + MinBlock
                            THEN Split(h, i, b, k) ELSE TakeWhole(h, i, b)
    BY <1>3 DEF HeapAlloc
  <2> HIDE DEF i, b, k
  <2>3. CASE h.hdr[b].size - k >= HeaderSize + MinBlock
    <3>1. Allocated(h, Split(h, i, b, k), b, k)
      BY <2>1, <2>3, <1>1, SplitFacts
    <3>2. QED
      BY <2>2, <2>3, <3>1
  <2>4. CASE ~(h.hdr[b].size - k >= HeaderSize + MinBlock)
    <3>1. Allocated(h, TakeWhole(h, i, b), b, k)
      BY <2>1, <1>1, TakeWholeFacts
    <3>2. QED
      BY <2>2, <2>4, <3>1
  <2>5. QED
    BY <2>3, <2>4
<1>4. ~CanServe(h, n) => HeapAlloc(h, n) = h
  BY DEF HeapAlloc
<1>5. QED
  BY <1>3, <1>4

\* The search finds the block in its list and takes it out.
LEMMA ListsUnlink ==
  ASSUME NEW fl, NEW S, Lists(fl, S), NEW b \in S
  PROVE  Lists(Unlink(fl, b), S \ {b})
<1> DEFINE at == {i \in DOMAIN fl : fl[i] = b}
           first == CHOOSE i \in at : \A j \in at : i <= j
<1>1. \E i \in DOMAIN fl : fl[i] = b
  BY DEF Lists, ToSet
<1>2. at # {} /\ at \subseteq Nat
  BY <1>1 DEF Lists
<1>3. \E i \in at : \A j \in at : i <= j
  BY <1>2, LeastNatural
<1>4. first \in at
  BY <1>3
<1>5. first \in DOMAIN fl /\ fl[first] = b
  BY <1>4
<1>6. Unlink(fl, b) = RemoveAt(fl, first)
  BY <1>2 DEF Unlink
<1> HIDE DEF first, at
<1>7. Lists(RemoveAt(fl, first), S \ {fl[first]})
  BY <1>5, ListsRemove
<1>8. QED
  BY <1>5, <1>6, <1>7

\* A used block that swallowed the free block after it.
Merged(h, m, b) ==
  /\ Sound(m)
  /\ UsedBlocks(m) = UsedBlocks(h)
  /\ m.hdr[b].size = MergedSize(h, b) /\ m.hdr[b].size > h.hdr[b].size
  /\ \A c \in UsedBlocks(h) : c # b => m.hdr[c].size = h.hdr[c].size
  /\ m.usedSize = h.usedSize

\* Merging leaves the heap sound.
LEMMA MergeFacts ==
  ASSUME NEW h, Sound(h), NEW b \in UsedBlocks(h), NextIsFree(h, b)
  PROVE  Merged(h, MergeNext(h, b), b)
<1> DEFINE nx == h.hdr[b].next
           size == MergedSize(h, b)
           grown == [h.hdr[b] EXCEPT !.size = size, !.next = h.hdr[nx].next]
           m == MergeNext(h, b)
<1>1. b \in Blocks(h) /\ h.hdr[b].used /\ nx # NULL /\ ~h.hdr[nx].used
  BY DEF UsedBlocks, NextIsFree
<1>2. /\ b \in Nat /\ h.hdr[b].size \in Nat /\ h.hdr[b] \in HeaderType
      /\ b % Align = 0 /\ h.hdr[b].size % Align = 0 /\ h.hdr[b].size >= MinBlock
      /\ nx \in Blocks(h) /\ nx = b + HeaderSize + h.hdr[b].size
      /\ \A c \in Blocks(h) : b < c => nx <= c
  BY <1>1, HeaderFacts
<1>3. /\ nx \in Nat /\ h.hdr[nx].size \in Nat /\ h.hdr[nx].next \in Nat \cup {NULL}
      /\ h.hdr[nx].size % Align = 0 /\ h.hdr[nx].size >= MinBlock
      /\ nx + HeaderSize + h.hdr[nx].size <= HeapSize
      /\ IF h.hdr[nx].next = NULL THEN nx + HeaderSize + h.hdr[nx].size = HeapSize
         ELSE /\ h.hdr[nx].next \in Blocks(h)
              /\ h.hdr[nx].next = nx + HeaderSize + h.hdr[nx].size
      /\ \A c \in Blocks(h) : nx < c => nx + HeaderSize + h.hdr[nx].size <= c
  BY <1>2, HeaderFacts
<1>4. size = h.hdr[b].size + HeaderSize + h.hdr[nx].size
  BY DEF MergedSize
<1>5. grown \in HeaderType /\ grown.size = size /\ grown.next = h.hdr[nx].next
      /\ (grown.used <=> h.hdr[b].used)
  <2> DEFINE o == h.hdr[b]
             follow == h.hdr[nx].next
  <2>1. size \in Nat /\ follow \in Nat \cup {NULL} /\ o \in HeaderType
    BY <1>2, <1>3, <1>4
  <2>2. grown = [o EXCEPT !.size = size, !.next = follow]
    OBVIOUS
  <2> HIDE DEF grown, o, size, follow
  <2>3. grown \in HeaderType /\ grown.size = size /\ grown.next = follow
    BY <2>1, <2>2 DEF HeaderType
  <2>4. grown.used = o.used
    BY <2>1, <2>2 DEF HeaderType
  <2>5. QED
    BY <2>3, <2>4 DEF o, follow
<1>6. Typed(h)
  BY DEF Sound
<1>7. /\ m = [hdr |-> m.hdr, freeList |-> m.freeList, usedSize |-> m.usedSize]
      /\ m.hdr = [x \in Blocks(h) \ {nx} |-> IF x = b THEN grown ELSE h.hdr[x]]
      /\ m.freeList = Unlink(h.freeList, nx)
      /\ m.usedSize = h.usedSize
  <2> DEFINE nh == [x \in Blocks(h) \ {nx} |-> IF x = b THEN grown ELSE h.hdr[x]]
             nf == Unlink(h.freeList, nx)
  <2>1. m = [h EXCEPT !.hdr = nh, !.freeList = nf]
    BY DEF MergeNext
  <2>2. h = [hdr |-> h.hdr, freeList |-> h.freeList, usedSize |-> h.usedSize]
    BY <1>6 DEF Typed
  <2> HIDE DEF nh, nf, m
  <2>3. m = [hdr |-> nh, freeList |-> nf, usedSize |-> h.usedSize]
    BY <2>1, <2>2
  <2>4. QED
    BY <2>3 DEF nh, nf
<1> HIDE DEF m, grown, size
<1>8. b # nx /\ size > h.hdr[b].size /\ size \in Nat
  BY <1>2, <1>3, <1>4
<1>9. /\ Blocks(m) = Blocks(h) \ {nx}
      /\ m.hdr[b] = grown
      /\ \A c \in Blocks(m) : c # b => m.hdr[c] = h.hdr[c]
  BY <1>1, <1>7, <1>8 DEF Blocks
<1>10. \A c \in Blocks(m) : m.hdr[c].used <=> h.hdr[c].used
  BY <1>5, <1>9
<1>11. UsedBlocks(m) = UsedBlocks(h) /\ FreeBlocks(m) = FreeBlocks(h) \ {nx}
       /\ nx \in FreeBlocks(h)
  <2>1. UsedBlocks(m) = UsedBlocks(h)
    BY <1>1, <1>9, <1>10 DEF UsedBlocks
  <2>2. FreeBlocks(m) = FreeBlocks(h) \ {nx}
    BY <1>1, <1>9, <1>10 DEF FreeBlocks
  <2>3. QED
    BY <2>1, <2>2, <1>1, <1>2 DEF FreeBlocks
<1>12. Lists(m.freeList, FreeBlocks(m))
  <2>1. Lists(h.freeList, FreeBlocks(h))
    BY FreeListFacts
  <2>2. Lists(Unlink(h.freeList, nx), FreeBlocks(h) \ {nx})
    BY <2>1, <1>11, ListsUnlink
  <2>3. QED
    BY <2>2, <1>7, <1>11
<1>13. Typed(m)
  <2>1. \A c \in Blocks(m) : m.hdr[c] \in HeaderType
    BY <1>5, <1>9, HeaderFacts
  <2>2. m.hdr \in [Blocks(m) -> HeaderType]
    BY <1>7, <1>9, <2>1
  <2>3. m.freeList \in Seq(Nat)
    BY <1>12 DEF Lists
  <2>4. m.usedSize \in Nat /\ Blocks(m) \subseteq Nat
    BY <1>6, <1>7, <1>9 DEF Typed
  <2>5. QED
    BY <1>7, <2>2, <2>3, <2>4 DEF Typed
<1>14. ASSUME NEW c \in Blocks(m)
       PROVE  /\ m.hdr[c].size >= MinBlock
              /\ IF m.hdr[c].next = NULL THEN c + HeaderSize + m.hdr[c].size = HeapSize
                 ELSE /\ m.hdr[c].next \in Blocks(m)
                      /\ m.hdr[c].next = c + HeaderSize + m.hdr[c].size
              /\ \A d \in Blocks(m) : c < d => c + HeaderSize + m.hdr[c].size <= d
              /\ c + HeaderSize + m.hdr[c].size <= HeapSize
              /\ c % Align = 0 /\ m.hdr[c].size % Align = 0
  <2>1. CASE c = b
    <3>1. m.hdr[c].size = size /\ m.hdr[c].next = h.hdr[nx].next
      BY <2>1, <1>5, <1>9
    <3>2. c + HeaderSize + size = nx + HeaderSize + h.hdr[nx].size
      BY <2>1, <1>2, <1>3, <1>4
    <3>3. size >= MinBlock /\ c % Align = 0
      BY <2>1, <1>2, <1>8
    <3>4. size % Align = 0
      <4>1. OnGrid(h.hdr[b].size) /\ OnGrid(h.hdr[nx].size) /\ OnGrid(HeaderSize)
        BY <1>2, <1>3, GridFacts DEF OnGrid
      <4>2. OnGrid(h.hdr[b].size + HeaderSize + h.hdr[nx].size)
        BY <4>1, GridFacts
      <4>3. QED
        BY <4>2, <1>4 DEF OnGrid
    <3>5. ASSUME NEW d \in Blocks(m), c < d
          PROVE  nx + HeaderSize + h.hdr[nx].size <= d
      <4>1. d \in Blocks(h) /\ d # nx /\ d \in Nat /\ b < d
        BY <2>1, <3>5, <1>9, <1>13 DEF Typed
      <4>2. nx < d
        BY <4>1, <1>2, <1>3
      <4>3. QED
        BY <4>1, <4>2, <1>3
    <3>6. h.hdr[nx].next # nx
      BY <1>3
    <3>7. IF m.hdr[c].next = NULL THEN c + HeaderSize + size = HeapSize
          ELSE m.hdr[c].next \in Blocks(m) /\ m.hdr[c].next = c + HeaderSize + size
      BY <3>1, <3>2, <3>6, <1>3, <1>9
    <3>8. c + HeaderSize + size <= HeapSize
      BY <3>2, <1>3
    <3>9. \A d \in Blocks(m) : c < d => c + HeaderSize + size <= d
      BY <3>2, <3>5
    <3>10. QED
      BY <3>1, <3>3, <3>4, <3>7, <3>8, <3>9
  <2>2. CASE c # b
    <3>1. c \in Blocks(h) /\ c # nx /\ m.hdr[c] = h.hdr[c]
      BY <2>2, <1>9
    <3>2. /\ c \in Nat /\ h.hdr[c].size \in Nat /\ h.hdr[c].size >= MinBlock
          /\ c % Align = 0 /\ h.hdr[c].size % Align = 0
          /\ c + HeaderSize + h.hdr[c].size <= HeapSize
          /\ IF h.hdr[c].next = NULL THEN c + HeaderSize + h.hdr[c].size = HeapSize
             ELSE h.hdr[c].next \in Blocks(h) /\ h.hdr[c].next = c + HeaderSize + h.hdr[c].size
          /\ \A d \in Blocks(h) : c < d => c + HeaderSize + h.hdr[c].size <= d
      BY <3>1, HeaderFacts
    <3>3. c + HeaderSize + h.hdr[c].size # nx
      <4>1. CASE c < b
        <5>1. c + HeaderSize + h.hdr[c].size <= b
          BY <4>1, <3>2, <1>1
        <5>2. QED
          BY <5>1, <3>2, <1>2
      <4>2. CASE b < c
        <5>1. nx <= c
          BY <4>2, <3>1, <1>2
        <5>2. QED
          BY <5>1, <3>2, <1>3
      <4>3. QED
        BY <4>1, <4>2, <2>2, <3>2, <1>2
    <3>4. h.hdr[c].next # NULL => h.hdr[c].next \in Blocks(m)
      BY <3>2, <3>3, <1>9
    <3>5. \A d \in Blocks(m) : c < d => c + HeaderSize + h.hdr[c].size <= d
      BY <3>2, <1>9
    <3>6. QED
      BY <3>1, <3>2, <3>4, <3>5
  <2>3. QED
    BY <2>1, <2>2
<1>15. Tiled(m) /\ Placement(m)
  <2>1. 0 \in Blocks(h)
    BY DEF Sound, Tiled
  <2>2. nx # 0
    BY <1>2
  <2>3. 0 \in Blocks(m)
    BY <2>1, <2>2, <1>9
  <2>4. QED
    BY <2>3, <1>14 DEF Tiled, Placement, End
<1>16. Sound(m)
  BY <1>12, <1>13, <1>15 DEF Sound, Lists, FreeListed
<1>17. m.hdr[b].size = size
  BY <1>5, <1>9
<1>18. \A c \in UsedBlocks(h) : c # b => m.hdr[c].size = h.hdr[c].size
  BY <1>9, <1>11 DEF UsedBlocks
<1>19. Merged(h, m, b)
  BY <1>7, <1>8, <1>11, <1>16, <1>17, <1>18 DEF Merged, size
<1>20. QED
  BY <1>19 DEF m
\* Block b of h is free in g; nothing else that was in use changed.
Freed(h, g, b) ==
  /\ Sound(g)
  /\ UsedBlocks(g) = UsedBlocks(h) \ {b}
  /\ \A c \in UsedBlocks(g) : g.hdr[c].size = h.hdr[c].size
  /\ g.usedSize = h.usedSize - h.hdr[b].size

\* The last lines of Free: the block becomes free and leads the free list.
Release(m, b, u) ==
  [hdr |-> [m.hdr EXCEPT ![b].used = FALSE], freeList |-> <<b>> \o m.freeList, usedSize |-> u]

\* They leave the heap sound, without the block among the used ones.
LEMMA ReleaseFacts ==
  ASSUME NEW m, Sound(m), NEW b \in UsedBlocks(m), NEW u \in Nat
  PROVE  /\ Sound(Release(m, b, u)) /\ Release(m, b, u).usedSize = u
         /\ UsedBlocks(Release(m, b, u)) = UsedBlocks(m) \ {b}
         /\ \A c \in UsedBlocks(Release(m, b, u)) : Release(m, b, u).hdr[c].size = m.hdr[c].size
<1> DEFINE g == Release(m, b, u)
           o == m.hdr[b]
           given == [o EXCEPT !.used = FALSE]
<1>1. b \in Blocks(m) /\ m.hdr[b].used
  BY DEF UsedBlocks
<1>2. o \in HeaderType /\ b \in Nat
  BY <1>1, HeaderFacts
<1>3. /\ g = [hdr |-> g.hdr, freeList |-> g.freeList, usedSize |-> g.usedSize]
      /\ g.hdr = [m.hdr EXCEPT ![b] = given]
      /\ g.freeList = <<b>> \o m.freeList
      /\ g.usedSize = u
  BY DEF Release
<1>4. m.hdr \in [Blocks(m) -> HeaderType] /\ Blocks(m) \subseteq Nat
  BY DEF Sound, Typed
<1>5. given \in HeaderType /\ given.size = m.hdr[b].size /\ given.next = m.hdr[b].next
      /\ given.used = FALSE
  <2>1. given \in HeaderType /\ given.size = o.size /\ given.next = o.next /\ given.used = FALSE
    <3> HIDE DEF o
    <3>1. QED
      BY <1>2 DEF HeaderType
  <2>2. QED
    BY <2>1
<1> HIDE DEF g, o, given
<1>6. /\ Blocks(g) = Blocks(m)
      /\ g.hdr[b] = given
      /\ \A c \in Blocks(m) : c # b => g.hdr[c] = m.hdr[c]
  BY <1>1, <1>3, <1>4 DEF Blocks
<1>7. \A c \in Blocks(m) : g.hdr[c].size = m.hdr[c].size /\ g.hdr[c].next = m.hdr[c].next
  BY <1>5, <1>6
<1>8. \A c \in Blocks(m) : g.hdr[c].used <=> (m.hdr[c].used /\ c # b)
  BY <1>5, <1>6
<1>9. UsedBlocks(g) = UsedBlocks(m) \ {b}
  BY <1>6, <1>8 DEF UsedBlocks
<1>10. FreeBlocks(g) = FreeBlocks(m) \cup {b}
  BY <1>1, <1>6, <1>8 DEF FreeBlocks
<1>11. Lists(g.freeList, FreeBlocks(g))
  <2>1. Lists(m.freeList, FreeBlocks(m)) /\ b \notin FreeBlocks(m)
    BY <1>1, FreeListFacts DEF FreeBlocks
  <2>2. Lists(<<b>> \o m.freeList, FreeBlocks(m) \cup {b})
    BY <1>2, <2>1, ListsPrepend
  <2>3. QED
    BY <2>2, <1>3, <1>10
<1>12. Typed(g)
  <2>1. g.hdr \in [Blocks(g) -> HeaderType]
    BY <1>3, <1>4, <1>5, <1>6
  <2>2. g.freeList \in Seq(Nat)
    BY <1>11 DEF Lists
  <2>3. QED
    BY <1>3, <1>4, <1>6, <2>1, <2>2 DEF Typed
<1>13. Tiled(g) /\ Placement(g)
  BY <1>6, <1>7 DEF Sound, Tiled, Placement, End
<1>14. Sound(g)
  BY <1>11, <1>12, <1>13 DEF Sound, Lists, FreeListed
<1>15. \A c \in UsedBlocks(g) : g.hdr[c].size = m.hdr[c].size
  BY <1>7, <1>9 DEF UsedBlocks
<1>16. QED
  BY <1>3, <1>9, <1>14, <1>15 DEF g

\* Free gives one block back, merged or not.
LEMMA HeapFreeFacts ==
  ASSUME NEW h, Sound(h), NEW b \in UsedBlocks(h), h.hdr[b].size <= h.usedSize
  PROVE  Freed(h, HeapFree(h, b), b)
<1> DEFINE m == IF NextIsFree(h, b) THEN MergeNext(h, b) ELSE h
           u == h.usedSize - h.hdr[b].size
           g == HeapFree(h, b)
<1>1. /\ Sound(m) /\ UsedBlocks(m) = UsedBlocks(h)
      /\ \A c \in UsedBlocks(h) : c # b => m.hdr[c].size = h.hdr[c].size
  <2>1. CASE NextIsFree(h, b)
    <3>1. Merged(h, MergeNext(h, b), b)
      BY <2>1, MergeFacts
    <3>2. QED
      BY <2>1, <3>1 DEF Merged
  <2>2. CASE ~NextIsFree(h, b)
    BY <2>2
  <2>3. QED
    BY <2>1, <2>2
<1>2. u \in Nat
  <2>1. h.usedSize \in Nat /\ h.hdr[b].size \in Nat
    BY HeaderFacts DEF Sound, Typed, UsedBlocks
  <2>2. QED
    BY <2>1
<1>3. g = Release(m, b, u)
  BY DEF HeapFree, UsedBlocks, Release
<1> HIDE DEF m, u, g
<1>4. /\ Sound(g) /\ g.usedSize = u /\ UsedBlocks(g) = UsedBlocks(m) \ {b}
      /\ \A c \in UsedBlocks(g) : g.hdr[c].size = m.hdr[c].size
  <2>1. b \in UsedBlocks(m)
    BY <1>1
  <2>2. QED
    BY <1>1, <1>2, <1>3, <2>1, ReleaseFacts
<1>5. \A c \in UsedBlocks(g) : g.hdr[c].size = h.hdr[c].size
  BY <1>1, <1>4
<1>6. Freed(h, g, b)
  BY <1>1, <1>4, <1>5 DEF Freed, u
<1>7. QED
  BY <1>6 DEF g

\* Block b grew over the free block after it; nothing else in use changed.
Grown(h, g, b) ==
  /\ Sound(g)
  /\ UsedBlocks(g) = UsedBlocks(h)
  /\ g.hdr[b].size = MergedSize(h, b) /\ g.hdr[b].size > h.hdr[b].size
  /\ \A c \in UsedBlocks(h) : c # b => g.hdr[c].size = h.hdr[c].size
  /\ g.usedSize = h.usedSize - h.hdr[b].size + g.hdr[b].size

\* Realloc grows a block in place.
LEMMA GrowFacts ==
  ASSUME NEW h, Sound(h), NEW b \in UsedBlocks(h), NextIsFree(h, b)
  PROVE  Grown(h, GrowInPlace(h, b), b)
<1> DEFINE m == MergeNext(h, b)
           size == MergedSize(h, b)
           g == GrowInPlace(h, b)
<1>1. Merged(h, m, b)
  BY MergeFacts
<1> DEFINE u == m.usedSize - h.hdr[b].size + size
<1>2. Sound(m) /\ UsedBlocks(m) = UsedBlocks(h) /\ b \in Blocks(m)
  BY <1>1 DEF Merged, UsedBlocks
<1>3. /\ m.hdr[b].size \in Nat /\ h.hdr[b].size \in Nat /\ h.usedSize \in Nat
      /\ m.usedSize = h.usedSize /\ m.hdr[b].size = size /\ m.hdr[b].size > h.hdr[b].size
  <2>1. m.hdr[b].size \in Nat
    BY <1>2, HeaderFacts
  <2>2. h.hdr[b].size \in Nat /\ h.usedSize \in Nat
    BY HeaderFacts DEF Sound, Typed, UsedBlocks
  <2>3. QED
    BY <2>1, <2>2, <1>1 DEF Merged
<1>4. g = [m EXCEPT !.usedSize = u]
  BY DEF GrowInPlace
<1>5. u \in Nat /\ u = h.usedSize - h.hdr[b].size + size
  BY <1>3
<1> HIDE DEF m, g, u, size
<1>6. Typed(m)
  BY <1>2 DEF Sound
<1>7. m = [hdr |-> m.hdr, freeList |-> m.freeList, usedSize |-> m.usedSize]
  BY <1>6 DEF Typed
<1>8. g = [hdr |-> m.hdr, freeList |-> m.freeList, usedSize |-> u]
  BY <1>4, <1>7
<1>9. g = [hdr |-> g.hdr, freeList |-> g.freeList, usedSize |-> g.usedSize]
      /\ g.hdr = m.hdr /\ g.freeList = m.freeList /\ g.usedSize = u
  BY <1>8
<1>10. Typed(g)
  BY <1>5, <1>6, <1>9 DEF Typed, Blocks
<1>11. UsedBlocks(g) = UsedBlocks(m) /\ Tiled(g) /\ FreeListed(g) /\ Placement(g)
  <2>1. UsedBlocks(g) = UsedBlocks(m)
    BY <1>9 DEF UsedBlocks, Blocks
  <2>2. Tiled(g) /\ FreeListed(g) /\ Placement(g)
    BY <1>2, <1>9 DEF Sound, Tiled, FreeListed, Placement, Blocks, FreeBlocks, End
  <2>3. QED
    BY <2>1, <2>2
<1>12. Sound(g)
  BY <1>10, <1>11 DEF Sound
<1>13. Grown(h, g, b)
  <2>1. /\ g.hdr[b].size = MergedSize(h, b) /\ g.hdr[b].size > h.hdr[b].size
        /\ \A c \in UsedBlocks(h) : c # b => g.hdr[c].size = h.hdr[c].size
    BY <1>1, <1>9 DEF Merged
  <2>2. g.usedSize = h.usedSize - h.hdr[b].size + g.hdr[b].size
    BY <1>3, <1>5, <1>9
  <2>3. UsedBlocks(g) = UsedBlocks(h)
    BY <1>2, <1>11
  <2>4. QED
    BY <1>12, <2>1, <2>2, <2>3 DEF Grown
<1>14. QED
  BY <1>13 DEF g

-------------------------------------------------------------------------------
(* The statistics.                                                            *)

Exact(h) == h.usedSize = UsedBytes(h)

\* The sizes of the used blocks can be summed, in any order.
LEMMA UsedBytesFacts ==
  ASSUME NEW h, Sound(h)
  PROVE  /\ UsedBytes(h) \in Nat
         /\ \A b \in UsedBlocks(h) :
              UsedBytes(h) = h.hdr[b].size + SumFunctionOnSet(Sizes(h), UsedBlocks(h) \ {b})
         /\ \A b \in UsedBlocks(h) : Exact(h) => h.hdr[b].size <= h.usedSize
<1> DEFINE f == Sizes(h)
           U == UsedBlocks(h)
<1>1. IsFiniteSet(U)
  BY BlocksFinite
<1>2. \A b \in U : f[b] = h.hdr[b].size /\ f[b] \in Nat
  BY HeaderFacts DEF Sizes, UsedBlocks
<1>3. UsedBytes(h) = SumFunctionOnSet(f, U)
  BY DEF UsedBytes
<1> HIDE DEF f, U
<1>4. SumFunctionOnSet(f, U) \in Nat
  BY <1>1, <1>2, SumNat
<1>5. ASSUME NEW b \in U
      PROVE  /\ SumFunctionOnSet(f, U) = f[b] + SumFunctionOnSet(f, U \ {b})
             /\ SumFunctionOnSet(f, U \ {b}) \in Nat
  <2>1. IsFiniteSet(U \ {b}) /\ \A x \in U \ {b} : f[x] \in Nat
    BY <1>1, <1>2, FS_Subset
  <2>2. SumFunctionOnSet(f, U \ {b}) \in Nat
    BY <2>1, SumNat
  <2>3. \A x \in U : f[x] \in Int
    BY <1>2
  <2>4. QED
    BY <1>1, <2>2, <2>3, SumRemove
<1>6. \A b \in U : SumFunctionOnSet(f, U) = h.hdr[b].size + SumFunctionOnSet(f, U \ {b})
  BY <1>2, <1>5
<1>7. ASSUME NEW b \in U
      PROVE  h.hdr[b].size <= SumFunctionOnSet(f, U)
  <2>1. f[b] = h.hdr[b].size /\ f[b] \in Nat
    BY <1>2
  <2> DEFINE rest == SumFunctionOnSet(f, U \ {b})
             all == SumFunctionOnSet(f, U)
  <2>2. all = f[b] + rest /\ rest \in Nat
    BY <1>5
  <2> HIDE DEF rest, all
  <2>3. f[b] <= all
    BY <2>1, <2>2
  <2>4. QED
    BY <2>1, <2>3 DEF all
<1>8. QED
  BY <1>3, <1>4, <1>6, <1>7 DEF Exact, f, U

\* Sums over the same blocks, of the same sizes, are the same.
LEMMA UsedBytesAgree ==
  ASSUME NEW h, Sound(h), NEW g, Sound(g), NEW U,
         U \subseteq UsedBlocks(h), U \subseteq UsedBlocks(g),
         \A c \in U : g.hdr[c].size = h.hdr[c].size
  PROVE  SumFunctionOnSet(Sizes(g), U) = SumFunctionOnSet(Sizes(h), U)
<1>1. IsFiniteSet(U)
  BY BlocksFinite, FS_Subset
<1>2. \A c \in U : Sizes(g)[c] = g.hdr[c].size /\ Sizes(h)[c] = h.hdr[c].size
  BY DEF Sizes, UsedBlocks
<1>3. \A c \in U : g.hdr[c].size \in Int
  BY HeaderFacts DEF UsedBlocks
<1>4. \A c \in U : Sizes(g)[c] \in Int /\ Sizes(g)[c] = Sizes(h)[c]
  BY <1>2, <1>3
<1>5. QED
  BY <1>1, <1>4, SumAgree

\* An allocation, a free and a growth in place keep the statistics.
LEMMA StatisticsKept ==
  ASSUME NEW h, Sound(h), Exact(h), NEW g, NEW b, NEW n
  PROVE  /\ Allocated(h, g, b, n) => Exact(g)
         /\ b \in UsedBlocks(h) /\ Freed(h, g, b) => Exact(g)
         /\ b \in UsedBlocks(h) /\ Grown(h, g, b) => Exact(g)
<1> DEFINE U == UsedBlocks(h)
           V == UsedBlocks(g)
           S(x, s) == SumFunctionOnSet(Sizes(x), s)
<1>1. h.usedSize = S(h, U) /\ S(h, U) \in Nat
  BY UsedBytesFacts DEF Exact, UsedBytes
<1>2. ASSUME Allocated(h, g, b, n)
      PROVE  Exact(g)
  <2>1. Sound(g) /\ b \notin U /\ V = U \cup {b} /\ g.usedSize = h.usedSize + g.hdr[b].size
    BY <1>2, FreeListFacts DEF Allocated
  <2>2. \A c \in U : g.hdr[c].size = h.hdr[c].size
    BY <1>2 DEF Allocated
  <2>3. S(g, U) = S(h, U)
    BY <2>1, <2>2, UsedBytesAgree
  <2>4. b \in V /\ V \ {b} = U
    BY <2>1
  <2>5. UsedBytes(g) = g.hdr[b].size + S(g, V \ {b})
    BY <2>1, <2>4, UsedBytesFacts
  <2>6. g.hdr[b].size \in Nat
    BY <2>1, <2>4, HeaderFacts DEF UsedBlocks
  <2>7. UsedBytes(g) = g.hdr[b].size + S(h, U)
    BY <2>3, <2>4, <2>5
  <2>8. g.usedSize = S(h, U) + g.hdr[b].size
    BY <1>1, <2>1
  <2> HIDE DEF S, U, V
  <2>9. g.usedSize = UsedBytes(g)
    BY <1>1, <2>6, <2>7, <2>8
  <2>10. QED
    BY <2>9 DEF Exact
<1>3. ASSUME b \in U, Freed(h, g, b)
      PROVE  Exact(g)
  <2>1. Sound(g) /\ V = U \ {b} /\ g.usedSize = h.usedSize - h.hdr[b].size
    BY <1>3 DEF Freed
  <2>2. \A c \in V : g.hdr[c].size = h.hdr[c].size
    BY <1>3 DEF Freed
  <2>3. S(g, V) = S(h, V)
    BY <2>1, <2>2, UsedBytesAgree
  <2>4. UsedBytes(h) = h.hdr[b].size + S(h, U \ {b})
    BY <1>3, UsedBytesFacts
  <2>5. h.hdr[b].size \in Nat
    BY <1>3, HeaderFacts DEF UsedBlocks
  <2>6. UsedBytes(g) = S(h, U \ {b}) /\ UsedBytes(g) \in Nat
    BY <2>1, <2>3, UsedBytesFacts DEF UsedBytes
  <2>7. h.usedSize = UsedBytes(h)
    BY DEF Exact
  <2> HIDE DEF S, U, V
  <2>8. g.usedSize = UsedBytes(g)
    BY <2>1, <2>4, <2>5, <2>6, <2>7
  <2>9. QED
    BY <2>8 DEF Exact
<1>4. ASSUME b \in U, Grown(h, g, b)
      PROVE  Exact(g)
  <2>1. Sound(g) /\ V = U /\ g.usedSize = h.usedSize - h.hdr[b].size + g.hdr[b].size
    BY <1>4 DEF Grown
  <2>2. \A c \in U \ {b} : g.hdr[c].size = h.hdr[c].size
    BY <1>4 DEF Grown
  <2>3. S(g, U \ {b}) = S(h, U \ {b})
    BY <2>1, <2>2, UsedBytesAgree
  <2>4. UsedBytes(h) = h.hdr[b].size + S(h, U \ {b})
    BY <1>4, UsedBytesFacts
  <2>5. UsedBytes(g) = g.hdr[b].size + S(g, U \ {b}) /\ UsedBytes(g) \in Nat
    BY <1>4, <2>1, UsedBytesFacts
  <2>6. h.hdr[b].size \in Nat /\ g.hdr[b].size \in Nat
    BY <1>4, <2>1, HeaderFacts DEF UsedBlocks
  <2>7. h.usedSize = UsedBytes(h) /\ UsedBytes(h) \in Nat
    BY UsedBytesFacts DEF Exact
  <2>8. UsedBytes(g) = g.hdr[b].size + S(h, U \ {b})
    BY <2>3, <2>5
  <2>9. S(h, U \ {b}) \in Int
    <3>1. IsFiniteSet(U \ {b})
      BY BlocksFinite, FS_Subset
    <3>2. \A c \in U \ {b} : Sizes(h)[c] \in Int
      BY HeaderFacts DEF Sizes, UsedBlocks
    <3>3. QED
      BY <3>1, <3>2, SumInt
  <2> HIDE DEF S, U, V
  <2>10. g.usedSize = UsedBytes(g)
    BY <2>1, <2>4, <2>6, <2>7, <2>8, <2>9
  <2>11. QED
    BY <2>10 DEF Exact
<1>5. QED
  BY <1>2, <1>3, <1>4
-------------------------------------------------------------------------------
(* The pointers the host owns.                                                *)

\* The history w of the host is about the used blocks of h.
OwnersOf(w, h) == w \in [{DataOf(b) : b \in UsedBlocks(h)} -> Nat]

\* No block is smaller than its owner asked.
Enough(w, h) == \A b \in UsedBlocks(h) : w[DataOf(b)] <= h.hdr[b].size

Without(w, p) == [q \in DOMAIN w \ {p} |-> w[q]]

\* A pointer names its block and a block its pointer.
LEMMA PointerFacts ==
  ASSUME NEW h, Sound(h)
  PROVE  /\ \A b \in Blocks(h) : b \in Nat /\ DataOf(b) \in Nat /\ BlockOf(DataOf(b)) = b
         /\ \A b, c \in Blocks(h) : DataOf(b) = DataOf(c) => b = c
         /\ UsedBlocks(h) \subseteq Blocks(h) /\ FreeBlocks(h) \subseteq Blocks(h)
<1>1. \A b \in Blocks(h) : b \in Nat
  BY HeaderFacts
<1>2. ASSUME NEW b \in Nat
      PROVE  DataOf(b) \in Nat /\ BlockOf(DataOf(b)) = b
  BY DEF DataOf, BlockOf
<1>3. \A b, c \in Blocks(h) : DataOf(b) = DataOf(c) => b = c
  BY <1>1, <1>2
<1>4. UsedBlocks(h) \subseteq Blocks(h) /\ FreeBlocks(h) \subseteq Blocks(h)
  BY DEF UsedBlocks, FreeBlocks
<1>5. QED
  BY <1>1, <1>2, <1>3, <1>4

\* What a pointer of the host points to.
LEMMA OwnedFacts ==
  ASSUME NEW h, Sound(h), NEW w, OwnersOf(w, h), NEW p \in DOMAIN w
  PROVE  BlockOf(p) \in UsedBlocks(h) /\ DataOf(BlockOf(p)) = p
<1>1. PICK b \in UsedBlocks(h) : p = DataOf(b)
  BY DEF OwnersOf
<1>2. BlockOf(DataOf(b)) = b
  BY PointerFacts
<1>3. QED
  BY <1>1, <1>2

\* The owner of an allocated block is a new one.
LEMMA LearnFacts ==
  ASSUME NEW h, Sound(h), NEW g, NEW b, NEW k, Allocated(h, g, b, k),
         NEW w, OwnersOf(w, h), NEW n \in Nat
  PROVE  /\ OwnersOf(Learn(w, DataOf(b), n), g)
         /\ Enough(w, h) /\ n <= k /\ k \in Nat => Enough(Learn(w, DataOf(b), n), g)
         /\ DataOf(b) \notin DOMAIN w
<1> DEFINE p == DataOf(b)
           l == Learn(w, p, n)
<1>1. /\ Sound(g) /\ b \in FreeBlocks(h) /\ UsedBlocks(g) = UsedBlocks(h) \cup {b}
      /\ \A c \in UsedBlocks(h) : g.hdr[c].size = h.hdr[c].size
      /\ g.hdr[b].size >= k
  BY DEF Allocated
<1>2. b \in Blocks(h) /\ b \notin UsedBlocks(h)
  BY <1>1, FreeListFacts, PointerFacts
<1>3. \A c \in UsedBlocks(h) : DataOf(c) # p
  BY <1>2, PointerFacts
<1>4. DOMAIN w = {DataOf(c) : c \in UsedBlocks(h)} /\ \A q \in DOMAIN w : w[q] \in Nat
  BY DEF OwnersOf
<1>5. p \notin DOMAIN w
  BY <1>3, <1>4
<1>6. l = [q \in DOMAIN w \cup {p} |-> IF q = p THEN n ELSE w[q]]
  BY DEF Learn
<1>7. {DataOf(c) : c \in UsedBlocks(g)} = {DataOf(c) : c \in UsedBlocks(h)} \cup {p}
  BY <1>1
<1> HIDE DEF p, l
<1>8. OwnersOf(l, g)
  BY <1>4, <1>6, <1>7 DEF OwnersOf
<1>9. ASSUME Enough(w, h), n <= k, k \in Nat
      PROVE  Enough(l, g)
  <2>1. \A c \in UsedBlocks(h) : l[DataOf(c)] = w[DataOf(c)]
    BY <1>3, <1>4, <1>6
  <2>2. \A c \in UsedBlocks(h) : l[DataOf(c)] <= g.hdr[c].size
    BY <1>1, <1>9, <2>1 DEF Enough
  <2>3. l[DataOf(b)] = n
    BY <1>6 DEF p
  <2>4. g.hdr[b].size \in Nat
    BY <1>1, HeaderFacts DEF UsedBlocks
  <2>5. l[DataOf(b)] <= g.hdr[b].size
    BY <1>1, <1>9, <2>3, <2>4
  <2>6. QED
    BY <1>1, <2>2, <2>5 DEF Enough
<1>10. QED
  BY <1>5, <1>8, <1>9 DEF p, l

\* The owner of a freed block is none.
LEMMA ForgetFacts ==
  ASSUME NEW h, Sound(h), NEW g, NEW b \in UsedBlocks(h), Freed(h, g, b),
         NEW w, OwnersOf(w, h)
  PROVE  /\ OwnersOf(Without(w, DataOf(b)), g)
         /\ Enough(w, h) => Enough(Without(w, DataOf(b)), g)
<1> DEFINE p == DataOf(b)
           l == Without(w, p)
<1>1. /\ UsedBlocks(g) = UsedBlocks(h) \ {b}
      /\ \A c \in UsedBlocks(g) : g.hdr[c].size = h.hdr[c].size
  BY DEF Freed
<1>2. \A c \in UsedBlocks(g) : DataOf(c) # p
  BY <1>1, PointerFacts
<1>3. DOMAIN w = {DataOf(c) : c \in UsedBlocks(h)} /\ \A q \in DOMAIN w : w[q] \in Nat
  BY DEF OwnersOf
<1>4. {DataOf(c) : c \in UsedBlocks(g)} = {DataOf(c) : c \in UsedBlocks(h)} \ {p}
  BY <1>1, <1>2
<1>5. l = [q \in DOMAIN w \ {p} |-> w[q]]
  BY DEF Without
<1> HIDE DEF p, l
<1>6. OwnersOf(l, g)
  BY <1>3, <1>4, <1>5 DEF OwnersOf
<1>7. ASSUME Enough(w, h)
      PROVE  Enough(l, g)
  <2>1. \A c \in UsedBlocks(g) : l[DataOf(c)] = w[DataOf(c)]
    BY <1>1, <1>2, <1>3, <1>5
  <2>2. QED
    BY <1>1, <1>7, <2>1 DEF Enough
<1>8. QED
  BY <1>6, <1>7 DEF p, l

\* A block that stays where it is keeps its owner, who may ask for another size.
LEMMA AskAgainFacts ==
  ASSUME NEW h, Sound(h), NEW g, Sound(g), UsedBlocks(g) = UsedBlocks(h),
         NEW w, OwnersOf(w, h), NEW b \in UsedBlocks(h), NEW n \in Nat,
         \A c \in UsedBlocks(h) : c # b => g.hdr[c].size = h.hdr[c].size
  PROVE  /\ OwnersOf([w EXCEPT ![DataOf(b)] = n], g)
         /\ Enough(w, h) /\ n <= g.hdr[b].size => Enough([w EXCEPT ![DataOf(b)] = n], g)
<1> DEFINE p == DataOf(b)
           l == [w EXCEPT ![p] = n]
<1>1. w \in [DOMAIN w -> Nat] /\ DOMAIN w = {DataOf(c) : c \in UsedBlocks(h)}
  BY DEF OwnersOf
<1>2. OwnersOf(l, g)
  BY <1>1 DEF OwnersOf
<1>3. \A c \in UsedBlocks(h) : c # b => DataOf(c) # p
  BY PointerFacts
<1>4. p \in DOMAIN w
  BY <1>1
<1>5. \A c \in UsedBlocks(h) : c # b => l[DataOf(c)] = w[DataOf(c)]
  BY <1>1, <1>3
<1>6. l[DataOf(b)] = n
  BY <1>1, <1>4
<1> HIDE DEF l
<1>7. Enough(w, h) /\ n <= g.hdr[b].size => Enough(l, g)
  BY <1>5, <1>6 DEF Enough
<1>8. QED
  BY <1>2, <1>7 DEF l
-------------------------------------------------------------------------------
(* Every call preserves them.                                                 *)

\* The inductive invariant: headers, free list, statistics and owners.
IInv == Sound(heap) /\ Exact(heap) /\ OwnersOf(want, heap)

\* What a step makes of the two, said of the states before and after it.
Good(h, w) == Sound(h) /\ Exact(h) /\ OwnersOf(w, h)
Step(h, w, g, v) == Good(g, v) /\ (RequestsRoundUp /\ Enough(w, h) => Enough(v, g))

\* The region as the system maps it: one free block.
LEMMA InitGood ==
  ASSUME Init
  PROVE  IInv /\ Enough(want, heap)
<1> DEFINE size == HeapSize - HeaderSize
<1>1. /\ heap.hdr = [b \in {0} |-> [size |-> size, used |-> FALSE, next |-> NULL]]
      /\ heap.freeList = <<0>> /\ heap.usedSize = 0
      /\ heap = [hdr |-> heap.hdr, freeList |-> heap.freeList, usedSize |-> heap.usedSize]
  BY DEF Init
<1>2. size \in Nat /\ size >= MinBlock /\ 0 + HeaderSize + size = HeapSize
  OBVIOUS
<1>3. size % Align = 0 /\ 0 % Align = 0
  <2>1. HeaderSize <= HeapSize
    BY <1>2
  <2>2. OnGrid(HeapSize - HeaderSize)
    BY <2>1, GridFacts
  <2>3. QED
    BY <2>2 DEF OnGrid
<1>4. /\ Blocks(heap) = {0} /\ heap.hdr[0].size = size /\ heap.hdr[0].next = NULL
      /\ heap.hdr[0].used = FALSE
  BY <1>1 DEF Blocks
<1>5. [size |-> size, used |-> FALSE, next |-> NULL] \in HeaderType
  BY <1>2 DEF HeaderType
<1>6. UsedBlocks(heap) = {} /\ FreeBlocks(heap) = {0}
  BY <1>4 DEF UsedBlocks, FreeBlocks
<1> HIDE DEF size
<1>7. Typed(heap)
  BY <1>1, <1>4, <1>5 DEF Typed
<1>8. Tiled(heap)
  <2>1. End(heap, 0) = HeapSize
    BY <1>2, <1>4 DEF End
  <2>2. ~(0 < 0)
    OBVIOUS
  <2>3. QED
    BY <1>2, <1>4, <2>1, <2>2 DEF Tiled
<1>9. Placement(heap)
  BY <1>2, <1>3, <1>4 DEF Placement, End
<1>10. FreeListed(heap)
  BY <1>1, <1>6 DEF FreeListed, ToSet
<1>11. Exact(heap)
  BY <1>1, <1>6, SumEmpty DEF Exact, UsedBytes
<1>12. want = [p \in {} |-> 0]
  BY DEF Init
<1>13. OwnersOf(want, heap) /\ Enough(want, heap)
  BY <1>6, <1>12 DEF OwnersOf, Enough
<1>14. QED
  BY <1>7, <1>8, <1>9, <1>10, <1>11, <1>13 DEF IInv, Sound

\* An allocation.
LEMMA AllocGood ==
  ASSUME NEW h, NEW w, Good(h, w), NEW k \in Nat, NEW n \in Nat, CanServe(h, k),
         RequestsRoundUp => n <= BlockSize(k)
  PROVE  /\ Step(h, w, HeapAlloc(h, k), Learn(w, DataOf(Placed(h, k)), n))
         /\ DataOf(Placed(h, k)) \notin DOMAIN w
<1>1. Sound(h) /\ Exact(h) /\ OwnersOf(w, h)
  BY DEF Good
<1>2. Allocated(h, HeapAlloc(h, k), Placed(h, k), BlockSize(k))
  BY <1>1, HeapAllocFacts
<1>3. BlockSize(k) \in Nat
  BY BlockSizeFacts
<1> DEFINE g == HeapAlloc(h, k)
           b == Placed(h, k)
           s == BlockSize(k)
<1> HIDE DEF g, b, s
<1>4. Sound(g) /\ Exact(g)
  BY <1>1, <1>2, StatisticsKept DEF Allocated, g, b, s
<1>5. /\ OwnersOf(Learn(w, DataOf(b), n), g)
      /\ Enough(w, h) /\ n <= s /\ s \in Nat => Enough(Learn(w, DataOf(b), n), g)
      /\ DataOf(b) \notin DOMAIN w
  BY <1>1, <1>2, LearnFacts DEF g, b, s
<1>6. s \in Nat /\ (RequestsRoundUp => n <= s)
  BY <1>3 DEF s
<1>7. Step(h, w, g, Learn(w, DataOf(b), n)) /\ DataOf(b) \notin DOMAIN w
  BY <1>4, <1>5, <1>6 DEF Step, Good
<1>8. QED
  BY <1>7 DEF g, b

\* A free.
LEMMA FreeGood ==
  ASSUME NEW h, NEW w, Good(h, w), NEW p \in DOMAIN w
  PROVE  Step(h, w, HeapFree(h, BlockOf(p)), Without(w, p))
<1>1. Sound(h) /\ Exact(h) /\ OwnersOf(w, h)
  BY DEF Good
<1>2. BlockOf(p) \in UsedBlocks(h) /\ DataOf(BlockOf(p)) = p
  BY <1>1, OwnedFacts
<1> DEFINE b == BlockOf(p)
           g == HeapFree(h, b)
<1> HIDE DEF b, g
<1>3. b \in UsedBlocks(h) /\ DataOf(b) = p
  BY <1>2 DEF b
<1>4. h.hdr[b].size <= h.usedSize
  BY <1>1, <1>3, UsedBytesFacts
<1>5. Freed(h, g, b)
  BY <1>1, <1>3, <1>4, HeapFreeFacts DEF g
<1>6. Sound(g) /\ Exact(g)
  BY <1>1, <1>3, <1>5, StatisticsKept DEF Freed
<1>7. /\ OwnersOf(Without(w, DataOf(b)), g)
      /\ Enough(w, h) => Enough(Without(w, DataOf(b)), g)
  BY <1>1, <1>3, <1>5, ForgetFacts
<1>8. Step(h, w, g, Without(w, p))
  BY <1>3, <1>6, <1>7 DEF Step, Good
<1>9. QED
  BY <1>8 DEF g, b

\* A block that stays where it is, as it was or grown.
LEMMA KeepGood ==
  ASSUME NEW h, NEW w, Good(h, w), NEW p \in DOMAIN w, NEW n \in Nat,
         RequestsRoundUp => n <= BlockSize(n)
  PROVE  /\ h.hdr[BlockOf(p)].size >= BlockSize(n) => Step(h, w, h, [w EXCEPT ![p] = n])
         /\ CanGrowInPlace(h, BlockOf(p), n)
              => Step(h, w, GrowInPlace(h, BlockOf(p)), [w EXCEPT ![p] = n])
<1>1. Sound(h) /\ Exact(h) /\ OwnersOf(w, h)
  BY DEF Good
<1>2. BlockOf(p) \in UsedBlocks(h) /\ DataOf(BlockOf(p)) = p
  BY <1>1, OwnedFacts
<1>3. BlockSize(n) \in Nat
  BY BlockSizeFacts
<1> DEFINE b == BlockOf(p)
           g == GrowInPlace(h, b)
           s == BlockSize(n)
<1> HIDE DEF b, g, s
<1>4. b \in UsedBlocks(h) /\ DataOf(b) = p /\ s \in Nat /\ (RequestsRoundUp => n <= s)
  BY <1>2, <1>3 DEF b, s
<1>5. ASSUME h.hdr[b].size >= s
      PROVE  Step(h, w, h, [w EXCEPT ![p] = n])
  <2>1. /\ OwnersOf([w EXCEPT ![DataOf(b)] = n], h)
        /\ Enough(w, h) /\ n <= h.hdr[b].size => Enough([w EXCEPT ![DataOf(b)] = n], h)
    BY <1>1, <1>4, AskAgainFacts
  <2>2. h.hdr[b].size \in Nat
    BY <1>1, <1>4, HeaderFacts DEF UsedBlocks
  <2>3. RequestsRoundUp => n <= h.hdr[b].size
    BY <1>4, <1>5, <2>2
  <2>4. QED
    BY <1>1, <1>4, <2>1, <2>3 DEF Step, Good
<1>6. ASSUME CanGrowInPlace(h, b, n)
      PROVE  Step(h, w, g, [w EXCEPT ![p] = n])
  <2>1. NextIsFree(h, b) /\ MergedSize(h, b) >= s
    BY <1>6 DEF CanGrowInPlace, s
  <2>2. Grown(h, g, b)
    BY <1>1, <1>4, <2>1, GrowFacts DEF g
  <2>3. Sound(g) /\ Exact(g)
    BY <1>1, <1>4, <2>2, StatisticsKept DEF Grown
  <2>4. /\ UsedBlocks(g) = UsedBlocks(h) /\ g.hdr[b].size = MergedSize(h, b)
        /\ \A c \in UsedBlocks(h) : c # b => g.hdr[c].size = h.hdr[c].size
    BY <2>2 DEF Grown
  <2>5. /\ OwnersOf([w EXCEPT ![DataOf(b)] = n], g)
        /\ Enough(w, h) /\ n <= g.hdr[b].size => Enough([w EXCEPT ![DataOf(b)] = n], g)
    BY <1>1, <1>4, <2>3, <2>4, AskAgainFacts
  <2>6. g.hdr[b].size \in Nat
    BY <1>4, <2>3, <2>4, HeaderFacts DEF UsedBlocks
  <2>7. RequestsRoundUp => n <= g.hdr[b].size
    BY <1>4, <2>1, <2>4, <2>6
  <2>8. QED
    BY <1>4, <2>3, <2>5, <2>7 DEF Step, Good
<1>7. QED
  BY <1>5, <1>6 DEF g, b, s

\* The new owner is learnt before or after the old one is forgotten.
LEMMA LearnForget ==
  ASSUME NEW w, NEW p, NEW q, p # q, NEW n
  PROVE  Without(Learn(w, q, n), p) = Learn(Without(w, p), q, n)
<1> DEFINE l == Learn(w, q, n)
           f == Without(w, p)
<1>1. DOMAIN l = DOMAIN w \cup {q} /\ \A x \in DOMAIN l : l[x] = IF x = q THEN n ELSE w[x]
  BY DEF Learn
<1>2. DOMAIN f = DOMAIN w \ {p} /\ \A x \in DOMAIN f : f[x] = w[x]
  BY DEF Without
<1>3. Without(l, p) = [x \in DOMAIN l \ {p} |-> l[x]]
  BY DEF Without
<1>4. Learn(f, q, n) = [x \in DOMAIN f \cup {q} |-> IF x = q THEN n ELSE f[x]]
  BY DEF Learn
<1> HIDE DEF l, f
<1>5. DOMAIN l \ {p} = DOMAIN f \cup {q}
  BY <1>1, <1>2
<1>6. \A x \in DOMAIN l \ {p} : l[x] = IF x = q THEN n ELSE f[x]
  BY <1>1, <1>2
<1>7. Without(l, p) = Learn(f, q, n)
  BY <1>3, <1>4, <1>5, <1>6
<1>8. QED
  BY <1>7 DEF l, f

\* A new block, and the old one freed.
LEMMA MoveGood ==
  ASSUME NEW h, NEW w, Good(h, w), NEW p \in DOMAIN w, NEW k \in Nat, NEW n \in Nat,
         CanServe(h, k), RequestsRoundUp => n <= BlockSize(k)
  PROVE  Step(h, w, HeapFree(HeapAlloc(h, k), BlockOf(p)),
              Learn(Without(w, p), DataOf(Placed(h, k)), n))
<1> DEFINE a == HeapAlloc(h, k)
           q == DataOf(Placed(h, k))
           v == Learn(w, q, n)
<1>1. Step(h, w, a, v) /\ q \notin DOMAIN w
  BY AllocGood
<1>2. DOMAIN v = DOMAIN w \cup {q}
  BY DEF Learn
<1> HIDE DEF a, q, v
<1>3. Good(a, v) /\ p \in DOMAIN v /\ p # q
  BY <1>1, <1>2 DEF Step
<1>4. Step(a, v, HeapFree(a, BlockOf(p)), Without(v, p))
  BY <1>3, FreeGood
<1>5. Without(v, p) = Learn(Without(w, p), q, n)
  BY <1>3, LearnForget DEF v
<1>6. Step(h, w, HeapFree(a, BlockOf(p)), Learn(Without(w, p), q, n))
  BY <1>1, <1>4, <1>5 DEF Step
<1>7. QED
  BY <1>6 DEF a, q

\* Every step is one of those.
LEMMA NextGood ==
  ASSUME IInv, [Next]_vars
  PROVE  Step(heap, want, heap', want')
<1>1. Good(heap, want)
  BY DEF IInv, Good
<1>2. Step(heap, want, heap, want)
  BY <1>1 DEF Step
<1>3. ASSUME NEW n \in Requests
      PROVE  /\ n \in Nat /\ BlockSize(n) \in Nat /\ (RequestsRoundUp => n <= BlockSize(n))
             /\ RequestsRoundUp => n <= BlockSize(BlockSize(n))
  <2>1. n \in Nat /\ (RequestsRoundUp => n + Align - 1 < WordSize)
    BY DEF RequestsRoundUp
  <2>2. QED
    BY <2>1, BlockSizeFacts, BlockSizeAgain
<1>4. CASE UNCHANGED vars
  BY <1>2, <1>4 DEF vars
<1>5. ASSUME NEW n \in Requests, Alloc(n)
      PROVE  Step(heap, want, heap', want')
  <2>1. CASE CanServe(heap, n)
    BY <2>1, <1>1, <1>3, <1>5, AllocGood DEF Alloc
  <2>2. CASE ~CanServe(heap, n)
    <3>1. HeapAlloc(heap, n) = heap
      BY <2>2 DEF HeapAlloc
    <3>2. QED
      BY <2>2, <3>1, <1>2, <1>5 DEF Alloc
  <2>3. QED
    BY <2>1, <2>2
<1>6. ASSUME NEW p \in DOMAIN want, Free(p)
      PROVE  Step(heap, want, heap', want')
  BY <1>1, <1>6, FreeGood DEF Free, Forget, Without
<1>7. ASSUME NEW p \in DOMAIN want, NEW n \in Requests, ReallocInPlace(p, n)
      PROVE  Step(heap, want, heap', want')
  BY <1>1, <1>3, <1>7, KeepGood DEF ReallocInPlace
<1>8. ASSUME NEW p \in DOMAIN want, NEW n \in Requests, ReallocGrow(p, n)
      PROVE  Step(heap, want, heap', want')
  BY <1>1, <1>3, <1>8, KeepGood DEF ReallocGrow
<1>9. ASSUME NEW p \in DOMAIN want, NEW n \in Requests, ReallocMove(p, n)
      PROVE  Step(heap, want, heap', want')
  <2>1. CASE CanServe(heap, BlockSize(n))
    <3>1. Step(heap, want, HeapFree(HeapAlloc(heap, BlockSize(n)), BlockOf(p)),
               Learn(Without(want, p), DataOf(Placed(heap, BlockSize(n))), n))
      BY <2>1, <1>1, <1>3, MoveGood
    <3>2. Forget(p) = Without(want, p)
      BY DEF Forget, Without
    <3>3. /\ heap' = HeapFree(HeapAlloc(heap, BlockSize(n)), BlockOf(p))
          /\ want' = Learn(Forget(p), DataOf(Placed(heap, BlockSize(n))), n)
      BY <2>1, <1>9 DEF ReallocMove
    <3>4. QED
      BY <3>1, <3>2, <3>3
  <2>2. CASE ~CanServe(heap, BlockSize(n))
    BY <2>2, <1>2, <1>9 DEF ReallocMove, vars
  <2>3. QED
    BY <2>1, <2>2
<1>10. QED
  BY <1>4, <1>5, <1>6, <1>7, <1>8, <1>9 DEF Next

-------------------------------------------------------------------------------
(* Theorems.                                                                  *)

\* The inductive invariant holds.
THEOREM IInvHolds == Spec => []IInv
<1>1. Init => IInv
  BY InitGood
<1>2. IInv /\ [Next]_vars => IInv'
  BY NextGood DEF Step, Good, IInv
<1>3. QED
  BY <1>1, <1>2, PTL DEF Spec

\* Headers, free list and history keep their types (lib/runtime/env.c, the heap
\* functions).
THEOREM TypesHold == Spec => []TypeOK
<1>1. IInv => TypeOK
  <2>1. ASSUME IInv
        PROVE  TypeOK
    <3>1. Typed(heap) /\ OwnersOf(want, heap) /\ Sound(heap)
      BY <2>1 DEF IInv, Sound
    <3>2. DOMAIN want \subseteq Nat
      BY <3>1, PointerFacts DEF OwnersOf
    <3>3. QED
      BY <3>1, <3>2 DEF Typed, TypeOK
  <2>2. QED
    BY <2>1
<1>2. QED
  BY <1>1, IInvHolds, PTL

\* However blocks are split, merged, grown and moved, they tile the mapped region.
THEOREM BlocksAlwaysTile == Spec => []BlocksTile
<1>1. IInv => BlocksTile
  BY DEF IInv, Sound, BlocksTile
<1>2. QED
  BY <1>1, IInvHolds, PTL

\* The free list has every free block once and nothing else, so the search of Free
\* and Realloc for the block they swallow never fails.
THEOREM FreeListIsExact == Spec => []FreeListExact
<1>1. IInv => FreeListExact
  <2>1. ASSUME IInv
        PROVE  FreeListed(heap)
    BY <2>1 DEF IInv, Sound
  <2>2. QED
    BY <2>1 DEF FreeListExact
<1>2. QED
  BY <1>1, IInvHolds, PTL

\* usedSize is the number of bytes of the used blocks after any sequence of calls.
THEOREM UsedSizeIsExact == Spec => []UsedSizeExact
<1>1. IInv => UsedSizeExact
  BY DEF IInv, Exact, UsedBytes, Sizes, UsedSizeExact
<1>2. QED
  BY <1>1, IInvHolds, PTL

\* When no request wraps around as it is rounded up, headers, free list, statistics
\* and owners agree, and no owner has less than it asked for.
THEOREM HeapStaysSound ==
  ASSUME RequestsRoundUp
  PROVE  Spec => []HeapIsSound
<1>1. Init => IInv /\ Enough(want, heap)
  BY InitGood
<1>2. (IInv /\ Enough(want, heap)) /\ [Next]_vars => (IInv /\ Enough(want, heap))'
  BY NextGood DEF Step, Good, IInv
<1>3. IInv /\ Enough(want, heap) => HeapIsSound
  <2>1. ASSUME IInv, Enough(want, heap)
        PROVE  OwnersExact
    <3>1. Sound(heap) /\ OwnersOf(want, heap)
      BY <2>1 DEF IInv
    <3>2. DOMAIN want = {DataOf(b) : b \in UsedBlocks(heap)}
      BY <3>1 DEF OwnersOf
    <3>3. ASSUME NEW p \in DOMAIN want
          PROVE  heap.hdr[BlockOf(p)].size >= want[p]
      <4>1. BlockOf(p) \in UsedBlocks(heap) /\ DataOf(BlockOf(p)) = p
        BY <3>1, OwnedFacts
      <4>2. want[DataOf(BlockOf(p))] <= heap.hdr[BlockOf(p)].size
        BY <2>1, <4>1 DEF Enough
      <4>3. want[p] <= heap.hdr[BlockOf(p)].size
        BY <4>1, <4>2
      <4>4. want[p] \in Nat /\ heap.hdr[BlockOf(p)].size \in Nat
        BY <3>1, <4>1, HeaderFacts DEF OwnersOf, UsedBlocks
      <4>5. QED
        BY <4>3, <4>4
    <3>4. QED
      BY <3>2, <3>3 DEF OwnersExact
  <2>2. ASSUME IInv
        PROVE  BlocksTile /\ FreeListExact /\ UsedSizeExact
    BY <2>2 DEF IInv, Sound, BlocksTile, FreeListExact, Exact, UsedBytes, Sizes, UsedSizeExact
  <2>3. QED
    BY <2>1, <2>2 DEF HeapIsSound
<1>4. QED
  BY <1>1, <1>2, <1>3, PTL DEF Spec
-------------------------------------------------------------------------------
(* The heap implements the allocator it promises.                             *)

\* What a block hands out.
Handed(h, b) == [at |-> DataOf(b), len |-> h.hdr[b].size]
AllHanded(h) == {Handed(h, b) : b \in UsedBlocks(h)}

\* The ranges of two blocks are different, apart and inside the region.
LEMMA HandedFacts ==
  ASSUME NEW h, Sound(h), NEW b \in Blocks(h)
  PROVE  /\ Handed(h, b) \in Abstract!Ranges /\ Abstract!InArena(Handed(h, b))
         /\ Handed(h, b).at = DataOf(b) /\ Handed(h, b).len = h.hdr[b].size
         /\ \A c \in Blocks(h) : c # b => /\ Abstract!Apart(Handed(h, b), Handed(h, c))
                                         /\ Handed(h, b) # Handed(h, c)
<1> DEFINE s == h.hdr[b].size
<1>1. /\ b \in Nat /\ s \in Nat /\ s >= MinBlock /\ b + HeaderSize + s <= HeapSize
      /\ b % Align = 0 /\ s % Align = 0
      /\ \A c \in Blocks(h) : b < c => b + HeaderSize + s <= c
  BY HeaderFacts
<1>2. Handed(h, b) = [at |-> b + HeaderSize, len |-> s]
  BY DEF Handed, DataOf
<1> HIDE DEF s
<1>3. OnGrid(b + HeaderSize)
  <2>1. OnGrid(b)
    BY <1>1 DEF OnGrid
  <2>2. QED
    BY <2>1, GridFacts
<1>4. b + HeaderSize \in Aligned /\ s \in Aligned \ {0}
  BY <1>1, <1>3 DEF Aligned, OnGrid
<1>5. Handed(h, b) \in Abstract!Ranges /\ Abstract!InArena(Handed(h, b))
  BY <1>1, <1>2, <1>4 DEF Abstract!Ranges, Abstract!InArena
<1>6. Handed(h, b).at = DataOf(b) /\ Handed(h, b).len = s
  BY <1>2 DEF DataOf
<1>7. ASSUME NEW c \in Blocks(h), c # b
      PROVE  /\ Abstract!Apart(Handed(h, b), Handed(h, c))
             /\ Handed(h, b) # Handed(h, c)
  <2> DEFINE t == h.hdr[c].size
  <2>1. c \in Nat /\ t \in Nat /\ (c < b => c + HeaderSize + t <= b)
    BY HeaderFacts
  <2>2. Handed(h, c) = [at |-> c + HeaderSize, len |-> t]
    BY DEF Handed, DataOf
  <2> HIDE DEF t
  <2>3. b < c \/ c < b
    BY <1>1, <1>7, <2>1
  <2>4. b + HeaderSize + s <= c + HeaderSize \/ c + HeaderSize + t <= b + HeaderSize
    BY <1>1, <2>1, <2>3
  <2>5. Abstract!Apart(Handed(h, b), Handed(h, c))
    BY <1>2, <2>2, <2>4 DEF Abstract!Apart
  <2>6. b + HeaderSize # c + HeaderSize
    BY <1>1, <1>7, <2>1
  <2>7. QED
    BY <1>2, <2>2, <2>5, <2>6
<1>8. QED
  BY <1>5, <1>6, <1>7 DEF s

\* An allocated block hands out a range that is apart from those handed out before.
LEMMA AllocatedGives ==
  ASSUME NEW h, Sound(h), NEW g, NEW b, NEW k, Allocated(h, g, b, k)
  PROVE  /\ AllHanded(g) = AllHanded(h) \cup {Handed(g, b)}
         /\ Handed(g, b) \in Abstract!Ranges /\ Abstract!InArena(Handed(g, b))
         /\ \A c \in UsedBlocks(h) : /\ Handed(g, c) = Handed(h, c)
                                     /\ Abstract!Apart(Handed(g, b), Handed(h, c))
                                     /\ Abstract!Apart(Handed(h, c), Handed(g, b))
                                     /\ Handed(g, b) # Handed(h, c)
         /\ \A s \in AllHanded(h) : Abstract!Apart(Handed(g, b), s)
<1>1. /\ Sound(g) /\ UsedBlocks(g) = UsedBlocks(h) \cup {b} /\ b \notin UsedBlocks(h)
      /\ \A c \in UsedBlocks(h) : g.hdr[c].size = h.hdr[c].size
  BY FreeListFacts DEF Allocated
<1>2. \A c \in UsedBlocks(h) : Handed(g, c) = Handed(h, c)
  BY <1>1 DEF Handed
<1>3. AllHanded(g) = AllHanded(h) \cup {Handed(g, b)}
  <2>1. AllHanded(g) = {Handed(g, c) : c \in UsedBlocks(h)} \cup {Handed(g, b)}
    BY <1>1 DEF AllHanded
  <2>2. QED
    BY <1>2, <2>1 DEF AllHanded
<1>4. b \in Blocks(g) /\ \A c \in UsedBlocks(h) : c \in Blocks(g) /\ c # b
  BY <1>1 DEF UsedBlocks
<1>5. \A c \in UsedBlocks(h) : /\ Abstract!Apart(Handed(g, b), Handed(g, c))
                               /\ Abstract!Apart(Handed(g, c), Handed(g, b))
                               /\ Handed(g, b) # Handed(g, c)
  BY <1>1, <1>4, HandedFacts
<1>6. Handed(g, b) \in Abstract!Ranges /\ Abstract!InArena(Handed(g, b))
  BY <1>1, <1>4, HandedFacts
<1>7. \A s \in AllHanded(h) : Abstract!Apart(Handed(g, b), s)
  BY <1>2, <1>5 DEF AllHanded
<1>8. QED
  BY <1>2, <1>3, <1>5, <1>6, <1>7

\* A freed block takes its range back and no other.
LEMMA FreedTakesBack ==
  ASSUME NEW h, Sound(h), NEW g, NEW b \in UsedBlocks(h), Freed(h, g, b)
  PROVE  /\ Handed(h, b) \in AllHanded(h)
         /\ AllHanded(g) = AllHanded(h) \ {Handed(h, b)}
<1>1. /\ UsedBlocks(g) = UsedBlocks(h) \ {b}
      /\ \A c \in UsedBlocks(g) : g.hdr[c].size = h.hdr[c].size
  BY DEF Freed
<1>2. \A c \in UsedBlocks(g) : Handed(g, c) = Handed(h, c)
  BY <1>1 DEF Handed
<1>3. \A c \in UsedBlocks(g) : Handed(h, c) # Handed(h, b)
  BY <1>1, HandedFacts DEF UsedBlocks
<1>4. AllHanded(g) = {Handed(h, c) : c \in UsedBlocks(g)}
  BY <1>2 DEF AllHanded
<1>5. QED
  BY <1>1, <1>3, <1>4 DEF AllHanded

\* A grown block hands out a longer range at the same place.
LEMMA GrownResizes ==
  ASSUME NEW h, Sound(h), NEW g, NEW b \in UsedBlocks(h), Grown(h, g, b)
  PROVE  /\ Handed(h, b) \in AllHanded(h)
         /\ AllHanded(g) = (AllHanded(h) \ {Handed(h, b)}) \cup {Handed(g, b)}
         /\ Handed(g, b) \in Abstract!Ranges /\ Abstract!InArena(Handed(g, b))
         /\ Handed(g, b).at = Handed(h, b).at /\ Handed(g, b).len >= Handed(h, b).len
         /\ \A t \in AllHanded(h) \ {Handed(h, b)} : Abstract!Apart(Handed(g, b), t)
<1> DEFINE U == UsedBlocks(h) \ {b}
<1>1. /\ Sound(g) /\ UsedBlocks(g) = UsedBlocks(h) /\ g.hdr[b].size > h.hdr[b].size
      /\ \A c \in U : g.hdr[c].size = h.hdr[c].size
  BY DEF Grown
<1>2. b \in Blocks(h) /\ b \in Blocks(g) /\ \A c \in U : c \in Blocks(h) /\ c \in Blocks(g) /\ c # b
  BY <1>1 DEF UsedBlocks
<1>3. \A c \in U : Handed(g, c) = Handed(h, c)
  BY <1>1 DEF Handed
<1>4. \A c \in U : Handed(h, c) # Handed(h, b) /\ Abstract!Apart(Handed(g, b), Handed(g, c))
  BY <1>1, <1>2, HandedFacts
<1>5. AllHanded(h) \ {Handed(h, b)} = {Handed(h, c) : c \in U}
  BY <1>4 DEF AllHanded
<1>6. AllHanded(g) = {Handed(g, c) : c \in U} \cup {Handed(g, b)}
  BY <1>1 DEF AllHanded
<1>7. AllHanded(g) = {Handed(h, c) : c \in U} \cup {Handed(g, b)}
  BY <1>3, <1>6
<1>8. \A t \in AllHanded(h) \ {Handed(h, b)} : Abstract!Apart(Handed(g, b), t)
  BY <1>3, <1>4, <1>5
<1>9. Handed(g, b) \in Abstract!Ranges /\ Abstract!InArena(Handed(g, b))
  BY <1>1, <1>2, HandedFacts
<1>10. Handed(g, b).at = Handed(h, b).at /\ Handed(g, b).len >= Handed(h, b).len
  <2>1. /\ Handed(g, b).at = DataOf(b) /\ Handed(g, b).len = g.hdr[b].size
        /\ Handed(h, b).at = DataOf(b) /\ Handed(h, b).len = h.hdr[b].size
    BY DEF Handed
  <2>2. g.hdr[b].size \in Nat /\ h.hdr[b].size \in Nat
    BY <1>1, <1>2, HeaderFacts
  <2>3. QED
    BY <1>1, <2>1, <2>2
<1>11. QED
  BY <1>5, <1>7, <1>8, <1>9, <1>10 DEF AllHanded

\* A moved block hands out a range apart from all, its old one included.
LEMMA MovedResizes ==
  ASSUME NEW h, Sound(h), NEW a, NEW b, NEW k \in Nat, Allocated(h, a, b, k),
         NEW c \in UsedBlocks(h), NEW g, Freed(a, g, c), h.hdr[c].size <= k
  PROVE  /\ Handed(h, c) \in AllHanded(h)
         /\ AllHanded(g) = (AllHanded(h) \ {Handed(h, c)}) \cup {Handed(a, b)}
         /\ Handed(a, b) \in Abstract!Ranges /\ Abstract!InArena(Handed(a, b))
         /\ Abstract!Apart(Handed(h, c), Handed(a, b))
         /\ Handed(a, b).len >= Handed(h, c).len
         /\ \A t \in AllHanded(h) \ {Handed(h, c)} : Abstract!Apart(Handed(a, b), t)
<1>1. /\ AllHanded(a) = AllHanded(h) \cup {Handed(a, b)}
      /\ Handed(a, b) \in Abstract!Ranges /\ Abstract!InArena(Handed(a, b))
      /\ \A d \in UsedBlocks(h) : /\ Handed(a, d) = Handed(h, d)
                                  /\ Abstract!Apart(Handed(a, b), Handed(h, d))
                                  /\ Abstract!Apart(Handed(h, d), Handed(a, b))
                                  /\ Handed(a, b) # Handed(h, d)
  BY AllocatedGives
<1>2. Sound(a) /\ c \in UsedBlocks(a) /\ b \in Blocks(a) /\ a.hdr[b].size >= k
  BY DEF Allocated, UsedBlocks
<1>3. AllHanded(g) = AllHanded(a) \ {Handed(a, c)}
  BY <1>2, FreedTakesBack
<1>4. AllHanded(g) = (AllHanded(h) \ {Handed(h, c)}) \cup {Handed(a, b)}
  BY <1>1, <1>3
<1>5. Handed(a, b).len >= Handed(h, c).len
  <2>1. Handed(a, b).len = a.hdr[b].size /\ Handed(h, c).len = h.hdr[c].size
    BY DEF Handed
  <2>2. a.hdr[b].size \in Nat /\ h.hdr[c].size \in Nat
    BY <1>2, HeaderFacts DEF UsedBlocks
  <2>3. QED
    BY <1>2, <2>1, <2>2
<1>6. \A t \in AllHanded(h) : Abstract!Apart(Handed(a, b), t)
  BY <1>1 DEF AllHanded
<1>7. QED
  BY <1>1, <1>4, <1>5, <1>6 DEF AllHanded

\* A rounded size is rounded again to no less.
LEMMA BlockSizeKept ==
  ASSUME NEW n \in Nat
  PROVE  BlockSize(BlockSize(n)) >= BlockSize(n)
<1> DEFINE k == BlockSize(n)
<1>1. k \in Nat /\ k >= MinBlock /\ k % Align = 0
  BY BlockSizeFacts
<1>2. CASE k = MinBlock
  <2>1. BlockSize(k) >= MinBlock
    BY <1>1, BlockSizeFacts
  <2>2. QED
    BY <1>2, <2>1
<1>3. CASE k # MinBlock
  <2>1. k = AlignUp(n)
    BY <1>3 DEF BlockSize
  <2>2. k < WordSize
    BY <2>1, BlockSizeFacts
  <2> HIDE DEF k
  <2>3. k + Align <= WordSize
    BY <1>1, <2>2, MultiplesApart
  <2>4. k + Align - 1 < WordSize
    BY <1>1, <2>3
  <2>5. k <= BlockSize(k) /\ BlockSize(k) \in Nat
    BY <1>1, <2>4, BlockSizeFacts
  <2>6. QED
    BY <1>1, <2>5 DEF k
<1>4. QED
  BY <1>2, <1>3

\* The ranges the host owns are those of the used blocks.
LEMMA OwnedIsHanded ==
  ASSUME NEW h, Sound(h), NEW w, OwnersOf(w, h)
  PROVE  {[at |-> p, len |-> h.hdr[BlockOf(p)].size] : p \in DOMAIN w} = AllHanded(h)
<1>1. DOMAIN w = {DataOf(b) : b \in UsedBlocks(h)}
  BY DEF OwnersOf
<1>2. \A b \in UsedBlocks(h) :
        [at |-> DataOf(b), len |-> h.hdr[BlockOf(DataOf(b))].size] = Handed(h, b)
  BY PointerFacts DEF Handed
<1>3. QED
  BY <1>1, <1>2 DEF AllHanded

\* Every call is one the allocator promises, or changes nothing it tells apart.
LEMMA StepIsAllocators ==
  ASSUME IInv, [Next]_vars
  PROVE  [Abstract!Next]_Owned
<1>1. Sound(heap) /\ Exact(heap) /\ OwnersOf(want, heap) /\ Good(heap, want)
  BY DEF IInv, Good
<1>2. Step(heap, want, heap', want')
  BY NextGood
<1>3. Owned = AllHanded(heap)
  BY <1>1, OwnedIsHanded DEF Owned
<1>4. Owned' = AllHanded(heap')
  BY <1>2, OwnedIsHanded DEF Owned, Step, Good
<1>5. ASSUME AllHanded(heap') = AllHanded(heap)
      PROVE  [Abstract!Next]_Owned
  BY <1>3, <1>4, <1>5
<1>6. ASSUME NEW n \in Requests
      PROVE  n \in Nat /\ BlockSize(n) \in Nat
  BY BlockSizeFacts
<1>7. CASE UNCHANGED vars
  BY <1>5, <1>7 DEF vars
<1>8. ASSUME NEW n \in Requests, Alloc(n)
      PROVE  [Abstract!Next]_Owned
  <2>1. CASE CanServe(heap, n)
    <3>1. PICK b : b = Placed(heap, n)
      OBVIOUS
    <3>2. Allocated(heap, heap', b, BlockSize(n))
      BY <2>1, <1>1, <1>6, <1>8, <3>1, HeapAllocFacts DEF Alloc
    <3>3. PICK r : r = Handed(heap', b)
      OBVIOUS
    <3>4. /\ AllHanded(heap') = AllHanded(heap) \cup {r}
          /\ r \in Abstract!Ranges /\ Abstract!InArena(r)
          /\ \A s \in AllHanded(heap) : Abstract!Apart(r, s)
      BY <1>1, <3>2, <3>3, AllocatedGives
    <3>5. Abstract!Give(r)
      BY <1>3, <1>4, <3>4 DEF Abstract!Give
    <3>6. QED
      BY <3>4, <3>5 DEF Abstract!Next
  <2>2. CASE ~CanServe(heap, n)
    BY <2>2, <1>1, <1>5, <1>6, <1>8, HeapAllocFacts DEF Alloc
  <2>3. QED
    BY <2>1, <2>2
<1>9. ASSUME NEW p \in DOMAIN want
      PROVE  /\ BlockOf(p) \in UsedBlocks(heap)
             /\ heap.hdr[BlockOf(p)].size <= heap.usedSize
  BY <1>1, OwnedFacts, UsedBytesFacts
<1>10. ASSUME NEW p \in DOMAIN want, Free(p)
       PROVE  [Abstract!Next]_Owned
  <2>1. PICK b \in UsedBlocks(heap) : b = BlockOf(p)
    BY <1>9
  <2>2. Freed(heap, heap', b)
    BY <1>1, <1>9, <1>10, <2>1, HeapFreeFacts DEF Free
  <2>3. PICK r : r = Handed(heap, b)
    OBVIOUS
  <2>4. r \in AllHanded(heap) /\ AllHanded(heap') = AllHanded(heap) \ {r}
    BY <1>1, <2>2, <2>3, FreedTakesBack
  <2>5. r \in Owned /\ Abstract!TakeBack(r)
    BY <1>3, <1>4, <2>4 DEF Abstract!TakeBack
  <2>6. QED
    BY <2>5 DEF Abstract!Next
<1>11. ASSUME NEW p \in DOMAIN want, NEW n \in Requests, ReallocInPlace(p, n)
       PROVE  [Abstract!Next]_Owned
  BY <1>5, <1>11 DEF ReallocInPlace
<1>12. ASSUME NEW p \in DOMAIN want, NEW n \in Requests, ReallocGrow(p, n)
       PROVE  [Abstract!Next]_Owned
  <2>1. PICK b \in UsedBlocks(heap) : b = BlockOf(p)
    BY <1>9
  <2>2. NextIsFree(heap, b) /\ heap' = GrowInPlace(heap, b)
    BY <1>12, <2>1 DEF ReallocGrow, CanGrowInPlace
  <2>3. Grown(heap, heap', b)
    BY <1>1, <2>2, GrowFacts
  <2>4. PICK r : r = Handed(heap, b)
    OBVIOUS
  <2>5. PICK s : s = Handed(heap', b)
    OBVIOUS
  <2>6. /\ r \in AllHanded(heap)
        /\ AllHanded(heap') = (AllHanded(heap) \ {r}) \cup {s}
        /\ s \in Abstract!Ranges /\ Abstract!InArena(s)
        /\ s.at = r.at /\ s.len >= r.len
        /\ \A t \in AllHanded(heap) \ {r} : Abstract!Apart(s, t)
    BY <1>1, <2>3, <2>4, <2>5, GrownResizes
  <2>7. r \in Owned /\ Abstract!Resize(r, s)
    BY <1>3, <1>4, <2>6 DEF Abstract!Resize
  <2>8. QED
    BY <2>6, <2>7 DEF Abstract!Next
<1>13. ASSUME NEW p \in DOMAIN want, NEW n \in Requests, ReallocMove(p, n)
       PROVE  [Abstract!Next]_Owned
  <2>1. CASE CanServe(heap, BlockSize(n))
    <3>1. PICK k \in Nat : k = BlockSize(n)
      BY <1>6
    <3>2. PICK m \in Nat : m = BlockSize(k)
      BY BlockSizeFacts
    <3>3. PICK b : b = Placed(heap, k)
      OBVIOUS
    <3>4. PICK c \in UsedBlocks(heap) : c = BlockOf(p)
      BY <1>9
    <3>5. PICK a : a = HeapAlloc(heap, k)
      OBVIOUS
    <3>6. Allocated(heap, a, b, m)
      BY <2>1, <1>1, <3>1, <3>2, <3>3, <3>5, HeapAllocFacts
    <3>7. Sound(a) /\ Exact(a) /\ c \in UsedBlocks(a)
      BY <1>1, <3>4, <3>6, StatisticsKept DEF Allocated
    <3>8. heap' = HeapFree(a, c)
      BY <2>1, <1>13, <3>1, <3>4, <3>5 DEF ReallocMove
    <3>9. Freed(a, heap', c)
      BY <3>7, <3>8, HeapFreeFacts, UsedBytesFacts
    <3>10. heap.hdr[c].size <= m
      <4>1. heap.hdr[c].size < k
        BY <1>13, <3>1, <3>4 DEF ReallocMove
      <4>2. heap.hdr[c].size \in Nat
        BY <1>1, <3>4, HeaderFacts DEF UsedBlocks
      <4>3. m >= k
        BY <1>6, <3>1, <3>2, BlockSizeKept
      <4>4. QED
        BY <4>1, <4>2, <4>3
    <3>11. PICK r : r = Handed(heap, c)
      OBVIOUS
    <3>12. PICK s : s = Handed(a, b)
      OBVIOUS
    <3>13. /\ r \in AllHanded(heap)
           /\ AllHanded(heap') = (AllHanded(heap) \ {r}) \cup {s}
           /\ s \in Abstract!Ranges /\ Abstract!InArena(s)
           /\ Abstract!Apart(r, s) /\ s.len >= r.len
           /\ \A t \in AllHanded(heap) \ {r} : Abstract!Apart(s, t)
      BY <1>1, <3>4, <3>6, <3>9, <3>10, <3>11, <3>12, MovedResizes
    <3>14. r \in Owned /\ Abstract!Resize(r, s)
      BY <1>3, <1>4, <3>13 DEF Abstract!Resize
    <3>15. QED
      BY <3>13, <3>14 DEF Abstract!Next
  <2>2. CASE ~CanServe(heap, BlockSize(n))
    BY <2>2, <1>5, <1>13 DEF ReallocMove, vars
  <2>3. QED
    BY <2>1, <2>2
<1>14. QED
  BY <1>7, <1>8, <1>10, <1>11, <1>12, <1>13 DEF Next

\* The free list and the headers implement an allocator: aligned ranges inside the
\* region, apart, moved by their owner's call only, untouched by a call that fails.
THEOREM HeapImplementsAllocator == Spec => ImplementsAllocator
<1>1. Init => Abstract!Init
  <2>1. ASSUME Init
        PROVE  Owned = {}
    BY <2>1 DEF Init, Owned
  <2>2. QED
    BY <2>1 DEF Abstract!Init
<1>2. IInv /\ [Next]_vars => [Abstract!Next]_Owned
  BY StepIsAllocators
<1>3. Spec => Abstract!Spec
  BY <1>1, <1>2, IInvHolds, PTL DEF Spec, Abstract!Spec
<1>4. QED
  BY <1>3 DEF ImplementsAllocator

===============================================================================
