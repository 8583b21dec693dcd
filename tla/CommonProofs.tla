----------------------------- MODULE CommonProofs -----------------------------
(***************************************************************************)
(* What the arena hands out, who owns which block of the heap, and what a  *)
(* comparison of strings may go by, for any sizes, addresses and texts.    *)
(***************************************************************************)
EXTENDS Common, DataLemmas

USE HeapAssumption, ArenaAssumption

-------------------------------------------------------------------------------
(* The inductive invariant.                                                   *)

Block == [at : Addresses, size : 0 .. AddressSpace, used : 0 .. WordSize - 1]
Ranges == [at : Addresses, from : Nat, size : Nat]

\* Every block of the chain has an address of its own.
ChainDistinct == \A i, j \in DOMAIN chain : chain[i].at = chain[j].at => i = j

\* A block is used up to a boundary within it.
UsedSound == \A i \in DOMAIN chain : chain[i].used % Alignment = 0 /\ chain[i].used <= chain[i].size

\* A range starts at a boundary and lies in what is used of a block of the chain.
RangeSound(r) ==
  /\ r.from % Alignment = 0
  /\ \E i \in DOMAIN chain : chain[i].at = r.at /\ r.from + r.size <= chain[i].used

HandedSound == \A r \in handed : RangeSound(r)
HandedApart == \A r, q \in handed : r = q \/ Apart(r, q)

\* Nothing was handed out since the last reset whose arithmetic may have wrapped.
Tame == \A r \in handed : Measurable(r.size)

Room == [a \in FreedBlocks |-> BlockAt(a).size]
TotalSound == totalAllocated = SumFunctionOnSet(Room, FreedBlocks)

ArenaType ==
  /\ blockSize \in Nat /\ totalAllocated \in Nat
  /\ chain \in Seq(Block)
  /\ curr \in 0 .. Len(chain)
  /\ handed \subseteq Ranges

ArenaInv ==
  /\ ArenaType /\ ChainDistinct /\ UsedSound /\ TotalSound
  /\ Tame => HandedSound /\ HandedApart

Letters == DOMAIN ToLower

StringsType ==
  /\ str \in [Names -> PiString \cup {NULL}]
  /\ bytes \in [Addresses -> Seq(Letters \cup {NUL})]

\* Characters are cleared exactly if they are on the heap; memory goes on behind the
\* characters, of which none is a NUL, and the hash is theirs.
SoundIn(v, memory) ==
  /\ v.clear <=> v.chars.where = "heap"
  /\ v.count + 1 <= Len(memory)
  /\ \A i \in 1 .. v.count : memory[i] \in Letters
  /\ v.hash = Hash(SubSeq(memory, 1, v.count))

StringSound(s) == SoundIn(str[s], Memory(str[s].chars))

StringsInv == StringsType /\ \A s \in Names : HasChars(s) => StringSound(s)

HeapInv == /\ live \subseteq Addresses
           /\ live = FreedBlocks \cup Owned
           /\ FreedBlocks \cap Owned = {}

IInv == ArenaInv /\ StringsInv /\ HeapInv

-------------------------------------------------------------------------------
(* The heap and the sizes.                                                    *)

\* malloc answers a block that is not live.
LEMMA AnsweredFacts ==
  ASSUME live \subseteq Addresses, CanMalloc
  PROVE  Answered \in Addresses /\ Answered \notin live
<1>1. Addresses \ live \subseteq Nat /\ Addresses \ live # {}
  BY DEF CanMalloc
<1>2. PICK i \in Addresses \ live : \A j \in Addresses \ live : i <= j
  BY <1>1, LeastNatural
<1>3. Answered \in Addresses \ live
  BY <1>2 DEF Answered, Min
<1>4. QED
  BY <1>3

\* Wrapping once takes a boundary to a boundary.
LEMMA WrapsOnce ==
  ASSUME NEW n \in Nat, n < 2 * WordSize
  PROVE  /\ n % WordSize \in 0 .. WordSize - 1
         /\ n < WordSize => n % WordSize = n
         /\ n % Alignment = 0 => (n % WordSize) % Alignment = 0
<1>1. /\ n % WordSize \in 0 .. WordSize - 1 /\ n < WordSize => n % WordSize = n
      /\ WordSize <= n => n % WordSize = n - WordSize
  OBVIOUS
<1>2. ASSUME n % Alignment = 0, WordSize <= n PROVE (n - WordSize) % Alignment = 0
  BY <1>2, MultiplesAdd
<1>3. QED
  BY <1>1, <1>2

\* A size is rounded to a boundary, and up unless the sum wraps.
LEMMA AlignSizeFacts ==
  ASSUME NEW size \in Sizes
  PROVE  /\ size \in Nat \ {0}
         /\ AlignSize(size) \in 0 .. WordSize - 1
         /\ AlignSize(size) % Alignment = 0
         /\ Measurable(size) => size <= AlignSize(size) /\ AlignSize(size) + AddressSpace < WordSize
<1>1. size \in Nat \ {0} /\ Alignment \in Nat \ {0} /\ WordSize \in Nat \ {0} /\ AddressSpace \in Nat
  OBVIOUS
<1>2. PICK n \in Nat : n = size + (Alignment - 1)
  BY <1>1
<1>3. PICK m \in 0 .. WordSize - 1 : m = n % WordSize
  BY <1>1, <1>2
<1>4. AlignSize(size) = m - (m % Alignment)
  BY <1>2, <1>3 DEF AlignSize
<1>5. PICK r \in 0 .. Alignment - 1 : r = m % Alignment
  BY <1>1, <1>3
<1>6. m - r \in Nat /\ (m - r) % Alignment = 0
  <2>1. m \in Nat
    BY <1>1, <1>3
  <2>2. m - (m % Alignment) \in Nat /\ (m - (m % Alignment)) % Alignment = 0
    BY ONLY <1>1, <2>1, RoundedDown
  <2>3. QED
    BY <1>5, <2>2
<1>7. AlignSize(size) = m - r
  BY <1>4, <1>5
<1>8. ASSUME Measurable(size) PROVE size <= m - r /\ m - r + AddressSpace < WordSize
  <2>1. n + AddressSpace < WordSize
    BY <1>2, <1>8 DEF Measurable
  <2>2. n < WordSize
    BY <1>1, <1>2, <2>1
  <2>3. n % WordSize = n
    BY ONLY <1>1, <2>2, n \in Nat
  <2>4. m = n
    BY <1>3, <2>3
  <2>5. QED
    BY ONLY <1>1, <1>2, <1>5, <2>1, <2>4
<1>9. m - r \in 0 .. WordSize - 1
  BY ONLY <1>1, <1>3, <1>5, <1>6
<1>10. QED
  BY <1>1, <1>6, <1>7, <1>8, <1>9

\* What is used of the current block with a range is a boundary, and its end unless the
\* sum wraps.
LEMMA UsedWithFacts ==
  ASSUME NEW size \in Sizes, ArenaType, UsedSound, curr # 0
  PROVE  /\ UsedWith(size) \in 0 .. WordSize - 1 /\ UsedWith(size) % Alignment = 0
         /\ Measurable(size) => UsedWith(size) = chain[curr].used + AlignSize(size)
<1>1. PICK b \in Block : b = chain[curr] /\ b.used % Alignment = 0 /\ b.used <= b.size
  BY DEF ArenaType, UsedSound
<1>2. PICK u \in Nat : u = b.used /\ u <= AddressSpace /\ u < WordSize /\ u % Alignment = 0
  BY <1>1 DEF Block
<1>3. PICK n \in Nat : n = AlignSize(size) /\ n < WordSize /\ n % Alignment = 0
  BY AlignSizeFacts
<1>4. (u + n) % Alignment = 0
  BY <1>2, <1>3, MultiplesAdd
<1>5. u + n \in Nat /\ u + n < 2 * WordSize
  BY <1>2, <1>3
<1>6. PICK k \in Nat : k = u + n
  BY <1>5
<1>7. UsedWith(size) = k % WordSize
  BY <1>1, <1>2, <1>3, <1>6 DEF UsedWith
<1>8. Measurable(size) => k < WordSize
  <2>1. Measurable(size) => n + AddressSpace < WordSize
    BY <1>3, AlignSizeFacts
  <2>2. QED
    BY <1>2, <1>6, <2>1
<1>9. /\ k % WordSize \in 0 .. WordSize - 1
      /\ k < WordSize => k % WordSize = k
      /\ (k % WordSize) % Alignment = 0
  BY <1>4, <1>5, <1>6, WrapsOnce
<1>10. QED
  BY <1>1, <1>2, <1>3, <1>6, <1>7, <1>8, <1>9

\* A new block has room for what it is made for.
LEMMA NewBlockSizeFacts ==
  ASSUME NEW size \in Sizes, blockSize \in Nat
  PROVE  NewBlockSize(size) \in Nat /\ AlignSize(size) <= NewBlockSize(size)
<1>1. PICK n \in Nat : n = AlignSize(size)
  BY AlignSizeFacts
<1>2. Max({n, blockSize}) = IF n >= blockSize THEN n ELSE blockSize
  BY DEF Max
<1>3. QED
  BY <1>1, <1>2 DEF NewBlockSize

-------------------------------------------------------------------------------
(* The chain.                                                                 *)

\* The block at an address of the chain is the one that has it.
LEMMA BlockAtIs ==
  ASSUME ChainDistinct, NEW i \in DOMAIN chain
  PROVE  BlockAt(chain[i].at) = chain[i]
  BY DEF ChainDistinct, BlockAt

\* The invariant makes the arena sound.
LEMMA ArenaInvSound == ArenaInv => ArenaSound
<1> SUFFICES ASSUME ArenaInv PROVE ArenaSound
  OBVIOUS
<1>1. ASSUME Tame, NEW r \in handed
      PROVE  /\ \E i \in DOMAIN chain : chain[i].at = r.at
             /\ r.from % Alignment = 0
             /\ r.from + r.size <= BlockAt(r.at).size
  <2>1. RangeSound(r)
    BY <1>1 DEF ArenaInv, HandedSound
  <2>2. PICK i \in DOMAIN chain : chain[i].at = r.at /\ r.from + r.size <= chain[i].used
    BY <2>1 DEF RangeSound
  <2>3. BlockAt(r.at) = chain[i]
    BY <2>2, BlockAtIs DEF ArenaInv
  <2>4. chain[i].used <= chain[i].size /\ chain[i] \in Block /\ r \in Ranges
    BY DEF ArenaInv, ArenaType, UsedSound
  <2>5. r.from + r.size <= chain[i].size
    BY <2>2, <2>4 DEF Block, Ranges
  <2>6. QED
    BY <2>1, <2>2, <2>3, <2>5 DEF RangeSound
<1>2. Tame => HandedApart
  BY DEF ArenaInv
<1>3. totalAllocated = SumFunctionOnSet([a \in FreedBlocks |-> BlockAt(a).size], FreedBlocks)
  BY DEF ArenaInv, TotalSound, Room
<1>4. QED
  BY <1>1, <1>2, <1>3 DEF ArenaSound, Tame, HandedApart

\* The chain has as many addresses as blocks, and finitely many.
LEMMA ChainLength ==
  ASSUME ArenaType, ChainDistinct
  PROVE  IsFiniteSet(FreedBlocks) /\ FreedBlocks \subseteq Addresses
         /\ Cardinality(FreedBlocks) = Len(chain)
<1> DEFINE s == [i \in 1 .. Len(chain) |-> chain[i].at]
<1>1. chain \in Seq(Block) /\ DOMAIN chain = 1 .. Len(chain) /\ Len(chain) \in Nat
  BY DEF ArenaType
<1>2. FreedBlocks \subseteq Addresses
  <2>1. \A i \in DOMAIN chain : chain[i] \in Block
    BY <1>1
  <2>2. \A i \in DOMAIN chain : chain[i].at \in Addresses
    BY <2>1 DEF Block
  <2>3. QED
    BY <2>2 DEF FreedBlocks
<1>3. s \in Bijection(1 .. Len(chain), FreedBlocks)
  <2>1. s \in [1 .. Len(chain) -> FreedBlocks]
    BY <1>1 DEF FreedBlocks
  <2>2. IsInjective(s)
    BY <1>1 DEF IsInjective, ChainDistinct
  <2>3. \A t \in FreedBlocks : \E k \in 1 .. Len(chain) : s[k] = t
    BY <1>1 DEF FreedBlocks
  <2>4. QED
    BY <2>1, <2>2, <2>3 DEF Bijection, Injection, Surjection
<1>4. ExistsBijection(1 .. Len(chain), FreedBlocks)
  BY <1>3 DEF ExistsBijection
<1>5. QED
  BY <1>1, <1>2, <1>4, FS_CountingElements, FS_Subset

-------------------------------------------------------------------------------
(* The steps of the arena.                                                    *)

\* The total depends on the blocks only: where the addresses and the sizes stay.
LEMMA RoomKept ==
  ASSUME ArenaType, ChainDistinct, TotalSound, ArenaType', ChainDistinct',
         DOMAIN chain' = DOMAIN chain,
         \A i \in DOMAIN chain : chain'[i].at = chain[i].at /\ chain'[i].size = chain[i].size,
         totalAllocated' = totalAllocated
  PROVE  TotalSound' /\ FreedBlocks' = FreedBlocks
<1>1. FreedBlocks' = FreedBlocks
  BY DEF FreedBlocks
<1>2. \A a \in FreedBlocks : Room[a] \in Int /\ Room[a] = Room'[a]
  <2> TAKE a \in FreedBlocks
  <2>1. PICK i \in DOMAIN chain : chain[i].at = a
    BY DEF FreedBlocks
  <2>2. BlockAt(a) = chain[i]
    BY <2>1, BlockAtIs
  <2>3. BlockAt(a)' = chain'[i]
    BY <2>1 DEF BlockAt, ChainDistinct
  <2>4. chain[i] \in Block
    BY DEF ArenaType
  <2>5. chain[i].size \in Int
    BY <2>4 DEF Block
  <2>6. Room[a] = BlockAt(a).size /\ Room'[a] = BlockAt(a)'.size
    BY <1>1 DEF Room
  <2>7. QED
    BY <2>2, <2>3, <2>5, <2>6
<1>3. SumFunctionOnSet(Room, FreedBlocks) = SumFunctionOnSet(Room', FreedBlocks)
  <2>1. IsFiniteSet(FreedBlocks)
    BY ChainLength
  <2>2. PICK f : f = Room
    OBVIOUS
  <2>3. PICK g : g = Room'
    OBVIOUS
  <2>4. \A a \in FreedBlocks : f[a] \in Int /\ f[a] = g[a]
    BY <1>2, <2>2, <2>3
  <2>5. SumFunctionOnSet(f, FreedBlocks) = SumFunctionOnSet(g, FreedBlocks)
    BY ONLY <2>1, <2>4, SumAgree
  <2>6. QED
    BY <2>2, <2>3, <2>5
<1>4. QED
  BY <1>1, <1>3 DEF TotalSound

\* A range out of the current block.
LEMMA AllocHereKeeps ==
  ASSUME ArenaInv, NEW size \in Sizes, ArenaAllocHere(size)
  PROVE  ArenaInv' /\ FreedBlocks' = FreedBlocks
<1> DEFINE block == chain[curr]
<1>0. PICK new : new = [at |-> block.at, from |-> block.used, size |-> size]
  OBVIOUS
<1>1. /\ curr \in DOMAIN chain /\ DOMAIN chain = 1 .. Len(chain) /\ chain \in Seq(Block)
      /\ block \in Block /\ UsedWith(size) <= block.size
      /\ handed' = handed \cup {new}
      /\ UNCHANGED <<blockSize, totalAllocated, curr>>
  BY <1>0 DEF ArenaInv, ArenaType, ArenaAllocHere, Fits
<1>2. /\ block.at \in Addresses /\ block.size \in 0 .. AddressSpace
      /\ block.used \in 0 .. WordSize - 1 /\ size \in Nat \ {0}
      /\ block.used % Alignment = 0
  BY <1>1 DEF Block, ArenaInv, UsedSound
<1>3. PICK u \in 0 .. WordSize - 1 :
        /\ u = UsedWith(size) /\ u <= block.size /\ u % Alignment = 0
        /\ Measurable(size) => block.used + size <= u
  <2>1. /\ UsedWith(size) \in 0 .. WordSize - 1 /\ UsedWith(size) % Alignment = 0
        /\ Measurable(size) => UsedWith(size) = block.used + AlignSize(size)
    BY <1>1, UsedWithFacts DEF ArenaInv, ArenaType, ArenaAllocHere, Fits
  <2>2. AlignSize(size) \in Nat /\ (Measurable(size) => size <= AlignSize(size))
    BY AlignSizeFacts
  <2>3. Measurable(size) => block.used + size <= UsedWith(size)
    BY <1>2, <2>1, <2>2
  <2>4. QED
    BY <1>1, <2>1, <2>3
<1>4. /\ chain' \in Seq(Block) /\ DOMAIN chain' = DOMAIN chain /\ Len(chain') = Len(chain)
      /\ \A i \in DOMAIN chain :
           /\ chain'[i].at = chain[i].at /\ chain'[i].size = chain[i].size
           /\ chain'[i].used = IF i = curr THEN u ELSE chain[i].used
  <2>1. chain' = [chain EXCEPT ![curr].used = u]
    <3>1. chain' = [chain EXCEPT ![curr].used = UsedWith(size)]
      BY DEF ArenaAllocHere
    <3>2. u = UsedWith(size)
      BY <1>3
    <3>3. QED
      BY <3>1, <3>2, Zenon
  <2>2. PICK b \in Block : b = block
    BY <1>1
  <2>3. PICK c : c = [b EXCEPT !.used = u]
    OBVIOUS
  <2>4. c \in Block /\ c.at = block.at /\ c.size = block.size /\ c.used = u
    BY <1>3, <2>2, <2>3 DEF Block
  <2>5. chain' = [chain EXCEPT ![curr] = c]
    BY <2>1, <2>2, <2>3
  <2>6. chain' \in Seq(Block) /\ DOMAIN chain' = DOMAIN chain /\ Len(chain') = Len(chain)
    BY <1>1, <2>4, <2>5
  <2>7. \A i \in DOMAIN chain : chain'[i] = IF i = curr THEN c ELSE chain[i]
    BY <1>1, <2>5
  <2>8. QED
    BY <2>4, <2>6, <2>7
<1> HIDE DEF block
<1>5. ArenaType'
  <2>1. new \in Ranges
    BY <1>0, <1>2 DEF Ranges
  <2>2. QED
    BY <1>1, <1>4, <2>1 DEF ArenaInv, ArenaType
<1>6. ChainDistinct'
  BY <1>4 DEF ArenaInv, ChainDistinct
<1>7. UsedSound'
  <2> SUFFICES ASSUME NEW i \in DOMAIN chain
               PROVE  chain'[i].used % Alignment = 0 /\ chain'[i].used <= chain'[i].size
    BY <1>4 DEF UsedSound
  <2>1. chain[i].used % Alignment = 0 /\ chain[i].used <= chain[i].size
    BY DEF ArenaInv, UsedSound
  <2>2. CASE i # curr
    BY <1>4, <2>1, <2>2
  <2>3. CASE i = curr
    <3>1. chain'[i].used = u /\ chain'[i].size = block.size
      BY <1>4, <2>3 DEF block
    <3>2. u % Alignment = 0 /\ u <= block.size
      BY <1>3
    <3>3. QED
      BY <3>1, <3>2
  <2>4. QED
    BY <2>2, <2>3
<1>8. ASSUME Tame' PROVE Tame /\ HandedSound /\ HandedApart /\ block.used + size <= u
  <2>1. Tame /\ Measurable(size)
    BY <1>0, <1>1, <1>8 DEF Tame
  <2>2. block.used + size <= u
    BY <1>3, <2>1
  <2>3. QED
    BY <2>1, <2>2 DEF ArenaInv
<1>9. ASSUME Tame', NEW r \in handed
      PROVE  RangeSound(r)' /\ Apart(r, new) /\ Apart(new, r)
  <2>1. RangeSound(r)
    BY <1>8, <1>9 DEF HandedSound
  <2>2. PICK i \in DOMAIN chain : chain[i].at = r.at /\ r.from + r.size <= chain[i].used
    BY <2>1 DEF RangeSound
  <2>3. r.from \in Nat /\ r.size \in Nat
    BY DEF ArenaInv, ArenaType, Ranges
  <2>4. r.from + r.size <= chain'[i].used
    <3>1. CASE i = curr
      <4>1. r.from + r.size <= block.used /\ block.used <= u /\ chain'[i].used = u
        BY <1>2, <1>3, <1>4, <1>8, <1>9, <2>2, <3>1 DEF block
      <4>2. QED
        BY <1>2, <1>3, <2>3, <4>1
    <3>2. CASE i # curr
      BY <1>4, <2>2, <3>2
    <3>3. QED
      BY <3>1, <3>2
  <2>5. RangeSound(r)'
    BY <1>4, <2>1, <2>2, <2>4 DEF RangeSound
  <2>6. CASE r.at = block.at
    <3>1. i = curr
      BY <1>1, <2>2, <2>6 DEF ArenaInv, ChainDistinct, block
    <3>2. r.from + r.size <= block.used
      BY <2>2, <3>1 DEF block
    <3>3. QED
      BY <1>0, <2>5, <3>2 DEF Apart
  <2>7. CASE r.at # block.at
    BY <1>0, <2>5, <2>7 DEF Apart
  <2>8. QED
    BY <2>6, <2>7
<1>10. ASSUME Tame' PROVE RangeSound(new)'
  <2>1. chain'[curr].used = u /\ chain'[curr].at = block.at
    BY <1>1, <1>4 DEF block
  <2>2. block.used + size <= chain'[curr].used
    BY <1>8, <1>10, <2>1
  <2>3. QED
    BY <1>0, <1>1, <1>2, <1>4, <2>1, <2>2 DEF RangeSound
<1>11. TotalSound' /\ FreedBlocks' = FreedBlocks
  BY <1>1, <1>4, <1>5, <1>6, RoomKept DEF ArenaInv
<1>12. ASSUME Tame' PROVE HandedSound' /\ HandedApart'
  <2>1. HandedSound'
    BY <1>1, <1>9, <1>10, <1>12 DEF HandedSound
  <2>2. \A r, q \in handed' : r = q \/ Apart(r, q)
    BY <1>1, <1>8, <1>9, <1>12 DEF HandedApart
  <2>3. QED
    BY <2>1, <2>2 DEF HandedApart, Apart
<1>13. QED
  BY <1>5, <1>6, <1>7, <1>11, <1>12 DEF ArenaInv

\* A block at the head of the chain moves the others one place on.
LEMMA Prepended ==
  ASSUME NEW S, NEW s \in Seq(S), NEW b \in S, NEW t, t = <<b>> \o s
  PROVE  /\ t \in Seq(S) /\ Len(t) = Len(s) + 1 /\ DOMAIN t = 1 .. Len(s) + 1
         /\ DOMAIN s = 1 .. Len(s) /\ Len(s) \in Nat
         /\ t[1] = b
         /\ \A i \in DOMAIN s : i + 1 \in DOMAIN t /\ t[i + 1] = s[i]
         /\ \A j \in DOMAIN t : j # 1 => j - 1 \in DOMAIN s /\ t[j] = s[j - 1]
<1>1. t \in Seq(S) /\ Len(t) = Len(s) + 1 /\ Len(s) \in Nat
  OBVIOUS
<1>2. \A j \in 1 .. Len(s) + 1 : t[j] = IF j = 1 THEN b ELSE s[j - 1]
  OBVIOUS
<1>3. DOMAIN t = 1 .. Len(s) + 1 /\ DOMAIN s = 1 .. Len(s)
  BY <1>1
<1>4. \A i \in DOMAIN s : i + 1 \in 1 .. Len(s) + 1 /\ i + 1 # 1 /\ (i + 1) - 1 = i
  BY <1>1, <1>3
<1>5. \A j \in DOMAIN t : j # 1 => j - 1 \in DOMAIN s /\ t[j] = s[j - 1]
  BY <1>1, <1>2, <1>3
<1>6. t[1] = b /\ \A i \in DOMAIN s : t[i + 1] = s[i]
  BY <1>1, <1>2, <1>4
<1>7. QED
  BY <1>1, <1>3, <1>4, <1>5, <1>6

\* A new block adds its address, which no other has, and its room.
LEMMA RoomAdded ==
  ASSUME ArenaType, ChainDistinct, TotalSound,
         NEW b \in Block, b.at \notin FreedBlocks, chain' = <<b>> \o chain,
         totalAllocated' = totalAllocated + b.size
  PROVE  FreedBlocks' = FreedBlocks \cup {b.at} /\ ChainDistinct' /\ TotalSound'
<1> USE DEF FreedBlocks
<1>1. /\ chain' \in Seq(Block) /\ chain \in Seq(Block) /\ chain'[1] = b /\ 1 \in DOMAIN chain'
      /\ \A i \in DOMAIN chain : i + 1 \in DOMAIN chain' /\ chain'[i + 1] = chain[i]
      /\ \A j \in DOMAIN chain' : j # 1 => j - 1 \in DOMAIN chain /\ chain'[j] = chain[j - 1]
      /\ DOMAIN chain' \subseteq Int
  <2>1. chain \in Seq(Block)
    BY DEF ArenaType
  <2>2. PICK t : t = chain'
    OBVIOUS
  <2>3. t = <<b>> \o chain
    BY <2>2
  <2>4. /\ t \in Seq(Block) /\ DOMAIN t = 1 .. Len(chain) + 1 /\ Len(chain) \in Nat /\ t[1] = b
        /\ \A i \in DOMAIN chain : i + 1 \in DOMAIN t /\ t[i + 1] = chain[i]
        /\ \A j \in DOMAIN t : j # 1 => j - 1 \in DOMAIN chain /\ t[j] = chain[j - 1]
    BY ONLY <2>1, <2>3, b \in Block, Prepended
  <2>5. 1 \in DOMAIN t /\ DOMAIN t \subseteq Int
    BY <2>4
  <2>6. QED
    BY <2>1, <2>2, <2>4, <2>5
<1>2. FreedBlocks' = FreedBlocks \cup {b.at}
  <2>1. ASSUME NEW a \in FreedBlocks' PROVE a \in FreedBlocks \cup {b.at}
    <3>1. PICK j \in DOMAIN chain' : a = chain'[j].at
      BY <2>1
    <3>2. QED
      BY <1>1, <3>1
  <2>2. ASSUME NEW a \in FreedBlocks PROVE a \in FreedBlocks'
    <3>1. PICK i \in DOMAIN chain : a = chain[i].at
      BY <2>2
    <3>2. a = chain'[i + 1].at /\ i + 1 \in DOMAIN chain'
      BY <1>1, <3>1
    <3>3. QED
      BY <3>2
  <2>3. b.at \in FreedBlocks'
    BY <1>1
  <2>4. QED
    BY <2>1, <2>2, <2>3
<1>3. ChainDistinct'
  <2> SUFFICES ASSUME NEW i \in DOMAIN chain', NEW j \in DOMAIN chain',
                      chain'[i].at = chain'[j].at
               PROVE  i = j
    BY DEF ChainDistinct
  <2>1. \A k \in DOMAIN chain' : k # 1 => chain'[k].at # b.at
    BY <1>1
  <2>2. CASE i = 1
    BY <1>1, <2>1, <2>2
  <2>3. CASE j = 1
    BY <1>1, <2>1, <2>3
  <2>4. CASE i # 1 /\ j # 1
    <3>1. i - 1 = j - 1
      BY <1>1, <2>4 DEF ChainDistinct
    <3>2. i \in Int /\ j \in Int
      BY <1>1
    <3>3. QED
      BY ONLY <3>1, <3>2
  <2>5. QED
    BY <2>2, <2>3, <2>4
<1>4. \A a \in FreedBlocks : Room[a] \in Int /\ Room'[a] = Room[a]
  <2> TAKE a \in FreedBlocks
  <2>1. PICK i \in DOMAIN chain : a = chain[i].at
    OBVIOUS
  <2>2. BlockAt(a) = chain[i]
    BY <2>1, BlockAtIs
  <2>3. BlockAt(a)' = chain'[i + 1]
    BY <1>1, <1>3, <2>1 DEF BlockAt, ChainDistinct
  <2>4. chain[i] \in Block
    BY <1>1
  <2>5. chain[i].size \in Int
    BY <2>4 DEF Block
  <2>6. Room[a] = BlockAt(a).size /\ Room'[a] = BlockAt(a)'.size
    BY <1>2 DEF Room
  <2>7. QED
    BY <1>1, <2>2, <2>3, <2>5, <2>6
<1>5. Room'[b.at] = b.size /\ b.size \in Int
  <2>1. BlockAt(b.at)' = b
    BY <1>1, <1>3 DEF BlockAt, ChainDistinct
  <2>2. Room'[b.at] = BlockAt(b.at)'.size
    BY <1>2 DEF Room
  <2>3. QED
    BY <2>1, <2>2 DEF Block
<1>6. SumFunctionOnSet(Room', FreedBlocks \cup {b.at})
        = SumFunctionOnSet(Room, FreedBlocks) + b.size
  <2>1. IsFiniteSet(FreedBlocks)
    BY ChainLength
  <2>2. PICK f : f = Room
    OBVIOUS
  <2>3. PICK g : g = Room'
    OBVIOUS
  <2>4. PICK S : S = FreedBlocks
    OBVIOUS
  <2>5. PICK a : a = b.at
    OBVIOUS
  <2>6. /\ IsFiniteSet(S) /\ a \notin S /\ g[a] = b.size
        /\ \A x \in S : f[x] \in Int /\ f[x] = g[x]
        /\ \A x \in S \cup {a} : g[x] \in Int
    BY <1>4, <1>5, <2>1, <2>2, <2>3, <2>4, <2>5
  <2>7. SumFunctionOnSet(g, S \cup {a}) = SumFunctionOnSet(g, S) + g[a]
    BY ONLY <2>6, SumAdd
  <2>8. SumFunctionOnSet(f, S) = SumFunctionOnSet(g, S)
    BY ONLY <2>6, SumAgree
  <2>9. SumFunctionOnSet(g, S \cup {a}) = SumFunctionOnSet(f, S) + b.size
    BY ONLY <2>6, <2>7, <2>8
  <2>10. QED
    BY <2>2, <2>3, <2>4, <2>5, <2>9
<1> USE DEF TotalSound
<1>7. QED
  BY <1>2, <1>3, <1>6

\* A range at the start of a new block.
LEMMA AllocNewKeeps ==
  ASSUME ArenaInv, HeapInv, NEW size \in Sizes, ArenaAllocNew(size)
  PROVE  /\ ArenaInv' /\ FreedBlocks' = FreedBlocks \cup {Answered}
         /\ Answered \in Addresses \ live
<1>1. PICK a : a = Answered
  OBVIOUS
<1>2. a \in Addresses /\ a \notin live /\ a \notin FreedBlocks
  BY <1>1, AnsweredFacts DEF HeapInv, ArenaAllocNew, Malloc
<1>3. PICK n \in Nat : n = AlignSize(size)
  BY AlignSizeFacts
<1>4. PICK m \in Nat : m = NewBlockSize(size) /\ n <= m
  BY <1>3, NewBlockSizeFacts DEF ArenaInv, ArenaType
<1>5. /\ size \in Nat \ {0} /\ n % Alignment = 0 /\ n < WordSize
      /\ Measurable(size) => size <= n
  BY <1>3, AlignSizeFacts
<1>6. PICK b : b = [at |-> a, size |-> m, used |-> n]
  OBVIOUS
<1>7. b \in Block /\ b.at = a /\ b.size = m /\ b.used = n
  <2>1. totalAllocated + m <= AddressSpace /\ totalAllocated \in Nat
    BY <1>4 DEF ArenaAllocNew, ArenaInv, ArenaType
  <2>2. m \in 0 .. AddressSpace /\ n \in 0 .. WordSize - 1
    BY <1>5, <2>1
  <2>3. QED
    BY <1>2, <1>6, <2>2 DEF Block
<1>8. PICK new : new = [at |-> a, from |-> 0, size |-> size]
  OBVIOUS
<1>9. new \in Ranges /\ new.at = a /\ new.from = 0 /\ new.size = size
  BY <1>2, <1>5, <1>8 DEF Ranges
<1>10. /\ chain' = <<b>> \o chain /\ curr' = 1 /\ totalAllocated' = totalAllocated + b.size
       /\ handed' = handed \cup {new} /\ blockSize' = blockSize
  BY <1>1, <1>3, <1>4, <1>6, <1>7, <1>8 DEF ArenaAllocNew
<1>11. FreedBlocks' = FreedBlocks \cup {a} /\ ChainDistinct' /\ TotalSound'
  BY <1>2, <1>7, <1>10, RoomAdded DEF ArenaInv
<1>12. /\ chain' \in Seq(Block) /\ Len(chain') \in Nat /\ 1 \in DOMAIN chain' /\ chain'[1] = b
       /\ DOMAIN chain' = 1 .. Len(chain')
       /\ \A i \in DOMAIN chain : i + 1 \in DOMAIN chain' /\ chain'[i + 1] = chain[i]
       /\ \A j \in DOMAIN chain' : j # 1 => j - 1 \in DOMAIN chain /\ chain'[j] = chain[j - 1]
  <2>1. chain \in Seq(Block)
    BY DEF ArenaInv, ArenaType
  <2>2. PICK t : t = chain'
    OBVIOUS
  <2>3. t = <<b>> \o chain
    BY <1>10, <2>2
  <2>4. /\ t \in Seq(Block) /\ DOMAIN t = 1 .. Len(chain) + 1 /\ Len(chain) \in Nat /\ t[1] = b
        /\ Len(t) = Len(chain) + 1
        /\ \A i \in DOMAIN chain : i + 1 \in DOMAIN t /\ t[i + 1] = chain[i]
        /\ \A j \in DOMAIN t : j # 1 => j - 1 \in DOMAIN chain /\ t[j] = chain[j - 1]
    BY ONLY <2>1, <2>3, <1>7, Prepended
  <2>5. 1 \in DOMAIN t /\ Len(t) \in Nat /\ DOMAIN t = 1 .. Len(t)
    BY <2>4
  <2>6. QED
    BY <2>2, <2>4, <2>5
<1>13. ArenaType'
  <2>1. 1 \in 0 .. Len(chain')
    BY <1>12
  <2>2. totalAllocated' \in Nat
    BY <1>4, <1>7, <1>10 DEF ArenaInv, ArenaType
  <2>3. QED
    BY <1>9, <1>10, <1>12, <2>1, <2>2 DEF ArenaInv, ArenaType
<1>14. UsedSound'
  <2> SUFFICES ASSUME NEW j \in DOMAIN chain'
               PROVE  chain'[j].used % Alignment = 0 /\ chain'[j].used <= chain'[j].size
    BY DEF UsedSound
  <2>1. CASE j = 1
    BY <1>3, <1>4, <1>5, <1>7, <1>12, <2>1
  <2>2. CASE j # 1
    BY <1>12, <2>2 DEF ArenaInv, UsedSound
  <2>3. QED
    BY <2>1, <2>2
<1>15. ASSUME Tame' PROVE Tame /\ HandedSound /\ HandedApart /\ size <= n
  <2>1. Tame /\ Measurable(size)
    BY <1>9, <1>10, <1>15 DEF Tame
  <2>2. QED
    BY <1>5, <2>1 DEF ArenaInv
<1>16. ASSUME Tame', NEW r \in handed PROVE RangeSound(r)' /\ Apart(r, new) /\ Apart(new, r)
  <2>1. RangeSound(r)
    BY <1>15, <1>16 DEF HandedSound
  <2>2. PICK i \in DOMAIN chain : chain[i].at = r.at /\ r.from + r.size <= chain[i].used
    BY <2>1 DEF RangeSound
  <2>3. r.at \in FreedBlocks
    BY <2>2 DEF FreedBlocks
  <2>4. i + 1 \in DOMAIN chain' /\ chain'[i + 1] = chain[i]
    BY <1>12
  <2>5. RangeSound(r)'
    BY <2>1, <2>2, <2>4 DEF RangeSound
  <2>6. QED
    BY <1>2, <1>9, <2>3, <2>5 DEF Apart
<1>17. ASSUME Tame' PROVE RangeSound(new)'
  <2>1. 0 % Alignment = 0
    OBVIOUS
  <2>2. new.from % Alignment = 0
    BY <1>9, <2>1
  <2>3. new.from + new.size <= n
    BY <1>3, <1>5, <1>9, <1>15, <1>17
  <2>4. chain'[1].at = new.at /\ new.from + new.size <= chain'[1].used
    BY <1>7, <1>9, <1>12, <2>3
  <2>5. QED
    BY <1>12, <2>2, <2>4 DEF RangeSound
<1>18. ASSUME Tame' PROVE HandedSound' /\ HandedApart'
  <2>1. HandedSound'
    BY <1>10, <1>16, <1>17, <1>18 DEF HandedSound
  <2>2. \A r, q \in handed' : r = q \/ Apart(r, q)
    BY <1>10, <1>15, <1>16, <1>18 DEF HandedApart
  <2>3. QED
    BY <2>1, <2>2 DEF HandedApart, Apart
<1>19. QED
  BY <1>1, <1>2, <1>11, <1>13, <1>14, <1>18 DEF ArenaInv

\* An arena without blocks.
LEMMA NoBlocks ==
  ASSUME chain = <<>>, curr = 0, totalAllocated = 0, handed = {}, blockSize \in Nat
  PROVE  ArenaInv /\ FreedBlocks = {}
<1>1. DOMAIN chain = {} /\ chain \in Seq(Block) /\ Len(chain) = 0
  OBVIOUS
<1>2. FreedBlocks = {}
  BY <1>1 DEF FreedBlocks
<1>3. TotalSound
  <2>1. PICK f : f = Room
    OBVIOUS
  <2>2. SumFunctionOnSet(f, {}) = 0
    BY SumEmpty
  <2>3. QED
    BY <1>2, <2>1, <2>2 DEF TotalSound
<1>4. ArenaType /\ ChainDistinct /\ UsedSound /\ HandedSound /\ HandedApart
  BY <1>1 DEF ArenaType, ChainDistinct, UsedSound, HandedSound, HandedApart
<1>5. QED
  BY <1>2, <1>3, <1>4 DEF ArenaInv

\* Every block is empty again, and nothing is handed out.
LEMMA ResetKeeps ==
  ASSUME ArenaInv, ArenaReset
  PROVE  ArenaInv' /\ FreedBlocks' = FreedBlocks
<1>1. /\ chain \in Seq(Block) /\ DOMAIN chain = 1 .. Len(chain) /\ Len(chain) \in Nat
      /\ \A i \in DOMAIN chain : chain[i] \in Block
  BY DEF ArenaInv, ArenaType
<1>2. /\ chain' = [i \in DOMAIN chain |-> [chain[i] EXCEPT !.used = 0]]
      /\ handed' = {} /\ UNCHANGED <<blockSize, totalAllocated>>
      /\ curr' = IF chain = <<>> THEN 0 ELSE 1
  BY DEF ArenaReset
<1>3. ASSUME NEW b \in Block
      PROVE  /\ [b EXCEPT !.used = 0] \in Block /\ [b EXCEPT !.used = 0].at = b.at
             /\ [b EXCEPT !.used = 0].size = b.size /\ [b EXCEPT !.used = 0].used = 0
  BY DEF Block
<1>4. /\ DOMAIN chain' = DOMAIN chain
      /\ \A i \in DOMAIN chain : /\ chain'[i] \in Block /\ chain'[i].at = chain[i].at
                                 /\ chain'[i].size = chain[i].size /\ chain'[i].used = 0
  <2>1. DOMAIN chain' = DOMAIN chain /\ \A i \in DOMAIN chain : chain'[i] = [chain[i] EXCEPT !.used = 0]
    BY <1>2
  <2>2. ASSUME NEW i \in DOMAIN chain
        PROVE  /\ chain'[i] \in Block /\ chain'[i].at = chain[i].at
               /\ chain'[i].size = chain[i].size /\ chain'[i].used = 0
    <3>1. PICK b \in Block : b = chain[i]
      BY <1>1
    <3>2. chain'[i] = [b EXCEPT !.used = 0]
      BY <2>1, <3>1
    <3>3. QED
      BY <1>3, <3>1, <3>2
  <2>3. QED
    BY <2>1, <2>2
<1>5. chain' \in Seq(Block) /\ Len(chain') = Len(chain)
  <2>1. chain' = [i \in 1 .. Len(chain) |-> chain'[i]]
    BY <1>1, <1>2
  <2>2. \A i \in 1 .. Len(chain) : chain'[i] \in Block
    BY <1>1, <1>4
  <2>3. PICK n \in Nat : n = Len(chain)
    BY <1>1
  <2>4. PICK t : t = chain'
    OBVIOUS
  <2>5. t = [i \in 1 .. n |-> t[i]] /\ \A i \in 1 .. n : t[i] \in Block
    BY <2>1, <2>2, <2>3, <2>4
  <2>6. t \in [1 .. n -> Block]
    BY ONLY <2>5
  <2>7. t \in Seq(Block) /\ Len(t) = n
    BY ONLY <2>6, n \in Nat
  <2>8. QED
    BY <2>3, <2>4, <2>7
<1>6. curr' \in 0 .. Len(chain')
  <2>1. CASE chain = <<>>
    BY <1>1, <1>2, <1>5, <2>1
  <2>2. CASE chain # <<>>
    <3>1. Len(chain) # 0
      BY <1>1, <2>2
    <3>2. QED
      BY <1>1, <1>2, <1>5, <2>2, <3>1
  <2>3. QED
    BY <2>1, <2>2
<1>7. ArenaType' /\ ChainDistinct'
  <2>1. ChainDistinct'
    BY <1>4 DEF ArenaInv, ChainDistinct
  <2>2. blockSize' \in Nat /\ totalAllocated' \in Nat /\ handed' \subseteq Ranges
    BY <1>2 DEF ArenaInv, ArenaType
  <2>3. QED
    BY <1>5, <1>6, <2>1, <2>2 DEF ArenaType
<1>8. UsedSound'
  <2>1. 0 % Alignment = 0
    OBVIOUS
  <2>2. \A i \in DOMAIN chain' : chain'[i].size \in Nat
    BY <1>4 DEF Block
  <2>3. QED
    BY <1>4, <2>1, <2>2 DEF UsedSound
<1>9. HandedSound' /\ HandedApart'
  BY <1>2 DEF HandedSound, HandedApart
<1>10. TotalSound' /\ FreedBlocks' = FreedBlocks
  BY <1>2, <1>4, <1>7, RoomKept DEF ArenaInv
<1>11. QED
  BY <1>7, <1>8, <1>9, <1>10 DEF ArenaInv

\* The arena keeps its invariant, and its blocks are what it has of the heap.
LEMMA ArenaKeeps ==
  ASSUME ArenaInv, HeapInv, ArenaNext
  PROVE  /\ ArenaInv'
         /\ \/ live' = live /\ FreedBlocks' = FreedBlocks
            \/ /\ Answered \in Addresses \ live /\ live' = live \cup {Answered}
               /\ FreedBlocks' = FreedBlocks \cup {Answered}
            \/ live' = live \ FreedBlocks /\ FreedBlocks' = {}
<1> DEFINE Goal == \/ live' = live /\ FreedBlocks' = FreedBlocks
                   \/ /\ Answered \in Addresses \ live /\ live' = live \cup {Answered}
                      /\ FreedBlocks' = FreedBlocks \cup {Answered}
                   \/ live' = live \ FreedBlocks /\ FreedBlocks' = {}
<1>1. ASSUME NEW size \in Sizes, ArenaAllocHere(size) PROVE ArenaInv' /\ Goal
  <2>1. ArenaInv' /\ FreedBlocks' = FreedBlocks
    BY <1>1, AllocHereKeeps
  <2>2. live' = live
    BY <1>1 DEF ArenaAllocHere
  <2>3. QED
    BY <2>1, <2>2
<1>2. ASSUME NEW size \in Sizes, ArenaAllocNew(size) PROVE ArenaInv' /\ Goal
  <2>1. /\ ArenaInv' /\ FreedBlocks' = FreedBlocks \cup {Answered}
        /\ Answered \in Addresses \ live
    BY <1>2, AllocNewKeeps
  <2>2. live' = live \cup {Answered}
    BY <1>2 DEF ArenaAllocNew, Malloc
  <2>3. QED
    BY <2>1, <2>2
<1>3. ASSUME ArenaReset PROVE ArenaInv' /\ Goal
  <2>1. live' = live
    BY <1>3 DEF ArenaReset
  <2>2. QED
    BY <1>3, <2>1, ResetKeeps
<1>4. ASSUME chain' = <<>>, curr' = 0, totalAllocated' = 0, handed' = {}, blockSize' \in Nat
      PROVE  ArenaInv' /\ FreedBlocks' = {}
  <2>1. (chain = <<>> /\ curr = 0 /\ totalAllocated = 0 /\ handed = {} /\ blockSize \in Nat
           => ArenaInv /\ FreedBlocks = {})'
    BY NoBlocks, PTL
  <2>2. QED
    BY <1>4, <2>1
<1>5. ASSUME FreeArena PROVE ArenaInv' /\ Goal
  <2>1. live' = live \ FreedBlocks
    BY <1>5 DEF FreeArena, Free
  <2>2. ArenaInv' /\ FreedBlocks' = {}
    BY <1>4, <1>5 DEF FreeArena, ArenaInv, ArenaType
  <2>3. QED
    BY <2>1, <2>2
<1>6. ASSUME NEW size \in BlockSizes, InitArena(size) PROVE ArenaInv' /\ Goal
  <2>1. ArenaInv' /\ FreedBlocks' = {}
    BY <1>4, <1>6 DEF InitArena
  <2>2. live' = live /\ FreedBlocks = {}
    BY <1>6 DEF InitArena, FreedBlocks
  <2>3. QED
    BY <2>1, <2>2
<1> HIDE DEF Goal
<1>7. ArenaInv' /\ Goal
  BY <1>1, <1>2, <1>3, <1>5, <1>6 DEF ArenaNext, ArenaAlloc
<1>8. QED
  BY <1>7 DEF Goal

-------------------------------------------------------------------------------
(* Characters in memory.                                                      *)

\* The first bytes of a text are the same with a NUL behind it.
LEMMA TextMemory ==
  ASSUME NEW text \in Texts, NEW n \in 0 .. Len(text), NEW m, m = Append(text, NUL)
  PROVE  /\ m \in Seq(Letters \cup {NUL}) /\ n + 1 <= Len(m) /\ n \in Nat
         /\ \A i \in 1 .. n : m[i] \in Letters
         /\ SubSeq(m, 1, n) = SubSeq(text, 1, n)
<1>1. text \in Seq(Letters)
  BY StringsAssumption DEF Letters
<1>2. text \in Seq(Letters \cup {NUL}) /\ NUL \in Letters \cup {NUL}
  BY <1>1
<1>3. /\ m \in Seq(Letters \cup {NUL}) /\ Len(m) = Len(text) + 1
      /\ \A i \in 1 .. Len(text) : m[i] = text[i]
  BY <1>2, AppendAt
<1>4. Len(text) \in Nat /\ n \in Nat /\ n <= Len(text) /\ DOMAIN text = 1 .. Len(text)
  BY <1>1
<1>5. \A i \in 1 .. n : m[i] = text[i] /\ m[i] \in Letters
  BY <1>1, <1>3, <1>4
<1>6. SubSeq(m, 1, n) = SubSeq(text, 1, n)
  <2>1. SubSeq(m, 1, n) = [i \in 1 .. n |-> m[i]]
    BY <1>3, <1>4
  <2>2. SubSeq(text, 1, n) = [i \in 1 .. n |-> text[i]]
    BY <1>1, <1>4
  <2>3. QED
    BY <1>5, <2>1, <2>2
<1>7. QED
  BY <1>3, <1>4, <1>5, <1>6

\* A duplicate has the characters, and memory behind them.
LEMMA DupMemoryFacts ==
  ASSUME NEW m \in Seq(Letters \cup {NUL}), NEW n \in Nat, n + 1 <= Len(m),
         \A i \in 1 .. n : m[i] \in Letters, NEW d, d = DupMemory(m, n)
  PROVE  /\ d \in Seq(Letters \cup {NUL}) /\ Len(d) = n + 1
         /\ \A i \in 1 .. n : d[i] \in Letters
         /\ SubSeq(d, 1, n) = SubSeq(m, 1, n)
<1>1. NUL \notin Letters
  BY StringsAssumption DEF Letters
<1>2. d = [i \in 1 .. n + 1 |-> IF \E j \in 1 .. i : m[j] = NUL THEN NUL ELSE m[i]]
  BY DEF DupMemory
<1>3. \A i \in 1 .. n + 1 : m[i] \in Letters \cup {NUL}
  OBVIOUS
<1>4. \A i \in 1 .. n + 1 : d[i] \in Letters \cup {NUL}
  BY <1>2, <1>3
<1>5. \A i \in 1 .. n : d[i] = m[i]
  <2> TAKE i \in 1 .. n
  <2>1. i \in 1 .. n + 1 /\ \A j \in 1 .. i : j \in 1 .. n
    OBVIOUS
  <2>2. ~ \E j \in 1 .. i : m[j] = NUL
    BY <1>1, <2>1
  <2>3. QED
    BY <1>2, <2>1, <2>2
<1>6. d \in Seq(Letters \cup {NUL}) /\ Len(d) = n + 1
  <2>1. d \in [1 .. n + 1 -> Letters \cup {NUL}]
    BY <1>2, <1>4
  <2>2. QED
    BY <2>1
<1>7. SubSeq(d, 1, n) = SubSeq(m, 1, n)
  <2>1. SubSeq(d, 1, n) = [i \in 1 .. n |-> d[i]]
    BY <1>6
  <2>2. SubSeq(m, 1, n) = [i \in 1 .. n |-> m[i]]
    OBVIOUS
  <2>3. QED
    BY <1>5, <2>1, <2>2
<1>8. QED
  BY <1>5, <1>6, <1>7

\* Characters on the heap are told by their address.
LEMMA CharsFacts ==
  ASSUME NEW c \in Chars
  PROVE  /\ c # NULL
         /\ c.where = "heap" => c.at \in Addresses /\ c = [where |-> "heap", at |-> c.at]
         /\ c.where # "heap" => c.text \in Texts
<1>1. c # NULL
  BY StringsAssumption
<1>2. CASE c \in [where : {"heap"}, at : Addresses]
  BY <1>1, <1>2
<1>3. CASE c \in [where : {"static"}, text : Texts]
  BY <1>1, <1>3
<1>4. QED
  BY <1>2, <1>3 DEF Chars

\* Memory is a sequence of bytes.
LEMMA MemoryTyped ==
  ASSUME StringsType, NEW c \in Chars
  PROVE  Memory(c) \in Seq(Letters \cup {NUL})
<1>1. CASE c.where = "heap"
  BY <1>1, CharsFacts DEF Memory, StringsType
<1>2. CASE c.where # "heap"
  <2>1. c.text \in Texts
    BY <1>2, CharsFacts
  <2>2. c.text \in Seq(Letters)
    BY <2>1, StringsAssumption DEF Letters
  <2>3. Append(c.text, NUL) \in Seq(Letters \cup {NUL})
    BY <2>2
  <2>4. QED
    BY <1>2, <2>3 DEF Memory
<1>3. QED
  BY <1>1, <1>2

\* The hash of the beginning of a text is a hash.
LEMMA HashesFacts ==
  /\ 0 \in Hashes
  /\ \A text \in Texts : \A n \in 0 .. Len(text) : Hash(SubSeq(text, 1, n)) \in Hashes
  BY DEF Hashes

\* A PiString is a record, and no NULL.
LEMMA PiStringFacts ==
  ASSUME NEW v \in PiString
  PROVE  /\ v # NULL /\ v.chars \in Chars \cup {NULL} /\ v.count \in Nat /\ v.clear \in BOOLEAN
         /\ v.hash \in Hashes
<1>1. v # NULL
  BY StringsAssumption
<1>2. QED
  BY <1>1 DEF PiString

-------------------------------------------------------------------------------
(* The steps of the strings.                                                  *)

\* One PiString changes, and the memory of the others does not.
LEMMA BecomesSound ==
  ASSUME StringsInv, NEW s \in Names, NEW v \in PiString \cup {NULL}, Becomes(s, v),
         bytes' \in [Addresses -> Seq(Letters \cup {NUL})],
         \A x \in Names \ {s} : HasChars(x) /\ str[x].chars.where = "heap"
           => bytes'[str[x].chars.at] = bytes[str[x].chars.at],
         v # NULL /\ v.chars # NULL => SoundIn(v, Memory(v.chars)')
  PROVE  StringsInv' /\ str'[s] = v /\ \A x \in Names \ {s} : str'[x] = str[x]
<1>1. str \in [Names -> PiString \cup {NULL}] /\ str' = [str EXCEPT ![s] = v]
  BY DEF StringsInv, StringsType, Becomes
<1>2. /\ str' \in [Names -> PiString \cup {NULL}] /\ str'[s] = v
      /\ \A x \in Names \ {s} : str'[x] = str[x]
  BY <1>1
<1>3. ASSUME NEW x \in Names, HasChars(x)' PROVE StringSound(x)'
  <2>1. CASE x = s
    <3>1. SoundIn(v, Memory(v.chars)')
      BY <1>2, <1>3, <2>1 DEF HasChars
    <3>2. Memory(str[s].chars)' = Memory(v.chars)'
      BY <1>2 DEF Memory
    <3>3. SoundIn(str[s], Memory(str[s].chars))' <=> SoundIn(v, Memory(v.chars)')
      BY <1>2, <3>2 DEF SoundIn
    <3>4. QED
      BY <2>1, <3>1, <3>3 DEF StringSound
  <2>2. CASE x # s
    <3>1. HasChars(x) /\ str'[x] = str[x]
      BY <1>2, <1>3, <2>2 DEF HasChars
    <3>2. SoundIn(str[x], Memory(str[x].chars))
      BY <3>1 DEF StringsInv, StringSound
    <3>3. Memory(str[x].chars)' = Memory(str[x].chars)
      BY <2>2, <3>1 DEF Memory
    <3>4. SoundIn(str[x], Memory(str[x].chars))' <=> SoundIn(str[x], Memory(str[x].chars))
      BY <3>1, <3>3 DEF SoundIn
    <3>5. QED
      BY <3>2, <3>4 DEF StringSound
  <2>3. QED
    BY <2>1, <2>2
<1>4. QED
  BY <1>2, <1>3 DEF StringsInv, StringsType

Owner(v) == v # NULL /\ v.chars # NULL /\ v.clear

\* A string that owns its characters has them in a block of the heap.
LEMMA OwnerFacts ==
  ASSUME StringsInv, NEW x \in Names, Owner(str[x])
  PROVE  /\ HasChars(x) /\ str[x] \in PiString /\ str[x].chars \in Chars
         /\ str[x].chars.at \in Addresses \cap Owned
         /\ str[x].chars = [where |-> "heap", at |-> str[x].chars.at]
<1>1. HasChars(x) /\ str[x] \in PiString /\ str[x].chars \in Chars
  BY PiStringFacts DEF StringsInv, StringsType, HasChars, Owner
<1>2. str[x].chars.where = "heap"
  BY <1>1 DEF StringsInv, StringSound, SoundIn, Owner
<1>3. str[x].chars.at \in Owned
  BY <1>1 DEF Owned, Owner
<1>4. QED
  BY <1>1, <1>2, <1>3, CharsFacts

\* What is owned after one PiString has changed.
LEMMA OwnedAfter ==
  ASSUME NEW s \in Names, NEW v, str'[s] = v, \A x \in Names \ {s} : str'[x] = str[x]
  PROVE  Owned' = {str[x].chars.at : x \in {y \in Names \ {s} : Owner(str[y])}}
                  \cup (IF Owner(v) THEN {v.chars.at} ELSE {})
<1>1. ASSUME NEW a \in Owned'
      PROVE  \/ a \in {str[x].chars.at : x \in {y \in Names \ {s} : Owner(str[y])}}
             \/ Owner(v) /\ a = v.chars.at
  <2>1. PICK x \in Names : HasChars(x)' /\ str'[x].clear /\ a = str'[x].chars.at
    BY <1>1 DEF Owned
  <2>2. CASE x = s
    BY <2>1, <2>2 DEF HasChars, Owner
  <2>3. CASE x # s
    BY <2>1, <2>3 DEF HasChars, Owner
  <2>4. QED
    BY <2>2, <2>3
<1>2. ASSUME NEW x \in Names \ {s}, Owner(str[x]) PROVE str[x].chars.at \in Owned'
  BY <1>2 DEF Owned, HasChars, Owner
<1>3. ASSUME Owner(v) PROVE v.chars.at \in Owned'
  BY <1>3 DEF Owned, HasChars, Owner
<1>4. QED
  BY <1>1, <1>2, <1>3

\* What the others own when one is left out.
LEMMA OwnedWithout ==
  ASSUME NEW s \in Names
  PROVE  Owned = {str[x].chars.at : x \in {y \in Names \ {s} : Owner(str[y])}}
                 \cup (IF Owner(str[s]) THEN {str[s].chars.at} ELSE {})
<1>1. ASSUME NEW a \in Owned
      PROVE  \/ a \in {str[x].chars.at : x \in {y \in Names \ {s} : Owner(str[y])}}
             \/ Owner(str[s]) /\ a = str[s].chars.at
  <2>1. PICK x \in Names : HasChars(x) /\ str[x].clear /\ a = str[x].chars.at
    BY <1>1 DEF Owned
  <2>2. QED
    BY <2>1 DEF HasChars, Owner
<1>2. ASSUME NEW x \in Names, Owner(str[x]) PROVE str[x].chars.at \in Owned
  BY <1>2 DEF Owned, HasChars, Owner
<1>3. QED
  BY <1>1, <1>2

\* A string that owns nothing becomes one that owns nothing.
LEMMA OwnedKept ==
  ASSUME NEW s \in Names, NEW v, str'[s] = v, \A x \in Names \ {s} : str'[x] = str[x],
         ~ Owner(str[s]), ~ Owner(v)
  PROVE  Owned' = Owned
  BY OwnedAfter, OwnedWithout

\* A string that owns nothing gets characters of its own.
LEMMA OwnedMore ==
  ASSUME NEW s \in Names, NEW v, str'[s] = v, \A x \in Names \ {s} : str'[x] = str[x],
         ~ Owner(str[s]), Owner(v)
  PROVE  Owned' = Owned \cup {v.chars.at}
  BY OwnedAfter, OwnedWithout

\* What a step of the strings does to the heap: nothing, one block more, one less.
HeapStep ==
  \/ live' = live /\ Owned' = Owned
  \/ /\ Answered \in Addresses \ live /\ live' = live \cup {Answered}
     /\ Owned' = Owned \cup {Answered}
  \/ \E a \in Owned : live' = live \ {a} /\ Owned' = Owned \ {a}

\* A name that is not in use owns nothing.
LEMMA FreeName ==
  ASSUME NEW s \in Names, str[s] = NULL
  PROVE  ~ Owner(str[s]) /\ ~ HasChars(s)
  BY DEF Owner, HasChars

\* Characters of one's own, in a block nobody has.
LEMMA NewCharacters ==
  ASSUME StringsInv, HeapInv, NEW s \in Names, str[s] = NULL, Malloc,
         NEW m \in Seq(Letters \cup {NUL}), bytes' = [bytes EXCEPT ![Answered] = m],
         NEW v \in PiString, v.chars = [where |-> "heap", at |-> Answered], v.clear,
         Becomes(s, v), SoundIn(v, m)
  PROVE  StringsInv' /\ HeapStep
<1>1. PICK a : a = Answered
  OBVIOUS
<1>2. a \in Addresses /\ a \notin live /\ live' = live \cup {a}
  BY <1>1, AnsweredFacts DEF HeapInv, Malloc
<1>3. bytes \in [Addresses -> Seq(Letters \cup {NUL})] /\ bytes' = [bytes EXCEPT ![a] = m]
  BY <1>1 DEF StringsInv, StringsType
<1>4. bytes' \in [Addresses -> Seq(Letters \cup {NUL})] /\ bytes'[a] = m
      /\ \A b \in Addresses \ {a} : bytes'[b] = bytes[b]
  BY <1>2, <1>3
<1>5. \A x \in Names \ {s} : HasChars(x) /\ str[x].chars.where = "heap"
           => bytes'[str[x].chars.at] = bytes[str[x].chars.at]
  <2> SUFFICES ASSUME NEW x \in Names, HasChars(x), str[x].chars.where = "heap"
               PROVE  bytes'[str[x].chars.at] = bytes[str[x].chars.at]
    OBVIOUS
  <2>1. Owner(str[x])
    BY DEF StringsInv, StringSound, SoundIn, Owner, HasChars
  <2>2. str[x].chars.at \in Addresses \cap Owned
    BY <2>1, OwnerFacts
  <2>3. str[x].chars.at # a
    BY <1>2, <2>2 DEF HeapInv
  <2>4. QED
    BY <1>4, <2>2, <2>3
<1>6. v.chars.where = "heap" /\ v.chars.at = a /\ v # NULL /\ v.chars # NULL
  <2>1. v.chars = [where |-> "heap", at |-> a]
    BY <1>1
  <2>2. v # NULL /\ v.chars \in Chars
    BY <1>2, <2>1, PiStringFacts DEF Chars
  <2>3. QED
    BY <2>1, <2>2, CharsFacts
<1>7. Memory(v.chars)' = m
  BY <1>4, <1>6 DEF Memory
<1>8. SoundIn(v, Memory(v.chars)')
  BY <1>7
<1>9. StringsInv' /\ str'[s] = v /\ \A x \in Names \ {s} : str'[x] = str[x]
  BY <1>4, <1>5, <1>8, BecomesSound
<1>10. ~ Owner(str[s]) /\ Owner(v)
  BY <1>6, FreeName DEF Owner
<1>11. Owned' = Owned \cup {a}
  BY <1>6, <1>9, <1>10, OwnedMore
<1>12. QED
  BY <1>1, <1>2, <1>9, <1>11 DEF HeapStep

\* A PiString that owns nothing becomes one that owns nothing, and the heap stays.
LEMMA NoCharacters ==
  ASSUME StringsInv, NEW s \in Names, ~ Owner(str[s]), UNCHANGED <<live, bytes>>,
         NEW v \in PiString \cup {NULL}, ~ Owner(v), Becomes(s, v),
         v # NULL /\ v.chars # NULL => SoundIn(v, Memory(v.chars))
  PROVE  StringsInv' /\ HeapStep
<1>1. Memory(v.chars)' = Memory(v.chars)
  BY DEF Memory
<1>2. bytes' \in [Addresses -> Seq(Letters \cup {NUL})]
  BY DEF StringsInv, StringsType
<1>3. StringsInv' /\ str'[s] = v /\ \A x \in Names \ {s} : str'[x] = str[x]
  BY <1>1, <1>2, BecomesSound
<1>4. Owned' = Owned
  BY <1>3, OwnedKept
<1>5. QED
  BY <1>3, <1>4 DEF HeapStep

\* Borrowed characters.
LEMMA InitStringKeeps ==
  ASSUME StringsInv, NEW s \in Names, NEW text \in Texts, NEW n \in 0 .. Len(text),
         InitStringWithLength(s, text, n)
  PROVE  StringsInv' /\ HeapStep
<1>1. PICK c : c = [where |-> "static", text |-> text]
  OBVIOUS
<1>2. c \in Chars /\ c.where = "static" /\ c.text = text
  BY <1>1 DEF Chars
<1>3. PICK v : v = [chars |-> c, count |-> n, clear |-> FALSE, hash |-> Hash(SubSeq(text, 1, n))]
  OBVIOUS
<1>4. v \in PiString /\ v.chars = c /\ v.count = n /\ v.clear = FALSE
      /\ v.hash = Hash(SubSeq(text, 1, n))
  <2>1. n \in Nat /\ Hash(SubSeq(text, 1, n)) \in Hashes
    BY TextMemory, HashesFacts
  <2>2. QED
    BY <1>2, <1>3, <2>1 DEF PiString
<1>5. PICK m : m = Append(text, NUL)
  OBVIOUS
<1>6. Memory(v.chars) = m
  BY <1>2, <1>4, <1>5 DEF Memory
<1>7. SoundIn(v, m)
  <2>1. n + 1 <= Len(m) /\ (\A i \in 1 .. n : m[i] \in Letters)
        /\ SubSeq(m, 1, n) = SubSeq(text, 1, n)
    BY <1>5, TextMemory
  <2>2. QED
    BY <1>2, <1>4, <2>1 DEF SoundIn
<1>8. Becomes(s, v) /\ str[s] = NULL /\ UNCHANGED <<live, bytes>>
  BY <1>1, <1>3 DEF InitStringWithLength
<1>9. ~ Owner(v) /\ ~ Owner(str[s])
  BY <1>4, <1>8, FreeName DEF Owner
<1>10. QED
  BY <1>4, <1>6, <1>7, <1>8, <1>9, NoCharacters

\* Characters handed over.
LEMMA InitOwnedKeeps ==
  ASSUME StringsInv, HeapInv, NEW s \in Names, NEW text \in Texts, NEW n \in 0 .. Len(text),
         InitOwnedStringWithLength(s, text, n)
  PROVE  StringsInv' /\ HeapStep
<1>1. PICK a : a = Answered
  OBVIOUS
<1>2. a \in Addresses
  BY <1>1, AnsweredFacts DEF HeapInv, InitOwnedStringWithLength, Malloc
<1>3. PICK c : c = [where |-> "heap", at |-> a]
  OBVIOUS
<1>4. c \in Chars /\ c.where = "heap"
  BY <1>2, <1>3 DEF Chars
<1>5. PICK v : v = [chars |-> c, count |-> n, clear |-> TRUE, hash |-> Hash(SubSeq(text, 1, n))]
  OBVIOUS
<1>6. v \in PiString /\ v.chars = c /\ v.count = n /\ v.clear = TRUE
      /\ v.hash = Hash(SubSeq(text, 1, n))
  <2>1. n \in Nat /\ Hash(SubSeq(text, 1, n)) \in Hashes
    BY TextMemory, HashesFacts
  <2>2. QED
    BY <1>4, <1>5, <2>1 DEF PiString
<1>7. PICK m : m = Append(text, NUL)
  OBVIOUS
<1>8. m \in Seq(Letters \cup {NUL}) /\ SoundIn(v, m)
  <2>1. /\ m \in Seq(Letters \cup {NUL}) /\ n + 1 <= Len(m) /\ (\A i \in 1 .. n : m[i] \in Letters)
        /\ SubSeq(m, 1, n) = SubSeq(text, 1, n)
    BY <1>7, TextMemory
  <2>2. QED
    BY <1>4, <1>6, <2>1 DEF SoundIn
<1>9. /\ Becomes(s, v) /\ str[s] = NULL /\ Malloc /\ bytes' = [bytes EXCEPT ![Answered] = m]
      /\ v.chars = [where |-> "heap", at |-> Answered]
  BY <1>1, <1>3, <1>5, <1>6, <1>7 DEF InitOwnedStringWithLength
<1>10. QED
  BY <1>6, <1>8, <1>9, NewCharacters

\* A second name for the same characters.
LEMMA CopyKeeps ==
  ASSUME StringsInv, NEW s \in Names, NEW dest \in Names, StringCopyTo(dest, s)
  PROVE  StringsInv' /\ HeapStep
<1>1. PICK v : v = str[s]
  OBVIOUS
<1>2. /\ v \in PiString /\ Becomes(dest, v) /\ str[dest] = NULL /\ UNCHANGED <<live, bytes>>
  BY <1>1 DEF StringCopyTo, StringsInv, StringsType
<1>3. ~ Owner(str[dest])
  BY <1>2, FreeName
<1>4. v # NULL /\ v.chars # NULL => SoundIn(v, Memory(v.chars))
  BY <1>1 DEF StringsInv, StringSound, HasChars
<1>5. CASE ~ Owner(v)
  BY <1>2, <1>3, <1>4, <1>5, NoCharacters
<1>6. CASE Owner(v)
  <2>1. Memory(v.chars)' = Memory(v.chars)
    BY <1>2 DEF Memory
  <2>2. bytes' \in [Addresses -> Seq(Letters \cup {NUL})]
    BY <1>2 DEF StringsInv, StringsType
  <2>3. StringsInv' /\ str'[dest] = v /\ \A x \in Names \ {dest} : str'[x] = str[x]
    BY <1>2, <1>4, <2>1, <2>2, BecomesSound
  <2>4. Owned' = Owned \cup {v.chars.at}
    BY <1>3, <1>6, <2>3, OwnedMore
  <2>5. v.chars.at \in Owned
    BY <1>1, <1>6, OwnerFacts
  <2>6. Owned' = Owned
    BY <2>4, <2>5
  <2>7. QED
    BY <1>2, <2>3, <2>6 DEF HeapStep
<1>7. QED
  BY <1>5, <1>6

\* The same characters in a block of their own.
LEMMA DupKeeps ==
  ASSUME StringsInv, HeapInv, NEW s \in Names, NEW dest \in Names, StringDupTo(dest, s)
  PROVE  StringsInv' /\ HeapStep
<1>1. PICK w : w = str[s]
  OBVIOUS
<1>2. w \in PiString /\ w # NULL /\ str[dest] = NULL
  BY <1>1 DEF StringDupTo, StringsInv, StringsType
<1>3. ~ Owner(str[dest])
  BY <1>2, FreeName
<1>4. w = [chars |-> w.chars, count |-> w.count, clear |-> w.clear, hash |-> w.hash]
  BY <1>2 DEF PiString
<1>5. CASE HasChars(s)
  <2>1. w.chars # NULL /\ w.chars \in Chars /\ w.count \in Nat /\ w.hash \in Hashes
    BY <1>1, <1>2, <1>5, PiStringFacts DEF HasChars
  <2>2. PICK m : m = Memory(w.chars)
    OBVIOUS
  <2>3. m \in Seq(Letters \cup {NUL}) /\ SoundIn(w, m)
    BY <1>1, <1>5, <2>1, <2>2, MemoryTyped DEF StringsInv, StringSound
  <2>4. PICK n \in Nat : n = w.count
    BY <2>1
  <2>5. PICK d : d = DupMemory(m, n)
    OBVIOUS
  <2>6. /\ d \in Seq(Letters \cup {NUL}) /\ Len(d) = n + 1
        /\ (\A i \in 1 .. n : d[i] \in Letters) /\ SubSeq(d, 1, n) = SubSeq(m, 1, n)
    BY <2>3, <2>4, <2>5, DupMemoryFacts DEF SoundIn
  <2>7. PICK a : a = Answered
    OBVIOUS
  <2>8. a \in Addresses /\ Malloc
    BY <1>5, <2>7, AnsweredFacts DEF HeapInv, StringDupTo, Malloc
  <2>9. PICK c : c = [where |-> "heap", at |-> a]
    OBVIOUS
  <2>10. c \in Chars /\ c.where = "heap"
    BY <2>8, <2>9 DEF Chars
  <2>11. PICK v : v = [w EXCEPT !.clear = TRUE, !.chars = c]
    OBVIOUS
  <2>12. v \in PiString /\ v.chars = c /\ v.clear = TRUE /\ v.count = n /\ v.hash = w.hash
    BY <1>2, <1>4, <2>1, <2>4, <2>10, <2>11 DEF PiString
  <2>13. SoundIn(v, d)
    <3>1. w.hash = Hash(SubSeq(m, 1, n))
      BY <2>3, <2>4 DEF SoundIn
    <3>2. PICK t : t = SubSeq(m, 1, n)
      OBVIOUS
    <3>3. v.hash = Hash(t) /\ SubSeq(d, 1, n) = t
      BY <2>6, <2>12, <3>1, <3>2
    <3>4. v.hash = Hash(SubSeq(d, 1, v.count))
      BY ONLY <2>12, <3>3
    <3>5. v.count + 1 <= Len(d) /\ \A i \in 1 .. v.count : d[i] \in Letters
      BY <2>6, <2>12
    <3>6. v.clear <=> v.chars.where = "heap"
      BY <2>10, <2>12
    <3>7. QED
      BY ONLY <3>4, <3>5, <3>6 DEF SoundIn
  <2>14. /\ bytes' = [bytes EXCEPT ![Answered] = d] /\ Becomes(dest, v)
         /\ v.chars = [where |-> "heap", at |-> Answered]
    BY <1>1, <1>5, <2>2, <2>4, <2>5, <2>7, <2>9, <2>11, <2>12 DEF StringDupTo, DupFlag
  <2>15. QED
    BY <1>2, <2>6, <2>8, <2>12, <2>13, <2>14, NewCharacters
<1>6. CASE ~ HasChars(s)
  <2>1. w.chars = NULL
    BY <1>1, <1>2, <1>6 DEF HasChars
  <2>2. PICK v : v = [w EXCEPT !.clear = TRUE]
    OBVIOUS
  <2>3. v \in PiString /\ v.chars = NULL
    BY <1>2, <2>1, <2>2 DEF PiString
  <2>4. Becomes(dest, v) /\ UNCHANGED <<live, bytes>>
    BY <1>1, <1>6, <2>2 DEF StringDupTo, DupFlag
  <2>5. ~ Owner(v)
    BY <2>3 DEF Owner
  <2>6. QED
    BY <1>3, <2>3, <2>4, <2>5, NoCharacters
<1>7. QED
  BY <1>5, <1>6

\* The blank PiString.
LEMMA BlankFacts == Blank \in PiString /\ Blank.chars = NULL /\ ~ Owner(Blank)
  BY HashesFacts DEF Blank, PiString, Owner

\* The last name of a block frees it.
LEMMA FreeKeeps ==
  ASSUME StringsInv, NEW s \in Names, FreeString(s)
  PROVE  StringsInv' /\ HeapStep
<1>1. PICK v : v = Blank
  OBVIOUS
<1>2. v \in PiString /\ v.chars = NULL /\ ~ Owner(v) /\ Becomes(s, v)
  BY <1>1, BlankFacts DEF FreeString
<1>3. CASE ~ Owner(str[s])
  <2>1. UNCHANGED <<live, bytes>>
    BY <1>3 DEF FreeString, HasChars, Owner
  <2>2. QED
    BY <1>2, <1>3, <2>1, NoCharacters
<1>4. CASE Owner(str[s])
  <2>1. PICK a : a = str[s].chars.at
    OBVIOUS
  <2>2. a \in Addresses /\ a \in Owned /\ HasChars(s) /\ str[s].chars = [where |-> "heap", at |-> a]
    BY <1>4, <2>1, OwnerFacts
  <2>3. /\ Sharing(s) = {s} /\ live' = live \ {a} /\ bytes' = [bytes EXCEPT ![a] = <<>>]
    BY <1>4, <2>1, <2>2 DEF FreeString, Free, Owner
  <2>4. \A x \in Names \ {s} : Owner(str[x]) => str[x].chars.at # a
    <3> SUFFICES ASSUME NEW x \in Names \ {s}, Owner(str[x]), str[x].chars.at = a PROVE FALSE
      OBVIOUS
    <3>1. str[x].chars = [where |-> "heap", at |-> str[x].chars.at] /\ HasChars(x)
      BY OwnerFacts
    <3>2. str[x].chars = str[s].chars
      BY <2>2, <3>1
    <3>3. x \in Sharing(s)
      BY <3>1, <3>2 DEF Sharing, Owner
    <3>4. QED
      BY <2>3, <3>3
  <2>5. bytes' \in [Addresses -> Seq(Letters \cup {NUL})]
        /\ \A b \in Addresses \ {a} : bytes'[b] = bytes[b]
    <3>1. bytes \in [Addresses -> Seq(Letters \cup {NUL})]
      BY DEF StringsInv, StringsType
    <3>2. <<>> \in Seq(Letters \cup {NUL})
      OBVIOUS
    <3>3. QED
      BY <2>3, <3>1, <3>2
  <2>6. \A x \in Names \ {s} : HasChars(x) /\ str[x].chars.where = "heap"
           => bytes'[str[x].chars.at] = bytes[str[x].chars.at]
    <3> SUFFICES ASSUME NEW x \in Names \ {s}, HasChars(x), str[x].chars.where = "heap"
                 PROVE  bytes'[str[x].chars.at] = bytes[str[x].chars.at]
      OBVIOUS
    <3>1. Owner(str[x])
      BY DEF StringsInv, StringSound, SoundIn, Owner, HasChars
    <3>2. str[x].chars.at \in Addresses
      BY <3>1, OwnerFacts
    <3>3. QED
      BY <2>4, <2>5, <3>1, <3>2
  <2>7. StringsInv' /\ str'[s] = v /\ \A x \in Names \ {s} : str'[x] = str[x]
    BY <1>2, <2>5, <2>6, BecomesSound
  <2>8. PICK R : R = {str[x].chars.at : x \in {y \in Names \ {s} : Owner(str[y])}}
    OBVIOUS
  <2>9. Owned' = R /\ Owned = R \cup {a}
    BY <1>2, <1>4, <2>1, <2>7, <2>8, OwnedAfter, OwnedWithout
  <2>10. a \notin R
    BY <2>4, <2>8
  <2>11. Owned' = Owned \ {a}
    BY <2>9, <2>10
  <2>12. QED
    BY <2>2, <2>3, <2>7, <2>11 DEF HeapStep
<1>5. QED
  BY <1>3, <1>4

\* A name goes, of what is not owned or has another owner.
LEMMA ForgetKeeps ==
  ASSUME StringsInv, NEW s \in Names, Forget(s)
  PROVE  StringsInv' /\ HeapStep
<1>1. PICK v : v = NULL
  OBVIOUS
<1>2. v \in PiString \cup {NULL} /\ ~ Owner(v) /\ Becomes(s, v) /\ UNCHANGED <<live, bytes>>
  BY <1>1 DEF Forget, Owner
<1>3. CASE ~ Owner(str[s])
  BY <1>1, <1>2, <1>3, NoCharacters
<1>4. CASE Owner(str[s])
  <2>1. PICK a : a = str[s].chars.at
    OBVIOUS
  <2>2. HasChars(s) /\ s \in Sharing(s)
    BY <1>4, OwnerFacts DEF Sharing, Owner
  <2>3. Sharing(s) # {s}
    BY <1>4, <2>2 DEF Forget, Owner
  <2>4. PICK x \in Sharing(s) : x # s
    BY <2>2, <2>3
  <2>5. x \in Names \ {s} /\ Owner(str[x]) /\ str[x].chars.at = a
    BY <2>1, <2>4 DEF Sharing, Owner, HasChars
  <2>6. bytes' \in [Addresses -> Seq(Letters \cup {NUL})]
    BY <1>2 DEF StringsInv, StringsType
  <2>7. StringsInv' /\ str'[s] = v /\ \A y \in Names \ {s} : str'[y] = str[y]
    BY <1>1, <1>2, <2>6, BecomesSound
  <2>8. PICK R : R = {str[y].chars.at : y \in {z \in Names \ {s} : Owner(str[z])}}
    OBVIOUS
  <2>9. Owned' = R /\ Owned = R \cup {a}
    BY <1>2, <1>4, <2>1, <2>7, <2>8, OwnedAfter, OwnedWithout
  <2>10. a \in R
    BY <2>5, <2>8
  <2>11. QED
    BY <1>2, <2>7, <2>9, <2>10 DEF HeapStep
<1>5. QED
  BY <1>3, <1>4

\* The strings keep their invariant, and change the heap by what they own.
LEMMA StringsKeep ==
  ASSUME StringsInv, HeapInv, StringsNext
  PROVE  StringsInv' /\ HeapStep
<1>1. \A text \in Texts : Len(text) \in 0 .. Len(text)
  <2>1. \A text \in Texts : text \in Seq(Letters)
    BY StringsAssumption DEF Letters
  <2>2. QED
    BY <2>1
<1>2. ASSUME NEW s \in Names, NEW text \in Texts, InitString(s, text) \/ InitOwnedString(s, text)
      PROVE  StringsInv' /\ HeapStep
  BY <1>1, <1>2, InitStringKeeps, InitOwnedKeeps DEF InitString, InitOwnedString
<1>3. QED
  BY <1>2, InitStringKeeps, InitOwnedKeeps, CopyKeeps, DupKeeps, FreeKeeps, ForgetKeeps
     DEF StringsNext

-------------------------------------------------------------------------------
(* The system.                                                                *)

\* Nothing of the arena's own state changes.
LEMMA ArenaIdle ==
  ASSUME ArenaInv, UNCHANGED arenaVars
  PROVE  ArenaInv' /\ FreedBlocks' = FreedBlocks
<1>1. /\ blockSize' = blockSize /\ totalAllocated' = totalAllocated /\ chain' = chain
      /\ curr' = curr /\ handed' = handed
  BY DEF arenaVars
<1>2. /\ ArenaType' /\ ChainDistinct' /\ UsedSound'
      /\ Tame' => HandedSound' /\ HandedApart'
  BY <1>1 DEF ArenaInv, ArenaType, ChainDistinct, UsedSound, Tame, HandedSound, HandedApart, RangeSound
<1>3. TotalSound' /\ FreedBlocks' = FreedBlocks
  BY <1>1, <1>2, RoomKept DEF ArenaInv
<1>4. QED
  BY <1>2, <1>3 DEF ArenaInv

\* Nothing of the strings' own state changes.
LEMMA StringsIdle ==
  ASSUME StringsInv, UNCHANGED stringVars
  PROVE  StringsInv' /\ Owned' = Owned
<1>1. str' = str /\ bytes' = bytes
  BY DEF stringVars
<1>2. StringsInv'
  BY <1>1 DEF StringsInv, StringsType, StringSound, SoundIn, Memory, HasChars
<1>3. QED
  BY <1>1, <1>2 DEF Owned, HasChars

\* A step of the arena, which takes and returns blocks of its own.
LEMMA ArenaStepKeeps ==
  ASSUME IInv, ArenaNext, UNCHANGED stringVars
  PROVE  IInv'
<1> USE DEF IInv
<1>1. StringsInv' /\ Owned' = Owned
  BY StringsIdle
<1>2. /\ ArenaInv'
      /\ \/ live' = live /\ FreedBlocks' = FreedBlocks
         \/ /\ Answered \in Addresses \ live /\ live' = live \cup {Answered}
            /\ FreedBlocks' = FreedBlocks \cup {Answered}
         \/ live' = live \ FreedBlocks /\ FreedBlocks' = {}
  BY ArenaKeeps
<1>3. HeapInv'
  BY <1>1, <1>2 DEF HeapInv
<1>4. QED
  BY <1>1, <1>2, <1>3

\* A step of the strings, which takes and returns blocks of theirs.
LEMMA StringsStepKeeps ==
  ASSUME IInv, StringsNext, UNCHANGED arenaVars
  PROVE  IInv'
<1> USE DEF IInv
<1>1. ArenaInv' /\ FreedBlocks' = FreedBlocks
  BY ArenaIdle
<1>2. StringsInv' /\ HeapStep
  BY StringsKeep
<1>3. HeapInv'
  BY <1>1, <1>2 DEF HeapInv, HeapStep
<1>4. QED
  BY <1>1, <1>2, <1>3

\* A step that leaves both alone.
LEMMA IdleKeeps ==
  ASSUME IInv, UNCHANGED <<live, arenaVars, stringVars>>
  PROVE  IInv'
<1>1. live' = live /\ UNCHANGED arenaVars /\ UNCHANGED stringVars
  OBVIOUS
<1>2. ArenaInv' /\ FreedBlocks' = FreedBlocks /\ StringsInv' /\ Owned' = Owned
  BY <1>1, ArenaIdle, StringsIdle DEF IInv
<1>3. QED
  BY <1>1, <1>2 DEF IInv, HeapInv

\* The initial states satisfy the invariant.
LEMMA InitIInv == Init => IInv
<1> SUFFICES ASSUME Init PROVE IInv
  OBVIOUS
<1>1. ArenaInv /\ FreedBlocks = {}
  BY NoBlocks DEF Init, ArenaInit
<1>2. \A s \in Names : str[s] = NULL
  BY DEF Init, StringsInit
<1>3. StringsType
  <2>1. <<>> \in Seq(Letters \cup {NUL})
    OBVIOUS
  <2>2. QED
    BY <2>1 DEF Init, StringsInit, StringsType
<1>4. StringsInv /\ Owned = {}
  BY <1>2, <1>3 DEF StringsInv, Owned, HasChars
<1>5. QED
  BY <1>1, <1>4 DEF IInv, HeapInv, Init

\* Every step keeps the invariant.
LEMMA NextIInv == IInv /\ [Next]_vars => IInv'
<1> SUFFICES ASSUME IInv, [Next]_vars PROVE IInv'
  OBVIOUS
<1>1. CASE ArenaNext /\ UNCHANGED stringVars
  BY <1>1, ArenaStepKeeps
<1>2. CASE StringsNext /\ UNCHANGED arenaVars
  BY <1>2, StringsStepKeeps
<1>3. CASE UNCHANGED <<live, arenaVars, stringVars>>
  BY <1>3, IdleKeeps
<1>4. QED
  BY <1>1, <1>2, <1>3 DEF Next, vars

\* The invariant holds always: it is what the theorems below follow from.
THEOREM SpecIInv == Spec => []IInv
  BY InitIInv, NextIInv, PTL DEF Spec

\* What the arena hands out is aligned, inside its blocks and never shared, and its
\* total is the room it has.
THEOREM ArenaSoundHolds == Spec => []ArenaSound
<1>1. IInv => ArenaSound
  BY ArenaInvSound DEF IInv
<1>2. QED
  BY <1>1, SpecIInv, PTL

\* Every live block has one owner: the arena, or strings that share it.
THEOREM HeapIsOwnedHolds == Spec => []HeapIsOwned
<1>1. IInv => HeapIsOwned
  BY ChainLength DEF IInv, ArenaInv, HeapInv, HeapIsOwned
<1>2. QED
  BY <1>1, SpecIInv, PTL

-------------------------------------------------------------------------------
(* Comparison.                                                                *)

\* Sequences of the same length and the same elements are the same.
LEMMA SameSeq ==
  ASSUME NEW x \in Seq(Int), NEW y \in Seq(Int)
  PROVE  x = y <=> Len(x) = Len(y) /\ \A i \in 1 .. Len(x) : x[i] = y[i]
<1>1. x = [i \in 1 .. Len(x) |-> x[i]] /\ y = [i \in 1 .. Len(y) |-> y[i]]
  OBVIOUS
<1>2. ASSUME Len(x) = Len(y), \A i \in 1 .. Len(x) : x[i] = y[i] PROVE x = y
  <2>1. [i \in 1 .. Len(x) |-> x[i]] = [i \in 1 .. Len(y) |-> y[i]]
    BY ONLY <1>2
  <2>2. QED
    BY ONLY <1>1, <2>1
<1>3. QED
  BY <1>2

Differ(x, y) == {i \in 1 .. Min({Len(x), Len(y)}) : x[i] # y[i]}

\* Where two sequences differ does not depend on which comes first, and is somewhere
\* unless they are the same or not of one length.
LEMMA DifferFacts ==
  ASSUME NEW x \in Seq(Int), NEW y \in Seq(Int)
  PROVE  /\ Differ(x, y) = Differ(y, x)
         /\ Differ(x, y) # {} =>
              LET m == Min(Differ(x, y))
              IN  x[m] \in Int /\ y[m] \in Int /\ x[m] # y[m]
         /\ x = y <=> Differ(x, y) = {} /\ Len(x) = Len(y)
<1>1. Len(x) \in Nat /\ Len(y) \in Nat
  OBVIOUS
<1>2. PICK k : k = Min({Len(x), Len(y)})
  OBVIOUS
<1>3. k = IF Len(x) <= Len(y) THEN Len(x) ELSE Len(y)
  BY <1>1, <1>2 DEF Min
<1>4. k = Min({Len(y), Len(x)})
  <2>1. {Len(y), Len(x)} = {Len(x), Len(y)}
    OBVIOUS
  <2>2. QED
    BY <1>2, <2>1
<1>5. k \in Nat /\ k <= Len(x) /\ k <= Len(y) /\ (Len(x) = Len(y) => k = Len(x))
  BY <1>1, <1>3
<1>6. Differ(x, y) = {i \in 1 .. k : x[i] # y[i]} /\ Differ(y, x) = {i \in 1 .. k : y[i] # x[i]}
  BY <1>2, <1>4 DEF Differ
<1>7. Differ(x, y) = Differ(y, x)
  BY <1>6
<1>8. ASSUME Differ(x, y) # {}
      PROVE  LET m == Min(Differ(x, y)) IN x[m] \in Int /\ y[m] \in Int /\ x[m] # y[m]
  <2>1. PICK D : D = Differ(x, y)
    OBVIOUS
  <2>2. D \subseteq Nat /\ D # {}
    BY <1>5, <1>6, <1>8, <2>1
  <2>3. PICK m \in D : \A j \in D : m <= j
    BY <2>2, LeastNatural
  <2>4. Min(D) \in D
    BY <2>3 DEF Min
  <2>5. \A i \in 1 .. k : x[i] \in Int /\ y[i] \in Int
    BY <1>1, <1>5
  <2>6. QED
    BY <1>6, <2>1, <2>4, <2>5
<1>9. x = y <=> Differ(x, y) = {} /\ Len(x) = Len(y)
  <2>1. Differ(x, y) = {} <=> \A i \in 1 .. k : x[i] = y[i]
    BY <1>6
  <2>2. QED
    BY <1>5, <2>1, SameSeq
<1>10. QED
  BY <1>7, <1>8, <1>9

\* The order of texts is antisymmetric, and finds equal what is.
LEMMA CompareFacts ==
  ASSUME NEW x \in Seq(Int), NEW y \in Seq(Int)
  PROVE  /\ CompareBytes(x, y) = 0 <=> x = y
         /\ CompareBytes(x, y) = -CompareBytes(y, x)
<1> DEFINE D == Differ(x, y)
           m == Min(D)
<1>1. /\ CompareBytes(x, y) = IF D # {} THEN Sign(x[m] - y[m]) ELSE Sign(Len(x) - Len(y))
      /\ CompareBytes(y, x) = IF D # {} THEN Sign(y[m] - x[m]) ELSE Sign(Len(y) - Len(x))
  <2>1. /\ CompareBytes(x, y) = IF Differ(x, y) # {} THEN Sign(x[Min(Differ(x, y))] - y[Min(Differ(x, y))])
                                ELSE Sign(Len(x) - Len(y))
        /\ CompareBytes(y, x) = IF Differ(y, x) # {} THEN Sign(y[Min(Differ(y, x))] - x[Min(Differ(y, x))])
                                ELSE Sign(Len(y) - Len(x))
    BY DEF CompareBytes, Differ
  <2>2. Differ(y, x) = D
    BY DifferFacts
  <2> HIDE DEF D
  <2>3. Differ(x, y) = D
    BY DEF D
  <2>4. QED
    BY <2>1, <2>2, <2>3
<1>2. ASSUME NEW i \in Int, NEW j \in Int
      PROVE  (Sign(i - j) = 0 <=> i = j) /\ Sign(i - j) = -Sign(j - i)
  BY DEF Sign
<1>3. /\ D # {} => x[m] \in Int /\ y[m] \in Int /\ x[m] # y[m]
      /\ x = y <=> D = {} /\ Len(x) = Len(y)
  BY DifferFacts
<1>4. Len(x) \in Int /\ Len(y) \in Int
  OBVIOUS
<1> HIDE DEF D, m
<1> DEFINE Goal == (CompareBytes(x, y) = 0 <=> x = y) /\ CompareBytes(x, y) = -CompareBytes(y, x)
<1>5. ASSUME D # {} PROVE Goal
  <2>1. PICK i \in Int : i = x[m]
    BY <1>3, <1>5
  <2>2. PICK j \in Int : j = y[m]
    BY <1>3, <1>5
  <2>3. CompareBytes(x, y) = Sign(i - j) /\ CompareBytes(y, x) = Sign(j - i) /\ i # j /\ x # y
    BY <1>1, <1>3, <1>5, <2>1, <2>2
  <2>4. (Sign(i - j) = 0 <=> i = j) /\ Sign(i - j) = -Sign(j - i)
    BY <1>2
  <2>5. QED
    BY ONLY <2>3, <2>4
<1>6. ASSUME D = {} PROVE Goal
  <2>1. PICK i \in Int : i = Len(x)
    BY <1>4
  <2>2. PICK j \in Int : j = Len(y)
    BY <1>4
  <2>3. CompareBytes(x, y) = Sign(i - j) /\ CompareBytes(y, x) = Sign(j - i) /\ (x = y <=> i = j)
    BY <1>1, <1>3, <1>6, <2>1, <2>2
  <2>4. (Sign(i - j) = 0 <=> i = j) /\ Sign(i - j) = -Sign(j - i)
    BY <1>2
  <2>5. QED
    BY ONLY <2>3, <2>4
<1> HIDE DEF Goal
<1>7. Goal
  BY <1>5, <1>6
<1>8. QED
  BY <1>7 DEF Goal

\* The characters of a string, and their hash.
LEMMA ContentFacts ==
  ASSUME StringsInv, NEW s \in Names, HasChars(s)
  PROVE  /\ Content(s) \in Seq(Letters) /\ Len(Content(s)) = str[s].count
         /\ str[s].count \in Nat /\ str[s].hash = Hash(Content(s))
<1>1. str[s] \in PiString /\ str[s].chars \in Chars /\ str[s].count \in Nat
  BY PiStringFacts DEF StringsInv, StringsType, HasChars
<1>2. PICK n \in Nat : n = str[s].count
  BY <1>1
<1>3. PICK m : m = Memory(str[s].chars)
  OBVIOUS
<1>4. m \in Seq(Letters \cup {NUL})
  BY <1>1, <1>3, MemoryTyped DEF StringsInv
<1>5. n + 1 <= Len(m) /\ (\A i \in 1 .. n : m[i] \in Letters) /\ Content(s) = SubSeq(m, 1, n)
      /\ str[s].hash = Hash(SubSeq(m, 1, n))
  BY <1>2, <1>3 DEF StringsInv, StringSound, SoundIn, Content
<1>6. SubSeq(m, 1, n) \in Seq(Letters) /\ Len(SubSeq(m, 1, n)) = n
  <2>1. SubSeq(m, 1, n) = [i \in 1 .. n |-> m[i]]
    BY <1>4, <1>5
  <2>2. [i \in 1 .. n |-> m[i]] \in [1 .. n -> Letters]
    BY <1>5
  <2>3. QED
    BY <2>1, <2>2
<1>7. QED
  BY <1>2, <1>5, <1>6

\* Lowering keeps the length.
LEMMA LoweredFacts ==
  ASSUME NEW x \in Seq(Letters)
  PROVE  /\ x \in Seq(Int) /\ Lowered(x) \in Seq(Int) /\ Len(Lowered(x)) = Len(x)
         /\ \A i \in 1 .. Len(x) : Lowered(x)[i] = ToLower[x[i]]
<1>1. Letters \subseteq Int /\ \A c \in Letters : ToLower[c] \in Int
  BY StringsAssumption DEF Letters
<1>2. DOMAIN x = 1 .. Len(x) /\ \A i \in 1 .. Len(x) : x[i] \in Letters
  OBVIOUS
<1>3. x \in Seq(Int)
  <2>1. x \in [1 .. Len(x) -> Letters] /\ Len(x) \in Nat
    OBVIOUS
  <2>2. x \in [1 .. Len(x) -> Int]
    BY <1>1, <2>1
  <2>3. QED
    BY <2>1, <2>2
<1>4. Lowered(x) = [i \in 1 .. Len(x) |-> ToLower[x[i]]]
  BY <1>2 DEF Lowered
<1>5. Lowered(x) \in [1 .. Len(x) -> Int]
  BY <1>1, <1>2, <1>4
<1>6. Len(x) \in Nat
  OBVIOUS
<1>7. QED
  BY <1>3, <1>4, <1>5, <1>6

\* The invariant makes the comparisons agree.
LEMMA StringsAgree == StringsInv => ComparisonsAgree
<1> SUFFICES ASSUME StringsInv, NEW a \in Names, NEW b \in Names, HasChars(a), HasChars(b)
             PROVE  /\ StringEquals(a, b) <=> Content(a) = Content(b)
                    /\ StringEquals(a, b) <=> StringCompare(a, b) = 0
                    /\ StringEqualsIgnoreCase(a, b) <=> StringCompareIgnoreCase(a, b) = 0
                    /\ StringCompare(a, b) = -StringCompare(b, a)
  BY DEF ComparisonsAgree
<1>1. PICK x : x = Content(a)
  OBVIOUS
<1>2. PICK y : y = Content(b)
  OBVIOUS
<1>3. /\ x \in Seq(Letters) /\ Len(x) = str[a].count /\ str[a].hash = Hash(x)
      /\ y \in Seq(Letters) /\ Len(y) = str[b].count /\ str[b].hash = Hash(y)
  BY <1>1, <1>2, ContentFacts
<1>4. x \in Seq(Int) /\ y \in Seq(Int) /\ Lowered(x) \in Seq(Int) /\ Lowered(y) \in Seq(Int)
  BY <1>3, LoweredFacts
<1>5. StringEquals(a, b) <=> x = y
  <2>1. StringEquals(a, b) <=> /\ str[a].hash = str[b].hash /\ str[a].count = str[b].count
                               /\ \A i \in DOMAIN x : x[i] = y[i]
    BY <1>1, <1>2 DEF StringEquals, SameBytes
  <2>2. DOMAIN x = 1 .. Len(x)
    BY <1>4
  <2>3. x = y <=> Len(x) = Len(y) /\ \A i \in 1 .. Len(x) : x[i] = y[i]
    BY <1>4, SameSeq
  <2>4. x = y => str[a].hash = str[b].hash
    BY <1>3
  <2>5. QED
    BY <1>3, <2>1, <2>2, <2>3, <2>4
<1>6. /\ StringCompare(a, b) = 0 <=> x = y
      /\ StringCompare(a, b) = -StringCompare(b, a)
  BY <1>1, <1>2, <1>4, CompareFacts DEF StringCompare
<1>7. StringEqualsIgnoreCase(a, b) <=> Lowered(x) = Lowered(y)
  <2>1. StringEqualsIgnoreCase(a, b) <=>
          str[a].count = str[b].count /\ \A i \in 1 .. Len(x) : ToLower[x[i]] = ToLower[y[i]]
    BY <1>1, <1>2, <1>3 DEF StringEqualsIgnoreCase
  <2>2. PICK v : v = Lowered(x)
    OBVIOUS
  <2>3. PICK w : w = Lowered(y)
    OBVIOUS
  <2>4. /\ v \in Seq(Int) /\ w \in Seq(Int) /\ Len(v) = Len(x) /\ Len(w) = Len(y)
        /\ \A i \in 1 .. Len(x) : v[i] = ToLower[x[i]]
        /\ \A i \in 1 .. Len(y) : w[i] = ToLower[y[i]]
    BY <1>3, <2>2, <2>3, LoweredFacts
  <2>5. v = w <=> Len(v) = Len(w) /\ \A i \in 1 .. Len(v) : v[i] = w[i]
    BY <2>4, SameSeq
  <2>6. v = w <=> Len(x) = Len(y) /\ \A i \in 1 .. Len(x) : ToLower[x[i]] = ToLower[y[i]]
    <3>1. ASSUME Len(x) = Len(y)
          PROVE  v = w <=> \A i \in 1 .. Len(x) : ToLower[x[i]] = ToLower[y[i]]
      <4>1. \A i \in 1 .. Len(x) : v[i] = ToLower[x[i]] /\ w[i] = ToLower[y[i]]
        BY <2>4, <3>1
      <4>2. v = w <=> \A i \in 1 .. Len(x) : v[i] = w[i]
        BY <2>4, <2>5, <3>1
      <4>3. QED
        BY ONLY <4>1, <4>2
    <3>2. Len(x) # Len(y) => v # w
      BY <2>4
    <3>3. QED
      BY ONLY <3>1, <3>2
  <2>7. QED
    BY ONLY <1>3, <2>1, <2>2, <2>3, <2>6
<1>8. StringCompareIgnoreCase(a, b) = 0 <=> Lowered(x) = Lowered(y)
  BY <1>1, <1>2, <1>4, CompareFacts DEF StringCompareIgnoreCase
<1>9. QED
  BY <1>1, <1>2, <1>5, <1>6, <1>7, <1>8

\* However strings came to be, the tests and the orders of their characters agree.
THEOREM ComparisonsAgreeHolds == Spec => []ComparisonsAgree
<1>1. IInv => ComparisonsAgree
  BY StringsAgree DEF IInv
<1>2. QED
  BY <1>1, SpecIInv, PTL

-------------------------------------------------------------------------------
(* Values.                                                                    *)

\* A number below a modulus is its own rest; one below zero wraps once.
LEMMA Wraps ==
  ASSUME NEW n \in Nat \ {0}, NEW a \in Int
  PROVE  /\ 0 <= a /\ a < n => a % n = a
         /\ a < 0 /\ -n <= a => a % n = a + n
<1>1. a = n * (a \div n) + (a % n) /\ a \div n \in Int /\ a % n \in 0 .. n - 1
  OBVIOUS
<1>2. PICK q \in Int : q = a \div n
  BY <1>1
<1>3. PICK r \in 0 .. n - 1 : r = a % n
  BY <1>1
<1>4. a = n * q + r
  BY <1>1, <1>2, <1>3
<1>5. q >= 1 => n * q >= n
  OBVIOUS
<1>6. q <= -1 => n * q <= -n
  OBVIOUS
<1>7. q <= -2 => n * q <= -n - n
  OBVIOUS
<1>8. n * 0 = 0 /\ n * (-1) = -n
  OBVIOUS
<1>9. ASSUME 0 <= a, a < n PROVE r = a
  <2>1. q = 0
    BY <1>4, <1>5, <1>6, <1>9
  <2>2. QED
    BY <1>4, <1>8, <2>1
<1>10. ASSUME a < 0, -n <= a PROVE r = a + n
  <2>1. q = -1
    <3>1. ~ (q >= 1)
      BY <1>4, <1>5, <1>10
    <3>2. q # 0
      BY <1>4, <1>8, <1>10
    <3>3. ~ (q <= -2)
      BY <1>4, <1>7, <1>10
    <3>4. QED
      BY <3>1, <3>2, <3>3
  <2>2. QED
    BY <1>4, <1>8, <2>1
<1>11. QED
  BY <1>3, <1>9, <1>10

Number == {"BOOL", "CHAR", "UINT", "SINT", "REAL"}

\* What the bits of a value may be, by its type.
LEMMA ScalarFacts ==
  ASSUME NEW v \in Scalars
  PROVE  /\ v.type \in Number \cup {"NONE"}
         /\ v = [type |-> v.type, bits |-> v.bits]
         /\ v.type = "NONE" => v = NoValue /\ v.bits = 0
         /\ v.type = "BOOL" => v.bits \in {0, 1}
         /\ v.type = "CHAR" => v.bits \in 0 .. CharModulus - 1
         /\ v.type \in {"UINT", "SINT"} => v.bits \in 0 .. Modulus - 1
         /\ v.type = "REAL" => v.bits \in Halves \cup {MinusZero, NaN}
  BY DEF Scalars, NoValue, Number

\* The moduli as numbers.
LEMMA Moduli ==
  /\ CharModulus \in Nat \ {0} /\ Modulus \in Nat \ {0} /\ LongModulus \in Nat \ {0}
  /\ CharModulus < Modulus /\ 2 * Modulus <= LongModulus
  BY ValuesAssumption

\* Reading bits with a sign tells them apart, and moves them by the modulus at most.
LEMMA SignedFacts ==
  ASSUME NEW m \in Nat \ {0}, m % 2 = 0, NEW n \in 0 .. m - 1
  PROVE  /\ Signed(n, m) \in Int /\ 2 * Signed(n, m) < m /\ -m <= 2 * Signed(n, m)
         /\ Signed(n, m) >= 0 => Signed(n, m) = n
         /\ Signed(n, m) < 0 => Signed(n, m) = n - m
<1>1. PICK h \in Nat : h = m \div 2 /\ m = 2 * h
  OBVIOUS
<1>2. Signed(n, m) = IF n >= h THEN n - m ELSE n
  BY <1>1 DEF Signed
<1>3. QED
  BY <1>1, <1>2

\* The whole number a value stands for.
WholeOf(v) ==
  IF v.type = "CHAR" THEN Signed(v.bits, CharModulus)
  ELSE IF v.type = "SINT" THEN Signed(v.bits, Modulus) ELSE v.bits

\* Twice a whole number, and that number again.
LEMMA WholeFacts ==
  ASSUME NEW v \in Scalars, v.type \in {"NONE", "BOOL", "CHAR", "UINT", "SINT"}
  PROVE  /\ WholeOf(v) \in Int /\ Twice(v) = 2 * WholeOf(v) /\ Whole(v) = WholeOf(v)
         /\ v.type \in {"NONE", "BOOL", "UINT"} => WholeOf(v) = v.bits /\ v.bits \in Nat
         /\ v.type = "UINT" => v.bits < Modulus
         /\ v.type \in {"CHAR", "SINT"} =>
              /\ 2 * WholeOf(v) < Modulus /\ -Modulus <= 2 * WholeOf(v)
              /\ v.bits \in Nat
         /\ v.type = "CHAR" =>
              /\ v.bits < CharModulus
              /\ 2 * WholeOf(v) < CharModulus
              /\ WholeOf(v) >= 0 => WholeOf(v) = v.bits
              /\ WholeOf(v) < 0 => WholeOf(v) = v.bits - CharModulus
         /\ v.type = "SINT" =>
              /\ v.bits < Modulus
              /\ WholeOf(v) >= 0 => WholeOf(v) = v.bits
              /\ WholeOf(v) < 0 => WholeOf(v) = v.bits - Modulus
<1>1. CharModulus % 2 = 0 /\ Modulus % 2 = 0
  BY ValuesAssumption
<1>2. PICK n : n = WholeOf(v)
  OBVIOUS
<1>3. n \in Int /\ Twice(v) = 2 * n
  <2>1. CASE v.type = "CHAR"
    BY <1>1, <1>2, <2>1, ScalarFacts, Moduli, SignedFacts DEF WholeOf, Twice
  <2>2. CASE v.type = "SINT"
    BY <1>1, <1>2, <2>2, ScalarFacts, Moduli, SignedFacts DEF WholeOf, Twice
  <2>3. CASE v.type \in {"NONE", "BOOL", "UINT"}
    <3>1. v.bits \in Int
      BY <2>3, ScalarFacts, Moduli
    <3>2. QED
      BY <1>2, <2>3, <3>1 DEF WholeOf, Twice
  <2>4. QED
    BY <2>1, <2>2, <2>3
<1>4. Whole(v) = n
  <2>1. CASE n < 0
    <3>1. 2 * n < 0 /\ -(2 * n) = 2 * (-n) /\ (2 * (-n)) \div 2 = -n
      BY <1>3, <2>1
    <3>2. QED
      BY <1>3, <3>1 DEF Whole
  <2>2. CASE ~ (n < 0)
    <3>1. ~ (2 * n < 0) /\ (2 * n) \div 2 = n
      BY <1>3, <2>2
    <3>2. QED
      BY <1>3, <3>1 DEF Whole
  <2>3. QED
    BY <2>1, <2>2
<1>5. v.type = "CHAR" =>
        /\ v.bits < CharModulus /\ v.bits \in Nat
        /\ 2 * n < CharModulus /\ -CharModulus <= 2 * n
        /\ n >= 0 => n = v.bits
        /\ n < 0 => n = v.bits - CharModulus
  BY <1>1, <1>2, ScalarFacts, Moduli, SignedFacts DEF WholeOf
<1>6. v.type = "SINT" =>
        /\ v.bits < Modulus /\ v.bits \in Nat
        /\ 2 * n < Modulus /\ -Modulus <= 2 * n
        /\ n >= 0 => n = v.bits
        /\ n < 0 => n = v.bits - Modulus
  BY <1>1, <1>2, ScalarFacts, Moduli, SignedFacts DEF WholeOf
<1>7. v.type \in {"NONE", "BOOL", "UINT"} => n = v.bits /\ v.bits \in Nat
  BY <1>2, ScalarFacts, Moduli DEF WholeOf
<1>8. v.type = "UINT" => v.bits < Modulus
  BY ScalarFacts, Moduli
<1>9. v.type \in {"CHAR", "SINT"} => 2 * n < Modulus /\ -Modulus <= 2 * n /\ v.bits \in Nat
  BY <1>3, <1>5, <1>6, Moduli
<1>10. QED
  BY <1>2, <1>3, <1>4, <1>5, <1>6, <1>7, <1>8, <1>9

\* A real other than NaN is its own half count, or the zero with a sign.
LEMMA RealFacts ==
  ASSUME NEW v \in Scalars, v.type = "REAL", ~ IsNaN(v)
  PROVE  /\ Twice(v) \in Int
         /\ v.bits # MinusZero => Twice(v) = v.bits
  BY ScalarFacts, ValuesAssumption DEF IsNaN, Twice

\* Every value stands for a number.
LEMMA TwiceInt ==
  ASSUME NEW v \in Scalars, ~ IsNaN(v)
  PROVE  Twice(v) \in Int
<1>1. CASE v.type = "REAL"
  BY <1>1, RealFacts
<1>2. CASE v.type # "REAL"
  <2>1. v.type \in {"NONE", "BOOL", "CHAR", "UINT", "SINT"}
    BY <1>2, ScalarFacts DEF Number
  <2>2. QED
    BY <2>1, WholeFacts
<1>3. QED
  BY <1>1, <1>2

\* The order of values that are some is that of their numbers.
LEMMA ConvertedFacts ==
  ASSUME NEW l \in Scalars, NEW r \in Scalars, ~ IsNaN(l), ~ IsNaN(r), ~ SignLost(l, r)
  PROVE  Converted(l, r) = <<Twice(l), Twice(r)>>
<1>1. CASE l.type = "UINT" /\ r.type \in {"CHAR", "SINT"}
  <2>1. PICK n \in Int : n = WholeOf(r)
    BY <1>1, WholeFacts
  <2>2. Twice(r) = 2 * n /\ 2 * n < Modulus
    BY <1>1, <2>1, WholeFacts
  <2>3. 0 <= 2 * n
    BY <1>1, <2>1, <2>2 DEF SignLost
  <2>4. 2 * LongModulus \in Nat \ {0} /\ 2 * n < 2 * LongModulus
    BY <2>1, <2>2, Moduli
  <2>5. (2 * n) % (2 * LongModulus) = 2 * n
    BY <2>1, <2>3, <2>4, Wraps
  <2>6. Converted(l, r) = <<Twice(l), Twice(r) % (2 * LongModulus)>>
    BY <1>1 DEF Converted
  <2>7. QED
    BY <2>2, <2>5, <2>6
<1>2. CASE l.type = "CHAR" /\ r.type = "UINT"
  <2>1. PICK n \in Int : n = WholeOf(l)
    BY <1>2, WholeFacts
  <2>2. Twice(l) = 2 * n /\ 2 * n < Modulus
    BY <1>2, <2>1, WholeFacts
  <2>3. 0 <= 2 * n
    BY <1>2, <2>1, <2>2 DEF SignLost
  <2>4. 2 * Modulus \in Nat \ {0} /\ 2 * n < 2 * Modulus
    BY <2>1, <2>2, Moduli
  <2>5. (2 * n) % (2 * Modulus) = 2 * n
    BY <2>1, <2>3, <2>4, Wraps
  <2>6. Converted(l, r) = <<Twice(l) % (2 * Modulus), Twice(r)>>
    BY <1>2 DEF Converted
  <2>7. QED
    BY <2>2, <2>5, <2>6
<1>3. CASE ~ (l.type = "UINT" /\ r.type \in {"CHAR", "SINT"}) /\ ~ (l.type = "CHAR" /\ r.type = "UINT")
  BY <1>3 DEF Converted
<1>4. QED
  BY <1>1, <1>2, <1>3

\* False comes first with a negative answer, true second with a positive one.
LEMMA FirstIs == First = -1 /\ Second = 1
<1>1. /\ Converted(Bool(0), Bool(1))[1] = 0 /\ Converted(Bool(0), Bool(1))[2] = 2
      /\ Converted(Bool(1), Bool(0))[1] = 2 /\ Converted(Bool(1), Bool(0))[2] = 0
  BY DEF Converted, Twice, Bool
<1>2. /\ ValueCompareTo(Bool(0), Bool(1)) = CompareBits(0, 2)
      /\ ValueCompareTo(Bool(1), Bool(0)) = CompareBits(2, 0)
  <2>1. \A b : Bool(b).type = "BOOL"
    BY DEF Bool
  <2>2. QED
    BY <1>1, <2>1 DEF ValueCompareTo, IsNaN
<1>3. CompareBits(0, 2) = -1 /\ CompareBits(2, 0) = 1
  BY DEF CompareBits
<1>4. QED
  BY <1>2, <1>3 DEF First, Second

\* Two values that are some compare as their numbers do.
LEMMA ComparedFacts ==
  ASSUME NEW l \in Scalars, NEW r \in Scalars, ~ IsNaN(l), ~ IsNaN(r), ~ SignLost(l, r),
         l.type # "NONE", r.type # "NONE"
  PROVE  ValueCompareTo(l, r) = CompareBits(Twice(l), Twice(r))
<1>1. Converted(l, r)[1] = Twice(l) /\ Converted(l, r)[2] = Twice(r)
  BY ConvertedFacts
<1>2. QED
  BY <1>1 DEF ValueCompareTo

\* Any two values compare as their numbers do.
LEMMA OrderHolds ==
  ASSUME NEW l \in Scalars, NEW r, ~ OrderMissing(l, r),
         r \in Scalars \cup ObjectValues, ~ IsNaN(l), ~ IsNaN(r)
  PROVE  OrderIsNumeric(l, r)
<1> SUFFICES ASSUME ~ SignLost(l, r)
             PROVE  ValueCompareTo(l, r) = IF ComesBefore(l, r) THEN -1
                                           ELSE IF ComesBefore(r, l) THEN 1 ELSE 0
  BY FirstIs DEF OrderIsNumeric
<1>1. /\ l.type = "NONE" => l = NoValue
      /\ r.type = "NONE" <=> r = NoValue
  BY ScalarFacts DEF NoValue, ObjectValues
<1>2. CASE l.type = "NONE" \/ r.type = "NONE"
  BY <1>1, <1>2 DEF ComesBefore, ValueCompareTo
<1>3. CASE l.type # "NONE" /\ r.type # "NONE"
  <2>1. r \in Scalars
    BY <1>3 DEF OrderMissing, ObjectValues
  <2>2. PICK i \in Int : i = Twice(l)
    BY TwiceInt
  <2>3. PICK j \in Int : j = Twice(r)
    BY <2>1, TwiceInt
  <2>4. ValueCompareTo(l, r) = CompareBits(i, j)
    BY <1>3, <2>1, <2>2, <2>3, ComparedFacts
  <2>5. CompareBits(i, j) = IF i < j THEN -1 ELSE IF j < i THEN 1 ELSE 0
    BY DEF CompareBits
  <2>6. ComesBefore(l, r) = (i < j) /\ ComesBefore(r, l) = (j < i)
    BY <1>3, <2>2, <2>3 DEF ComesBefore
  <2>7. QED
    BY <2>4, <2>5, <2>6
<1>4. QED
  BY <1>2, <1>3

\* Equality of two values of one kind is that of their numbers.
LEMMA EqualsFacts ==
  ASSUME NEW l \in Scalars, NEW r \in Scalars, ~ IsNaN(l), ~ IsNaN(r), SameKind(l, r)
  PROVE  ValueEqualsTo(l, r) = {Twice(l) = Twice(r)}
<1>0. r.type # "OBJC" /\ ~ EqualityMissing(l, r)
  BY ScalarFacts DEF EqualityMissing, Number
<1>1. CASE l.type = "NONE"
  <2>1. r.type = "NONE"
    BY <1>1 DEF SameKind
  <2>2. l = NoValue /\ r = NoValue
    BY <1>1, <2>1, ScalarFacts
  <2>3. ValueEqualsTo(l, r) = {r = NoValue}
    BY <1>1 DEF ValueEqualsTo, EqualityMissing
  <2>4. QED
    BY <2>2, <2>3
<1>2. CASE l.type = "BOOL"
  <2>1. r.type = "BOOL"
    BY <1>2 DEF SameKind
  <2>2. l.bits \in {0, 1} /\ r.bits \in {0, 1}
    BY <1>2, <2>1, ScalarFacts
  <2>3. Twice(l) = 2 * l.bits /\ Twice(r) = 2 * r.bits
    BY <1>2, <2>1 DEF Twice
  <2>4. Truth(r) = (r.bits = 1)
    <3>1. Truth(r) = (Twice(r) # 0)
      BY <2>1 DEF Truth, IsNaN
    <3>2. (Twice(r) # 0) = (r.bits = 1)
      BY <2>2, <2>3
    <3>3. QED
      BY <3>1, <3>2
  <2>5. ValueEqualsTo(l, r) = {(l.bits = 1) = Truth(r)}
    BY <1>2 DEF ValueEqualsTo, BoolEqualsTo, EqualityMissing
  <2>6. ((l.bits = 1) = (r.bits = 1)) = (Twice(l) = Twice(r))
    BY <2>2, <2>3
  <2>7. QED
    BY <2>4, <2>5, <2>6
<1>3. CASE l.type = "CHAR"
  <2>1. r.type = "CHAR"
    BY <1>3 DEF SameKind
  <2>2. l.bits \in Nat /\ l.bits < CharModulus /\ r.bits \in Nat /\ r.bits < CharModulus
    BY <1>3, <2>1, WholeFacts
  <2>3. r.bits % CharModulus = r.bits
    BY <2>2, Moduli, Wraps
  <2>4. ValueEqualsTo(l, r) = {l.bits = r.bits}
    BY <1>0, <1>3, <2>1, <2>3 DEF ValueEqualsTo, CharEqualsTo
  <2>5. (l.bits = r.bits) = (Twice(l) = Twice(r))
    <3>1. l.bits = r.bits => Twice(l) = Twice(r)
      BY <1>3, <2>1 DEF Twice
    <3>2. PICK i \in Int : i = WholeOf(l)
      BY <1>3, WholeFacts
    <3>3. PICK j \in Int : j = WholeOf(r)
      BY <2>1, WholeFacts
    <3>4. /\ Twice(l) = 2 * i /\ (i >= 0 => i = l.bits) /\ (i < 0 => i = l.bits - CharModulus)
          /\ Twice(r) = 2 * j /\ (j >= 0 => j = r.bits) /\ (j < 0 => j = r.bits - CharModulus)
      BY <1>3, <2>1, <3>2, <3>3, WholeFacts
    <3>5. Twice(l) = Twice(r) => l.bits = r.bits
      BY <2>2, <3>4, Moduli
    <3>6. QED
      BY <3>1, <3>5
  <2>6. QED
    BY <2>4, <2>5
<1>4. CASE l.type = "UINT"
  <2>1. r.type \in {"UINT", "SINT"}
    BY <1>4 DEF SameKind
  <2>2. PICK j \in Int : j = WholeOf(r)
    BY <2>1, WholeFacts
  <2>3. PICK i \in Nat : i = l.bits
    BY <1>4, WholeFacts
  <2>4. Twice(l) = 2 * i /\ i < Modulus /\ Twice(r) = 2 * j /\ Whole(r) = j
    BY <1>4, <2>1, <2>2, <2>3, WholeFacts
  <2>5. j < Modulus /\ -Modulus <= 2 * j
    BY <2>1, <2>2, WholeFacts, Moduli
  <2>6. ValueEqualsTo(l, r) = {l.bits = j % LongModulus}
    <3>1. ValueEqualsTo(l, r) = UIntEqualsTo(l, r)
      BY <1>0, <1>4 DEF ValueEqualsTo
    <3>2. UIntEqualsTo(l, r) = {l.bits = Whole(r) % LongModulus}
      BY <2>1 DEF UIntEqualsTo, CastUndefined, IsNaN
    <3>3. QED
      BY <2>4, <3>1, <3>2
  <2>7. (i = j % LongModulus) = (i = j)
    <3>1. CASE 0 <= j
      <4>1. j % LongModulus = j
        BY <2>5, <3>1, Moduli, Wraps
      <4>2. QED
        BY <4>1
    <3>2. CASE j < 0
      <4>1. -LongModulus <= j
        BY <2>5, Moduli
      <4>2. j % LongModulus = j + LongModulus
        BY <3>2, <4>1, Moduli, Wraps
      <4>3. j + LongModulus >= Modulus
        BY <2>5, Moduli
      <4>4. i # j % LongModulus /\ i # j
        BY <2>4, <3>2, <4>2, <4>3, Moduli
      <4>5. QED
        BY <4>4
    <3>3. QED
      BY <3>1, <3>2
  <2>8. (i = j) = (Twice(l) = Twice(r))
    BY <2>4
  <2>9. ValueEqualsTo(l, r) = {i = j % LongModulus}
    BY <2>3, <2>6
  <2>10. QED
    BY ONLY <2>7, <2>8, <2>9
<1>5. CASE l.type = "SINT"
  <2>1. r.type \in {"UINT", "SINT"}
    BY <1>5 DEF SameKind
  <2>2. PICK i \in Int : i = WholeOf(l)
    BY <1>5, WholeFacts
  <2>3. PICK j \in Int : j = WholeOf(r)
    BY <2>1, WholeFacts
  <2>4. Twice(l) = 2 * i /\ Whole(l) = i /\ Twice(r) = 2 * j /\ Whole(r) = j
    BY <1>5, <2>1, <2>2, <2>3, WholeFacts
  <2>5. ValueEqualsTo(l, r) = {Whole(l) = Whole(r)}
    BY <1>0, <1>5, <2>1 DEF ValueEqualsTo, SIntEqualsTo, CastUndefined, IsNaN
  <2>6. (i = j) = (Twice(l) = Twice(r))
    BY <2>4
  <2>7. QED
    BY <2>4, <2>5, <2>6
<1>6. CASE l.type = "REAL"
  <2>1. r.type = "REAL"
    BY <1>6 DEF SameKind
  <2>2. ValueEqualsTo(l, r) = {r.type \notin {"NONE", "CHAR"} /\ ~IsNaN(l) /\ ~IsNaN(r) /\ Twice(l) = Twice(r)}
    BY <1>0, <1>6 DEF ValueEqualsTo, RealEqualsTo
  <2>3. QED
    BY <2>1, <2>2
<1>7. QED
  BY <1>1, <1>2, <1>3, <1>4, <1>5, <1>6, ScalarFacts DEF Number

\* Equality is that of the numbers, of the order and of the representation.
LEMMA EqualityHolds ==
  ASSUME NEW l \in Scalars, NEW r \in Scalars, ~ IsNaN(l), ~ IsNaN(r)
  PROVE  EqualityIsNumeric(l, r)
<1> SUFFICES ASSUME SameKind(l, r)
             PROVE  /\ ValueEqualsTo(l, r) = {Twice(l) = Twice(r)}
                    /\ ~SignLost(l, r) => ValueEqualsTo(l, r) = {ValueCompareTo(l, r) = 0}
                    /\ ValueStrictlyEqualsTo(l, r) => ValueEqualsTo(l, r) = {TRUE}
  BY DEF EqualityIsNumeric
<1>1. ValueEqualsTo(l, r) = {Twice(l) = Twice(r)}
  BY EqualsFacts
<1>2. ASSUME ~ SignLost(l, r) PROVE (ValueCompareTo(l, r) = 0) = (Twice(l) = Twice(r))
  <2>1. PICK i \in Int : i = Twice(l)
    BY TwiceInt
  <2>2. PICK j \in Int : j = Twice(r)
    BY TwiceInt
  <2>3. (CompareBits(i, j) = 0) = (i = j)
    BY DEF CompareBits
  <2>4. CASE l.type = "NONE" \/ r.type = "NONE"
    <3>1. l = NoValue /\ r = NoValue
      BY <2>4, ScalarFacts DEF SameKind
    <3>2. ValueCompareTo(l, r) = 0
      BY <3>1 DEF ValueCompareTo, NoValue
    <3>3. QED
      BY <3>1, <3>2
  <2>5. CASE ~ (l.type = "NONE" \/ r.type = "NONE")
    <3>1. ValueCompareTo(l, r) = CompareBits(Twice(l), Twice(r))
      BY <1>2, <2>5, ComparedFacts
    <3>2. ValueCompareTo(l, r) = CompareBits(i, j)
      BY <2>1, <2>2, <3>1
    <3>3. QED
      BY <2>1, <2>2, <2>3, <3>2
  <2>6. QED
    BY <2>4, <2>5
<1>3. ValueStrictlyEqualsTo(l, r) => ValueEqualsTo(l, r) = {TRUE}
  BY <1>1 DEF ValueStrictlyEqualsTo
<1>4. QED
  BY <1>1, <1>2, <1>3

\* Values of one kind that are equal hash alike, the two zeros of the reals apart.
LEMMA HashHolds ==
  ASSUME NEW l \in Scalars, NEW r \in Scalars, ~ IsNaN(l), ~ IsNaN(r)
  PROVE  EqualsHashAlike(l, r)
<1> SUFFICES ASSUME SameKind(l, r), TRUE \in ValueEqualsTo(l, r), MinusZero \notin {l.bits, r.bits}
             PROVE  ValueGetHashCode(l) = ValueGetHashCode(r)
  BY DEF EqualsHashAlike
<1>1. Twice(l) = Twice(r)
  <2>1. ValueEqualsTo(l, r) = {Twice(l) = Twice(r)}
    BY EqualsFacts
  <2>2. TRUE \in {Twice(l) = Twice(r)}
    BY <2>1
  <2>3. QED
    BY <2>2
<1>2. l = [type |-> l.type, bits |-> l.bits] /\ r = [type |-> r.type, bits |-> r.bits]
  BY ScalarFacts
<1>3. ASSUME l.type = r.type, l.bits = r.bits PROVE ValueGetHashCode(l) = ValueGetHashCode(r)
  BY <1>3 DEF ValueGetHashCode
<1>4. CASE l.type \in {"UINT", "SINT"}
  <2>1. r.type \in {"UINT", "SINT"}
    BY <1>4 DEF SameKind
  <2>2. PICK i \in Int : i = WholeOf(l)
    BY <1>4, WholeFacts
  <2>3. PICK j \in Int : j = WholeOf(r)
    BY <2>1, WholeFacts
  <2>4. i = j
    <3>1. Twice(l) = 2 * i /\ Twice(r) = 2 * j
      BY <1>4, <2>1, <2>2, <2>3, WholeFacts
    <3>2. 2 * i = 2 * j
      BY ONLY <1>1, <3>1
    <3>3. QED
      BY <3>2
  <2>5. CASE i >= 0
    <3>1. l.bits = i /\ r.bits = i
      BY <1>4, <2>1, <2>2, <2>3, <2>4, <2>5, WholeFacts
    <3>2. /\ l.type = "SINT" => Signed(l.bits, Modulus) = i
          /\ r.type = "SINT" => Signed(r.bits, Modulus) = i
      BY <2>2, <2>3, <2>4 DEF WholeOf
    <3>3. ValueGetHashCode(l) = l.bits
      BY <1>4, <2>5, <3>2 DEF ValueGetHashCode
    <3>4. ValueGetHashCode(r) = r.bits
      BY <2>1, <2>5, <3>2 DEF ValueGetHashCode
    <3>5. QED
      BY <3>1, <3>3, <3>4
  <2>6. CASE i < 0
    <3>1. l.type = "SINT" /\ r.type = "SINT"
      <4>1. l.type = "UINT" => i = l.bits /\ l.bits \in Nat
        BY <2>2, WholeFacts
      <4>2. r.type = "UINT" => j = r.bits /\ r.bits \in Nat
        BY <2>3, WholeFacts
      <4>3. l.type # "UINT" /\ r.type # "UINT"
        BY <2>4, <2>6, <4>1, <4>2
      <4>4. QED
        BY <1>4, <2>1, <4>3
    <3>2. l.bits \in Nat /\ r.bits \in Nat /\ i = l.bits - Modulus /\ i = r.bits - Modulus
      BY <2>2, <2>3, <2>4, <2>6, <3>1, WholeFacts
    <3>3. l.bits = r.bits
      BY <3>2, Moduli
    <3>4. QED
      BY <1>3, <3>1, <3>3
  <2>7. QED
    BY <2>5, <2>6
<1>5. CASE l.type \notin {"UINT", "SINT"}
  <2>1. l.type = r.type
    BY <1>5 DEF SameKind
  <2>2. CASE l.type = "REAL"
    <3>1. Twice(l) = l.bits /\ Twice(r) = r.bits
      BY <2>1, <2>2, RealFacts
    <3>2. QED
      BY <1>1, <1>3, <2>1, <3>1
  <2>3. CASE l.type \in {"NONE", "BOOL"}
    <3>1. PICK i \in Nat : i = l.bits
      BY <2>3, WholeFacts
    <3>2. PICK j \in Nat : j = r.bits
      BY <2>1, <2>3, WholeFacts
    <3>3. Twice(l) = 2 * i /\ Twice(r) = 2 * j
      BY <2>1, <2>3, <3>1, <3>2, WholeFacts
    <3>4. 2 * i = 2 * j
      BY ONLY <1>1, <3>3
    <3>5. l.bits = r.bits
      BY <3>1, <3>2, <3>4
    <3>6. QED
      BY <1>3, <2>1, <3>5
  <2>4. CASE l.type = "CHAR"
    <3>1. PICK i \in Int : i = WholeOf(l)
      BY <2>4, WholeFacts
    <3>2. PICK j \in Int : j = WholeOf(r)
      BY <2>1, <2>4, WholeFacts
    <3>3. /\ l.bits \in Nat /\ r.bits \in Nat
          /\ Twice(l) = 2 * i /\ (i >= 0 => i = l.bits) /\ (i < 0 => i = l.bits - CharModulus)
          /\ Twice(r) = 2 * j /\ (j >= 0 => j = r.bits) /\ (j < 0 => j = r.bits - CharModulus)
      BY <2>1, <2>4, <3>1, <3>2, WholeFacts
    <3>4. 2 * i = 2 * j
      BY ONLY <1>1, <3>3
    <3>5. l.bits = r.bits
      BY <3>3, <3>4, Moduli
    <3>6. QED
      BY <1>3, <2>1, <3>5
  <2>5. QED
    BY <1>5, <2>2, <2>3, <2>4, ScalarFacts DEF Number
<1>6. QED
  BY <1>4, <1>5

\* Equal string objects have the same characters, and so the same hash.
LEMMA ObjectsHold ==
  ASSUME NEW l \in ObjectValues, NEW r \in ObjectValues
  PROVE  EqualsHashAlike(l, r)
<1>1. l.type = "OBJC" /\ r.type = "OBJC" /\ l.bits \in Objects /\ r.bits \in Objects
  BY DEF ObjectValues
<1>2. ASSUME TRUE \in ValueEqualsTo(l, r) PROVE l.bits.text = r.bits.text
  <2>1. l.bits.at = r.bits.at \/ l.bits.text = r.bits.text
    BY <1>1, <1>2 DEF ValueEqualsTo, ObjectEqualsTo
  <2>2. QED
    BY <1>1, <2>1, ValuesAssumption
<1>3. ValueGetHashCode(l) = StringHash(l.bits.text) /\ ValueGetHashCode(r) = StringHash(r.bits.text)
  BY <1>1 DEF ValueGetHashCode
<1>4. QED
  BY <1>2, <1>3 DEF EqualsHashAlike

\* Only true passes for an object, and no object for it.
LEMMA ApartHolds ==
  ASSUME NEW l, NEW r, \/ l \in Scalars /\ r \in ObjectValues
                       \/ l \in ObjectValues /\ r \in Scalars
  PROVE  ObjectsStandApart(l, r)
<1>1. CASE l \in Scalars /\ r \in ObjectValues
  <2>1. r.type = "OBJC" /\ l.type \in Number \cup {"NONE"} /\ (l.type = "BOOL" => l.bits \in {0, 1})
    BY <1>1, ScalarFacts DEF ObjectValues
  <2>2. CASE l.type = "NONE"
    <3>1. ValueEqualsTo(l, r) = {r = NoValue}
      BY <2>2 DEF ValueEqualsTo, EqualityMissing
    <3>2. r # NoValue
      BY <2>1 DEF NoValue
    <3>3. TRUE \notin ValueEqualsTo(l, r)
      BY <3>1, <3>2
    <3>4. QED
      BY <3>3 DEF ObjectsStandApart
  <2>3. CASE l.type = "BOOL"
    <3>1. Truth(r)
      BY <2>1 DEF Truth
    <3>2. ValueEqualsTo(l, r) = {(l.bits = 1) = Truth(r)}
      BY <2>3 DEF ValueEqualsTo, BoolEqualsTo, EqualityMissing
    <3>3. TRUE \in ValueEqualsTo(l, r) => l.bits = 1
      BY <3>1, <3>2
    <3>4. l.bits = 1 => l = Bool(1)
      BY <1>1, <2>3, ScalarFacts DEF Bool
    <3>5. QED
      BY <3>3, <3>4 DEF ObjectsStandApart
  <2>4. CASE l.type \notin {"NONE", "BOOL"}
    <3>1. EqualityMissing(l, r) /\ l.type # "OBJC"
      BY <2>1, <2>4 DEF EqualityMissing, Number
    <3>2. ValueEqualsTo(l, r) = {}
      BY <2>1, <2>4, <3>1 DEF ValueEqualsTo
    <3>3. QED
      BY <3>2 DEF ObjectsStandApart
  <2>5. QED
    BY <2>2, <2>3, <2>4
<1>2. CASE l \in ObjectValues /\ r \in Scalars
  <2>1. l.type = "OBJC" /\ r.type # "OBJC"
    BY <1>2, ScalarFacts DEF ObjectValues, Number
  <2>2. ValueEqualsTo(l, r) = ObjectEqualsTo(l, r)
    BY <2>1 DEF ValueEqualsTo, EqualityMissing
  <2>3. ObjectEqualsTo(l, r) = {FALSE}
    BY <2>1 DEF ObjectEqualsTo
  <2>4. QED
    BY <2>2, <2>3 DEF ObjectsStandApart
<1>3. QED
  BY <1>1, <1>2

OperandsType ==
  \E l, r : /\ operands = <<l, r>>
            /\ l \in Scalars \cup ObjectValues /\ r \in Scalars \cup ObjectValues

\* Whatever two values meet, order, equality and hash agree.
LEMMA OperandsAgree == OperandsType => ValuesAgree
<1> SUFFICES ASSUME OperandsType PROVE ValuesAgree
  OBVIOUS
<1>1. PICK l \in Scalars \cup ObjectValues, r \in Scalars \cup ObjectValues : operands = <<l, r>>
  BY DEF OperandsType
<1>2. operands[1] = l /\ operands[2] = r
  BY <1>1
<1>3. /\ l \in Scalars <=> l.type # "OBJC"
      /\ r \in Scalars <=> r.type # "OBJC"
  <2>1. \A v \in Scalars : v.type # "OBJC"
    BY ScalarFacts DEF Number
  <2>2. \A v \in ObjectValues : v.type = "OBJC"
    BY DEF ObjectValues
  <2>3. QED
    BY <2>1, <2>2
<1>4. ASSUME ~ IsNaN(l), ~ IsNaN(r)
      PROVE  /\ ~ OrderMissing(l, r) => OrderIsNumeric(l, r)
             /\ "OBJC" \notin {l.type, r.type} => EqualityIsNumeric(l, r)
             /\ ObjectsStandApart(l, r)
             /\ EqualsHashAlike(l, r)
  <2>1. ~ OrderMissing(l, r) => OrderIsNumeric(l, r)
    BY <1>3, <1>4, OrderHolds DEF OrderMissing
  <2>2. "OBJC" \notin {l.type, r.type} => EqualityIsNumeric(l, r)
    BY <1>3, <1>4, EqualityHolds
  <2>3. CASE (l.type = "OBJC") # (r.type = "OBJC")
    <3>1. ObjectsStandApart(l, r)
      BY <1>3, <2>3, ApartHolds
    <3>2. EqualsHashAlike(l, r)
      BY <2>3 DEF EqualsHashAlike, SameKind
    <3>3. QED
      BY <2>1, <2>2, <3>1, <3>2
  <2>4. CASE (l.type = "OBJC") = (r.type = "OBJC")
    <3>1. ObjectsStandApart(l, r)
      BY <2>4 DEF ObjectsStandApart
    <3>2. EqualsHashAlike(l, r)
      BY <1>3, <1>4, <2>4, HashHolds, ObjectsHold
    <3>3. QED
      BY <2>1, <2>2, <3>1, <3>2
  <2>5. QED
    BY <2>3, <2>4
<1>5. 0 \notin {First, Second} /\ (First < 0) # (Second < 0)
  BY FirstIs
<1>6. QED
  BY <1>2, <1>4, <1>5 DEF ValuesAgree

\* Order, equality and hash of any two values, of whatever types, agree wherever C
\* keeps the numbers.
THEOREM ValuesAgreeHolds == Spec => []ValuesAgree
<1>1. NoOperands = <<NoValue, NoValue>> /\ NoValue \in Scalars
  BY DEF NoOperands, Scalars
<1>2. Init => OperandsType
  BY <1>1 DEF Init, ValuesInit, OperandsType
<1>3. OperandsType /\ [Next]_vars => OperandsType'
  <2> SUFFICES ASSUME OperandsType, [Next]_vars PROVE OperandsType'
    OBVIOUS
  <2>1. CASE operands' = NoOperands
    BY <1>1, <2>1 DEF OperandsType
  <2>2. CASE ValuesNext
    BY <2>2 DEF ValuesNext, OperandsType
  <2>3. CASE UNCHANGED vars
    BY <2>3 DEF vars, OperandsType
  <2>4. QED
    BY <2>1, <2>2, <2>3 DEF Next
<1>4. QED
  BY <1>2, <1>3, OperandsAgree, PTL DEF Spec

===============================================================================
