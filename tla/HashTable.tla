------------------------------- MODULE HashTable -------------------------------
(***************************************************************************)
(* The chained hash table of lib/common/hash.c: buckets that grow before a *)
(* write, shrink after a removal and reverse their chains on the way, keys *)
(* whose characters the table may own, and an iterator that holds a bucket *)
(* number and an entry.  An entry is named by its key: a key has one entry *)
(* at most (KeysAreUnique), and resizing moves entries without copying.    *)
(* An allocation that fails ends the process and is left out.              *)
(***************************************************************************)
EXTENDS Naturals, Sequences, FiniteSets, SequencesExt, FiniteSetsExt

CONSTANTS
  Keys, Values,
  HashOf,            \* the hash code of each key
  DefaultCapacity,   \* PI_HASH_DEFAULT_CAPACITY
  Capacities,        \* capacities hosts ask for
  MaxLoad, MinLoad,  \* PI_HASH_MAX_LOAD and PI_HASH_MIN_LOAD, in quarters
  NULL

ASSUME HashAssumption ==
  /\ HashOf \in [Keys -> Nat]
  /\ DefaultCapacity \in Nat \ {0} /\ Capacities \subseteq Nat
  /\ MaxLoad \in 1 .. 4 /\ MinLoad \in 0 .. 4
  /\ DefaultCapacity * MaxLoad >= 4 /\ 2 * MinLoad <= MaxLoad
  /\ NULL \notin Keys
  /\ NULL \notin [bucketIndex : Nat, current : Keys \cup {NULL}]

VARIABLES
  buckets,      \* [0 .. capacity - 1 -> chains of [key, value, clear]], empty once freed
  count,
  iter,         \* the host's iterator: [bucketIndex, current], or NULL
  answer,       \* what the last operation answered
  owned,        \* history: character buffers that belong to the table
  visited,      \* history: keys answered since the iteration began, while it is steady
  steady        \* history: no entry came, went or moved since the iteration began

tableVars == <<buckets, count, owned>>
iterVars == <<iter, visited, steady>>
vars == <<tableVars, iterVars, answer>>

Absent == "absent"
Capacity(b) == Cardinality(DOMAIN b)
InUse == Capacity(buckets) > 0

\* hash & (capacity - 1), the capacity being a power of two.
BucketIndex(k, capacity) == HashOf[k] % capacity

\* A number that no odd number but 1 divides.
PowerOf2(n) == n > 0 /\ \A d \in 2 .. n : n % d = 0 => d % 2 = 0
NextPowerOf2(n) == CHOOSE p \in 1 .. 2 * n + 1 :
                     p >= n /\ PowerOf2(p) /\ \A q \in n .. p - 1 : ~PowerOf2(q)

Empty(capacity) == [i \in 0 .. capacity - 1 |-> <<>>]

-------------------------------------------------------------------------------
(* Chains.                                                                    *)

Entries(b) == UNION {ToSet(b[i]) : i \in DOMAIN b}
KeysIn(b) == {e.key : e \in Entries(b)}

\* pi_FindEntry, in the chain the key's hash selects.
ChainOf(b, k) == b[BucketIndex(k, Capacity(b))]
Positions(b, k) == {i \in DOMAIN ChainOf(b, k) : ChainOf(b, k)[i].key = k}
Found(b, k) == Capacity(b) > 0 /\ Positions(b, k) # {}
Position(b, k) == CHOOSE i \in Positions(b, k) : \A j \in Positions(b, k) : i <= j
Entry(b, k) == ChainOf(b, k)[Position(b, k)]

Push(b, i, e) == [b EXCEPT ![i] = <<e>> \o @]

\* Buckets in order, each chain from its head, every entry pushed in front.
Resize(b, capacity) ==
  LET all == FlattenSeq([i \in 1 .. Capacity(b) |-> b[i - 1]])
      moved[n \in 0 .. Len(all)] ==
        IF n = 0 THEN Empty(capacity)
        ELSE Push(moved[n - 1], BucketIndex(all[n].key, capacity), all[n])
  IN  moved[Len(all)]

\* mutant: the load is that of the table before the insertion
GrownLate(b, n) == IF n > (Capacity(b) * MaxLoad) \div 4 THEN Resize(b, 2 * Capacity(b)) ELSE b

\* piHashTableSet looks at the load before it looks for the key.
Grown(b, n) == IF n + 1 > (Capacity(b) * MaxLoad) \div 4 THEN Resize(b, 2 * Capacity(b)) ELSE b

Shrunk(b, n) ==
  IF n < (Capacity(b) * MinLoad) \div 4 /\ Capacity(b) \div 2 >= DefaultCapacity
    THEN Resize(b, Capacity(b) \div 2) ELSE b

\* An entry takes the place of the one with its key, or goes in front of its chain.
Written(b, e) ==
  LET i == BucketIndex(e.key, Capacity(b))
  IN  IF Found(b, e.key) THEN [b EXCEPT ![i] = ReplaceAt(@, Position(b, e.key), e)]
                         ELSE Push(b, i, e)

Unlinked(b, k) == [b EXCEPT ![BucketIndex(k, Capacity(b))] = RemoveAt(@, Position(b, k))]

Freed(entries) == Cardinality({e \in entries : e.clear})

\* mutant: the first key of the chain is not compared
AnswerOfHead(k) ==
  IF Capacity(buckets) > 0 /\ ChainOf(buckets, k) # <<>> THEN Head(ChainOf(buckets, k)).value
  ELSE Absent

AnswerOf(k) == IF Found(buckets, k) THEN Entry(buckets, k).value ELSE Absent

-------------------------------------------------------------------------------
(* Operations.                                                                *)

\* What an operation that leaves `b' in place of the buckets does to an iteration.
Disturb(b) ==
  /\ steady' = (steady /\ Capacity(b) = Capacity(buckets) /\ KeysIn(b) = KeysIn(buckets))
  /\ visited' = IF steady' THEN visited ELSE <<>>
  /\ UNCHANGED iter

Get(k) ==
  /\ answer' = AnswerOf(k)
  /\ UNCHANGED <<tableVars, iterVars>>

\* mutant: the characters of the key it had are forgotten
OwnedAfterUpdateLeaky(old, clear) == owned + (IF clear THEN 1 ELSE 0)

\* An update frees the key it had and keeps the one it was given.
OwnedAfterUpdate(old, clear) == owned - Freed({old}) + (IF clear THEN 1 ELSE 0)

Set(k, v, clear) ==
  LET b == Grown(buckets, count)
      after == Written(b, [key |-> k, value |-> v, clear |-> clear])
  IN  /\ InUse
      /\ buckets' = after
      /\ IF Found(b, k)
           THEN /\ owned' = OwnedAfterUpdate(Entry(b, k), clear)
                /\ UNCHANGED count
           ELSE /\ owned' = owned + (IF clear THEN 1 ELSE 0)
                /\ count' = count + 1
      /\ answer' = AnswerOf(k)
      /\ Disturb(after)

\* An iterating host does not delete the entry its iterator stands on.
Delete(k) ==
  LET after == Shrunk(Unlinked(buckets, k), count - 1)
  IN  /\ iter # NULL => iter.current # k
      /\ answer' = AnswerOf(k)
      /\ IF Found(buckets, k)
           THEN /\ buckets' = after
                /\ owned' = owned - Freed({Entry(buckets, k)})
                /\ count' = count - 1
                /\ Disturb(after)
           ELSE UNCHANGED <<tableVars, iterVars>>

EndIteration == iter' = NULL /\ visited' = <<>> /\ steady' = FALSE

\* piHashTableClear and piFreeHashTable, which a host does not call in an iteration.
Clear ==
  /\ iter = NULL
  /\ buckets' = Empty(Capacity(buckets))
  /\ count' = 0
  /\ owned' = owned - Freed(Entries(buckets))
  /\ answer' = Absent
  /\ UNCHANGED iterVars

FreeHashTable ==
  /\ iter = NULL
  /\ buckets' = Empty(0)
  /\ count' = 0
  /\ owned' = owned - Freed(Entries(buckets))
  /\ answer' = Absent
  /\ UNCHANGED iterVars

InitHashTable(n) ==
  /\ ~InUse
  /\ buckets' = Empty(NextPowerOf2(IF n < DefaultCapacity THEN DefaultCapacity ELSE n))
  /\ answer' = Absent
  /\ UNCHANGED <<count, owned, iterVars>>

-------------------------------------------------------------------------------
(* Iteration.                                                                 *)

IterInit ==
  /\ iter = NULL
  /\ iter' = [bucketIndex |-> 0, current |-> NULL]
  /\ visited' = <<>> /\ steady' = TRUE
  /\ UNCHANGED <<tableVars, answer>>

\* current->next, in the chain the entry is in by now.
NextInChain(k) ==
  IF k = NULL THEN NULL
  ELSE LET c == ChainOf(buckets, k)
           i == Position(buckets, k)
       IN  IF i = Len(c) THEN NULL ELSE c[i + 1].key

NonEmptyFromLate(j) == {i \in DOMAIN buckets : i > j /\ buckets[i] # <<>>}  \* mutant: skips one
NonEmptyFrom(j) == {i \in DOMAIN buckets : i >= j /\ buckets[i] # <<>>}

Visit(bucket, k) ==
  /\ iter' = [bucketIndex |-> bucket, current |-> k]
  /\ visited' = IF steady THEN Append(visited, k) ELSE <<>>
  /\ UNCHANGED steady

IterNext ==
  LET k == NextInChain(iter.current)
      rest == NonEmptyFrom(iter.bucketIndex)
  IN  /\ iter # NULL
      /\ IF k # NULL THEN Visit(iter.bucketIndex, k)
         ELSE IF rest # {} THEN Visit(Min(rest) + 1, Head(buckets[Min(rest)]).key)
         ELSE EndIteration
      /\ UNCHANGED <<tableVars, answer>>

-------------------------------------------------------------------------------
Init ==
  /\ buckets = Empty(0) /\ count = 0 /\ owned = 0
  /\ iter = NULL /\ visited = <<>> /\ steady = FALSE
  /\ answer = Absent

Next ==
  \/ \E k \in Keys : Get(k) \/ Delete(k)
  \/ \E k \in Keys, v \in Values, clear \in BOOLEAN : Set(k, v, clear)
  \/ Clear \/ FreeHashTable
  \/ \E n \in Capacities : InitHashTable(n)
  \/ IterInit \/ IterNext

Spec == Init /\ [][Next]_vars

-------------------------------------------------------------------------------
(* Properties.                                                                *)

\* A key has one entry, in the bucket its hash selects at the present capacity,
\* whatever growing and shrinking did to the chains: a search never misses it.
KeysAreUnique ==
  /\ \A i \in DOMAIN buckets : \A j \in DOMAIN buckets[i] :
       BucketIndex(buckets[i][j].key, Capacity(buckets)) = i
  /\ \A i \in DOMAIN buckets : \A j, l \in DOMAIN buckets[i] :
       buckets[i][j].key = buckets[i][l].key => j = l

\* The count that decides about the load is the number of entries, no insertion
\* leaves the table fuller than MaxLoad, and no shrinking makes it so; whatever was
\* asked for and however often it was resized, the capacity stays a power of two,
\* which the mask of pi_BucketIndex relies on, and never below the default.
LoadIsBounded ==
  InUse => /\ count = Cardinality(Entries(buckets))
           /\ 4 * count <= MaxLoad * Capacity(buckets)
           /\ PowerOf2(Capacity(buckets)) /\ Capacity(buckets) >= DefaultCapacity

\* Chains, count and load agree after every write.
TableIsSound == KeysAreUnique /\ LoadIsBounded

\* The table owns the characters of exactly the keys it was given with clear = 1
\* and still holds: none is leaked by an update and none is freed twice.
KeysOwnedOnce == owned = Freed(Entries(buckets))

\* An iteration during which no entry came, went or moved answers every key of the
\* table, each once, though values and keys' memory may have been replaced meanwhile.
IterationExact ==
  [][ iter # NULL /\ iter' = NULL /\ steady =>
        /\ ToSet(visited) = KeysIn(buckets)
        /\ Len(visited) = Cardinality(KeysIn(buckets)) ]_vars

Contents == [k \in KeysIn(buckets) |-> Entry(buckets, k).value]

Abstract == INSTANCE Map WITH map <- Contents

\* Chains, capacities and rehashing implement a map with its answers.
ImplementsMap == Abstract!Spec
===============================================================================
