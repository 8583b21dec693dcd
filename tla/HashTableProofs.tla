---------------------------- MODULE HashTableProofs ----------------------------
(***************************************************************************)
(* Proofs about HashTable, for every set of keys, every hash and every     *)
(* capacity: chains stay where their keys are searched, resizing loses     *)
(* nothing, and the table is a map.                                        *)
(***************************************************************************)
EXTENDS HashTable, DataLemmas

-------------------------------------------------------------------------------
(* Tables.                                                                    *)

EntryType == [key : Keys, value : Values, clear : BOOLEAN]
TableOf(n) == [0 .. n - 1 -> Seq(EntryType)]

\* No two entries of a chain have the same key.
Apart(c) == \A j, l \in DOMAIN c : c[j].key = c[l].key => j = l

\* Every entry is in the bucket that its key selects among n.
Placed(b, n) == \A i \in DOMAIN b : \A j \in DOMAIN b[i] : BucketIndex(b[i][j].key, n) = i

\* A table of n buckets that searches can rely on.
Sound(b, n) ==
  /\ n \in Nat /\ b \in TableOf(n)
  /\ Placed(b, n)
  /\ \A i \in DOMAIN b : Apart(b[i])

\* The buckets are numbered from 0.
LEMMA CapacityIs ==
  ASSUME NEW n \in Nat, NEW b \in TableOf(n)
  PROVE  Capacity(b) = n /\ DOMAIN b = 0 .. n - 1
<1>1. DOMAIN b = 0 .. n - 1
  BY DEF TableOf
<1>2. Cardinality(0 .. n - 1) = n
  BY FS_Interval
<1>3. QED
  BY <1>1, <1>2 DEF Capacity

\* The hash selects a bucket that exists.
LEMMA IndexInTable ==
  ASSUME NEW k \in Keys, NEW n \in Nat \ {0}
  PROVE  BucketIndex(k, n) \in 0 .. n - 1
<1>1. HashOf[k] \in Nat
  BY HashAssumption
<1>2. QED
  BY <1>1, RoundedDown DEF BucketIndex

\* Entries, by bucket and position.
LEMMA EntriesAre ==
  ASSUME NEW n \in Nat, NEW b \in TableOf(n)
  PROVE  /\ Entries(b) \subseteq EntryType
         /\ \A e : e \in Entries(b) <=> \E i \in 0 .. n - 1 : \E j \in DOMAIN b[i] : e = b[i][j]
         /\ \A k : k \in KeysIn(b) <=> \E e \in Entries(b) : e.key = k
<1>1. DOMAIN b = 0 .. n - 1 /\ \A i \in 0 .. n - 1 : b[i] \in Seq(EntryType)
  BY DEF TableOf
<1>2. \A i \in 0 .. n - 1 : ToSet(b[i]) \subseteq EntryType
                           /\ \A e : e \in ToSet(b[i]) <=> \E j \in DOMAIN b[i] : e = b[i][j]
  BY <1>1 DEF ToSet
<1>3. QED
  BY <1>1, <1>2 DEF Entries, KeysIn

\* A search finds the entry of a key exactly if there is one.
LEMMA SearchFinds ==
  ASSUME NEW n \in Nat, NEW b, Sound(b, n), NEW k \in Keys
  PROVE  /\ Found(b, k) <=> k \in KeysIn(b)
         /\ \A e \in Entries(b) : e.key = k => Entry(b, k) = e
         /\ Found(b, k) => /\ n > 0 /\ BucketIndex(k, n) \in 0 .. n - 1
                           /\ ChainOf(b, k) = b[BucketIndex(k, n)]
                           /\ Position(b, k) \in DOMAIN b[BucketIndex(k, n)]
                           /\ Entry(b, k) = b[BucketIndex(k, n)][Position(b, k)]
                           /\ Entry(b, k).key = k /\ Entry(b, k) \in Entries(b)
         /\ ~Found(b, k) /\ n > 0 =>
              \A j \in DOMAIN b[BucketIndex(k, n)] : b[BucketIndex(k, n)][j].key # k
<1> DEFINE i == BucketIndex(k, n)
           c == b[i]
<1>1. b \in TableOf(n) /\ Placed(b, n) /\ \A m \in DOMAIN b : Apart(b[m])
  BY DEF Sound
<1>2. Capacity(b) = n /\ DOMAIN b = 0 .. n - 1
  BY <1>1, CapacityIs
<1>3. /\ \A e : e \in Entries(b) <=> \E m \in 0 .. n - 1 : \E j \in DOMAIN b[m] : e = b[m][j]
      /\ \A x : x \in KeysIn(b) <=> \E e \in Entries(b) : e.key = x
  BY <1>1, EntriesAre
<1>4. ChainOf(b, k) = c /\ Positions(b, k) = {j \in DOMAIN c : c[j].key = k}
  BY <1>2 DEF ChainOf, Positions
<1>5. ASSUME n > 0 PROVE i \in 0 .. n - 1 /\ Apart(c) /\ c \in Seq(EntryType)
  <2>1. i \in 0 .. n - 1
    BY <1>5, IndexInTable
  <2>2. QED
    BY <1>1, <1>2, <2>1 DEF TableOf
<1>6. ASSUME NEW m \in 0 .. n - 1, NEW j \in DOMAIN b[m], b[m][j].key = k
      PROVE  n > 0 /\ m = i /\ j \in Positions(b, k)
  BY <1>1, <1>2, <1>4, <1>6 DEF Placed
<1>7. ASSUME n > 0, NEW j \in Positions(b, k)
      PROVE  Position(b, k) = j /\ j \in DOMAIN c /\ c[j].key = k
  <2>1. \A l \in Positions(b, k) : l = j
    BY <1>4, <1>5, <1>7 DEF Apart
  <2>2. \A l \in Positions(b, k) : j <= l
    <3>1. j \in Nat
      BY <1>4, <1>5, <1>7
    <3>2. QED
      BY <2>1, <3>1
  <2>3. Position(b, k) \in Positions(b, k)
    BY <1>7, <2>2 DEF Position
  <2>4. QED
    BY <1>4, <1>7, <2>1, <2>3
<1> HIDE DEF c, i
<1>8. Found(b, k) <=> n > 0 /\ Positions(b, k) # {}
  BY <1>2 DEF Found
<1>9. ASSUME Found(b, k)
      PROVE  /\ n > 0 /\ i \in 0 .. n - 1 /\ Position(b, k) \in DOMAIN c
             /\ Entry(b, k) = c[Position(b, k)] /\ c = b[i]
             /\ Entry(b, k).key = k /\ Entry(b, k) \in Entries(b)
  <2>1. PICK j \in Positions(b, k) : TRUE
    BY <1>8, <1>9
  <2>2. n > 0 /\ Position(b, k) = j /\ j \in DOMAIN c /\ c[j].key = k
    BY <1>7, <1>8, <1>9
  <2>3. Entry(b, k) = c[j]
    BY <1>4, <2>2 DEF Entry
  <2>4. i \in 0 .. n - 1 /\ c = b[i]
    BY <1>5, <2>2 DEF c
  <2>5. QED
    BY <1>3, <2>2, <2>3, <2>4
<1>10. Found(b, k) <=> k \in KeysIn(b)
  <2>1. ASSUME k \in KeysIn(b) PROVE Found(b, k)
    BY <1>3, <1>6, <1>8, <2>1
  <2>2. QED
    BY <1>3, <1>9, <2>1
<1>11. ASSUME NEW e \in Entries(b), e.key = k PROVE Entry(b, k) = e
  <2>1. PICK m \in 0 .. n - 1 : \E j \in DOMAIN b[m] : e = b[m][j]
    BY <1>3
  <2> PICK j \in DOMAIN b[m] : e = b[m][j]
    BY <2>1
  <2>2. n > 0 /\ m = i /\ j \in Positions(b, k)
    BY <1>6, <1>11, <2>1
  <2>3. Position(b, k) = j
    BY <1>7, <2>2
  <2>4. QED
    BY <1>4, <2>1, <2>2, <2>3 DEF Entry, c
<1>12. ASSUME ~Found(b, k), n > 0 PROVE \A j \in DOMAIN c : c[j].key # k
  BY <1>4, <1>8, <1>12
<1>13. QED
  BY <1>4, <1>9, <1>10, <1>11, <1>12 DEF c, i

-------------------------------------------------------------------------------
(* Writing a chain.                                                           *)

\* Entries of a chain are the entries whose key selects its bucket.
LEMMA ChainHolds ==
  ASSUME NEW n \in Nat, NEW b, Sound(b, n), NEW i \in 0 .. n - 1
  PROVE  /\ b[i] \in Seq(EntryType) /\ Apart(b[i])
         /\ \A j \in DOMAIN b[i] : b[i][j] \in EntryType /\ BucketIndex(b[i][j].key, n) = i
         /\ \A e : e \in ToSet(b[i]) <=> e \in Entries(b) /\ BucketIndex(e.key, n) = i
<1>1. b \in TableOf(n) /\ Placed(b, n) /\ \A m \in DOMAIN b : Apart(b[m])
  BY DEF Sound
<1>2. DOMAIN b = 0 .. n - 1 /\ \A m \in 0 .. n - 1 : b[m] \in Seq(EntryType)
  BY <1>1 DEF TableOf
<1>3. \A e : e \in Entries(b) <=> \E m \in 0 .. n - 1 : \E j \in DOMAIN b[m] : e = b[m][j]
  BY <1>1, EntriesAre
<1>4. \A m \in 0 .. n - 1 : \A j \in DOMAIN b[m] : BucketIndex(b[m][j].key, n) = m
  BY <1>1, <1>2 DEF Placed
<1>5. \A e : e \in ToSet(b[i]) <=> \E j \in DOMAIN b[i] : e = b[i][j]
  BY <1>2 DEF ToSet
<1>6. \A e : e \in ToSet(b[i]) <=> e \in Entries(b) /\ BucketIndex(e.key, n) = i
  BY <1>3, <1>4, <1>5
<1>7. QED
  BY <1>1, <1>2, <1>4, <1>6

\* A table stays sound when a chain is replaced by one of its bucket.
LEMMA ChainWritten ==
  ASSUME NEW n \in Nat, NEW b, Sound(b, n), NEW i \in 0 .. n - 1,
         NEW c \in Seq(EntryType), Apart(c), \A j \in DOMAIN c : BucketIndex(c[j].key, n) = i
  PROVE  LET t == [b EXCEPT ![i] = c]
         IN  /\ Sound(t, n)
             /\ \A e : e \in Entries(t) <=>
                         e \in ToSet(c) \/ (e \in Entries(b) /\ BucketIndex(e.key, n) # i)
<1> DEFINE t == [b EXCEPT ![i] = c]
<1>1. b \in TableOf(n) /\ Placed(b, n) /\ \A m \in DOMAIN b : Apart(b[m])
  BY DEF Sound
<1>2. DOMAIN b = 0 .. n - 1 /\ \A m \in 0 .. n - 1 : b[m] \in Seq(EntryType)
  BY <1>1 DEF TableOf
<1>3. t \in TableOf(n) /\ DOMAIN t = 0 .. n - 1
      /\ \A m \in 0 .. n - 1 : t[m] = IF m = i THEN c ELSE b[m]
  BY <1>1, <1>2 DEF TableOf
<1> HIDE DEF t
<1>4. Placed(t, n) /\ \A m \in DOMAIN t : Apart(t[m])
  BY <1>1, <1>2, <1>3 DEF Placed
<1>5. /\ \A e : e \in Entries(t) <=> \E m \in 0 .. n - 1 : \E j \in DOMAIN t[m] : e = t[m][j]
      /\ \A e : e \in Entries(b) <=> \E m \in 0 .. n - 1 : \E j \in DOMAIN b[m] : e = b[m][j]
  BY <1>1, <1>3, EntriesAre
<1>6. \A m \in 0 .. n - 1 : \A j \in DOMAIN b[m] : BucketIndex(b[m][j].key, n) = m
  BY <1>1, <1>2 DEF Placed
<1>7. \A e : e \in ToSet(c) <=> \E j \in DOMAIN c : e = c[j]
  BY DEF ToSet
<1>8. ASSUME NEW e
      PROVE  e \in Entries(t) <=>
               e \in ToSet(c) \/ (e \in Entries(b) /\ BucketIndex(e.key, n) # i)
  <2>1. ASSUME e \in Entries(t)
        PROVE  e \in ToSet(c) \/ (e \in Entries(b) /\ BucketIndex(e.key, n) # i)
    BY <1>3, <1>5, <1>6, <1>7, <2>1
  <2>2. ASSUME e \in ToSet(c) PROVE e \in Entries(t)
    BY <1>3, <1>5, <1>7, <2>2
  <2>3. ASSUME e \in Entries(b), BucketIndex(e.key, n) # i PROVE e \in Entries(t)
    BY <1>3, <1>5, <1>6, <2>3
  <2>4. QED
    BY <2>1, <2>2, <2>3
<1>9. Sound(t, n)
  BY <1>3, <1>4 DEF Sound
<1>10. QED
  BY <1>8, <1>9 DEF t

\* A sequence with an element in front.
LEMMA PrependAt ==
  ASSUME NEW S, NEW s \in Seq(S), NEW v \in S
  PROVE  /\ <<v>> \o s \in Seq(S) /\ DOMAIN (<<v>> \o s) = 1 .. Len(s) + 1
         /\ \A k \in 1 .. Len(s) + 1 : (<<v>> \o s)[k] = IF k = 1 THEN v ELSE s[k - 1]
         /\ ToSet(<<v>> \o s) = ToSet(s) \cup {v}
<1> DEFINE r == <<v>> \o s
<1>1. r \in Seq(S) /\ DOMAIN s = 1 .. Len(s) /\ Len(s) \in Nat
  OBVIOUS
<1>2. DOMAIN r = 1 .. Len(s) + 1
  OBVIOUS
<1>3. \A k \in 1 .. Len(s) + 1 : r[k] = IF k = 1 THEN v ELSE s[k - 1]
  OBVIOUS
<1> HIDE DEF r
<1>4. ToSet(r) = ToSet(s) \cup {v}
  <2>1. ASSUME NEW x \in ToSet(r) PROVE x \in ToSet(s) \cup {v}
    <3>1. PICK k \in DOMAIN r : x = r[k]
      BY DEF ToSet
    <3>2. k # 1 => k - 1 \in DOMAIN s /\ r[k] = s[k - 1]
      BY <1>1, <1>2, <1>3
    <3>3. k = 1 => r[k] = v
      BY <1>1, <1>3
    <3>4. QED
      BY <3>1, <3>2, <3>3 DEF ToSet
  <2>2. ASSUME NEW x \in ToSet(s) PROVE x \in ToSet(r)
    <3>1. PICK k \in DOMAIN s : x = s[k]
      BY DEF ToSet
    <3>2. k + 1 \in DOMAIN r /\ k + 1 # 1 /\ k + 1 - 1 = k
      BY <1>1, <1>2
    <3>3. r[k + 1] = s[k]
      BY <1>2, <1>3, <3>2
    <3>4. QED
      BY <3>1, <3>2, <3>3 DEF ToSet
  <2>3. v \in ToSet(r)
    <3>1. 1 \in DOMAIN r /\ r[1] = v
      BY <1>1, <1>2, <1>3
    <3>2. QED
      BY <3>1 DEF ToSet
  <2>4. QED
    BY <2>1, <2>2, <2>3
<1>5. QED
  BY <1>1, <1>2, <1>3, <1>4 DEF r

\* A new key is pushed in front of its chain.
LEMMA PushAdds ==
  ASSUME NEW n \in Nat, NEW b, Sound(b, n), n > 0, NEW e \in EntryType,
         e.key \notin KeysIn(b)
  PROVE  LET t == Push(b, BucketIndex(e.key, n), e)
         IN  /\ Sound(t, n) /\ Entries(t) = Entries(b) \cup {e}
             /\ KeysIn(t) = KeysIn(b) \cup {e.key}
<1> DEFINE i == BucketIndex(e.key, n)
           c == <<e>> \o b[i]
<1>1. e.key \in Keys /\ i \in 0 .. n - 1
  <2>1. e.key \in Keys
    BY DEF EntryType
  <2>2. QED
    BY <2>1, IndexInTable
<1>2. b \in TableOf(n) /\ DOMAIN b = 0 .. n - 1
  BY DEF Sound, TableOf
<1>3. /\ b[i] \in Seq(EntryType) /\ Apart(b[i])
      /\ \A j \in DOMAIN b[i] : b[i][j] \in EntryType /\ BucketIndex(b[i][j].key, n) = i
      /\ \A x : x \in ToSet(b[i]) <=> x \in Entries(b) /\ BucketIndex(x.key, n) = i
  BY <1>1, ChainHolds
<1>4. \A j \in DOMAIN b[i] : b[i][j].key # e.key
  <2>1. \A j \in DOMAIN b[i] : b[i][j] \in Entries(b)
    BY <1>1, <1>2, EntriesAre
  <2>2. QED
    BY <2>1 DEF KeysIn
<1> HIDE DEF i
<1>5. /\ c \in Seq(EntryType) /\ DOMAIN c = 1 .. Len(b[i]) + 1
      /\ \A k \in 1 .. Len(b[i]) + 1 : c[k] = IF k = 1 THEN e ELSE b[i][k - 1]
      /\ ToSet(c) = ToSet(b[i]) \cup {e}
      /\ DOMAIN b[i] = 1 .. Len(b[i]) /\ Len(b[i]) \in Nat
  BY <1>3, PrependAt
<1> HIDE DEF c
<1>6. \A k \in DOMAIN c : k # 1 => k - 1 \in DOMAIN b[i] /\ c[k] = b[i][k - 1]
  BY <1>5
<1>7. 1 \in DOMAIN c /\ c[1] = e
  BY <1>5
<1>8. Apart(c)
  <2>1. ASSUME NEW k \in DOMAIN c, NEW l \in DOMAIN c, c[k].key = c[l].key PROVE k = l
    <3>1. k # 1 /\ l # 1 => k - 1 = l - 1
      BY <1>3, <1>6, <2>1 DEF Apart
    <3>2. k \in Nat /\ l \in Nat
      BY <1>5
    <3>3. QED
      BY <1>4, <1>6, <1>7, <2>1, <3>1, <3>2
  <2>2. QED
    BY <2>1 DEF Apart
<1>9. \A j \in DOMAIN c : BucketIndex(c[j].key, n) = i
  BY <1>3, <1>6, <1>7 DEF i
<1> DEFINE t == [b EXCEPT ![i] = c]
<1>10. /\ Sound(t, n)
       /\ \A x : x \in Entries(t) <=>
                   x \in ToSet(c) \/ (x \in Entries(b) /\ BucketIndex(x.key, n) # i)
  BY <1>1, <1>5, <1>8, <1>9, ChainWritten
<1>11. t = Push(b, i, e)
  BY DEF Push, c
<1> HIDE DEF t
<1>12. Entries(t) = Entries(b) \cup {e}
  BY <1>3, <1>5, <1>10
<1>13. KeysIn(t) = KeysIn(b) \cup {e.key}
  BY <1>12 DEF KeysIn
<1>14. QED
  BY <1>10, <1>11, <1>12, <1>13 DEF i

SwapAt(b, i, p, e) == [b EXCEPT ![i] = ReplaceAt(@, p, e)]
TakeAt(b, i, p) == [b EXCEPT ![i] = RemoveAt(@, p)]

\* An entry takes the place of another with its key.
LEMMA ReplaceSwaps ==
  ASSUME NEW n \in Nat, NEW b, Sound(b, n), NEW i \in 0 .. n - 1, NEW p \in DOMAIN b[i],
         NEW e \in EntryType, e.key = b[i][p].key
  PROVE  LET t == SwapAt(b, i, p, e)
         IN  /\ Sound(t, n) /\ Entries(t) = (Entries(b) \ {b[i][p]}) \cup {e}
             /\ KeysIn(t) = KeysIn(b)
             /\ \A m \in 0 .. n - 1 : DOMAIN t[m] = DOMAIN b[m]
                                     /\ \A j \in DOMAIN b[m] : t[m][j].key = b[m][j].key
<1> DEFINE s == b[i]
           c == ReplaceAt(s, p, e)
           t == [b EXCEPT ![i] = c]
<1>1. b \in TableOf(n) /\ DOMAIN b = 0 .. n - 1
  BY DEF Sound, TableOf
<1>2. /\ s \in Seq(EntryType) /\ Apart(s)
      /\ \A j \in DOMAIN s : s[j] \in EntryType /\ BucketIndex(s[j].key, n) = i
      /\ \A x : x \in ToSet(s) <=> x \in Entries(b) /\ BucketIndex(x.key, n) = i
  BY ChainHolds
<1>3. c \in Seq(EntryType) /\ DOMAIN c = DOMAIN s
      /\ \A k \in DOMAIN s : c[k] = IF k = p THEN e ELSE s[k]
  BY <1>2 DEF ReplaceAt
<1>4. \A m \in 0 .. n - 1 : t[m] = IF m = i THEN c ELSE b[m]
  BY <1>1
<1>5. s[p].key = e.key
  OBVIOUS
<1>6. s = b[i]
  OBVIOUS
<1> HIDE DEF c, s
<1>7. Apart(c) /\ \A j \in DOMAIN c : BucketIndex(c[j].key, n) = i
  BY <1>2, <1>3, <1>5, <1>6 DEF Apart
<1>8. /\ Sound(t, n)
      /\ \A x : x \in Entries(t) <=>
                  x \in ToSet(c) \/ (x \in Entries(b) /\ BucketIndex(x.key, n) # i)
  BY <1>3, <1>7, ChainWritten
<1> HIDE DEF t
<1>9. ToSet(c) = (ToSet(s) \ {s[p]}) \cup {e}
  <2>1. /\ \A x : x \in ToSet(c) <=> \E j \in DOMAIN c : x = c[j]
        /\ \A x : x \in ToSet(s) <=> \E j \in DOMAIN s : x = s[j]
    BY <1>2, <1>3 DEF ToSet
  <2>2. \A j \in DOMAIN s : s[j] = s[p] => j = p
    BY <1>2, <1>6 DEF Apart
  <2>3. p \in DOMAIN s
    BY <1>6
  <2>4. QED
    BY <1>3, <2>1, <2>2, <2>3
<1>10. Entries(t) = (Entries(b) \ {s[p]}) \cup {e}
  BY <1>2, <1>6, <1>8, <1>9
<1>11. s[p] \in Entries(b) /\ \A x \in Entries(b) : x.key = e.key => x = s[p]
  <2>1. s[p] \in Entries(b)
    BY <1>1, <1>6, EntriesAre
  <2>2. PICK k \in Keys : k = e.key
    BY DEF EntryType
  <2>3. \A x \in Entries(b) : x.key = k => Entry(b, k) = x
    BY SearchFinds
  <2>4. QED
    BY ONLY <1>5, <2>1, <2>2, <2>3
<1>12. KeysIn(t) = KeysIn(b)
  BY <1>5, <1>10, <1>11 DEF KeysIn
<1>13. \A m \in 0 .. n - 1 : DOMAIN t[m] = DOMAIN b[m]
                            /\ \A j \in DOMAIN b[m] : t[m][j].key = b[m][j].key
  BY <1>3, <1>4, <1>5, <1>6
<1>14. QED
  BY <1>8, <1>10, <1>12, <1>13 DEF t, c, s, SwapAt

\* An entry is unlinked from its chain.
LEMMA RemoveTakes ==
  ASSUME NEW n \in Nat, NEW b, Sound(b, n), NEW i \in 0 .. n - 1, NEW p \in DOMAIN b[i]
  PROVE  LET t == TakeAt(b, i, p)
         IN  /\ Sound(t, n) /\ Entries(t) = Entries(b) \ {b[i][p]}
             /\ KeysIn(t) = KeysIn(b) \ {b[i][p].key}
<1> DEFINE s == b[i]
           c == RemoveAt(s, p)
           t == [b EXCEPT ![i] = c]
           at(k) == IF k < p THEN k ELSE k + 1
<1>1. b \in TableOf(n) /\ DOMAIN b = 0 .. n - 1
  BY DEF Sound, TableOf
<1>2. /\ s \in Seq(EntryType) /\ Apart(s)
      /\ \A j \in DOMAIN s : s[j] \in EntryType /\ BucketIndex(s[j].key, n) = i
      /\ \A x : x \in ToSet(s) <=> x \in Entries(b) /\ BucketIndex(x.key, n) = i
  BY ChainHolds
<1>3. t = [b EXCEPT ![i] = RemoveAt(@, p)] /\ t = [b EXCEPT ![i] = c] /\ s = b[i]
  OBVIOUS
<1>4. \A k, l \in DOMAIN s : s[k] = s[l] => k = l
  BY <1>2 DEF Apart
<1> HIDE DEF s
<1>5. c \in Seq(EntryType) /\ Len(c) = Len(s) - 1 /\ p \in DOMAIN s
      /\ \A k \in 1 .. Len(s) - 1 : c[k] = IF k < p THEN s[k] ELSE s[k + 1]
  BY <1>2, <1>3, RemoveAtFacts
<1>6. ToSet(c) = ToSet(s) \ {s[p]}
  BY <1>2, <1>4, <1>5, RemoveOnlyFacts
<1> HIDE DEF c
<1>7. \A k \in DOMAIN c : at(k) \in DOMAIN s /\ c[k] = s[at(k)]
  <2>1. DOMAIN c = 1 .. Len(s) - 1 /\ DOMAIN s = 1 .. Len(s)
    BY <1>2, <1>5
  <2>2. QED
    BY <1>2, <1>5, <2>1
<1>8. \A k, l \in DOMAIN c : at(k) = at(l) => k = l
  BY <1>2, <1>5
<1> HIDE DEF at
<1>9. Apart(c) /\ \A j \in DOMAIN c : BucketIndex(c[j].key, n) = i
  BY <1>2, <1>7, <1>8 DEF Apart
<1>10. /\ Sound(t, n)
       /\ \A x : x \in Entries(t) <=>
                   x \in ToSet(c) \/ (x \in Entries(b) /\ BucketIndex(x.key, n) # i)
  BY <1>3, <1>5, <1>9, ChainWritten
<1> HIDE DEF t
<1>11. BucketIndex(s[p].key, n) = i /\ s[p] \in Entries(b) /\ s[p].key \in Keys
  <2>1. s[p] \in Entries(b) /\ Entries(b) \subseteq EntryType
    BY <1>1, <1>3, EntriesAre
  <2>2. QED
    BY <1>2, <1>5, <2>1 DEF EntryType
<1>12. Entries(t) = Entries(b) \ {s[p]}
  BY <1>2, <1>6, <1>10, <1>11
<1>13. \A x \in Entries(b) : x.key = s[p].key => x = s[p]
  BY <1>11, SearchFinds
<1>14. KeysIn(t) = KeysIn(b) \ {s[p].key}
  BY <1>11, <1>12, <1>13 DEF KeysIn
<1>15. QED
  BY <1>3, <1>10, <1>12, <1>14 DEF TakeAt

-------------------------------------------------------------------------------
(* Resizing.                                                                  *)

\* Two sequences of entries, one behind the other.
LEMMA ConcatFacts ==
  ASSUME NEW s \in Seq(EntryType), NEW t \in Seq(EntryType)
  PROVE  /\ s \o t \in Seq(EntryType) /\ ToSet(s \o t) = ToSet(s) \cup ToSet(t)
         /\ Apart(s) /\ Apart(t) /\ (\A x \in ToSet(s), y \in ToSet(t) : x.key # y.key)
              => Apart(s \o t)
<1> DEFINE r == s \o t
<1>1. /\ r \in Seq(EntryType) /\ Len(s) \in Nat /\ Len(t) \in Nat
      /\ DOMAIN s = 1 .. Len(s) /\ DOMAIN t = 1 .. Len(t)
      /\ DOMAIN r = 1 .. Len(s) + Len(t)
  OBVIOUS
<1>2. \A k \in 1 .. Len(s) + Len(t) : r[k] = IF k <= Len(s) THEN s[k] ELSE t[k - Len(s)]
  OBVIOUS
<1> HIDE DEF r
<1>3. \A k \in DOMAIN r :
        IF k \in DOMAIN s THEN r[k] = s[k]
                          ELSE k - Len(s) \in DOMAIN t /\ r[k] = t[k - Len(s)]
  BY <1>1, <1>2
<1>4. /\ \A k \in DOMAIN s : k \in DOMAIN r /\ r[k] = s[k]
      /\ \A k \in DOMAIN t : k + Len(s) \in DOMAIN r /\ r[k + Len(s)] = t[k]
  BY <1>1, <1>2
<1>5. /\ \A x : x \in ToSet(r) <=> \E k \in DOMAIN r : x = r[k]
      /\ \A x : x \in ToSet(s) <=> \E k \in DOMAIN s : x = s[k]
      /\ \A x : x \in ToSet(t) <=> \E k \in DOMAIN t : x = t[k]
  BY DEF ToSet
<1>6. ToSet(r) = ToSet(s) \cup ToSet(t)
  <2>1. ASSUME NEW x \in ToSet(r) PROVE x \in ToSet(s) \cup ToSet(t)
    BY <1>3, <1>5, <2>1
  <2>2. ASSUME NEW x \in ToSet(s) \cup ToSet(t) PROVE x \in ToSet(r)
    BY <1>4, <1>5, <2>2
  <2>3. QED
    BY <2>1, <2>2
<1>7. ASSUME Apart(s), Apart(t), \A x \in ToSet(s), y \in ToSet(t) : x.key # y.key
      PROVE  Apart(r)
  <2>1. ASSUME NEW k \in DOMAIN r, NEW l \in DOMAIN r, r[k].key = r[l].key PROVE k = l
    <3>1. k \in DOMAIN s /\ l \in DOMAIN s => k = l
      BY <1>3, <1>7, <2>1 DEF Apart
    <3>2. k \notin DOMAIN s /\ l \notin DOMAIN s => k - Len(s) = l - Len(s)
      BY <1>3, <1>7, <2>1 DEF Apart
    <3>3. k \in Int /\ l \in Int
      BY <1>1
    <3>4. ~(k \in DOMAIN s /\ l \notin DOMAIN s) /\ ~(l \in DOMAIN s /\ k \notin DOMAIN s)
      BY <1>3, <1>5, <1>7, <2>1
    <3>5. QED
      BY <1>1, <3>1, <3>2, <3>3, <3>4
  <2>2. QED
    BY <2>1 DEF Apart
<1>8. QED
  BY <1>1, <1>6, <1>7 DEF r

\* The recursion behind FlattenSeq, and that it has a solution.
FlatStep(q, g) == [i \in 1 .. Len(q) |-> IF i = 1 THEN q[i] ELSE g[i - 1] \o q[i]]
Flat(q) == CHOOSE g : g = FlatStep(q, g)

LEMMA FlatIs ==
  ASSUME NEW S, NEW q \in Seq(Seq(S)), Len(q) > 0
  PROVE  FlattenSeq(q) = Flat(q)[Len(q)] /\ Flat(q) = FlatStep(q, Flat(q))
<1> DEFINE n == Len(q)
           T == Seq(S)
           a == 1
           x == q[1]
           st == [p \in T \X (1 .. n) |-> p[1] \o q[p[2]]]
<1>1. FlattenSeq(q) = Flat(q)[n]
  BY DEF FlattenSeq, Flat, FlatStep
<1>2. n \in Int /\ 1 <= n /\ q[1] \in T /\ \A i \in 1 .. n : q[i] \in T
  OBVIOUS
<1>3. st \in [T \X (1 .. n) -> T]
  <2>1. \A p \in T \X (1 .. n) : p[1] \o q[p[2]] \in T
    BY <1>2
  <2> HIDE DEF T
  <2>2. QED
    BY <2>1
<1>4. ASSUME NEW g \in [a .. n -> T] PROVE RecursionStep(a, n, x, st, g) = FlatStep(q, g)
  <2>1. ASSUME NEW i \in 1 .. n, i # 1 PROVE st[<<g[i - 1], i>>] = g[i - 1] \o q[i]
    <3>1. i - 1 \in 1 .. n
      BY <1>2, <2>1
    <3>2. <<g[i - 1], i>> \in T \X (1 .. n)
      BY <3>1
    <3>3. QED
      BY <3>2
  <2> HIDE DEF st
  <2>2. QED
    BY <2>1 DEF FlatStep, RecursionStep
<1>5. /\ a \in Int /\ n \in Int /\ a <= n /\ x \in T
      /\ IsStep(st, T, a, n)
  BY <1>2, <1>3 DEF IsStep
<1> HIDE DEF st, T, n, a, x
<1>6. PICK g \in [a .. n -> T] : g = RecursionStep(a, n, x, st, g)
  BY ONLY <1>5, IntervalRecursion
<1>7. g = FlatStep(q, g)
  BY <1>4, <1>6
<1>8. QED
  BY <1>1, <1>7 DEF Flat, n

\* All entries in the order of the buckets: each once.
Rows(b) == [i \in 1 .. Capacity(b) |-> b[i - 1]]
AllOf(b) == FlattenSeq(Rows(b))

LEMMA FlatHolds ==
  ASSUME NEW n \in Nat, NEW b, Sound(b, n), n > 0
  PROVE  AllOf(b) \in Seq(EntryType) /\ ToSet(AllOf(b)) = Entries(b) /\ Apart(AllOf(b))
<1> DEFINE q == Rows(b)
           F == Flat(q)
           Good(i) == /\ F[i] \in Seq(EntryType) /\ Apart(F[i])
                      /\ \A e : e \in ToSet(F[i]) <=>
                                  e \in Entries(b) /\ BucketIndex(e.key, n) \in 0 .. i - 1
           T == {i \in 1 .. n : Good(i)}
<1>1. b \in TableOf(n) /\ Capacity(b) = n
  BY CapacityIs DEF Sound
<1>2. q \in Seq(Seq(EntryType)) /\ Len(q) = n /\ \A i \in 1 .. n : q[i] = b[i - 1]
  BY <1>1 DEF Rows, TableOf
<1> HIDE DEF q
<1>3. AllOf(b) = F[n] /\ F = FlatStep(q, F)
  BY <1>2, FlatIs DEF AllOf, q
<1> HIDE DEF F
<1>4. \A i \in 1 .. n : F[i] = IF i = 1 THEN q[i] ELSE F[i - 1] \o q[i]
  BY <1>2, <1>3 DEF FlatStep
<1>5. \A i \in 1 .. n :
        /\ q[i] \in Seq(EntryType) /\ Apart(q[i])
        /\ \A e : e \in ToSet(q[i]) <=> e \in Entries(b) /\ BucketIndex(e.key, n) = i - 1
  <2> SUFFICES ASSUME NEW i \in 1 .. n
               PROVE  /\ q[i] \in Seq(EntryType) /\ Apart(q[i])
                      /\ \A e : e \in ToSet(q[i]) <=>
                                  e \in Entries(b) /\ BucketIndex(e.key, n) = i - 1
    OBVIOUS
  <2>1. PICK m \in 0 .. n - 1 : m = i - 1
    OBVIOUS
  <2>2. q[i] = b[m]
    BY <1>2, <2>1
  <2>3. QED
    BY <2>1, <2>2, ChainHolds
<1>6. 1 \in T
  <2>1. F[1] = q[1] /\ 1 \in 1 .. n
    BY <1>4
  <2>2. \A x : x \in 0 .. 1 - 1 <=> x = 1 - 1
    OBVIOUS
  <2>3. QED
    BY <1>5, <2>1, <2>2
<1>7. ASSUME NEW m \in 1 .. n - 1, m \in T PROVE m + 1 \in T
  <2>1. m + 1 \in 1 .. n /\ F[m + 1] = F[m] \o q[m + 1] /\ m + 1 - 1 = m /\ Good(m)
    <3>1. Good(m)
      BY <1>7
    <3>2. m + 1 \in 1 .. n /\ m + 1 # 1 /\ m + 1 - 1 = m
      OBVIOUS
    <3>3. PICK p \in 1 .. n : p = m + 1
      BY <3>2
    <3>4. p # 1 /\ p - 1 = m
      BY <3>2, <3>3
    <3>5. F[m + 1] = F[m] \o q[m + 1]
      <4>1. F[p] = F[p - 1] \o q[p]
        BY ONLY <1>4, <3>4, p \in 1 .. n
      <4>2. QED
        BY ONLY <3>3, <3>4, <4>1
    <3>6. QED
      BY ONLY <3>1, <3>2, <3>5
  <2>2. /\ q[m + 1] \in Seq(EntryType) /\ Apart(q[m + 1])
        /\ \A e : e \in ToSet(q[m + 1]) <=> e \in Entries(b) /\ BucketIndex(e.key, n) = m
    BY <1>5, <2>1
  <2>3. \A x \in ToSet(F[m]), y \in ToSet(q[m + 1]) : x.key # y.key
    <3>1. m \notin 0 .. m - 1
      OBVIOUS
    <3>2. QED
      BY <2>1, <2>2, <3>1
  <2>4. /\ F[m + 1] \in Seq(EntryType) /\ Apart(F[m + 1])
        /\ ToSet(F[m + 1]) = ToSet(F[m]) \cup ToSet(q[m + 1])
    BY <2>1, <2>2, <2>3, ConcatFacts
  <2>5. \A x : x \in 0 .. (m + 1) - 1 <=> x \in 0 .. m - 1 \/ x = m
    OBVIOUS
  <2>6. Good(m + 1)
    BY <2>1, <2>2, <2>4, <2>5
  <2>7. QED
    BY <2>1, <2>6
<1>8. n \in T
  <2> HIDE DEF T
  <2>1. n \in 1 .. n /\ 1 \in Int /\ n \in Int
    OBVIOUS
  <2>2. \A m \in 1 .. n : m \in T
    BY <1>6, <1>7, <2>1, IntervalInduction
  <2>3. QED
    BY <2>1, <2>2
<1>9. \A e \in Entries(b) : BucketIndex(e.key, n) \in 0 .. n - 1
  <2>1. Entries(b) \subseteq EntryType
    BY <1>1, EntriesAre
  <2>2. QED
    BY <2>1, IndexInTable DEF EntryType
<1>10. ToSet(F[n]) = Entries(b)
  BY <1>8, <1>9
<1>11. QED
  BY <1>3, <1>8, <1>10

\* The recursion of the rehash loop, and that it has a solution.
MoveStep(all, c, g) ==
  [i \in 0 .. Len(all) |->
     IF i = 0 THEN Empty(c) ELSE Push(g[i - 1], BucketIndex(all[i].key, c), all[i])]
Moved(all, c) == CHOOSE g : g = MoveStep(all, c, g)

LEMMA MovedIs ==
  ASSUME NEW all \in Seq(EntryType), NEW c \in Nat, c > 0
  PROVE  Moved(all, c) = MoveStep(all, c, Moved(all, c))
<1> DEFINE n == Len(all)
           T == TableOf(c)
           a == 0
           x == Empty(c)
           st == [p \in T \X (0 .. n) |->
                    IF p[2] = 0 THEN p[1]
                    ELSE Push(p[1], BucketIndex(all[p[2]].key, c), all[p[2]])]
<1>1. n \in Int /\ 0 <= n /\ x \in T
  BY DEF TableOf, Empty
<1>2. ASSUME NEW t \in T, NEW i \in 1 .. n
      PROVE  Push(t, BucketIndex(all[i].key, c), all[i]) \in T
  <2>1. all[i] \in EntryType /\ all[i].key \in Keys
    <3>1. all[i] \in EntryType
      OBVIOUS
    <3>2. QED
      BY <3>1 DEF EntryType
  <2>2. BucketIndex(all[i].key, c) \in 0 .. c - 1
    BY <2>1, IndexInTable
  <2>3. t[BucketIndex(all[i].key, c)] \in Seq(EntryType)
    BY <2>2 DEF TableOf
  <2>4. <<all[i]>> \o t[BucketIndex(all[i].key, c)] \in Seq(EntryType)
    BY <2>1, <2>3, PrependAt
  <2>5. QED
    BY <2>2, <2>4 DEF Push, TableOf
<1>3. st \in [T \X (0 .. n) -> T]
  <2>1. ASSUME NEW p \in T \X (0 .. n)
        PROVE  (IF p[2] = 0 THEN p[1]
                ELSE Push(p[1], BucketIndex(all[p[2]].key, c), all[p[2]])) \in T
    <3>1. p[1] \in T /\ p[2] \in 0 .. n
      OBVIOUS
    <3>2. p[2] # 0 => p[2] \in 1 .. n
      BY <3>1
    <3> HIDE DEF T
    <3>3. QED
      BY <1>2, <3>1, <3>2
  <2> HIDE DEF T
  <2>2. QED
    BY <2>1
<1>4. ASSUME NEW g \in [0 .. n -> T]
      PROVE  RecursionStep(a, n, x, st, g) = MoveStep(all, c, g)
  <2>1. ASSUME NEW i \in 0 .. n, i # 0
        PROVE  st[<<g[i - 1], i>>] = Push(g[i - 1], BucketIndex(all[i].key, c), all[i])
    <3>1. i - 1 \in 0 .. n
      BY <1>1, <2>1
    <3>2. <<g[i - 1], i>> \in T \X (0 .. n)
      BY <3>1
    <3>3. QED
      BY <2>1, <3>2
  <2> HIDE DEF st
  <2>2. QED
    BY <2>1 DEF MoveStep, RecursionStep
<1>5. /\ a \in Int /\ n \in Int /\ a <= n /\ x \in T
      /\ IsStep(st, T, a, n)
  BY <1>1, <1>3 DEF IsStep
<1> HIDE DEF st, T, x, n, a
<1>6. PICK g \in [a .. n -> T] : g = RecursionStep(a, n, x, st, g)
  BY ONLY <1>5, IntervalRecursion
<1>7. g = MoveStep(all, c, g)
  BY <1>4, <1>6 DEF a
<1>8. QED
  BY <1>7 DEF Moved

\* A table without entries.
LEMMA EmptyHolds ==
  ASSUME NEW c \in Nat
  PROVE  /\ Sound(Empty(c), c) /\ Entries(Empty(c)) = {} /\ KeysIn(Empty(c)) = {}
         /\ Capacity(Empty(c)) = c
<1>1. Empty(c) \in TableOf(c) /\ DOMAIN Empty(c) = 0 .. c - 1
      /\ \A i \in 0 .. c - 1 : Empty(c)[i] = <<>>
  BY DEF Empty, TableOf
<1>2. DOMAIN <<>> = {}
  OBVIOUS
<1>3. Sound(Empty(c), c)
  BY <1>1, <1>2 DEF Sound, Placed, Apart
<1>4. Entries(Empty(c)) = {}
  BY <1>1, <1>2, EntriesAre
<1>5. QED
  BY <1>1, <1>3, <1>4, CapacityIs DEF KeysIn

\* Resizing keeps every entry, each where its key is searched from now on.
LEMMA ResizeKeeps ==
  ASSUME NEW n \in Nat, NEW b, Sound(b, n), n > 0, NEW c \in Nat, c > 0
  PROVE  /\ Sound(Resize(b, c), c) /\ Entries(Resize(b, c)) = Entries(b)
         /\ KeysIn(Resize(b, c)) = KeysIn(b)
<1> DEFINE all == AllOf(b)
           M == Moved(all, c)
           Good(i) == /\ Sound(M[i], c)
                      /\ \A e : e \in Entries(M[i]) <=> \E j \in 1 .. i : e = all[j]
           T == {i \in 0 .. Len(all) : Good(i)}
<1>1. all \in Seq(EntryType) /\ ToSet(all) = Entries(b) /\ Apart(all)
  BY FlatHolds
<1>2. Resize(b, c) = M[Len(all)]
  BY DEF Resize, AllOf, Rows, Moved, MoveStep
<1> HIDE DEF all
<1>3. M = MoveStep(all, c, M)
  BY <1>1, MovedIs
<1> HIDE DEF M
<1>4. \A i \in 0 .. Len(all) :
        M[i] = IF i = 0 THEN Empty(c) ELSE Push(M[i - 1], BucketIndex(all[i].key, c), all[i])
  BY <1>3 DEF MoveStep
<1>5. Len(all) \in Nat /\ DOMAIN all = 1 .. Len(all)
  BY <1>1
<1>6. 0 \in T
  <2>1. M[0] = Empty(c)
    BY <1>4, <1>5
  <2>2. QED
    BY <1>5, <2>1, EmptyHolds
<1>7. ASSUME NEW m \in 0 .. Len(all) - 1, m \in T PROVE m + 1 \in T
  <2> DEFINE e == all[m + 1]
             p == m + 1
  <2>1. p \in 0 .. Len(all) /\ p # 0 /\ p - 1 = m /\ p \in DOMAIN all /\ Good(m)
    BY <1>5, <1>7
  <2>2. M[p] = Push(M[m], BucketIndex(e.key, c), e)
    BY <1>4, <2>1
  <2>3. e \in EntryType
    BY <1>1, <2>1
  <2>4. e.key \notin KeysIn(M[m])
    <3>1. \A j \in 1 .. m : j \in DOMAIN all /\ j # p
      BY <1>5
    <3>2. \A j \in 1 .. m : all[j].key # e.key
      BY <1>1, <2>1, <3>1 DEF Apart
    <3>3. QED
      BY <2>1, <3>2 DEF KeysIn
  <2>5. Sound(M[p], c) /\ Entries(M[p]) = Entries(M[m]) \cup {e}
    BY <2>1, <2>2, <2>3, <2>4, PushAdds
  <2>6. \A j : j \in 1 .. p <=> j \in 1 .. m \/ j = p
    BY <1>5
  <2>7. Good(p)
    BY <2>1, <2>5, <2>6
  <2>8. QED
    BY <2>1, <2>7
<1>8. Len(all) \in T
  <2> HIDE DEF T
  <2>1. Len(all) \in 0 .. Len(all) /\ 0 \in Int /\ Len(all) \in Int
    BY <1>5
  <2>2. \A m \in 0 .. Len(all) : m \in T
    BY <1>6, <1>7, <2>1, IntervalInduction
  <2>3. QED
    BY <2>1, <2>2
<1>9. \A e : e \in ToSet(all) <=> \E j \in 1 .. Len(all) : e = all[j]
  BY <1>5 DEF ToSet
<1>10. Entries(M[Len(all)]) = Entries(b)
  BY <1>1, <1>8, <1>9
<1>11. QED
  BY <1>2, <1>8, <1>10 DEF KeysIn
-------------------------------------------------------------------------------
(* Powers of two.                                                             *)

\* The first power of two.
LEMMA OneIsPower == PowerOf2(1)
  BY DEF PowerOf2

\* Growing keeps the capacity a power of two.
LEMMA DoublePower ==
  ASSUME NEW p \in Nat, PowerOf2(p)
  PROVE  PowerOf2(2 * p)
<1> DEFINE t == 2 * p
<1>1. p > 0 /\ \A d \in 2 .. p : p % d = 0 => d % 2 = 0
  BY DEF PowerOf2
<1>2. ASSUME NEW d \in 2 .. t, t % d = 0, d % 2 # 0 PROVE FALSE
  <2>1. d \in Nat \ {0} /\ t \in Nat
    OBVIOUS
  <2> HIDE DEF t
  <2>2. PICK k \in Nat : t = k * d
    BY <1>2, <2>1, MultipleIs
  <2>3. PICK j \in Nat : d = 2 * j + 1
    BY <1>2, <2>1
  <2>4. k * d = 2 * (k * j) + k /\ k * j \in Nat
    BY <2>3
  <2>5. PICK l \in Nat : l = k * j
    BY <2>4
  <2>6. 2 * p = 2 * l + k
    BY <2>2, <2>4, <2>5 DEF t
  <2>7. p - l \in Nat /\ k = 2 * (p - l)
    BY <2>6
  <2>8. PICK h \in Nat : h = p - l
    BY <2>7
  <2>9. 2 * p = (2 * h) * d /\ (2 * h) * d = 2 * (h * d) /\ h * d \in Nat
    BY <2>1, <2>2, <2>7, <2>8 DEF t
  <2>10. p = h * d
    BY <2>9
  <2>11. p % d = 0
    BY <2>1, <2>10, MultipleIs
  <2>12. h # 0 /\ d <= h * d
    BY <1>1, <2>1, <2>10
  <2>13. d \in 2 .. p
    BY <1>2, <2>10, <2>12
  <2>14. QED
    BY <1>1, <1>2, <2>11, <2>13
<1>3. QED
  BY <1>1, <1>2 DEF PowerOf2

\* So does shrinking.
LEMMA HalfPower ==
  ASSUME NEW p \in Nat, PowerOf2(p), p > 1
  PROVE  p \div 2 \in Nat /\ p = 2 * (p \div 2) /\ PowerOf2(p \div 2)
<1>1. \A d \in 2 .. p : p % d = 0 => d % 2 = 0
  BY DEF PowerOf2
<1>2. p % 2 = 0
  <2>1. p = 1 * p
    OBVIOUS
  <2>2. p % p = 0
    BY <2>1, MultipleIs
  <2>3. QED
    BY <1>1, <2>2
<1>3. PICK h \in Nat : p = 2 * h
  BY <1>2
<1>4. p \div 2 = h /\ h > 0
  BY <1>3
<1>5. ASSUME NEW d \in 2 .. h, h % d = 0 PROVE d % 2 = 0
  <2>1. d \in Nat \ {0} /\ d \in 2 .. p
    BY <1>3
  <2>2. PICK k \in Nat : h = k * d
    BY <1>5, <2>1, MultipleIs
  <2>3. 2 * (k * d) = (2 * k) * d /\ 2 * k \in Nat
    BY <2>1
  <2>4. p = (2 * k) * d
    BY <1>3, <2>2, <2>3
  <2>5. p % d = 0
    BY <2>1, <2>3, <2>4, MultipleIs
  <2>6. QED
    BY <1>1, <2>1, <2>5
<1>6. QED
  BY <1>3, <1>4, <1>5 DEF PowerOf2

\* Powers of two have no last one.
LEMMA PowersGoOn ==
  ASSUME NEW n \in Nat \ {0}
  PROVE  \E p \in Nat : p >= n /\ PowerOf2(p)
<1> DEFINE Bad == {m \in Nat : m > 0 /\ ~ \E p \in Nat : p >= m /\ PowerOf2(p)}
<1>1. Bad = {}
  <2> SUFFICES ASSUME Bad # {} PROVE FALSE
    OBVIOUS
  <2>1. Bad \subseteq Nat
    OBVIOUS
  <2>2. PICK m \in Bad : \A k \in Bad : m <= k
    <3> HIDE DEF Bad
    <3>1. QED
      BY <2>1, LeastNatural
  <2>3. m \in Nat /\ m > 0 /\ ~ \E p \in Nat : p >= m /\ PowerOf2(p)
    BY <2>2
  <2>4. m # 1
    BY <2>3, OneIsPower
  <2>5. m - 1 \in Nat /\ m - 1 > 0 /\ m - 1 \notin Bad
    <3> HIDE DEF Bad
    <3>1. QED
      BY <2>1, <2>2, <2>3, <2>4
  <2>6. PICK p \in Nat : p >= m - 1 /\ PowerOf2(p)
    BY <2>5
  <2>7. 2 * p \in Nat /\ 2 * p >= m
    BY <2>3, <2>5, <2>6
  <2>8. QED
    BY <2>3, <2>6, <2>7, DoublePower
<1>2. QED
  BY <1>1

\* What the rounding answers.
LEMMA NextPowerIs ==
  ASSUME NEW n \in Nat \ {0}
  PROVE  NextPowerOf2(n) \in Nat /\ NextPowerOf2(n) >= n /\ PowerOf2(NextPowerOf2(n))
<1> DEFINE T == {p \in Nat : p >= n /\ PowerOf2(p)}
<1>1. T \subseteq Nat /\ T # {}
  BY PowersGoOn
<1>2. PICK p \in T : \A q \in T : p <= q
  <2> HIDE DEF T
  <2>1. QED
    BY <1>1, LeastNatural
<1>3. p \in Nat /\ p >= n /\ PowerOf2(p)
  BY <1>2
<1>4. p <= 2 * n
  <2> SUFFICES ASSUME p > 2 * n PROVE FALSE
    BY <1>3
  <2>1. p \div 2 \in Nat /\ p = 2 * (p \div 2) /\ PowerOf2(p \div 2)
    BY <1>3, HalfPower
  <2>2. PICK h \in Nat : h = p \div 2
    BY <2>1
  <2>3. p = 2 * h /\ PowerOf2(h)
    BY <2>1, <2>2
  <2>4. h \in T /\ h < p
    BY <1>3, <2>3
  <2>5. QED
    BY <1>2, <1>3, <2>4
<1>5. \A q \in n .. p - 1 : ~PowerOf2(q)
  BY <1>2, <1>3
<1>6. p \in 1 .. 2 * n + 1
  BY <1>3, <1>4
<1> HIDE DEF T
<1> DEFINE Is(x) == x >= n /\ PowerOf2(x) /\ \A q \in n .. x - 1 : ~PowerOf2(q)
<1>7. NextPowerOf2(n) \in 1 .. 2 * n + 1 /\ Is(NextPowerOf2(n))
  <2>1. \E x \in 1 .. 2 * n + 1 : Is(x)
    BY <1>3, <1>5, <1>6
  <2>2. NextPowerOf2(n) = CHOOSE x \in 1 .. 2 * n + 1 : Is(x)
    BY DEF NextPowerOf2
  <2> HIDE DEF Is
  <2>3. QED
    BY <2>1, <2>2
<1>8. QED
  BY <1>7
-------------------------------------------------------------------------------
(* The books of a table.                                                      *)

\* The capacity and the load a table keeps to.
Loaded(n, c) == n > 0 => 4 * c <= MaxLoad * n /\ PowerOf2(n) /\ n >= DefaultCapacity

\* A table of n buckets, c entries and o character buffers of its own.
Books(b, n, c, o) ==
  /\ Sound(b, n)
  /\ IsFiniteSet(Entries(b)) /\ c = Cardinality(Entries(b)) /\ o = Freed(Entries(b))
  /\ Loaded(n, c)

TableInv == Books(buckets, Capacity(buckets), count, owned)

\* The buffers freed with a set of entries.
LEMMA FreedFacts ==
  ASSUME NEW E \in SUBSET EntryType, IsFiniteSet(E), NEW e \in EntryType
  PROVE  /\ Freed(E) \in Nat /\ Freed({}) = 0
         /\ Freed({e}) = IF e.clear THEN 1 ELSE 0
         /\ e \notin E => Freed(E \cup {e}) = Freed(E) + (IF e.clear THEN 1 ELSE 0)
         /\ e \in E => Freed(E \ {e}) = Freed(E) - Freed({e})
<1> DEFINE C(S) == {x \in S : x.clear}
<1>1. /\ \A S : Freed(S) = Cardinality(C(S))
      /\ C({}) = {} /\ C({e}) = (IF e.clear THEN {e} ELSE {})
      /\ C(E \cup {e}) = (IF e.clear THEN C(E) \cup {e} ELSE C(E))
      /\ C(E \ {e}) = (IF e.clear THEN C(E) \ {e} ELSE C(E \ {e}))
      /\ (~e.clear => C(E \ {e}) = C(E))
      /\ C(E) \subseteq E
  BY DEF Freed
<1>2. e \in E /\ e.clear => e \in C(E)
  OBVIOUS
<1> HIDE DEF C
<1>3. IsFiniteSet(C(E)) /\ Cardinality(C(E)) \in Nat
  BY <1>1, FS_Subset, FS_CardinalityType
<1>4. Cardinality({}) = 0 /\ Cardinality({e}) = 1
  BY FS_EmptySet, FS_Singleton
<1>5. Freed({e}) = IF e.clear THEN 1 ELSE 0
  BY <1>1, <1>4
<1>6. e \notin E => Freed(E \cup {e}) = Freed(E) + (IF e.clear THEN 1 ELSE 0)
  <2>1. e \notin C(E) => Cardinality(C(E) \cup {e}) = Cardinality(C(E)) + 1
    BY <1>3, FS_AddElement
  <2>2. QED
    BY <1>1, <1>3, <2>1
<1>7. e \in E => Freed(E \ {e}) = Freed(E) - Freed({e})
  <2>1. e \in C(E) => Cardinality(C(E) \ {e}) = Cardinality(C(E)) - 1
    BY <1>3, FS_RemoveElement
  <2>2. QED
    BY <1>1, <1>2, <1>3, <1>5, <2>1
<1>8. QED
  BY <1>1, <1>3, <1>4, <1>5, <1>6, <1>7

\* The entries of a sound table are entries, one of a key.
LEMMA SoundFacts ==
  ASSUME NEW n, NEW b, Sound(b, n)
  PROVE  /\ n \in Nat /\ Capacity(b) = n /\ DOMAIN b = 0 .. n - 1
         /\ Entries(b) \subseteq EntryType /\ KeysIn(b) \subseteq Keys
         /\ \A x, y \in Entries(b) : x.key = y.key => x = y
<1>1. n \in Nat /\ b \in TableOf(n)
  BY DEF Sound
<1>2. Capacity(b) = n /\ DOMAIN b = 0 .. n - 1 /\ Entries(b) \subseteq EntryType
  BY <1>1, CapacityIs, EntriesAre
<1>3. \A x \in Entries(b) : x.key \in Keys
  BY <1>2 DEF EntryType
<1>4. \A x, y \in Entries(b) : x.key = y.key => x = y
  <2>1. ASSUME NEW x \in Entries(b), NEW y \in Entries(b), x.key = y.key PROVE x = y
    <3>1. PICK k \in Keys : k = x.key
      BY <1>3
    <3>2. Entry(b, k) = x /\ Entry(b, k) = y
      BY <1>1, <2>1, <3>1, SearchFinds
    <3>3. QED
      BY <3>2
  <2>2. QED
    BY <2>1
<1>5. QED
  BY <1>1, <1>2, <1>3, <1>4 DEF KeysIn

\* Growing makes room for one more entry.
LEMMA GrownKeeps ==
  ASSUME NEW n \in Nat, n > 0, NEW b, NEW c, NEW o, Books(b, n, c, o)
  PROVE  \E m \in Nat : /\ m > 0 /\ Sound(Grown(b, c), m) /\ Capacity(Grown(b, c)) = m
                        /\ Loaded(m, c + 1) /\ (m = n => Grown(b, c) = b)
                        /\ Entries(Grown(b, c)) = Entries(b)
                        /\ KeysIn(Grown(b, c)) = KeysIn(b)
<1>1. /\ Sound(b, n) /\ c \in Nat /\ Capacity(b) = n
      /\ 4 * c <= MaxLoad * n /\ PowerOf2(n) /\ n >= DefaultCapacity
  BY SoundFacts, FS_CardinalityType DEF Books, Loaded
<1>2. MaxLoad \in Nat /\ DefaultCapacity \in Nat /\ DefaultCapacity * MaxLoad >= 4
  BY HashAssumption
<1>3. n * MaxLoad = MaxLoad * n /\ MaxLoad * n \in Nat
  BY <1>2
<1>4. CASE c + 1 > (n * MaxLoad) \div 4
  <2>1. 2 * n \in Nat /\ 2 * n > 0 /\ Grown(b, c) = Resize(b, 2 * n)
    BY <1>1, <1>4 DEF Grown
  <2>2. PICK m \in Nat : m = 2 * n
    BY <2>1
  <2>3. /\ Sound(Resize(b, m), m) /\ Entries(Resize(b, m)) = Entries(b)
        /\ KeysIn(Resize(b, m)) = KeysIn(b) /\ m > 0
    BY <1>1, <2>1, <2>2, ResizeKeeps
  <2>4. PowerOf2(m) /\ m >= DefaultCapacity
    BY <1>1, <1>2, <2>2, DoublePower
  <2>5. 4 * (c + 1) <= MaxLoad * m
    <3>1. DefaultCapacity * MaxLoad <= n * MaxLoad
      BY <1>1, <1>2
    <3>2. 4 <= MaxLoad * n
      BY <1>2, <1>3, <3>1
    <3>3. MaxLoad * m = 2 * (MaxLoad * n)
      BY <1>2, <2>2
    <3>4. QED
      BY <1>1, <1>3, <3>2, <3>3
  <2>6. Capacity(Resize(b, m)) = m
    BY <2>3, SoundFacts
  <2>7. QED
    BY <2>1, <2>2, <2>3, <2>4, <2>5, <2>6 DEF Loaded
<1>5. CASE ~(c + 1 > (n * MaxLoad) \div 4)
  <2>1. Grown(b, c) = b
    BY <1>1, <1>5 DEF Grown
  <2>2. 4 * (c + 1) <= MaxLoad * n
    <3>1. PICK x \in Nat : x = n * MaxLoad
      BY <1>3
    <3>2. 4 * (x \div 4) <= x /\ x \div 4 \in Nat
      OBVIOUS
    <3>3. c + 1 <= x \div 4
      BY <1>1, <1>5, <3>1, <3>2
    <3>4. QED
      BY <1>1, <1>3, <3>1, <3>2, <3>3
  <2>3. QED
    BY <1>1, <2>1, <2>2 DEF Loaded
<1>6. QED
  BY <1>4, <1>5

\* Shrinking does not overload the table.
LEMMA ShrunkKeeps ==
  ASSUME NEW n \in Nat, n > 0, NEW b, Sound(b, n), NEW c \in Nat, Loaded(n, c)
  PROVE  \E m \in Nat : /\ m > 0 /\ Sound(Shrunk(b, c), m) /\ Capacity(Shrunk(b, c)) = m
                        /\ Loaded(m, c)
                        /\ Entries(Shrunk(b, c)) = Entries(b)
                        /\ KeysIn(Shrunk(b, c)) = KeysIn(b)
<1>1. Capacity(b) = n /\ 4 * c <= MaxLoad * n /\ PowerOf2(n) /\ n >= DefaultCapacity
  BY SoundFacts DEF Loaded
<1>2. /\ MaxLoad \in Nat /\ MinLoad \in Nat /\ DefaultCapacity \in Nat \ {0}
      /\ 2 * MinLoad <= MaxLoad
  BY HashAssumption
<1>3. CASE c < (n * MinLoad) \div 4 /\ n \div 2 >= DefaultCapacity
  <2>1. n > 1
    BY <1>2, <1>3
  <2>2. n \div 2 \in Nat /\ n = 2 * (n \div 2) /\ PowerOf2(n \div 2)
    BY <1>1, <2>1, HalfPower
  <2>3. PICK m \in Nat : m = n \div 2
    BY <2>2
  <2>4. m > 0 /\ m >= DefaultCapacity /\ PowerOf2(m) /\ n = 2 * m
    BY <1>2, <1>3, <2>2, <2>3
  <2>5. Shrunk(b, c) = Resize(b, m)
    BY <1>1, <1>3, <2>3 DEF Shrunk
  <2>6. /\ Sound(Resize(b, m), m) /\ Entries(Resize(b, m)) = Entries(b)
        /\ KeysIn(Resize(b, m)) = KeysIn(b)
    BY <2>4, ResizeKeeps
  <2>7. 4 * c <= MaxLoad * m
    <3>1. n * MinLoad = m * (2 * MinLoad) /\ m * (2 * MinLoad) <= m * MaxLoad
      BY <1>2, <2>4
    <3>2. m * MaxLoad = MaxLoad * m /\ m * MaxLoad \in Nat /\ n * MinLoad \in Nat
      BY <1>2
    <3>3. PICK x \in Nat : x = n * MinLoad
      BY <3>2
    <3>4. 4 * (x \div 4) <= x /\ x \div 4 \in Nat
      OBVIOUS
    <3>5. c < x \div 4
      BY <1>3, <3>3
    <3>6. QED
      BY <3>1, <3>2, <3>3, <3>4, <3>5
  <2>8. Capacity(Resize(b, m)) = m
    BY <2>6, SoundFacts
  <2>9. QED
    BY <2>4, <2>5, <2>6, <2>7, <2>8 DEF Loaded
<1>4. CASE ~(c < (n * MinLoad) \div 4 /\ n \div 2 >= DefaultCapacity)
  <2>1. Shrunk(b, c) = b
    BY <1>1, <1>4 DEF Shrunk
  <2>2. QED
    BY <1>1, <2>1
<1>5. QED
  BY <1>3, <1>4
\* A write leaves one entry of its key.
LEMMA WrittenKeeps ==
  ASSUME NEW n \in Nat, n > 0, NEW b, Sound(b, n), NEW e \in EntryType
  PROVE  /\ Sound(Written(b, e), n)
         /\ Entries(Written(b, e)) = {x \in Entries(b) : x.key # e.key} \cup {e}
         /\ KeysIn(Written(b, e)) = KeysIn(b) \cup {e.key}
         /\ Found(b, e.key) =>
              \A m \in 0 .. n - 1 :
                /\ DOMAIN Written(b, e)[m] = DOMAIN b[m]
                /\ \A j \in DOMAIN b[m] : Written(b, e)[m][j].key = b[m][j].key
<1> DEFINE i == BucketIndex(e.key, n)
           p == Position(b, e.key)
<1>1. e.key \in Keys
  BY DEF EntryType
<1>2. Capacity(b) = n
  BY SoundFacts
<1>3. CASE Found(b, e.key)
  <2>1. /\ i \in 0 .. n - 1 /\ p \in DOMAIN b[i]
        /\ b[i][p].key = e.key /\ b[i][p] \in Entries(b)
        /\ \A x \in Entries(b) : x.key = e.key => x = b[i][p]
    BY <1>1, <1>3, SearchFinds
  <2> HIDE DEF i, p
  <2> DEFINE t == SwapAt(b, i, p, e)
  <2>2. Written(b, e) = t
    BY <1>2, <1>3 DEF Written, SwapAt, i, p
  <2>3. /\ Sound(t, n) /\ Entries(t) = (Entries(b) \ {b[i][p]}) \cup {e}
        /\ KeysIn(t) = KeysIn(b)
        /\ \A m \in 0 .. n - 1 : DOMAIN t[m] = DOMAIN b[m]
                                /\ \A j \in DOMAIN b[m] : t[m][j].key = b[m][j].key
    BY <2>1, ReplaceSwaps
  <2> HIDE DEF t
  <2>4. e.key \in KeysIn(b)
    BY <1>1, <1>3, SearchFinds
  <2>5. Entries(b) \ {b[i][p]} = {x \in Entries(b) : x.key # e.key}
    BY <2>1
  <2>6. QED
    BY <2>2, <2>3, <2>4, <2>5
<1>4. CASE ~Found(b, e.key)
  <2>1. e.key \notin KeysIn(b)
    BY <1>1, <1>4, SearchFinds
  <2>2. Written(b, e) = Push(b, i, e)
    BY <1>2, <1>4 DEF Written
  <2>3. /\ Sound(Push(b, i, e), n) /\ Entries(Push(b, i, e)) = Entries(b) \cup {e}
        /\ KeysIn(Push(b, i, e)) = KeysIn(b) \cup {e.key}
    BY <2>1, PushAdds
  <2>4. {x \in Entries(b) : x.key # e.key} = Entries(b)
    BY <2>1 DEF KeysIn
  <2>5. QED
    BY <1>4, <2>2, <2>3, <2>4
<1>5. QED
  BY <1>3, <1>4

\* A removal leaves every other entry.
LEMMA UnlinkedKeeps ==
  ASSUME NEW n \in Nat, NEW b, Sound(b, n), NEW k \in Keys, Found(b, k)
  PROVE  /\ Sound(Unlinked(b, k), n)
         /\ Entries(Unlinked(b, k)) = Entries(b) \ {Entry(b, k)}
         /\ KeysIn(Unlinked(b, k)) = KeysIn(b) \ {k}
<1> DEFINE i == BucketIndex(k, n)
           p == Position(b, k)
<1>1. Capacity(b) = n
  BY SoundFacts
<1>2. i \in 0 .. n - 1 /\ p \in DOMAIN b[i] /\ Entry(b, k) = b[i][p] /\ b[i][p].key = k
  BY SearchFinds
<1> HIDE DEF i, p
<1> DEFINE t == TakeAt(b, i, p)
<1>3. Unlinked(b, k) = t
  BY <1>1 DEF Unlinked, TakeAt, i, p
<1>4. /\ Sound(t, n) /\ Entries(t) = Entries(b) \ {b[i][p]}
      /\ KeysIn(t) = KeysIn(b) \ {b[i][p].key}
  BY <1>2, RemoveTakes
<1> HIDE DEF t
<1>5. QED
  BY <1>2, <1>3, <1>4

\* The books after a write.
LEMMA SetKeepsBooks ==
  ASSUME NEW n \in Nat, n > 0, NEW b, NEW c, NEW o, Books(b, n, c, o), NEW e \in EntryType
  PROVE  LET g == Grown(b, c)
             t == Written(g, e)
             found == Found(g, e.key)
         IN  Books(t, Capacity(t), IF found THEN c ELSE c + 1,
                   IF found THEN o - Freed({Entry(g, e.key)}) + (IF e.clear THEN 1 ELSE 0)
                            ELSE o + (IF e.clear THEN 1 ELSE 0))
<1> DEFINE g == Grown(b, c)
           t == Written(g, e)
           k == e.key
           E == Entries(b)
           x == Entry(g, k)
           more == IF e.clear THEN 1 ELSE 0
<1>1. PICK m \in Nat : /\ m > 0 /\ Sound(g, m) /\ Capacity(g) = m /\ Loaded(m, c + 1)
                       /\ Entries(g) = E
  BY GrownKeeps
<1>2. /\ E \subseteq EntryType /\ IsFiniteSet(E) /\ c = Cardinality(E) /\ o = Freed(E)
      /\ c \in Nat /\ o \in Nat
  <2>1. Sound(b, n) /\ IsFiniteSet(E) /\ c = Cardinality(E) /\ o = Freed(E)
    BY DEF Books
  <2>2. E \subseteq EntryType
    BY <2>1, SoundFacts
  <2>3. Freed(E) \in Nat
    BY <2>1, <2>2, FreedFacts
  <2>4. QED
    BY <2>1, <2>2, <2>3, FS_CardinalityType
<1>3. /\ Sound(t, m) /\ Entries(t) = {y \in E : y.key # k} \cup {e}
  BY <1>1, WrittenKeeps
<1>4. Capacity(t) = m
  BY <1>3, SoundFacts
<1>5. k \in Keys /\ \A y, z \in E : y.key = z.key => y = z
  <2>1. k \in Keys
    BY DEF EntryType
  <2>2. QED
    BY <1>1, <2>1, SoundFacts
<1>6. /\ Found(g, k) => x \in E /\ x.key = k
      /\ ~Found(g, k) => \A y \in E : y.key # k
  <2>1. Found(g, k) => Entry(g, k).key = k /\ Entry(g, k) \in Entries(g)
    BY <1>1, <1>5, SearchFinds
  <2>2. Found(g, k) <=> k \in KeysIn(g)
    BY <1>1, <1>5, SearchFinds
  <2>3. QED
    BY <1>1, <2>1, <2>2 DEF KeysIn
<1>7. c + 1 \in Nat /\ (Loaded(m, c + 1) => Loaded(m, c))
  <2>1. MaxLoad * m \in Nat
    BY HashAssumption
  <2>2. QED
    BY <1>2, <2>1 DEF Loaded
<1> HIDE DEF E, x, k, t, g
<1>8. CASE Found(g, k)
  <2> DEFINE R == E \ {x}
  <2>1. Entries(t) = R \cup {e} /\ e \notin R /\ x \in E
    BY <1>3, <1>5, <1>6, <1>8 DEF k
  <2>2. IsFiniteSet(R) /\ Cardinality(R) = c - 1 /\ R \in SUBSET EntryType
    BY <1>2, <2>1, FS_RemoveElement
  <2>3. Freed(R) = o - Freed({x})
    BY <1>2, <2>1, FreedFacts
  <2> HIDE DEF R
  <2>4. IsFiniteSet(Entries(t)) /\ Cardinality(Entries(t)) = c
    BY <1>2, <2>1, <2>2, FS_AddElement
  <2>5. Freed(Entries(t)) = Freed(R) + more
    BY <2>1, <2>2, FreedFacts
  <2>6. Books(t, m, c, o - Freed({x}) + more)
    BY <1>1, <1>3, <1>7, <2>3, <2>4, <2>5 DEF Books
  <2>7. QED
    BY <1>4, <1>8, <2>6 DEF x, k, t, g
<1>9. CASE ~Found(g, k)
  <2>1. Entries(t) = E \cup {e} /\ e \notin E
    BY <1>3, <1>6, <1>9 DEF k
  <2>2. IsFiniteSet(Entries(t)) /\ Cardinality(Entries(t)) = c + 1
    BY <1>2, <2>1, FS_AddElement
  <2>3. Freed(Entries(t)) = o + more
    BY <1>2, <2>1, FreedFacts
  <2>4. Books(t, m, c + 1, o + more)
    BY <1>1, <1>3, <2>2, <2>3 DEF Books
  <2>5. QED
    BY <1>4, <1>9, <2>4 DEF k, t, g
<1>10. QED
  BY <1>8, <1>9

\* A load that is lower is no problem.
LEMMA LoadedLess ==
  ASSUME NEW n \in Nat, NEW c \in Nat, NEW d \in Nat, d <= c, Loaded(n, c)
  PROVE  Loaded(n, d)
<1>1. MaxLoad * n \in Nat
  BY HashAssumption
<1>2. QED
  BY <1>1 DEF Loaded

\* The books after a removal.
LEMMA DeleteKeepsBooks ==
  ASSUME NEW n \in Nat, NEW b, NEW c, NEW o, Books(b, n, c, o), NEW k \in Keys, Found(b, k)
  PROVE  LET t == Shrunk(Unlinked(b, k), c - 1)
         IN  Books(t, Capacity(t), c - 1, o - Freed({Entry(b, k)}))
<1> DEFINE u == Unlinked(b, k)
           t == Shrunk(u, c - 1)
           E == Entries(b)
           x == Entry(b, k)
<1>1. Sound(b, n) /\ IsFiniteSet(E) /\ c = Cardinality(E) /\ o = Freed(E) /\ Loaded(n, c)
  BY DEF Books
<1>2. Sound(u, n) /\ Entries(u) = E \ {x}
  BY <1>1, UnlinkedKeeps
<1>3. n > 0 /\ x \in E /\ E \subseteq EntryType
  BY <1>1, SearchFinds, SoundFacts
<1>4. /\ IsFiniteSet(E \ {x}) /\ Cardinality(E \ {x}) = c - 1
      /\ c - 1 \in Nat /\ c \in Nat
  <2>1. IsFiniteSet(E \ {x}) /\ Cardinality(E \ {x}) = Cardinality(E) - 1
    BY <1>1, <1>3, FS_RemoveElement
  <2>2. Cardinality(E) \in Nat /\ Cardinality(E \ {x}) \in Nat
    BY <1>1, <2>1, FS_CardinalityType
  <2>3. QED
    BY <1>1, <2>1, <2>2
<1>5. Freed(E \ {x}) = o - Freed({x})
  BY <1>1, <1>3, FreedFacts
<1>6. Loaded(n, c - 1)
  BY <1>1, <1>4, LoadedLess
<1> HIDE DEF u, x, E
<1>7. PICK m \in Nat : /\ m > 0 /\ Sound(t, m) /\ Capacity(t) = m /\ Loaded(m, c - 1)
                       /\ Entries(t) = Entries(u)
  BY <1>2, <1>3, <1>4, <1>6, ShrunkKeeps
<1> HIDE DEF t
<1>8. Books(t, m, c - 1, o - Freed({x}))
  BY <1>2, <1>4, <1>5, <1>7 DEF Books
<1>9. QED
  BY <1>7, <1>8 DEF t, u, x

\* The books of a table without entries.
LEMMA EmptyKeepsBooks ==
  ASSUME NEW n \in Nat, n > 0 => PowerOf2(n) /\ n >= DefaultCapacity
  PROVE  Books(Empty(n), Capacity(Empty(n)), 0, 0)
<1>1. Sound(Empty(n), n) /\ Entries(Empty(n)) = {} /\ Capacity(Empty(n)) = n
  BY EmptyHolds
<1>2. IsFiniteSet({}) /\ Cardinality({}) = 0
  BY FS_EmptySet
<1>3. Freed({}) = 0
  BY <1>2 DEF Freed
<1>4. MaxLoad * n \in Nat
  BY HashAssumption
<1>5. Loaded(n, 0)
  BY <1>4 DEF Loaded
<1>6. QED
  BY <1>1, <1>2, <1>3, <1>5 DEF Books
-------------------------------------------------------------------------------
(* Iterations.                                                                *)

\* The keys of the buckets before i and of the first p entries of bucket i.
KeysBefore(b, n, i) == {k \in KeysIn(b) : BucketIndex(k, n) < i}
KeysUpTo(b, n, i, p) == KeysBefore(b, n, i) \cup {b[i][j].key : j \in 1 .. p}

\* A sequence without repetition of the keys of a set.
Lists(s, S) ==
  /\ s \in Seq(Keys) /\ ToSet(s) = S
  /\ \A x, y \in DOMAIN s : s[x] = s[y] => x = y

\* An iterator that has answered what lies behind it.
Swept(b, n, it, s) ==
  IF it.current = NULL THEN it.bucketIndex = 0 /\ s = <<>>
  ELSE \E i \in 0 .. n - 1 : \E p \in DOMAIN b[i] :
         /\ it.bucketIndex = i + 1 /\ b[i][p].key = it.current
         /\ Lists(s, KeysUpTo(b, n, i, p))

IterInv ==
  /\ iter = NULL => ~steady
  /\ iter # NULL /\ steady => Swept(buckets, Capacity(buckets), iter, visited)
\* One more key at the end.
LEMMA ListsAppend ==
  ASSUME NEW S, NEW s, Lists(s, S), NEW k \in Keys, k \notin S
  PROVE  Lists(Append(s, k), S \cup {k})
<1>1. s \in Seq(Keys) /\ ToSet(s) = S /\ \A x, y \in DOMAIN s : s[x] = s[y] => x = y
  BY DEF Lists
<1>2. Append(s, k) \in Seq(Keys) /\ ToSet(Append(s, k)) = ToSet(s) \cup {k}
  BY <1>1, AppendFacts
<1>3. \A x, y \in DOMAIN Append(s, k) : Append(s, k)[x] = Append(s, k)[y] => x = y
  BY <1>1, AppendDistinct
<1>4. QED
  BY <1>1, <1>2, <1>3 DEF Lists

\* Keys by bucket.
LEMMA KeysOfChain ==
  ASSUME NEW n, NEW b, Sound(b, n)
  PROVE  /\ \A k \in KeysIn(b) : BucketIndex(k, n) \in 0 .. n - 1
         /\ \A i \in 0 .. n - 1 :
              /\ b[i] \in Seq(EntryType)
              /\ \A j \in DOMAIN b[i] : /\ b[i][j].key \in KeysIn(b) /\ b[i][j].key \in Keys
                                        /\ BucketIndex(b[i][j].key, n) = i
              /\ \A k \in KeysIn(b) : BucketIndex(k, n) = i =>
                                        \E j \in DOMAIN b[i] : b[i][j].key = k
<1>1. n \in Nat /\ DOMAIN b = 0 .. n - 1 /\ KeysIn(b) \subseteq Keys /\ b \in TableOf(n)
  BY SoundFacts DEF Sound
<1>2. /\ \A e : e \in Entries(b) <=> \E i \in 0 .. n - 1 : \E j \in DOMAIN b[i] : e = b[i][j]
      /\ \A k : k \in KeysIn(b) <=> \E e \in Entries(b) : e.key = k
  BY <1>1, EntriesAre
<1>3. \A i \in 0 .. n - 1 : \A j \in DOMAIN b[i] : BucketIndex(b[i][j].key, n) = i
  BY <1>1 DEF Sound, Placed
<1>4. \A i \in 0 .. n - 1 : b[i] \in Seq(EntryType)
  BY <1>1 DEF TableOf
<1>5. \A k \in KeysIn(b) : \E i \in 0 .. n - 1 : \E j \in DOMAIN b[i] :
        b[i][j].key = k /\ BucketIndex(k, n) = i
  BY <1>2, <1>3
<1>6. \A i \in 0 .. n - 1 : \A j \in DOMAIN b[i] : b[i][j].key \in KeysIn(b)
  BY <1>2
<1>7. \A i \in 0 .. n - 1 : \A k \in KeysIn(b) :
        BucketIndex(k, n) = i => \E j \in DOMAIN b[i] : b[i][j].key = k
  BY <1>5
<1>8. QED
  BY <1>1, <1>3, <1>4, <1>5, <1>6, <1>7

\* The sweep moves along a chain, over the end of one, and over empty buckets.
LEMMA SweepMoves ==
  ASSUME NEW n, NEW b, Sound(b, n)
  PROVE  /\ \A i \in 0 .. n - 1 : \A p \in Nat : p + 1 \in DOMAIN b[i] =>
              /\ KeysUpTo(b, n, i, p + 1) = KeysUpTo(b, n, i, p) \cup {b[i][p + 1].key}
              /\ b[i][p + 1].key \notin KeysUpTo(b, n, i, p)
         /\ \A i \in 0 .. n - 1 : KeysUpTo(b, n, i, Len(b[i])) = KeysBefore(b, n, i + 1)
         /\ \A i, m \in 0 .. n : i <= m /\ (\A l \in i .. m - 1 : b[l] = <<>>) =>
              KeysBefore(b, n, i) = KeysBefore(b, n, m)
         /\ KeysBefore(b, n, 0) = {} /\ KeysBefore(b, n, n) = KeysIn(b)
<1>1. /\ n \in Nat /\ DOMAIN b = 0 .. n - 1
      /\ \A i \in 0 .. n - 1 : b[i] \in Seq(EntryType) /\ Apart(b[i])
  BY SoundFacts, KeysOfChain DEF Sound
<1>2. \A k \in KeysIn(b) : BucketIndex(k, n) \in 0 .. n - 1
  BY KeysOfChain
<1>3. \A i \in 0 .. n - 1 :
        /\ \A j \in DOMAIN b[i] : b[i][j].key \in KeysIn(b) /\ BucketIndex(b[i][j].key, n) = i
        /\ \A k \in KeysIn(b) : BucketIndex(k, n) = i => \E j \in DOMAIN b[i] : b[i][j].key = k
  BY KeysOfChain
<1>4. ASSUME NEW i \in 0 .. n - 1, NEW p \in Nat, p + 1 \in DOMAIN b[i]
      PROVE  /\ KeysUpTo(b, n, i, p + 1) = KeysUpTo(b, n, i, p) \cup {b[i][p + 1].key}
             /\ b[i][p + 1].key \notin KeysUpTo(b, n, i, p)
  <2>1. \A j : j \in 1 .. p + 1 <=> j \in 1 .. p \/ j = p + 1
    OBVIOUS
  <2>2. KeysUpTo(b, n, i, p + 1) = KeysUpTo(b, n, i, p) \cup {b[i][p + 1].key}
    BY <2>1 DEF KeysUpTo
  <2>3. ASSUME NEW j \in 1 .. p PROVE b[i][j].key # b[i][p + 1].key
    <3>1. j \in DOMAIN b[i] /\ j # p + 1
      BY <1>1, <1>4
    <3>2. QED
      BY <1>1, <1>4, <3>1 DEF Apart
  <2>4. b[i][p + 1].key \notin KeysBefore(b, n, i)
    <3>1. BucketIndex(b[i][p + 1].key, n) = i
      BY <1>3, <1>4
    <3>2. QED
      BY <1>1, <3>1 DEF KeysBefore
  <2>5. QED
    BY <2>2, <2>3, <2>4 DEF KeysUpTo
<1>5. ASSUME NEW i \in 0 .. n - 1
      PROVE  KeysUpTo(b, n, i, Len(b[i])) = KeysBefore(b, n, i + 1)
  <2>1. 1 .. Len(b[i]) = DOMAIN b[i]
    BY <1>1
  <2>2. \A k \in KeysIn(b) : BucketIndex(k, n) < i + 1 <=> BucketIndex(k, n) < i \/ BucketIndex(k, n) = i
    BY <1>2
  <2>3. {b[i][j].key : j \in DOMAIN b[i]} = {k \in KeysIn(b) : BucketIndex(k, n) = i}
    BY <1>3
  <2>4. QED
    BY <2>1, <2>2, <2>3 DEF KeysUpTo, KeysBefore
<1>6. ASSUME NEW i \in 0 .. n, NEW m \in 0 .. n, i <= m, \A l \in i .. m - 1 : b[l] = <<>>
      PROVE  KeysBefore(b, n, i) = KeysBefore(b, n, m)
  <2>1. ASSUME NEW k \in KeysIn(b) PROVE BucketIndex(k, n) < i <=> BucketIndex(k, n) < m
    <3>1. PICK l \in 0 .. n - 1 : l = BucketIndex(k, n)
      BY <1>2
    <3>2. PICK j \in DOMAIN b[l] : TRUE
      BY <1>3, <3>1
    <3>3. l \notin i .. m - 1
      BY <1>6, <3>2
    <3>4. QED
      BY <1>1, <1>6, <3>1, <3>3
  <2>2. QED
    BY <2>1 DEF KeysBefore
<1>7. KeysBefore(b, n, 0) = {} /\ KeysBefore(b, n, n) = KeysIn(b)
  BY <1>2, <1>1 DEF KeysBefore
<1>8. QED
  BY <1>4, <1>5, <1>6, <1>7
\* A list without repetition is as long as its set is large.
LEMMA ListsLength ==
  ASSUME NEW S, NEW s, Lists(s, S)
  PROVE  Len(s) = Cardinality(S)
<1>1. s \in Seq(Keys) /\ ToSet(s) = S /\ \A x, y \in DOMAIN s : s[x] = s[y] => x = y
  BY DEF Lists
<1>2. s \in Bijection(1 .. Len(s), ToSet(s))
  <2>1. s \in [1 .. Len(s) -> ToSet(s)] /\ IsInjective(s)
    BY <1>1 DEF ToSet, IsInjective
  <2>2. \A t \in ToSet(s) : \E k \in 1 .. Len(s) : s[k] = t
    BY <1>1 DEF ToSet
  <2>3. QED
    BY <2>1, <2>2 DEF Bijection, Injection, Surjection
<1>3. ExistsBijection(1 .. Len(s), ToSet(s)) /\ Len(s) \in Nat
  BY <1>1, <1>2 DEF ExistsBijection
<1>4. QED
  BY <1>1, <1>3, FS_CountingElements

\* Where the next answer of an iterator comes from.
LEMMA IterStep ==
  ASSUME NEW n, Sound(buckets, n), iter # NULL, Swept(buckets, n, iter, visited)
  PROVE  LET k == NextInChain(iter.current)
             rest == NonEmptyFrom(iter.bucketIndex)
             m == Min(rest)
             h == Head(buckets[m]).key
         IN  /\ k # NULL => Swept(buckets, n, [bucketIndex |-> iter.bucketIndex, current |-> k],
                                  Append(visited, k))
             /\ k = NULL /\ rest # {} =>
                  Swept(buckets, n, [bucketIndex |-> m + 1, current |-> h], Append(visited, h))
             /\ k = NULL /\ rest = {} => Lists(visited, KeysIn(buckets))
             /\ k \in Keys \cup {NULL}
             /\ rest # {} => m \in Nat /\ h \in Keys
<1> DEFINE b == buckets
           k == NextInChain(iter.current)
           q == iter.bucketIndex
           rest == NonEmptyFrom(q)
           m == Min(rest)
           h == Head(b[m]).key
<1>1. n \in Nat /\ DOMAIN b = 0 .. n - 1 /\ Capacity(b) = n
  BY SoundFacts
<1>2. \A i \in 0 .. n - 1 :
        /\ b[i] \in Seq(EntryType) /\ Apart(b[i])
        /\ \A j \in DOMAIN b[i] : /\ b[i][j].key \in KeysIn(b) /\ b[i][j].key \in Keys
                                  /\ BucketIndex(b[i][j].key, n) = i
  BY <1>1, KeysOfChain DEF Sound
<1>3. q \in 0 .. n /\ (k = NULL => Lists(visited, KeysBefore(b, n, q)))
      /\ k \in Keys \cup {NULL}
      /\ (k # NULL => Swept(b, n, [bucketIndex |-> q, current |-> k], Append(visited, k)))
  <2>1. CASE iter.current = NULL
    <3>1. k = NULL /\ q = 0 /\ visited = <<>>
      BY <2>1 DEF NextInChain, Swept
    <3>2. KeysBefore(b, n, 0) = {}
      BY SweepMoves
    <3>3. Lists(<<>>, {})
      BY DEF Lists, ToSet
    <3> HIDE DEF b, k, q
    <3>4. q \in 0 .. n
      BY <1>1, <3>1
    <3>5. Lists(visited, KeysBefore(b, n, q))
      BY ONLY <3>1, <3>2, <3>3
    <3>6. QED
      BY ONLY <3>1, <3>4, <3>5
  <2>2. CASE iter.current # NULL
    <3> DEFINE cur == iter.current
    <3>1. PICK i \in 0 .. n - 1 : \E p \in DOMAIN b[i] :
            q = i + 1 /\ b[i][p].key = cur /\ Lists(visited, KeysUpTo(b, n, i, p))
      BY <2>2 DEF Swept
    <3> PICK p \in DOMAIN b[i] :
            q = i + 1 /\ b[i][p].key = cur /\ Lists(visited, KeysUpTo(b, n, i, p))
      BY <3>1
    <3>2. /\ cur \in Keys /\ cur \in KeysIn(b) /\ BucketIndex(cur, n) = i
          /\ b[i] \in Seq(EntryType) /\ Apart(b[i])
      BY <1>2, <3>1
    <3>3. Found(b, cur) /\ ChainOf(b, cur) = b[i]
          /\ Position(b, cur) \in DOMAIN b[i] /\ b[i][Position(b, cur)].key = cur
      <4> HIDE DEF cur
      <4>1. /\ Found(b, cur) <=> cur \in KeysIn(b)
            /\ Found(b, cur) => /\ ChainOf(b, cur) = b[BucketIndex(cur, n)]
                               /\ Position(b, cur) \in DOMAIN b[BucketIndex(cur, n)]
                               /\ Entry(b, cur) = b[BucketIndex(cur, n)][Position(b, cur)]
                               /\ Entry(b, cur).key = cur
        BY <1>1, <3>2, SearchFinds
      <4>2. QED
        BY ONLY <3>2, <4>1
    <3>4. Position(b, cur) = p
      BY <3>1, <3>2, <3>3 DEF Apart
    <3>5. k = IF p = Len(b[i]) THEN NULL ELSE b[i][p + 1].key
      BY <2>2, <3>3, <3>4 DEF NextInChain
    <3>6. p \in Nat /\ Len(b[i]) \in Nat /\ (p # Len(b[i]) => p + 1 \in DOMAIN b[i])
      BY <3>2
    <3> HIDE DEF b, k, q, cur
    <3>7. CASE p = Len(b[i])
      <4>1. KeysUpTo(b, n, i, p) = KeysBefore(b, n, i + 1)
        BY <3>7, SweepMoves DEF b
      <4>2. k = NULL /\ q = i + 1
        BY <3>1, <3>5, <3>7
      <4>3. QED
        BY <1>1, <3>1, <4>1, <4>2
    <3>8. CASE p # Len(b[i])
      <4> DEFINE new == b[i][p + 1].key
      <4>1. p + 1 \in DOMAIN b[i] /\ new \in Keys /\ new # NULL /\ k = new
        BY <1>2, <3>5, <3>6, <3>8, HashAssumption
      <4>2. /\ KeysUpTo(b, n, i, p + 1) = KeysUpTo(b, n, i, p) \cup {new}
            /\ new \notin KeysUpTo(b, n, i, p)
        BY <3>6, <4>1, SweepMoves DEF b
      <4>3. Lists(Append(visited, new), KeysUpTo(b, n, i, p + 1))
        BY <3>1, <4>1, <4>2, ListsAppend
      <4>4. Swept(b, n, [bucketIndex |-> q, current |-> new], Append(visited, new))
        BY <3>1, <4>1, <4>3 DEF Swept
      <4>5. q \in 0 .. n
        BY <1>1, <3>1
      <4>6. QED
        BY <4>1, <4>4, <4>5
    <3>9. QED
      BY <3>7, <3>8
  <2>3. QED
    BY <2>1, <2>2
<1>4. \A l : l \in rest <=> l \in 0 .. n - 1 /\ l >= q /\ b[l] # <<>>
  BY <1>1 DEF NonEmptyFrom
<1> HIDE DEF b, q, k, rest
<1>5. ASSUME rest # {}
      PROVE  /\ m \in 0 .. n - 1 /\ m >= q /\ b[m] # <<>> /\ \A l \in q .. m - 1 : b[l] = <<>>
             /\ 1 \in DOMAIN b[m] /\ b[m][1].key = h
  <2>1. rest \subseteq Nat
    BY <1>1, <1>4
  <2>2. PICK x \in rest : \A y \in rest : x <= y
    BY <1>5, <2>1, LeastNatural
  <2>3. m \in rest /\ \A y \in rest : m <= y
    BY <2>2 DEF Min
  <2> HIDE DEF m
  <2>4. m \in 0 .. n - 1 /\ m >= q /\ b[m] # <<>>
    BY <1>4, <2>3
  <2>5. ASSUME NEW l \in q .. m - 1 PROVE b[l] = <<>>
    <3>1. l \in 0 .. n - 1 /\ l >= q /\ ~(m <= l)
      BY <1>1, <1>3, <2>4
    <3>2. QED
      BY <1>4, <2>3, <3>1
  <2>6. b[m] \in Seq(EntryType)
    BY <1>2, <2>4
  <2>7. 1 \in DOMAIN b[m] /\ Head(b[m]) = b[m][1]
    BY <2>4, <2>6
  <2>8. QED
    BY <2>4, <2>5, <2>7 DEF m
<1> HIDE DEF m, h
<1>6. ASSUME k = NULL, rest # {}
      PROVE  Swept(b, n, [bucketIndex |-> m + 1, current |-> h], Append(visited, h))
  <2>1. KeysBefore(b, n, q) = KeysBefore(b, n, m)
    <3>1. m \in 0 .. n /\ q <= m
      BY <1>1, <1>3, <1>5, <1>6
    <3>2. QED
      BY <1>3, <1>5, <1>6, <3>1, SweepMoves DEF b
  <2>2. KeysUpTo(b, n, m, 0) = KeysBefore(b, n, m)
    BY DEF KeysUpTo
  <2>3. /\ KeysUpTo(b, n, m, 0 + 1) = KeysUpTo(b, n, m, 0) \cup {b[m][0 + 1].key}
        /\ b[m][0 + 1].key \notin KeysUpTo(b, n, m, 0)
    <3>1. 0 + 1 \in DOMAIN b[m] /\ 0 \in Nat
      BY <1>5, <1>6
    <3>2. QED
      BY <1>5, <1>6, <3>1, SweepMoves DEF b
  <2>4. h \in Keys /\ h # NULL /\ h = b[m][1].key
    BY <1>2, <1>5, <1>6, HashAssumption
  <2>5. /\ KeysUpTo(b, n, m, 1) = KeysBefore(b, n, q) \cup {h}
        /\ h \notin KeysBefore(b, n, q)
    BY <2>1, <2>2, <2>3, <2>4
  <2>6. Lists(Append(visited, h), KeysUpTo(b, n, m, 1))
    BY <1>3, <1>6, <2>4, <2>5, ListsAppend
  <2>7. QED
    BY <1>5, <1>6, <2>4, <2>6 DEF Swept
<1>7. ASSUME k = NULL, rest = {} PROVE Lists(visited, KeysIn(b))
  <2>1. \A l \in q .. n - 1 : b[l] = <<>>
    BY <1>1, <1>3, <1>4, <1>7
  <2>2. KeysBefore(b, n, q) = KeysBefore(b, n, n)
    <3>1. n \in 0 .. n /\ q <= n
      BY <1>1, <1>3
    <3>2. QED
      BY <1>3, <2>1, <3>1, SweepMoves DEF b
  <2>3. QED
    BY <1>3, <1>7, <2>2, SweepMoves DEF b
<1>8. rest # {} => m \in Nat /\ h \in Keys
  BY <1>1, <1>2, <1>5
<1>9. QED
  BY <1>3, <1>6, <1>7, <1>8 DEF b, k, q, rest, m, h
-------------------------------------------------------------------------------
(* The invariant.                                                             *)

Inv == TableInv /\ IterInv

\* The table a host has not initialised.
LEMMA InitHolds == Init => Inv
<1> SUFFICES ASSUME Init PROVE Inv
  OBVIOUS
<1>1. Books(Empty(0), Capacity(Empty(0)), 0, 0)
  BY EmptyKeepsBooks
<1>2. TableInv
  BY <1>1 DEF Init, TableInv
<1>3. IterInv
  BY DEF Init, IterInv
<1>4. QED
  BY <1>2, <1>3 DEF Inv

\* What the host's capacity is.
LEMMA TableFacts ==
  ASSUME TableInv
  PROVE  /\ Sound(buckets, Capacity(buckets)) /\ Capacity(buckets) \in Nat
         /\ Entries(buckets) \subseteq EntryType /\ KeysIn(buckets) \subseteq Keys
         /\ IsFiniteSet(Entries(buckets)) /\ count = Cardinality(Entries(buckets))
         /\ owned = Freed(Entries(buckets)) /\ count \in Nat /\ owned \in Nat
         /\ Loaded(Capacity(buckets), count)
<1>1. /\ Sound(buckets, Capacity(buckets))
      /\ IsFiniteSet(Entries(buckets)) /\ count = Cardinality(Entries(buckets))
      /\ owned = Freed(Entries(buckets)) /\ Loaded(Capacity(buckets), count)
  BY DEF TableInv, Books
<1>2. /\ Capacity(buckets) \in Nat
      /\ Entries(buckets) \subseteq EntryType /\ KeysIn(buckets) \subseteq Keys
  BY <1>1, SoundFacts
<1>3. count \in Nat
  BY <1>1, FS_CardinalityType
<1>4. owned \in Nat
  <2>1. CASE Entries(buckets) = {}
    BY <1>1, <2>1, FS_EmptySet DEF Freed
  <2>2. CASE Entries(buckets) # {}
    <3>1. PICK e \in EntryType : TRUE
      BY <1>2, <2>2
    <3>2. QED
      BY <1>1, <1>2, <3>1, FreedFacts
  <2>3. QED
    BY <2>1, <2>2
<1>5. QED
  BY <1>1, <1>2, <1>3, <1>4

\* An iteration goes on over a table whose chains have the same keys.
LEMMA SweptStays ==
  ASSUME NEW n, NEW b, Sound(b, n), NEW t, Sound(t, n), KeysIn(t) = KeysIn(b),
         \A m \in 0 .. n - 1 : DOMAIN t[m] = DOMAIN b[m]
                              /\ \A j \in DOMAIN b[m] : t[m][j].key = b[m][j].key,
         NEW it, NEW s, Swept(b, n, it, s)
  PROVE  Swept(t, n, it, s)
<1>1. CASE it.current = NULL
  BY <1>1 DEF Swept
<1>2. CASE it.current # NULL
  <2>1. PICK i \in 0 .. n - 1 : \E p \in DOMAIN b[i] :
          /\ it.bucketIndex = i + 1 /\ b[i][p].key = it.current
          /\ Lists(s, KeysUpTo(b, n, i, p))
    BY <1>2 DEF Swept
  <2> PICK p \in DOMAIN b[i] :
          /\ it.bucketIndex = i + 1 /\ b[i][p].key = it.current
          /\ Lists(s, KeysUpTo(b, n, i, p))
    BY <2>1
  <2>2. DOMAIN b[i] = 1 .. Len(b[i]) /\ Len(b[i]) \in Nat
    BY KeysOfChain
  <2>3. 1 .. p \subseteq DOMAIN b[i]
    BY <2>2
  <2>4. KeysUpTo(t, n, i, p) = KeysUpTo(b, n, i, p)
    BY <2>3 DEF KeysUpTo, KeysBefore
  <2>5. QED
    BY <1>2, <2>1, <2>4 DEF Swept
<1>3. QED
  BY <1>1, <1>2

\* Set, which may grow the table and replaces or pushes an entry.
LEMMA SetHolds ==
  ASSUME Inv, NEW k \in Keys, NEW v \in Values, NEW clear \in BOOLEAN, Set(k, v, clear)
  PROVE  Inv'
<1> DEFINE n == Capacity(buckets)
           e == [key |-> k, value |-> v, clear |-> clear]
           g == Grown(buckets, count)
           t == Written(g, e)
           more == IF clear THEN 1 ELSE 0
<1>1. /\ n > 0 /\ buckets' = t /\ iter' = iter
      /\ count' = IF Found(g, k) THEN count ELSE count + 1
      /\ owned' = IF Found(g, k) THEN owned - Freed({Entry(g, k)}) + more ELSE owned + more
      /\ steady' => steady /\ Capacity(t) = n /\ KeysIn(t) = KeysIn(buckets)
      /\ steady' => visited' = visited
  BY DEF Set, InUse, Disturb, OwnedAfterUpdate
<1>2. e \in EntryType /\ e.key = k /\ e.clear = clear
  BY DEF EntryType
<1>3. Books(buckets, n, count, owned) /\ n \in Nat /\ Sound(buckets, n)
  BY TableFacts DEF Inv, TableInv
<1> HIDE DEF n, e
<1>4. Books(t, Capacity(t), IF Found(g, k) THEN count ELSE count + 1,
            IF Found(g, k) THEN owned - Freed({Entry(g, k)}) + more ELSE owned + more)
  BY <1>1, <1>2, <1>3, SetKeepsBooks
<1>5. PICK m \in Nat : /\ m > 0 /\ Sound(g, m) /\ Capacity(g) = m
                       /\ (m = n => g = buckets)
                       /\ KeysIn(g) = KeysIn(buckets)
  BY <1>1, <1>3, GrownKeeps
<1>6. /\ Sound(t, m) /\ KeysIn(t) = KeysIn(g) \cup {k}
      /\ Found(g, k) => \A l \in 0 .. m - 1 :
                          DOMAIN t[l] = DOMAIN g[l]
                          /\ \A j \in DOMAIN g[l] : t[l][j].key = g[l][j].key
  BY <1>2, <1>5, WrittenKeeps
<1>7. Capacity(t) = m
  BY <1>6, SoundFacts
<1>8. Found(g, k) <=> k \in KeysIn(g)
  BY <1>5, SearchFinds
<1> HIDE DEF g, t, more
<1>9. ASSUME iter' # NULL, steady' PROVE Swept(t, Capacity(t), iter', visited')
  <2>1. /\ iter # NULL /\ steady /\ iter' = iter /\ visited' = visited
        /\ Capacity(t) = n /\ KeysIn(t) = KeysIn(buckets)
    BY <1>1, <1>9
  <2>2. Swept(buckets, n, iter, visited)
    BY <2>1 DEF Inv, IterInv, n
  <2>3. g = buckets /\ m = n
    BY <1>5, <1>7, <2>1
  <2>4. Found(g, k)
    BY <1>5, <1>6, <1>8, <2>1
  <2>5. \A l \in 0 .. n - 1 : DOMAIN t[l] = DOMAIN buckets[l]
                             /\ \A j \in DOMAIN buckets[l] : t[l][j].key = buckets[l][j].key
    BY ONLY <1>6, <2>3, <2>4
  <2>6. Sound(t, n)
    BY ONLY <1>6, <2>3
  <2>7. Swept(t, n, iter, visited)
    BY <1>3, <2>1, <2>2, <2>5, <2>6, SweptStays
  <2>8. QED
    BY ONLY <2>1, <2>7
<1>10. TableInv'
  BY ONLY <1>1, <1>4 DEF TableInv
<1>11. IterInv'
  <2>1. iter' = NULL => ~steady'
    BY <1>1 DEF Inv, IterInv
  <2>2. QED
    BY ONLY <1>1, <1>9, <2>1 DEF IterInv
<1>12. QED
  BY <1>10, <1>11 DEF Inv

\* Delete, which may shrink the table.
LEMMA DeleteHolds ==
  ASSUME Inv, NEW k \in Keys, Delete(k)
  PROVE  Inv'
<1> DEFINE n == Capacity(buckets)
           t == Shrunk(Unlinked(buckets, k), count - 1)
           o == owned - Freed({Entry(buckets, k)})
<1>1. Books(buckets, n, count, owned) /\ n \in Nat /\ Sound(buckets, n)
  BY TableFacts DEF Inv, TableInv
<1>2. CASE Found(buckets, k)
  <2>1. /\ buckets' = t /\ owned' = o /\ count' = count - 1
        /\ iter' = iter /\ (steady' => steady /\ KeysIn(t) = KeysIn(buckets))
    BY <1>2 DEF Delete, Disturb
  <2>2. Books(t, Capacity(t), count - 1, o)
    BY <1>1, <1>2, DeleteKeepsBooks
  <2>3. KeysIn(t) # KeysIn(buckets)
    <3>1. KeysIn(Unlinked(buckets, k)) = KeysIn(buckets) \ {k} /\ Sound(Unlinked(buckets, k), n)
      BY <1>1, <1>2, UnlinkedKeeps
    <3>2. n > 0 /\ k \in KeysIn(buckets)
      BY <1>1, <1>2, SearchFinds
    <3>3. count - 1 \in Nat
      <4>1. /\ Entries(buckets) # {} /\ IsFiniteSet(Entries(buckets))
            /\ count = Cardinality(Entries(buckets)) /\ count \in Nat
        BY <3>2, TableFacts DEF Inv, KeysIn
      <4>2. count # 0
        BY <4>1, FS_EmptySet
      <4>3. QED
        BY <4>1, <4>2
    <3>4. Loaded(n, count - 1)
      <4>1. count \in Nat /\ Loaded(n, count)
        BY <1>1, TableFacts DEF Inv
      <4>2. QED
        BY <1>1, <3>3, <4>1, LoadedLess
    <3>5. KeysIn(t) = KeysIn(Unlinked(buckets, k))
      BY <1>1, <3>1, <3>2, <3>3, <3>4, ShrunkKeeps
    <3>6. QED
      BY <3>1, <3>2, <3>5
  <2> HIDE DEF t, o
  <2>4. TableInv'
    BY ONLY <2>1, <2>2 DEF TableInv
  <2>5. IterInv'
    BY <2>1, <2>3 DEF IterInv
  <2>6. QED
    BY <2>4, <2>5 DEF Inv
<1>3. CASE ~Found(buckets, k)
  <2>1. UNCHANGED <<tableVars, iterVars>>
    BY <1>3 DEF Delete
  <2>2. QED
    BY <2>1 DEF Inv, TableInv, IterInv, tableVars, iterVars
<1>4. QED
  BY <1>2, <1>3

\* Clear, which keeps the capacity.
LEMMA ClearHolds ==
  ASSUME Inv, Clear
  PROVE  Inv'
<1> DEFINE n == Capacity(buckets)
<1>1. n \in Nat /\ Loaded(n, count) /\ owned = Freed(Entries(buckets)) /\ owned \in Nat
  BY TableFacts DEF Inv
<1>2. /\ buckets' = Empty(n) /\ count' = 0 /\ owned' = owned - Freed(Entries(buckets))
      /\ iter = NULL /\ iter' = iter /\ steady' = steady
  BY DEF Clear, iterVars
<1>3. owned' = 0
  BY <1>1, <1>2
<1>4. n > 0 => PowerOf2(n) /\ n >= DefaultCapacity
  BY <1>1 DEF Loaded
<1> HIDE DEF n
<1>5. Books(Empty(n), Capacity(Empty(n)), 0, 0)
  BY <1>1, <1>4, EmptyKeepsBooks
<1>6. TableInv'
  BY ONLY <1>2, <1>3, <1>5 DEF TableInv
<1>7. IterInv'
  BY <1>2 DEF Inv, IterInv
<1>8. QED
  BY <1>6, <1>7 DEF Inv

\* FreeHashTable, which leaves no bucket.
LEMMA FreeHolds ==
  ASSUME Inv, FreeHashTable
  PROVE  Inv'
<1>1. owned = Freed(Entries(buckets)) /\ owned \in Nat
  BY TableFacts DEF Inv
<1>2. /\ buckets' = Empty(0) /\ count' = 0 /\ owned' = owned - Freed(Entries(buckets))
      /\ iter = NULL /\ iter' = iter /\ steady' = steady
  BY DEF FreeHashTable, iterVars
<1>3. owned' = 0
  BY <1>1, <1>2
<1>4. Books(Empty(0), Capacity(Empty(0)), 0, 0)
  BY EmptyKeepsBooks
<1>5. TableInv'
  BY ONLY <1>2, <1>3, <1>4 DEF TableInv
<1>6. IterInv'
  BY <1>2 DEF Inv, IterInv
<1>7. QED
  BY <1>5, <1>6 DEF Inv

\* InitHashTable, which rounds the capacity it is asked for.
LEMMA InitTableHolds ==
  ASSUME Inv, NEW c \in Capacities, InitHashTable(c)
  PROVE  Inv'
<1> DEFINE want == IF c < DefaultCapacity THEN DefaultCapacity ELSE c
           m == NextPowerOf2(want)
           n == Capacity(buckets)
<1>1. want \in Nat \ {0} /\ want >= DefaultCapacity /\ DefaultCapacity \in Nat
  BY HashAssumption
<1>2. /\ buckets' = Empty(m) /\ ~InUse /\ count' = count /\ owned' = owned
      /\ iter' = iter /\ visited' = visited /\ steady' = steady
  BY DEF InitHashTable, iterVars
<1>3. n = 0 /\ Sound(buckets, n) /\ count = Cardinality(Entries(buckets))
      /\ owned = Freed(Entries(buckets))
  BY <1>2, TableFacts DEF Inv, InUse
<1> HIDE DEF want
<1>4. m \in Nat /\ m >= want /\ PowerOf2(m)
  BY <1>1, NextPowerIs
<1> HIDE DEF m, n
<1>5. Entries(buckets) = {}
  <2>1. buckets \in TableOf(n) /\ n \in Nat
    BY <1>3 DEF Sound
  <2>2. \A x : x \in Entries(buckets) <=>
                 \E i \in 0 .. n - 1 : \E j \in DOMAIN buckets[i] : x = buckets[i][j]
    BY <2>1, EntriesAre
  <2>3. 0 .. n - 1 = {}
    BY <1>3
  <2>4. QED
    BY <2>2, <2>3
<1>6. count' = 0 /\ owned' = 0
  <2>1. count = 0 /\ owned = 0
    BY <1>3, <1>5, FS_EmptySet DEF Freed
  <2>2. QED
    BY <1>2, <2>1
<1>7. Books(Empty(m), Capacity(Empty(m)), 0, 0)
  BY <1>1, <1>4, EmptyKeepsBooks
<1>8. TableInv'
  BY ONLY <1>2, <1>6, <1>7 DEF TableInv
<1>9. IterInv'
  <2>1. iter = NULL => ~steady
    BY DEF Inv, IterInv
  <2>2. ASSUME iter # NULL, steady PROVE Swept(Empty(m), Capacity(Empty(m)), iter, visited)
    <3>1. Swept(buckets, n, iter, visited)
      BY <2>2 DEF Inv, IterInv, n
    <3>2. 0 .. n - 1 = {}
      BY <1>3
    <3>3. iter.current = NULL /\ iter.bucketIndex = 0 /\ visited = <<>>
      BY <3>1, <3>2 DEF Swept
    <3>4. QED
      BY <3>3 DEF Swept
  <2>3. QED
    BY ONLY <1>2, <2>1, <2>2 DEF IterInv
<1>10. QED
  BY <1>8, <1>9 DEF Inv
\* A new iteration.
LEMMA IterInitHolds ==
  ASSUME Inv, IterInit
  PROVE  Inv'
<1>1. /\ iter' = [bucketIndex |-> 0, current |-> NULL] /\ visited' = <<>> /\ steady'
      /\ buckets' = buckets /\ count' = count /\ owned' = owned
  BY DEF IterInit, tableVars
<1>2. iter' # NULL
  BY <1>1, HashAssumption
<1>3. \A b, n : Swept(b, n, [bucketIndex |-> 0, current |-> NULL], <<>>)
  BY DEF Swept
<1>4. TableInv'
  BY <1>1 DEF Inv, TableInv
<1>5. IterInv'
  BY <1>1, <1>2, <1>3 DEF IterInv
<1>6. QED
  BY <1>4, <1>5 DEF Inv

\* An iterator that answers is still an iterator.
LEMMA VisitGoesOn ==
  ASSUME NEW i \in Nat, NEW k \in Keys \cup {NULL}, Visit(i, k)
  PROVE  iter' # NULL
<1>1. [bucketIndex |-> i, current |-> k] \in [bucketIndex : Nat, current : Keys \cup {NULL}]
  OBVIOUS
<1>2. QED
  BY <1>1, HashAssumption DEF Visit

\* One more answer, or the end.
LEMMA IterNextHolds ==
  ASSUME Inv, IterNext
  PROVE  Inv'
<1> DEFINE n == Capacity(buckets)
           k == NextInChain(iter.current)
           rest == NonEmptyFrom(iter.bucketIndex)
           m == Min(rest)
           h == Head(buckets[m]).key
           along == [bucketIndex |-> iter.bucketIndex, current |-> k]
           over == [bucketIndex |-> m + 1, current |-> h]
<1>1. /\ iter # NULL /\ buckets' = buckets /\ count' = count /\ owned' = owned
      /\ IF k # NULL THEN Visit(iter.bucketIndex, k)
         ELSE IF rest # {} THEN Visit(m + 1, h) ELSE EndIteration
  BY DEF IterNext, tableVars
<1>2. TableInv'
  BY <1>1 DEF Inv, TableInv
<1>3. Sound(buckets, n) /\ n \in Nat
  BY TableFacts DEF Inv
<1>4. CASE k = NULL /\ rest = {}
  <2>1. iter' = NULL /\ ~steady'
    BY <1>1, <1>4 DEF EndIteration
  <2>2. IterInv'
    BY <2>1 DEF IterInv
  <2>3. QED
    BY <1>2, <2>2 DEF Inv
<1>5. CASE ~(k = NULL /\ rest = {})
  <2>1. (k # NULL /\ Visit(iter.bucketIndex, k)) \/ (k = NULL /\ rest # {} /\ Visit(m + 1, h))
    BY <1>1, <1>5
  <2>2. steady' <=> steady
    BY <2>1 DEF Visit
  <2>3. CASE ~steady
    BY <1>2, <2>2, <2>3 DEF Inv, IterInv
  <2>4. CASE steady
    <3>1. Swept(buckets, n, iter, visited)
      BY <1>1, <2>4 DEF Inv, IterInv
    <3>2. /\ k # NULL => Swept(buckets, n, along, Append(visited, k))
          /\ k = NULL /\ rest # {} => Swept(buckets, n, over, Append(visited, h))
      BY <1>1, <1>3, <3>1, IterStep
    <3>3. /\ k # NULL => iter' = along /\ visited' = Append(visited, k)
          /\ k = NULL /\ rest # {} => iter' = over /\ visited' = Append(visited, h)
      BY <2>1, <2>4 DEF Visit
    <3>4. /\ k \in Keys \cup {NULL}
          /\ rest # {} => m \in Nat /\ h \in Keys
      BY <1>1, <1>3, <3>1, IterStep
    <3>5. iter.bucketIndex \in Nat
      BY <1>3, <3>1 DEF Swept
    <3> HIDE DEF k, rest, m, h
    <3>6. /\ k # NULL => along # NULL
          /\ k = NULL /\ rest # {} => over # NULL
      BY <3>4, <3>5, HashAssumption
    <3> HIDE DEF along, over
    <3>7. Swept(buckets, n, iter', visited') /\ iter' # NULL
      BY <2>1, <3>2, <3>3, <3>6
    <3>8. IterInv'
      BY <1>1, <3>7 DEF IterInv
    <3>9. QED
      BY <1>2, <3>8 DEF Inv
  <2>5. QED
    BY <2>3, <2>4
<1>6. QED
  BY <1>4, <1>5

\* Every step keeps the invariant.
LEMMA StepHolds == Inv /\ [Next]_vars => Inv'
<1> SUFFICES ASSUME Inv, [Next]_vars PROVE Inv'
  OBVIOUS
<1>1. ASSUME NEW k \in Keys, Get(k) PROVE Inv'
  <2>1. UNCHANGED <<tableVars, iterVars>>
    BY <1>1 DEF Get
  <2>2. QED
    BY <2>1 DEF Inv, TableInv, IterInv, tableVars, iterVars
<1>2. CASE UNCHANGED vars
  BY <1>2 DEF Inv, TableInv, IterInv, vars, tableVars, iterVars
<1>3. QED
  BY <1>1, <1>2, SetHolds, DeleteHolds, ClearHolds, FreeHolds, InitTableHolds,
     IterInitHolds, IterNextHolds DEF Next

\* The invariant holds in every state.
THEOREM InvHolds == Spec => []Inv
  BY InitHolds, StepHolds, PTL DEF Spec

\* Searches never miss a key and the load stays bounded, whatever was inserted, removed
\* and resized (TableIsSound, piHashTableSet and piHashTableDelete).
THEOREM TableStaysSound == Spec => []TableIsSound
<1>1. Inv => TableIsSound
  <2> SUFFICES ASSUME Inv PROVE TableIsSound
    OBVIOUS
  <2> DEFINE n == Capacity(buckets)
  <2>1. Sound(buckets, n) /\ count = Cardinality(Entries(buckets)) /\ Loaded(n, count)
    BY TableFacts DEF Inv
  <2>2. KeysAreUnique
    BY <2>1 DEF KeysAreUnique, Sound, Placed, Apart
  <2>3. LoadIsBounded
    BY <2>1 DEF LoadIsBounded, Loaded, InUse
  <2>4. QED
    BY <2>2, <2>3 DEF TableIsSound
<1>2. QED
  BY <1>1, InvHolds, PTL

\* The table owns the characters of the keys it was given with them and still holds, for
\* every sequence of insertions, updates and removals (KeysOwnedOnce, pi_FreeHashEntry).
THEOREM KeysStayOwnedOnce == Spec => []KeysOwnedOnce
<1>1. Inv => KeysOwnedOnce
  BY TableFacts DEF Inv, KeysOwnedOnce
<1>2. QED
  BY <1>1, InvHolds, PTL

\* An iteration over a table that keeps its keys and its capacity answers every key once,
\* whatever was updated meanwhile (IterationExact, piHashTableIterNext).
THEOREM IterationStaysExact == Spec => IterationExact
<1> DEFINE Exact == iter # NULL /\ iter' = NULL /\ steady =>
                      /\ ToSet(visited) = KeysIn(buckets)
                      /\ Len(visited) = Cardinality(KeysIn(buckets))
<1>1. ASSUME Inv, [Next]_vars PROVE Exact
  <2> SUFFICES ASSUME iter # NULL, iter' = NULL, steady
               PROVE  /\ ToSet(visited) = KeysIn(buckets)
                      /\ Len(visited) = Cardinality(KeysIn(buckets))
    OBVIOUS
  <2> DEFINE n == Capacity(buckets)
             k == NextInChain(iter.current)
             rest == NonEmptyFrom(iter.bucketIndex)
             m == Min(rest)
             h == Head(buckets[m]).key
  <2>1. Sound(buckets, n) /\ n \in Nat /\ Swept(buckets, n, iter, visited)
    BY <1>1, TableFacts DEF Inv, IterInv
  <2>2. iter' # iter
    OBVIOUS
  <2>3. IterNext
    BY <1>1, <2>2, HashAssumption
       DEF Next, Get, Set, Delete, Clear, FreeHashTable, InitHashTable, IterInit, Disturb,
           vars, iterVars
  <2>4. /\ k \in Keys \cup {NULL} /\ (rest # {} => m \in Nat /\ h \in Keys)
        /\ k = NULL /\ rest = {} => Lists(visited, KeysIn(buckets))
    BY <2>1, IterStep
  <2>5. iter.bucketIndex \in Nat
    BY <2>1 DEF Swept
  <2>6. k = NULL /\ rest = {}
    <3> HIDE DEF k, rest, m, h
    <3>1. /\ k # NULL => Visit(iter.bucketIndex, k)
          /\ k = NULL /\ rest # {} => Visit(m + 1, h)
      BY <2>3 DEF IterNext, k, rest, m, h
    <3>2. /\ k # NULL => iter' # NULL
          /\ k = NULL /\ rest # {} => iter' # NULL
      BY <2>4, <2>5, <3>1, VisitGoesOn
    <3>3. QED
      BY <3>2
  <2>7. Lists(visited, KeysIn(buckets))
    BY <2>4, <2>6
  <2>8. QED
    BY <2>7, ListsLength DEF Lists
<1>2. Inv /\ [Next]_vars => [Exact]_vars
  BY <1>1
<1>3. QED
  BY <1>2, InvHolds, PTL DEF Spec, IterationExact
-------------------------------------------------------------------------------
(* The table implements a map.                                                *)

\* The map that a table stands for.
MapOf(b) == [k \in KeysIn(b) |-> Entry(b, k).value]

\* It has the value of every entry.
LEMMA MapOfIs ==
  ASSUME NEW n, NEW b, Sound(b, n)
  PROVE  /\ DOMAIN MapOf(b) = KeysIn(b)
         /\ \A e \in Entries(b) : e.key \in KeysIn(b) /\ MapOf(b)[e.key] = e.value
         /\ \A k \in KeysIn(b) : \E e \in Entries(b) : e.key = k
<1>1. n \in Nat /\ KeysIn(b) \subseteq Keys
  BY SoundFacts
<1>2. \A k \in KeysIn(b) : \E e \in Entries(b) : e.key = k
  BY DEF KeysIn
<1>3. ASSUME NEW e \in Entries(b) PROVE e.key \in KeysIn(b) /\ MapOf(b)[e.key] = e.value
  <2>1. e.key \in KeysIn(b)
    BY DEF KeysIn
  <2>2. Entry(b, e.key) = e
    BY <1>1, <2>1, SearchFinds
  <2>3. QED
    BY <2>1, <2>2 DEF MapOf
<1>4. QED
  BY <1>2, <1>3 DEF MapOf

\* Tables with the same entries stand for the same map.
LEMMA SameMap ==
  ASSUME NEW n, NEW b, Sound(b, n), NEW m, NEW t, Sound(t, m), Entries(t) = Entries(b)
  PROVE  MapOf(t) = MapOf(b)
<1>1. KeysIn(t) = KeysIn(b)
  BY DEF KeysIn
<1>2. \A k \in KeysIn(b) : Entry(t, k) = Entry(b, k)
  <2>1. ASSUME NEW k \in KeysIn(b) PROVE Entry(t, k) = Entry(b, k)
    <3>1. PICK e \in Entries(b) : e.key = k
      BY DEF KeysIn
    <3>2. k \in Keys /\ n \in Nat /\ m \in Nat
      BY SoundFacts
    <3>3. Entry(b, k) = e
      BY <3>1, <3>2, SearchFinds
    <3>4. Entry(t, k) = e
      BY <3>1, <3>2, SearchFinds
    <3>5. QED
      BY <3>3, <3>4
  <2>2. QED
    BY <2>1
<1>3. QED
  BY <1>1, <1>2 DEF MapOf

\* What a write, a removal and an empty table do to the map.
LEMMA WrittenMap ==
  ASSUME NEW n \in Nat, n > 0, NEW b, Sound(b, n), NEW e \in EntryType
  PROVE  MapOf(Written(b, e)) = [x \in KeysIn(b) \cup {e.key} |->
                                   IF x = e.key THEN e.value ELSE MapOf(b)[x]]
<1> DEFINE t == Written(b, e)
           f == [x \in KeysIn(b) \cup {e.key} |->
                   IF x = e.key THEN e.value ELSE MapOf(b)[x]]
<1>1. /\ Sound(t, n) /\ Entries(t) = {x \in Entries(b) : x.key # e.key} \cup {e}
      /\ KeysIn(t) = KeysIn(b) \cup {e.key}
  BY WrittenKeeps
<1> HIDE DEF t
<1>2. ASSUME NEW k \in KeysIn(t) PROVE MapOf(t)[k] = f[k]
  <2>1. PICK x \in Entries(t) : x.key = k
    BY <1>1, MapOfIs
  <2>2. MapOf(t)[k] = x.value
    BY <1>1, <2>1, MapOfIs
  <2>3. CASE k = e.key
    <3>1. x = e
      BY <1>1, <2>1, <2>3
    <3>2. QED
      BY <2>2, <2>3, <3>1
  <2>4. CASE k # e.key
    <3>1. x \in Entries(b) /\ k \in KeysIn(b)
      BY <1>1, <2>1, <2>4
    <3>2. MapOf(b)[k] = x.value
      BY <2>1, <3>1, MapOfIs
    <3>3. QED
      BY <2>2, <2>4, <3>1, <3>2
  <2>5. QED
    BY <2>3, <2>4
<1>3. MapOf(t) = f
  <2>1. MapOf(t) = [k \in KeysIn(t) |-> MapOf(t)[k]]
    BY DEF MapOf
  <2>2. QED
    BY <1>1, <1>2, <2>1
<1>4. QED
  BY <1>3 DEF t

\* A removal takes one key out of the map.
LEMMA UnlinkedMap ==
  ASSUME NEW n \in Nat, NEW b, Sound(b, n), NEW k \in Keys, Found(b, k)
  PROVE  MapOf(Unlinked(b, k)) = [x \in KeysIn(b) \ {k} |-> MapOf(b)[x]]
<1> DEFINE t == Unlinked(b, k)
           f == [x \in KeysIn(b) \ {k} |-> MapOf(b)[x]]
<1>1. /\ Sound(t, n) /\ Entries(t) = Entries(b) \ {Entry(b, k)}
      /\ KeysIn(t) = KeysIn(b) \ {k}
  BY UnlinkedKeeps
<1> HIDE DEF t
<1>2. ASSUME NEW x \in KeysIn(t) PROVE MapOf(t)[x] = f[x]
  <2>1. PICK e \in Entries(t) : e.key = x
    BY <1>1, MapOfIs
  <2>2. MapOf(t)[x] = e.value /\ MapOf(b)[x] = e.value
    BY <1>1, <2>1, MapOfIs
  <2>3. QED
    BY <1>1, <2>2
<1>3. MapOf(t) = f
  <2>1. MapOf(t) = [x \in KeysIn(t) |-> MapOf(t)[x]]
    BY DEF MapOf
  <2>2. QED
    BY <1>1, <1>2, <2>1
<1>4. QED
  BY <1>3 DEF t

\* An empty table is the empty map.
LEMMA EmptyMap ==
  ASSUME NEW n \in Nat
  PROVE  MapOf(Empty(n)) = [x \in {} |-> Absent]
<1>1. KeysIn(Empty(n)) = {}
  BY EmptyHolds
<1>2. QED
  BY <1>1 DEF MapOf

\* An answer is what a look-up in the map finds.
LEMMA AnswerIs ==
  ASSUME TableInv, NEW k \in Keys
  PROVE  AnswerOf(k) = Abstract!Lookup(k)
<1>1. Sound(buckets, Capacity(buckets)) /\ Capacity(buckets) \in Nat
  BY TableFacts
<1>2. Found(buckets, k) <=> k \in KeysIn(buckets)
  BY <1>1, SearchFinds
<1>3. QED
  BY <1>2 DEF AnswerOf, Abstract!Lookup, Contents, Absent, Abstract!Absent

\* Set writes one key of the map.
LEMMA SetMaps ==
  ASSUME Inv, NEW k \in Keys, NEW v \in Values, NEW clear \in BOOLEAN, Set(k, v, clear)
  PROVE  Abstract!Set(k, v)
<1> DEFINE n == Capacity(buckets)
           e == [key |-> k, value |-> v, clear |-> clear]
           g == Grown(buckets, count)
           t == Written(g, e)
<1>1. n > 0 /\ buckets' = t /\ answer' = AnswerOf(k)
  BY DEF Set, InUse
<1>2. e \in EntryType /\ e.key = k /\ e.value = v
  BY DEF EntryType
<1>3. Books(buckets, n, count, owned) /\ n \in Nat /\ Sound(buckets, n)
  BY TableFacts DEF Inv, TableInv
<1> HIDE DEF n, e
<1>4. PICK m \in Nat : /\ m > 0 /\ Sound(g, m)
                       /\ Entries(g) = Entries(buckets) /\ KeysIn(g) = KeysIn(buckets)
  BY <1>1, <1>3, GrownKeeps
<1>5. MapOf(t) = [x \in KeysIn(g) \cup {e.key} |-> IF x = e.key THEN e.value ELSE MapOf(g)[x]]
  BY <1>2, <1>4, WrittenMap
<1>6. MapOf(g) = MapOf(buckets)
  BY <1>3, <1>4, SameMap
<1> HIDE DEF g, t
<1>7. MapOf(buckets') = [x \in KeysIn(buckets) \cup {k} |->
                           IF x = k THEN v ELSE MapOf(buckets)[x]]
  BY ONLY <1>1, <1>2, <1>4, <1>5, <1>6
<1>8. Contents = MapOf(buckets) /\ Contents' = MapOf(buckets')
      /\ DOMAIN Contents = KeysIn(buckets)
  BY DEF Contents, MapOf
<1>9. Contents' = [x \in DOMAIN Contents \cup {k} |-> IF x = k THEN v ELSE Contents[x]]
  BY ONLY <1>7, <1>8
<1>10. answer' = Abstract!Lookup(k)
  BY <1>1, AnswerIs DEF Inv
<1>11. QED
  BY <1>9, <1>10 DEF Abstract!Set

\* Delete takes one key out of the map, or finds nothing.
LEMMA DeleteMaps ==
  ASSUME Inv, NEW k \in Keys, Delete(k)
  PROVE  Abstract!Delete(k) \/ Abstract!Get(k)
<1> DEFINE n == Capacity(buckets)
           u == Unlinked(buckets, k)
           t == Shrunk(u, count - 1)
<1>1. answer' = Abstract!Lookup(k)
  BY AnswerIs DEF Inv, Delete
<1>2. Sound(buckets, n) /\ n \in Nat /\ Books(buckets, n, count, owned)
  BY TableFacts DEF Inv, TableInv
<1>3. CASE Found(buckets, k)
  <2>1. buckets' = t
    BY <1>3 DEF Delete
  <2>2. Sound(u, n) /\ Entries(u) = Entries(buckets) \ {Entry(buckets, k)}
    BY <1>2, <1>3, UnlinkedKeeps
  <2>3. Entry(buckets, k) \in Entries(buckets) /\ n > 0
    BY <1>2, <1>3, SearchFinds
  <2>4. count - 1 \in Nat /\ count \in Nat /\ Loaded(n, count)
    <3>1. /\ IsFiniteSet(Entries(buckets)) /\ count = Cardinality(Entries(buckets))
          /\ count \in Nat /\ Loaded(n, count)
      BY TableFacts DEF Inv
    <3>2. count # 0
      BY <2>3, <3>1, FS_EmptySet
    <3>3. QED
      BY <3>1, <3>2
  <2>5. Loaded(n, count - 1)
    BY <1>2, <2>4, LoadedLess
  <2>6. MapOf(u) = [x \in KeysIn(buckets) \ {k} |-> MapOf(buckets)[x]]
    BY <1>2, <1>3, UnlinkedMap
  <2> HIDE DEF u, n
  <2>7. PICK m \in Nat : Sound(t, m) /\ Entries(t) = Entries(u)
    BY <1>2, <2>2, <2>3, <2>4, <2>5, ShrunkKeeps
  <2>8. MapOf(t) = MapOf(u)
    BY <2>2, <2>7, SameMap
  <2> HIDE DEF t
  <2>9. MapOf(buckets') = [x \in KeysIn(buckets) \ {k} |-> MapOf(buckets)[x]]
    BY ONLY <2>1, <2>6, <2>8
  <2>10. Contents = MapOf(buckets) /\ Contents' = MapOf(buckets')
         /\ DOMAIN Contents = KeysIn(buckets)
    BY DEF Contents, MapOf
  <2>11. Contents' = [x \in DOMAIN Contents \ {k} |-> Contents[x]]
    BY ONLY <2>9, <2>10
  <2>12. QED
    BY <1>1, <2>11 DEF Abstract!Delete
<1>4. CASE ~Found(buckets, k)
  <2>1. buckets' = buckets
    BY <1>4 DEF Delete, tableVars
  <2>2. Contents' = Contents
    BY <2>1 DEF Contents
  <2>3. QED
    BY <1>1, <2>2 DEF Abstract!Get
<1>5. QED
  BY <1>3, <1>4

\* Emptying, freeing and initialising leave the empty map.
LEMMA EmptyMaps ==
  ASSUME NEW n \in Nat, buckets' = Empty(n), answer' = Absent
  PROVE  Abstract!Clear
<1>1. MapOf(Empty(n)) = [x \in {} |-> Absent]
  BY EmptyMap
<1>2. Contents' = MapOf(buckets')
  BY DEF Contents, MapOf
<1>3. Contents' = [x \in {} |-> Absent]
  BY ONLY <1>1, <1>2, buckets' = Empty(n)
<1>4. QED
  BY <1>3 DEF Abstract!Clear, Absent, Abstract!Absent

\* Every step is a step of the map, or none.
LEMMA StepMaps ==
  Inv /\ [Next]_vars => [Abstract!Next]_<<Contents, answer>>
<1> SUFFICES ASSUME Inv, [Next]_vars PROVE [Abstract!Next]_<<Contents, answer>>
  OBVIOUS
<1>1. ASSUME NEW k \in Keys, Get(k) PROVE Abstract!Get(k)
  <2>1. answer' = Abstract!Lookup(k) /\ buckets' = buckets
    BY <1>1, AnswerIs DEF Inv, Get, tableVars
  <2>2. Contents' = Contents
    BY <2>1 DEF Contents
  <2>3. QED
    BY <2>1, <2>2 DEF Abstract!Get
<1>2. ASSUME Clear \/ FreeHashTable \/ \E n \in Capacities : InitHashTable(n)
      PROVE  Abstract!Clear
  <2>1. Capacity(buckets) \in Nat
    BY TableFacts DEF Inv
  <2>2. CASE Clear
    BY <2>1, <2>2, EmptyMaps DEF Clear
  <2>3. CASE FreeHashTable
    BY <2>3, EmptyMaps DEF FreeHashTable
  <2>4. CASE \E n \in Capacities : InitHashTable(n)
    <3>1. PICK n \in Capacities : InitHashTable(n)
      BY <2>4
    <3> DEFINE want == IF n < DefaultCapacity THEN DefaultCapacity ELSE n
    <3>2. want \in Nat \ {0}
      BY HashAssumption
    <3>3. NextPowerOf2(want) \in Nat
      BY <3>2, NextPowerIs
    <3>4. buckets' = Empty(NextPowerOf2(want)) /\ answer' = Absent
      BY <3>1 DEF InitHashTable
    <3> HIDE DEF want
    <3>5. QED
      BY <3>3, <3>4, EmptyMaps
  <2>5. QED
    BY <1>2, <2>2, <2>3, <2>4
<1>3. ASSUME IterInit \/ IterNext \/ UNCHANGED vars PROVE UNCHANGED <<Contents, answer>>
  <2>1. buckets' = buckets /\ answer' = answer
    BY <1>3 DEF IterInit, IterNext, vars, tableVars
  <2>2. QED
    BY <2>1 DEF Contents
<1>4. ASSUME NEW k \in Keys, NEW v \in Values, NEW clear \in BOOLEAN, Set(k, v, clear)
      PROVE  Abstract!Set(k, v)
  BY <1>4, SetMaps
<1>5. ASSUME NEW k \in Keys, Delete(k) PROVE Abstract!Delete(k) \/ Abstract!Get(k)
  BY <1>5, DeleteMaps
<1>6. QED
  BY <1>1, <1>2, <1>3, <1>4, <1>5 DEF Next, Abstract!Next

\* For every set of keys and every hash, chains that grow, shrink and turn around are a
\* map with its answers (ImplementsMap, lib/common/hash.c).
THEOREM TableImplementsMap == Spec => ImplementsMap
<1>1. Init => Abstract!Init
  <2> SUFFICES ASSUME Init PROVE Abstract!Init
    OBVIOUS
  <2>1. MapOf(Empty(0)) = [x \in {} |-> Absent]
    BY EmptyMap
  <2>2. Contents = [x \in {} |-> Absent] /\ answer = Absent
    BY <2>1 DEF Init, Contents, MapOf
  <2>3. QED
    BY <2>2 DEF Abstract!Init, Absent, Abstract!Absent
<1>2. QED
  BY <1>1, StepMaps, InvHolds, PTL DEF Spec, ImplementsMap, Abstract!Spec


===============================================================================
