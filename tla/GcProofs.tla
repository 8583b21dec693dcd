------------------------------- MODULE GcProofs -------------------------------
(***************************************************************************)
(* Proofs about Gc and GcList, for every number of objects, root           *)
(* variables, sizes, thresholds and bounds.  Of Gc: what roots and counts  *)
(* keep, and what a collection frees.  Of GcList: the links are the list   *)
(* of live objects under every loop, and the loops, the list surgery and   *)
(* the retry do what Gc says the call does in one step.                    *)
(***************************************************************************)
EXTENDS GcList, DataLemmas


USE GcAssumption

-------------------------------------------------------------------------------
(* The root arrays.                                                           *)

\* Removing a registration by swapping with the last slot leaves a subset.
LEMMA SwapRemoveFacts ==
  ASSUME NEW S, NEW s \in Seq(S), NEW i \in DOMAIN s
  PROVE  SwapRemove(s, i) \in Seq(S) /\ ToSet(SwapRemove(s, i)) \subseteq ToSet(s)
<1> DEFINE t == [s EXCEPT ![i] = Last(s)]
<1>1. Last(s) \in S /\ Last(s) \in ToSet(s)
  BY DEF Last, ToSet
<1>2. t \in Seq(S) /\ Len(t) = Len(s) /\ t # <<>>
  BY <1>1
<1>3. ToSet(t) \subseteq ToSet(s)
  BY <1>1, <1>2 DEF ToSet
<1>4. QED
  BY <1>2, <1>3, FrontFacts DEF SwapRemove

\* The search of piGcRemoveGlobalRoot finds an index when there is one.
LEMMA FirstIndexFacts ==
  ASSUME NEW S, NEW s \in Seq(S), NEW r \in ToSet(s)
  PROVE  FirstIndex(s, r) \in DOMAIN s /\ s[FirstIndex(s, r)] = r
<1> DEFINE T == {i \in DOMAIN s : s[i] = r}
<1>1. T # {} /\ T \subseteq Nat
  BY DEF ToSet
<1>2. PICK i \in T : \A j \in T : i <= j
  BY <1>1, LeastNatural
<1>3. s[i] = r /\ \A j \in 1 .. i - 1 : s[j] # r
  BY <1>2
<1>4. QED
  BY <1>3 DEF FirstIndex

-------------------------------------------------------------------------------
(* The inductive invariant.                                                   *)

\* The strengthening the safety properties need together: roots are live because
\* the host only gives up unrooted objects, a count covers its owners because a
\* rooted or owned object is never swept, and counts say when Release frees.
IInv ==
  /\ TypeOK
  /\ RootsAreLive
  /\ CountCoversOwners
  /\ CountExact
  /\ HostRootsHeld => OwnedStaysAllocated

\* The collector starts with nothing allocated.
THEOREM InitIInv == Init => IInv
<1> SUFFICES ASSUME Init PROVE IInv
  OBVIOUS
<1>1. TypeOK
  <2>1. live \subseteq Objects /\ marked \subseteq live /\ frozen \subseteq live
    BY DEF Init
  <2>2. refCount \in [Objects -> 0 .. MaxRefCount - 1] /\ held \in [Objects -> Nat]
    BY DEF Init
  <2>3. vmStack = NULL /\ globalRoots \in Seq(RootVars) /\ globalRootCap \in Nat
    BY DEF Init
  <2>4. rootVar \in [RootVars -> MaybeObject] /\ registered \in [RootVars -> Nat]
    BY DEF Init, MaybeObject
  <2>5. /\ isPaused \in BOOLEAN /\ objectCount \in Nat /\ collectionCount \in Nat
        /\ objectsFreed \in Nat /\ errors \in Nat
    BY DEF Init
  <2>6. QED
    BY <2>1, <2>2, <2>3, <2>4, <2>5 DEF TypeOK
<1>2. RootsAreLive
  BY DEF Init, RootsAreLive, Roots, StackRoots, GlobalRoots, ToSet
<1>3. CountExact
  BY FS_EmptySet DEF Init, CountExact
<1>4. CountCoversOwners /\ OwnedStaysAllocated
  BY DEF Init, CountCoversOwners, OwnedStaysAllocated
<1>5. QED
  BY <1>1, <1>2, <1>3, <1>4 DEF IInv

\* Roots depend on the root variables alone.
LEMMA RootsUnchanged ==
  UNCHANGED rootsVars => Roots' = Roots
  BY DEF rootsVars, Roots, StackRoots, GlobalRoots, ToSet

\* What a step that runs n collections and then adds at most one object, owned
\* once, does to the invariant: the shape of piGcCollect and of piGcAlloc.
LEMMA CollectThenAddIInv ==
  ASSUME IInv, HostReady, NEW n \in Nat, NEW new \in SUBSET Objects, NEW sz,
         new = {} \/ \E o \in Objects : new = {o},
         new \cap (live \ Freed(n)) = {},
         CollectThenAdd(n, new, sz),
         held' = [o \in Objects |-> IF o \in new THEN 1 ELSE held[o]],
         errors' \in Nat,
         UNCHANGED <<rootsVars, isPaused>>
  PROVE  IInv'
<1> USE DEF IInv
<1>1. /\ live' = (live \ Freed(n)) \cup new
      /\ refCount' = [o \in Objects |-> IF o \in new THEN 1
                        ELSE IF o \in Freed(n) \ new THEN 0 ELSE refCount[o]]
      /\ frozen' = frozen \ (Freed(n) \cup new)
      /\ objectCount' = objectCount - Cardinality(Freed(n)) + Cardinality(new)
      /\ objectsFreed' = objectsFreed + Cardinality(Freed(n))
      /\ marked' = (IF (IF isPaused THEN 0 ELSE n) = 0 THEN marked ELSE GcMarks)
                     \ (Freed(n) \cup new)
      /\ collectionCount' = collectionCount + (IF isPaused THEN 0 ELSE n)
  BY DEF CollectThenAdd
<1>2. Freed(n) \subseteq live /\ Freed(n) \cap Roots = {}
  BY DEF Freed, GcSweep, GcMarks, GcMarkRoots
<1>3. GcMarks \subseteq live
  BY DEF GcMarks, GcMarkRoots, GcClearMarks, RootsAreLive, TypeOK
<1>4. Roots' = Roots
  BY RootsUnchanged
<1>5. RootsAreLive'
  BY <1>1, <1>2, <1>4 DEF RootsAreLive
<1>6. /\ IsFiniteSet(live) /\ IsFiniteSet(Freed(n)) /\ IsFiniteSet(live')
      /\ IsFiniteSet(live \ Freed(n))
      /\ Cardinality(Freed(n)) \in Nat /\ Cardinality(live) \in Nat
      /\ Cardinality(live') \in Nat
  <2>1. live \subseteq Objects /\ live' \subseteq Objects
    BY <1>1 DEF TypeOK
  <2>2. IsFiniteSet(live) /\ IsFiniteSet(live')
    BY <2>1, FS_Subset, GcAssumption
  <2>3. IsFiniteSet(Freed(n)) /\ IsFiniteSet(live \ Freed(n))
    BY <2>2, <1>2, FS_Subset
  <2>4. QED
    BY <2>2, <2>3, FS_CardinalityType
<1>7. Cardinality(live \ Freed(n)) = Cardinality(live) - Cardinality(Freed(n))
  <2>1. live \cap Freed(n) = Freed(n)
    BY <1>2
  <2>2. QED
    BY <2>1, <1>6, FS_Difference
<1>8. CountExact'
  <2>1. CASE new = {}
    <3>1. live' = live \ Freed(n) /\ Cardinality(new) = 0
      BY <1>1, <2>1, FS_EmptySet
    <3>2. QED
      BY <1>1, <1>6, <1>7, <3>1 DEF CountExact
  <2>2. CASE \E o \in Objects : new = {o}
    <3>1. PICK o \in Objects : new = {o}
      BY <2>2
    <3>2. Cardinality(new) = 1 /\ live' = (live \ Freed(n)) \cup {o} /\ o \notin live \ Freed(n)
      BY <1>1, <3>1, FS_Singleton
    <3>3. Cardinality(live') = Cardinality(live \ Freed(n)) + 1
      BY <1>6, <3>2, FS_AddElement
    <3>4. QED
      BY <1>1, <1>6, <1>7, <3>2, <3>3 DEF CountExact
  <2>3. QED
    BY <2>1, <2>2
<1>9. TypeOK'
  <2>1. live' \subseteq Objects /\ frozen' \subseteq live' /\ marked' \subseteq live'
    BY <1>1, <1>2, <1>3 DEF TypeOK
  <2>2. refCount' \in [Objects -> 0 .. MaxRefCount - 1] /\ held' \in [Objects -> Nat]
    BY <1>1 DEF TypeOK
  <2>3. objectCount' \in Nat /\ objectsFreed' \in Nat /\ collectionCount' \in Nat
    BY <1>1, <1>6, <1>8 DEF TypeOK, CountExact
  <2>4. QED
    BY <2>1, <2>2, <2>3 DEF TypeOK, rootsVars
<1>10. CountCoversOwners'
  <2> SUFFICES ASSUME NEW o \in live'
               PROVE  IF o \in frozen' THEN refCount'[o] = MaxRefCount - 1
                                       ELSE refCount'[o] > 0 /\ held'[o] <= refCount'[o]
    BY DEF CountCoversOwners
  <2>1. o \in Objects
    BY <1>9 DEF TypeOK
  <2>2. CASE o \in new
    BY <1>1, <2>1, <2>2
  <2>3. CASE o \notin new
    <3>1. o \in live /\ o \notin Freed(n)
      BY <1>1, <2>3
    <3>2. refCount'[o] = refCount[o] /\ held'[o] = held[o] /\ (o \in frozen' <=> o \in frozen)
      BY <1>1, <2>1, <2>3, <3>1
    <3>3. QED
      BY <3>1, <3>2 DEF CountCoversOwners
  <2>4. QED
    BY <2>2, <2>3
<1>11. HostRootsHeld => OwnedStaysAllocated'
  <2> SUFFICES ASSUME HostRootsHeld, NEW o \in Objects, held'[o] > 0, o \notin new
               PROVE  o \in live'
    BY <1>1 DEF OwnedStaysAllocated
  <2>1. held[o] > 0 /\ o \in live
    BY DEF OwnedStaysAllocated
  <2>2. o \notin Freed(n)
    BY <1>2, <2>1 DEF HostReady, HeldAreRooted, Freed
  <2>3. QED
    BY <1>1, <2>1, <2>2
<1>12. QED
  BY <1>5, <1>8, <1>9, <1>10, <1>11

\* piGcCollect.
LEMMA GcCollectIInv == IInv /\ GcCollect => IInv'
<1> SUFFICES ASSUME IInv, GcCollect PROVE IInv'
  OBVIOUS
<1>1. /\ HostReady /\ CollectThenAdd(1, {}, 0)
      /\ UNCHANGED rootsVars /\ UNCHANGED <<isPaused, held, errors>>
  BY DEF GcCollect
<1>2. held' = [o \in Objects |-> IF o \in {} THEN 1 ELSE held[o]] /\ errors' \in Nat
  BY <1>1 DEF IInv, TypeOK
<1>3. QED
  BY <1>1, <1>2, CollectThenAddIInv

\* The number of collections before an allocation.
LEMMA AllocRunsType == \A sz : AllocRuns(sz) \in Nat
  BY DEF AllocRuns, AutoRuns

\* piGcAlloc that returns an object.
LEMMA GcAllocIInv ==
  ASSUME IInv, NEW o \in Objects, NEW sz \in Sizes, GcAlloc(o, sz)
  PROVE  IInv'
<1> DEFINE n == AllocRuns(sz)
<1>1. /\ HostReady /\ o \notin live \ Freed(n) /\ CollectThenAdd(n, {o}, sz)
      /\ held' = [held EXCEPT ![o] = 1]
      /\ UNCHANGED rootsVars /\ UNCHANGED <<isPaused, errors>>
  BY DEF GcAlloc, AllocPre
<1>2. held' = [p \in Objects |-> IF p \in {o} THEN 1 ELSE held[p]] /\ errors' \in Nat
  BY <1>1 DEF IInv, TypeOK
<1>3. n \in Nat
  BY AllocRunsType
<1> HIDE DEF n
<1>4. QED
  BY <1>1, <1>2, <1>3, CollectThenAddIInv

\* piGcAlloc that raises.
LEMMA GcAllocErrorIInv ==
  ASSUME IInv, NEW sz \in Sizes, GcAllocError(sz)
  PROVE  IInv'
<1> DEFINE n == AllocRuns(sz)
<1>1. /\ HostReady /\ CollectThenAdd(n, {}, 0) /\ errors' = errors + 1
      /\ UNCHANGED rootsVars /\ UNCHANGED <<isPaused, held>>
  BY DEF GcAllocError, AllocPre
<1>2. held' = [p \in Objects |-> IF p \in {} THEN 1 ELSE held[p]] /\ errors' \in Nat
  BY <1>1 DEF IInv, TypeOK
<1>3. n \in Nat
  BY AllocRunsType
<1> HIDE DEF n
<1>4. QED
  BY <1>1, <1>2, <1>3, CollectThenAddIInv

-------------------------------------------------------------------------------
(* Reference counting.                                                        *)

\* piGcRetain: the count follows the owners until it freezes.
LEMMA GcRetainIInv ==
  ASSUME IInv, NEW o \in Objects, GcRetain(o)
  PROVE  IInv'
<1> USE DEF IInv
<1>1. /\ o \in live /\ held' = [held EXCEPT ![o] = @ + 1]
      /\ UNCHANGED <<live, blockSize, marked, objectCount, collectionCount, objectsFreed,
                     isPaused, errors>>
      /\ UNCHANGED rootsVars
  BY DEF GcRetain, statVars
<1>2. \/ /\ refCount[o] >= MaxRefCount - 1
         /\ frozen' = frozen \cup {o} /\ refCount' = refCount
      \/ /\ refCount[o] < MaxRefCount - 1
         /\ refCount' = [refCount EXCEPT ![o] = @ + 1] /\ frozen' = frozen
  BY DEF GcRetain, Saturates, TypeOK
<1>3. TypeOK'
  <2> DEFINE Counts == 0 .. MaxRefCount - 1
  <2>1. refCount' \in [Objects -> Counts]
    <3>1. refCount \in [Objects -> Counts] /\ refCount[o] \in Counts
      BY DEF TypeOK
    <3>2. refCount[o] < MaxRefCount - 1 => refCount[o] + 1 \in Counts
      BY <3>1
    <3> HIDE DEF Counts
    <3>3. QED
      BY <1>2, <3>1, <3>2
  <2>2. held' \in [Objects -> Nat] /\ frozen' \subseteq live'
    BY <1>1, <1>2 DEF TypeOK
  <2>3. QED
    BY <1>1, <2>1, <2>2 DEF TypeOK, rootsVars
<1>4. RootsAreLive' /\ CountExact'
  BY <1>1, RootsUnchanged DEF RootsAreLive, CountExact
<1>5. CountCoversOwners'
  <2> SUFFICES ASSUME NEW p \in live
               PROVE  IF p \in frozen' THEN refCount'[p] = MaxRefCount - 1
                                       ELSE refCount'[p] > 0 /\ held'[p] <= refCount'[p]
    BY <1>1 DEF CountCoversOwners
  <2>1. /\ p \in Objects /\ refCount[p] \in 0 .. MaxRefCount - 1 /\ held[p] \in Nat
        /\ IF p \in frozen THEN refCount[p] = MaxRefCount - 1
                            ELSE refCount[p] > 0 /\ held[p] <= refCount[p]
    BY DEF TypeOK, CountCoversOwners
  <2>2. CASE p = o
    BY <1>1, <1>2, <2>1, <2>2 DEF TypeOK
  <2>3. CASE p # o
    BY <1>1, <1>2, <2>1, <2>3 DEF TypeOK
  <2>4. QED
    BY <2>2, <2>3
<1>6. HostRootsHeld => OwnedStaysAllocated'
  BY <1>1 DEF OwnedStaysAllocated, TypeOK
<1>7. QED
  BY <1>3, <1>4, <1>5, <1>6

\* piGcRelease: a count that reaches zero had one owner left, and that owner had
\* taken the object out of every root.
LEMMA GcReleaseIInv ==
  ASSUME IInv, NEW o \in Objects, GcRelease(o)
  PROVE  IInv'
<1> USE DEF IInv
<1>1. /\ o \in live /\ held[o] > 0 /\ (held[o] > 1 \/ o \notin Roots)
      /\ held' = [held EXCEPT ![o] = @ - 1] /\ GcDecrement(o)
      /\ UNCHANGED <<isPaused, errors>>
      /\ UNCHANGED rootsVars
  BY DEF GcRelease
<1>2. Roots' = Roots
  BY <1>1, RootsUnchanged
<1>3. /\ refCount[o] \in 0 .. MaxRefCount - 1 /\ held[o] \in Nat
      /\ o \notin frozen => refCount[o] > 0 /\ held[o] <= refCount[o]
  BY <1>1 DEF TypeOK, CountCoversOwners
<1>4. held' \in [Objects -> Nat] /\ \A p \in Objects : held'[p] > 0 => held[p] > 0
  BY <1>1, <1>3 DEF TypeOK
<1>5. CASE o \in frozen \/ refCount[o] - 1 # 0
  <2>1. /\ UNCHANGED <<live, marked, frozen, objectCount, collectionCount, objectsFreed>>
        /\ \/ o \in frozen /\ refCount' = refCount
           \/ o \notin frozen /\ refCount' = [refCount EXCEPT ![o] = @ - 1]
    BY <1>1, <1>5 DEF GcDecrement, heapVars, statVars
  <2>2. TypeOK'
    <3> DEFINE Counts == 0 .. MaxRefCount - 1
    <3>1. refCount \in [Objects -> Counts]
      BY DEF TypeOK
    <3>2. o \notin frozen => refCount[o] - 1 \in Counts
      BY <1>3
    <3>3. refCount' \in [Objects -> Counts]
      <4> HIDE DEF Counts
      <4>1. QED
        BY <2>1, <3>1, <3>2
    <3>4. QED
      BY <1>1, <1>4, <2>1, <3>3 DEF TypeOK, rootsVars
  <2>3. RootsAreLive' /\ CountExact'
    BY <1>2, <2>1 DEF RootsAreLive, CountExact
  <2>4. CountCoversOwners'
    <3> SUFFICES ASSUME NEW p \in live
                 PROVE  IF p \in frozen THEN refCount'[p] = MaxRefCount - 1
                                        ELSE refCount'[p] > 0 /\ held'[p] <= refCount'[p]
      BY <2>1 DEF CountCoversOwners
    <3>1. /\ p \in Objects /\ refCount[p] \in 0 .. MaxRefCount - 1 /\ held[p] \in Nat
          /\ IF p \in frozen THEN refCount[p] = MaxRefCount - 1
                              ELSE refCount[p] > 0 /\ held[p] <= refCount[p]
      BY DEF TypeOK, CountCoversOwners
    <3>2. CASE p = o
      BY <1>1, <1>5, <2>1, <3>1, <3>2 DEF TypeOK
    <3>3. CASE p # o
      BY <1>1, <2>1, <3>1, <3>3 DEF TypeOK
    <3>4. QED
      BY <3>2, <3>3
  <2>5. HostRootsHeld => OwnedStaysAllocated'
    BY <1>4, <2>1 DEF OwnedStaysAllocated
  <2>6. QED
    BY <2>2, <2>3, <2>4, <2>5
<1>6. CASE o \notin frozen /\ refCount[o] - 1 = 0
  <2>1. GcFreeObject(o)
    BY <1>1, <1>6 DEF GcDecrement
  <2>2. /\ live' = live \ {o} /\ marked' = marked \ {o} /\ frozen' = frozen \ {o}
        /\ refCount' = [refCount EXCEPT ![o] = 0]
        /\ objectCount' = objectCount - 1 /\ objectsFreed' = objectsFreed + 1
        /\ collectionCount' = collectionCount
    BY <2>1 DEF GcFreeObject, CountFreed
  <2>3. held[o] = 1 /\ o \notin Roots
    BY <1>1, <1>3, <1>6
  <2>4. IsFiniteSet(live) /\ Cardinality(live') = Cardinality(live) - 1
    <3>1. IsFiniteSet(live)
      BY FS_Subset, GcAssumption DEF TypeOK
    <3>2. QED
      BY <1>1, <2>2, <3>1, FS_RemoveElement
  <2>5. CountExact' /\ objectCount' \in Nat
    <3>1. IsFiniteSet(live')
      BY <2>2, <2>4, FS_Subset
    <3>2. QED
      BY <2>2, <2>4, <3>1, FS_CardinalityType DEF CountExact
  <2>6. TypeOK'
    <3>1. refCount' \in [Objects -> 0 .. MaxRefCount - 1]
      BY <2>2 DEF TypeOK
    <3>2. QED
      BY <1>1, <1>4, <2>2, <2>5, <3>1 DEF TypeOK, rootsVars
  <2>7. RootsAreLive'
    BY <1>2, <2>2, <2>3 DEF RootsAreLive
  <2>8. CountCoversOwners'
    BY <1>1, <2>2 DEF CountCoversOwners, TypeOK
  <2>9. HostRootsHeld => OwnedStaysAllocated'
    <3>1. held'[o] = 0
      BY <1>1, <2>3 DEF TypeOK
    <3>2. QED
      BY <1>4, <2>2, <3>1 DEF OwnedStaysAllocated
  <2>10. QED
    BY <2>5, <2>6, <2>7, <2>8, <2>9
<1>7. QED
  BY <1>5, <1>6

\* A host that drops a reference without a release.
LEMMA HostForgetIInv ==
  ASSUME IInv, NEW o \in Objects, HostForget(o)
  PROVE  IInv'
<1> USE DEF IInv
<1>1. /\ held[o] > 0 /\ held' = [held EXCEPT ![o] = @ - 1]
      /\ UNCHANGED <<live, refCount, marked, frozen, objectCount, collectionCount,
                     objectsFreed, isPaused, errors>>
      /\ UNCHANGED rootsVars
  BY DEF HostForget, heapVars, statVars
<1>2. /\ held' \in [Objects -> Nat]
      /\ \A p \in Objects : held'[p] <= held[p]
  BY <1>1 DEF TypeOK
<1>3. TypeOK'
  BY <1>1, <1>2 DEF TypeOK, rootsVars
<1>4. RootsAreLive' /\ CountExact'
  BY <1>1, RootsUnchanged DEF RootsAreLive, CountExact
<1>5. CountCoversOwners'
  BY <1>1, <1>2 DEF CountCoversOwners, TypeOK
<1>6. HostRootsHeld => OwnedStaysAllocated'
  BY <1>1, <1>2 DEF OwnedStaysAllocated, TypeOK
<1>7. QED
  BY <1>3, <1>4, <1>5, <1>6

-------------------------------------------------------------------------------
(* Roots.                                                                     *)

\* The shape of every step that changes only roots, or the pause flag.
LEMMA RootStepIInv ==
  ASSUME IInv,
         UNCHANGED heapVars, UNCHANGED statVars, UNCHANGED <<held, errors>>,
         Roots' \subseteq live,
         vmStack' = NULL \/ vmStack' \in Seq(MaybeObject),
         globalRoots' \in Seq(RootVars), globalRootCap' \in Nat,
         rootVar' \in [RootVars -> MaybeObject],
         registered' \in [RootVars -> Nat], isPaused' \in BOOLEAN
  PROVE  IInv'
<1>1. /\ live' = live /\ marked' = marked /\ frozen' = frozen /\ refCount' = refCount
      /\ held' = held /\ errors' = errors /\ objectCount' = objectCount
      /\ collectionCount' = collectionCount /\ objectsFreed' = objectsFreed
  BY DEF heapVars, statVars
<1>2. TypeOK'
  BY <1>1 DEF IInv, TypeOK
<1>3. RootsAreLive' /\ CountExact' /\ CountCoversOwners'
  BY <1>1 DEF IInv, RootsAreLive, CountExact, CountCoversOwners
<1>4. HostRootsHeld => OwnedStaysAllocated'
  BY <1>1 DEF IInv, OwnedStaysAllocated
<1>5. QED
  BY <1>2, <1>3, <1>4 DEF IInv

\* The host stores NULL or an object it can reach in a root variable.
LEMMA HostAssignIInv ==
  ASSUME IInv, NEW r \in RootVars, NEW o \in MaybeObject, HostAssign(r, o)
  PROVE  IInv'
<1>1. /\ Reachable(o) /\ rootVar' = [rootVar EXCEPT ![r] = o]
      /\ UNCHANGED heapVars /\ UNCHANGED statVars
      /\ UNCHANGED <<vmStack, globalRoots, globalRootCap, registered, isPaused, held, errors>>
  BY DEF HostAssign
<1>2. TypeOK /\ Roots \subseteq live /\ (o = NULL \/ o \in live)
  BY <1>1 DEF IInv, RootsAreLive, Reachable
<1>3. rootVar' \in [RootVars -> MaybeObject]
  BY <1>1, <1>2 DEF TypeOK
<1>4. \A v \in RootVars : rootVar'[v] = o \/ rootVar'[v] = rootVar[v]
  BY <1>1, <1>2 DEF TypeOK
<1>5. GlobalRoots' \subseteq GlobalRoots \cup ({o} \ {NULL})
  <2>1. ToSet(globalRoots) \subseteq RootVars
    BY <1>2 DEF TypeOK, ToSet
  <2>2. QED
    BY <1>1, <1>4, <2>1 DEF GlobalRoots, ToSet
<1>6. StackRoots' = StackRoots
  BY <1>1 DEF StackRoots, ToSet
<1>7. Roots' \subseteq live
  BY <1>2, <1>5, <1>6 DEF Roots
<1>8. QED
  BY <1>1, <1>2, <1>3, <1>7, RootStepIInv DEF TypeOK

\* piGcAddGlobalRoot.
LEMMA GcAddGlobalRootIInv ==
  ASSUME IInv, NEW r \in RootVars, GcAddGlobalRoot(r)
  PROVE  IInv'
<1>1. /\ Reachable(rootVar[r]) /\ globalRoots' = Append(globalRoots, r)
      /\ globalRootCap' = IF Len(globalRoots) >= globalRootCap
                        THEN IF globalRootCap = 0 THEN InitialRootCap ELSE 2 * globalRootCap
                        ELSE globalRootCap
      /\ registered' = [registered EXCEPT ![r] = @ + 1]
      /\ UNCHANGED heapVars /\ UNCHANGED statVars
      /\ UNCHANGED <<vmStack, rootVar, isPaused, held, errors>>
  BY DEF GcAddGlobalRoot
<1>2. TypeOK /\ Roots \subseteq live /\ (rootVar[r] = NULL \/ rootVar[r] \in live)
  BY <1>1 DEF IInv, RootsAreLive, Reachable
<1>3. globalRoots' \in Seq(RootVars) /\ ToSet(globalRoots') = ToSet(globalRoots) \cup {r}
  BY <1>1, <1>2, AppendFacts DEF TypeOK
<1>4. globalRootCap' \in Nat
  BY <1>1, <1>2 DEF TypeOK
<1>5. registered' \in [RootVars -> Nat]
  <2>1. registered \in [RootVars -> Nat] /\ registered[r] + 1 \in Nat
    BY <1>2 DEF TypeOK
  <2>2. QED
    BY <1>1, <2>1
<1>6. Roots' \subseteq Roots \cup ({rootVar[r]} \ {NULL})
  <2>1. GlobalRoots' = {rootVar'[v] : v \in ToSet(globalRoots')} \ {NULL}
    BY DEF GlobalRoots, ToSet
  <2>2. GlobalRoots' \subseteq GlobalRoots \cup ({rootVar[r]} \ {NULL})
    BY <1>1, <1>3, <2>1 DEF GlobalRoots
  <2>3. StackRoots' = StackRoots
    BY <1>1 DEF StackRoots, ToSet
  <2>4. QED
    BY <2>2, <2>3 DEF Roots
<1>7. QED
  BY <1>1, <1>2, <1>3, <1>4, <1>5, <1>6, RootStepIInv DEF TypeOK

\* piGcRemoveGlobalRoot: the swap with the last slot roots nothing new.
LEMMA GcRemoveGlobalRootIInv ==
  ASSUME IInv, NEW r \in RootVars, GcRemoveGlobalRoot(r)
  PROVE  IInv'
<1>1. /\ globalRoots' = IF r \in ToSet(globalRoots)
                          THEN SwapRemove(globalRoots, FirstIndex(globalRoots, r))
                          ELSE globalRoots
      /\ registered' = [registered EXCEPT ![r] = IF @ = 0 THEN 0 ELSE @ - 1]
      /\ UNCHANGED heapVars /\ UNCHANGED statVars
      /\ UNCHANGED <<vmStack, rootVar, globalRootCap, isPaused, held, errors>>
  BY DEF GcRemoveGlobalRoot
<1>2. TypeOK /\ Roots \subseteq live
  BY DEF IInv, RootsAreLive
<1>3. globalRoots' \in Seq(RootVars) /\ ToSet(globalRoots') \subseteq ToSet(globalRoots)
  <2>1. globalRoots \in Seq(RootVars)
    BY <1>2 DEF TypeOK
  <2>2. CASE r \in ToSet(globalRoots)
    <3>1. FirstIndex(globalRoots, r) \in DOMAIN globalRoots
      BY <2>1, <2>2, FirstIndexFacts
    <3>2. QED
      BY <1>1, <2>1, <2>2, <3>1, SwapRemoveFacts
  <2>3. CASE r \notin ToSet(globalRoots)
    BY <1>1, <2>1, <2>3
  <2>4. QED
    BY <2>2, <2>3
<1>4. registered' \in [RootVars -> Nat]
  <2>1. registered \in [RootVars -> Nat] /\ registered[r] \in Nat
    BY <1>2 DEF TypeOK
  <2>2. (IF registered[r] = 0 THEN 0 ELSE registered[r] - 1) \in Nat
    BY <2>1
  <2>3. QED
    BY <1>1, <2>1, <2>2
<1>5. Roots' \subseteq Roots
  <2>1. GlobalRoots' = {rootVar'[v] : v \in ToSet(globalRoots')} \ {NULL}
    BY DEF GlobalRoots, ToSet
  <2>2. GlobalRoots' \subseteq GlobalRoots
    BY <1>1, <1>3, <2>1 DEF GlobalRoots
  <2>3. StackRoots' = StackRoots
    BY <1>1 DEF StackRoots, ToSet
  <2>4. QED
    BY <2>2, <2>3 DEF Roots
<1>6. QED
  BY <1>1, <1>2, <1>3, <1>4, <1>5, RootStepIInv DEF TypeOK

\* The steps that change nothing but the evaluation stack.
LEMMA StackStepIInv ==
  ASSUME IInv, NEW v \in MaybeObject, GcSetVmStack \/ SvmPush(v) \/ SvmPop
  PROVE  IInv'
<1>1. /\ UNCHANGED heapVars /\ UNCHANGED statVars
      /\ UNCHANGED <<globalRoots, globalRootCap, rootVar, registered, isPaused, held, errors>>
  BY DEF GcSetVmStack, SvmPush, SvmPop
<1>2. TypeOK /\ Roots \subseteq live
  BY DEF IInv, RootsAreLive
<1>3. GlobalRoots' = GlobalRoots
  BY <1>1 DEF GlobalRoots, ToSet
<1>4. /\ vmStack' = NULL \/ vmStack' \in Seq(MaybeObject)
      /\ StackRoots' \subseteq live
  <2>1. CASE GcSetVmStack
    <3>1. vmStack' = NULL \/ vmStack' = <<>>
      BY <2>1 DEF GcSetVmStack
    <3>2. StackRoots' = {}
      <4>1. ToSet(<<>>) = {}
        BY DEF ToSet
      <4>2. StackRoots' = IF vmStack' = NULL THEN {} ELSE ToSet(vmStack') \ {NULL}
        BY DEF StackRoots, ToSet
      <4>3. QED
        BY <3>1, <4>1, <4>2
    <3>3. vmStack' = NULL \/ vmStack' \in Seq(MaybeObject)
      <4>1. <<>> \in Seq(MaybeObject)
        OBVIOUS
      <4>2. QED
        BY <3>1, <4>1
    <3>4. QED
      BY <3>2, <3>3
  <2>2. CASE SvmPush(v)
    <3>1. vmStack # NULL /\ vmStack' = Append(vmStack, v) /\ (v = NULL \/ v \in live)
      BY <2>2 DEF SvmPush, Reachable
    <3>2. vmStack' \in Seq(MaybeObject) /\ ToSet(vmStack') = ToSet(vmStack) \cup {v}
      BY <1>2, <3>1, AppendFacts DEF TypeOK
    <3>3. StackRoots = ToSet(vmStack) \ {NULL}
      BY <3>1 DEF StackRoots
    <3>4. StackRoots' \subseteq ToSet(vmStack') \ {NULL}
      BY DEF StackRoots, ToSet
    <3>5. QED
      BY <1>2, <3>1, <3>2, <3>3, <3>4 DEF Roots
  <2>3. CASE SvmPop
    <3>1. vmStack # NULL /\ vmStack # <<>> /\ vmStack' = Front(vmStack)
      BY <2>3 DEF SvmPop
    <3>2. vmStack' \in Seq(MaybeObject) /\ ToSet(vmStack') \subseteq ToSet(vmStack)
      BY <1>2, <3>1, FrontFacts DEF TypeOK
    <3>3. StackRoots = ToSet(vmStack) \ {NULL}
      BY <3>1 DEF StackRoots
    <3>4. StackRoots' \subseteq ToSet(vmStack') \ {NULL}
      BY DEF StackRoots, ToSet
    <3>5. QED
      BY <1>2, <3>1, <3>2, <3>3, <3>4 DEF Roots
  <2>4. QED
    BY <2>1, <2>2, <2>3
<1>5. Roots' \subseteq live
  BY <1>2, <1>3, <1>4 DEF Roots
<1>6. QED
  BY <1>1, <1>2, <1>4, <1>5, RootStepIInv DEF TypeOK

\* piGcSetPaused.
LEMMA GcSetPausedIInv ==
  ASSUME IInv, NEW p \in BOOLEAN, GcSetPaused(p)
  PROVE  IInv'
<1>1. /\ UNCHANGED heapVars /\ UNCHANGED statVars /\ UNCHANGED rootsVars
      /\ UNCHANGED <<held, errors>> /\ isPaused' = p
  BY DEF GcSetPaused
<1>2. Roots' \subseteq live
  BY <1>1, RootsUnchanged DEF IInv, RootsAreLive
<1>3. QED
  BY <1>1, <1>2, RootStepIInv DEF IInv, TypeOK, rootsVars

-------------------------------------------------------------------------------
(* The theorems.                                                              *)

\* Every step keeps the inductive invariant.
THEOREM NextIInv == IInv /\ [Next]_vars => IInv'
<1> SUFFICES ASSUME IInv, [Next]_vars PROVE IInv'
  OBVIOUS
<1>1. CASE GcCollect
  BY <1>1, GcCollectIInv
<1>2. CASE \E sz \in Sizes : GcAllocError(sz)
  BY <1>2, GcAllocErrorIInv
<1>3. CASE \E o \in Objects, sz \in Sizes : GcAlloc(o, sz)
  BY <1>3, GcAllocIInv
<1>4. CASE \E o \in Objects : GcRetain(o)
  BY <1>4, GcRetainIInv
<1>5. CASE \E o \in Objects : GcRelease(o)
  BY <1>5, GcReleaseIInv
<1>6. CASE \E o \in Objects : HostForget(o)
  BY <1>6, HostForgetIInv
<1>7. CASE \E r \in RootVars, o \in MaybeObject : HostAssign(r, o)
  BY <1>7, HostAssignIInv
<1>8. CASE \E r \in RootVars : GcAddGlobalRoot(r)
  BY <1>8, GcAddGlobalRootIInv
<1>9. CASE \E r \in RootVars : GcRemoveGlobalRoot(r)
  BY <1>9, GcRemoveGlobalRootIInv
<1>10. CASE GcSetVmStack \/ SvmPop
  <2>1. NULL \in MaybeObject
    BY DEF MaybeObject
  <2>2. QED
    BY <1>10, <2>1, StackStepIInv
<1>11. CASE \E v \in MaybeObject : SvmPush(v)
  BY <1>11, StackStepIInv
<1>12. CASE \E p \in BOOLEAN : GcSetPaused(p)
  BY <1>12, GcSetPausedIInv
<1>13. CASE UNCHANGED vars
  <2>1. /\ UNCHANGED heapVars /\ UNCHANGED statVars /\ UNCHANGED rootsVars
        /\ UNCHANGED <<held, errors, isPaused>>
    BY <1>13 DEF vars
  <2>2. Roots' \subseteq live
    BY <2>1, RootsUnchanged DEF IInv, RootsAreLive
  <2>3. QED
    BY <2>1, <2>2, RootStepIInv DEF IInv, TypeOK, rootsVars
<1>14. QED
  BY <1>1, <1>2, <1>3, <1>4, <1>5, <1>6, <1>7, <1>8, <1>9, <1>10, <1>11, <1>12, <1>13
     DEF Next

\* The invariant holds in every reachable state.
THEOREM SpecIInv == Spec => []IInv
  BY InitIInv, NextIInv, PTL DEF Spec

\* Types of the collector's state, whatever its parameters.
THEOREM TypeCorrect == Spec => []TypeOK
<1>1. IInv => TypeOK
  BY DEF IInv
<1>2. QED
  BY <1>1, SpecIInv, PTL

\* The mark phase never follows a pointer to freed memory.
THEOREM NoDanglingRoot == Spec => []RootsAreLive
<1>1. IInv => RootsAreLive
  BY DEF IInv
<1>2. QED
  BY <1>1, SpecIInv, PTL

\* No release frees an object that another owner holds.
THEOREM CountsCoverOwners == Spec => []CountCoversOwners
<1>1. IInv => CountCoversOwners
  BY DEF IInv
<1>2. QED
  BY <1>1, SpecIInv, PTL

\* The object counter is the length of the object list.
THEOREM ObjectCountExact == Spec => []CountExact
<1>1. IInv => CountExact
  BY DEF IInv
<1>2. QED
  BY <1>1, SpecIInv, PTL

\* A host that roots what it holds before every call that may collect never
\* loses an object it owns.
THEOREM RootedOwnersKeepObjects ==
  ASSUME HostRootsHeld
  PROVE  Spec => []OwnedStaysAllocated
<1>1. IInv => OwnedStaysAllocated
  BY DEF IInv
<1>2. QED
  BY <1>1, SpecIInv, PTL

-------------------------------------------------------------------------------
(* The books: bytes and registrations.                                        *)

\* What the statistics and the root array need besides IInv: that sizes are numbers,
\* which the headers hold when every request fits.
BooksInv ==
  /\ blockSize \in [Objects -> Nat]
  /\ bytesAllocated \in Nat
  /\ SizesFit => \A o \in Objects : blockSize[o] < SizeModulus
  /\ BooksExact

\* A counter is over what it counts by a whole number of headers' ranges.
Over(counter, bytes) ==
  counter - bytes \in Nat /\ (counter - bytes) % SizeModulus = 0

LEMMA OverNothing == Over(0, 0)
<1>1. 0 = 0 * SizeModulus /\ 0 - 0 = 0 /\ SizeModulus \in Nat \ {0}
  BY GcAssumption
<1>2. 0 % SizeModulus = 0
  BY <1>1, MultipleIs
<1>3. QED
  BY <1>1, <1>2 DEF Over

\* What two counters are over by adds up.
LEMMA OverAdd ==
  ASSUME NEW m \in Nat, NEW n \in Nat, m % SizeModulus = 0, n % SizeModulus = 0
  PROVE  m + n \in Nat /\ (m + n) % SizeModulus = 0
<1>1. SizeModulus \in Nat \ {0}
  BY GcAssumption
<1>2. (m + n) % SizeModulus = 0
  BY ONLY <1>1, m \in Nat, n \in Nat, m % SizeModulus = 0, n % SizeModulus = 0, MultiplesAdd
<1>3. QED
  BY <1>2

\* What the headers of a set of objects hold: as much as their blocks, less whole
\* multiples of 2^32.
LEMMA HeadersHold ==
  ASSUME NEW f \in [Objects -> Nat], NEW S \in SUBSET Objects
  PROVE  LET h == [o \in Objects |-> f[o] % SizeModulus]
         IN  /\ SumFunctionOnSet(f, S) \in Nat /\ SumFunctionOnSet(h, S) \in Nat
             /\ Over(SumFunctionOnSet(f, S), SumFunctionOnSet(h, S))
             /\ (\A o \in S : f[o] < SizeModulus)
                  => SumFunctionOnSet(f, S) = SumFunctionOnSet(h, S)
<1> DEFINE h == [o \in Objects |-> f[o] % SizeModulus]
           Sf(s) == SumFunctionOnSet(f, s)
           Sh(s) == SumFunctionOnSet(h, s)
           Bad == {s \in SUBSET S : ~Over(Sf(s), Sh(s))}
<1>1. \A o \in Objects : h[o] \in Nat /\ Over(f[o], h[o]) /\ (f[o] < SizeModulus => f[o] = h[o])
  <2> SUFFICES ASSUME NEW o \in Objects
               PROVE  h[o] \in Nat /\ Over(f[o], h[o]) /\ (f[o] < SizeModulus => f[o] = h[o])
    OBVIOUS
  <2>1. h[o] = f[o] % SizeModulus /\ f[o] \in Nat
    OBVIOUS
  <2>2. /\ f[o] % SizeModulus \in 0 .. SizeModulus - 1 /\ f[o] - (f[o] % SizeModulus) \in Nat
        /\ (f[o] - (f[o] % SizeModulus)) % SizeModulus = 0
    BY <2>1, RoundedDown, GcAssumption
  <2>3. f[o] < SizeModulus => f[o] % SizeModulus = f[o]
    BY <2>1, GcAssumption
  <2>4. QED
    BY <2>1, <2>2, <2>3 DEF Over
<1>2. \A s \in SUBSET S :
        /\ IsFiniteSet(s) /\ Sf(s) \in Nat /\ Sh(s) \in Nat /\ Cardinality(s) \in Nat
        /\ \A x \in s : Sf(s) = f[x] + Sf(s \ {x}) /\ Sh(s) = h[x] + Sh(s \ {x})
  <2> SUFFICES ASSUME NEW s \in SUBSET S
               PROVE  /\ IsFiniteSet(s) /\ Sf(s) \in Nat /\ Sh(s) \in Nat
                      /\ Cardinality(s) \in Nat
                      /\ \A x \in s : /\ Sf(s) = f[x] + Sf(s \ {x})
                                      /\ Sh(s) = h[x] + Sh(s \ {x})
    OBVIOUS
  <2>1. IsFiniteSet(s) /\ \A x \in s : f[x] \in Nat /\ h[x] \in Nat
    <3>1. IsFiniteSet(s)
      BY FS_Subset, GcAssumption
    <3> HIDE DEF h
    <3>2. QED
      BY <1>1, <3>1
  <2> HIDE DEF h
  <2>2. (\A x \in s : f[x] \in Int) /\ (\A x \in s : h[x] \in Int)
    BY <2>1
  <2>3. QED
    BY <2>1, <2>2, FS_CardinalityType, SumNat, SumRemove
<1>3. Sf({}) = 0 /\ Sh({}) = 0
  BY SumEmpty
<1>4. Bad = {}
  <2> HIDE DEF h, Sf, Sh
  <2> SUFFICES ASSUME Bad # {} PROVE FALSE
    OBVIOUS
  <2>1. PICK s \in Bad : \A t \in Bad : Cardinality(s) <= Cardinality(t)
    <3>1. Bad \in SUBSET (SUBSET S) /\ IsFiniteSet(S)
      BY FS_Subset, GcAssumption
    <3> HIDE DEF Bad
    <3>2. QED
      BY <3>1, SmallestSet
  <2>2. s # {}
    BY <1>3, OverNothing
  <2>3. PICK x \in s : TRUE
    BY <2>2
  <2> DEFINE r == s \ {x}
  <2>4. r \in SUBSET S /\ Cardinality(r) = Cardinality(s) - 1 /\ Cardinality(s) \in Nat
    BY <1>2, FS_RemoveElement
  <2>5. Over(Sf(r), Sh(r)) /\ Sf(r) \in Nat /\ Sh(r) \in Nat
    BY <1>2, <2>1, <2>4
  <2>6. Sf(s) = f[x] + Sf(r) /\ Sh(s) = h[x] + Sh(r)
    BY <1>2
  <2>7. x \in Objects /\ Over(f[x], h[x]) /\ f[x] \in Nat /\ h[x] \in Nat
    BY <1>1
  <2> DEFINE m == f[x] - h[x]
             n == Sf(r) - Sh(r)
  <2>8. m \in Nat /\ n \in Nat /\ m % SizeModulus = 0 /\ n % SizeModulus = 0
    BY <2>5, <2>7 DEF Over
  <2>9. Sf(s) - Sh(s) = m + n
    BY <2>5, <2>6, <2>7
  <2> HIDE DEF m, n
  <2>10. (m + n) % SizeModulus = 0 /\ m + n \in Nat
    BY <2>8, OverAdd
  <2>11. Over(Sf(s), Sh(s))
    BY <2>9, <2>10 DEF Over
  <2>12. QED
    BY <2>11
<1>5. (\A o \in S : f[o] < SizeModulus) => Sf(S) = Sh(S)
  <2> SUFFICES ASSUME \A o \in S : f[o] < SizeModulus PROVE Sf(S) = Sh(S)
    OBVIOUS
  <2>1. IsFiniteSet(S) /\ \A x \in S : f[x] \in Int /\ f[x] = h[x]
    <3>1. IsFiniteSet(S)
      BY FS_Subset, GcAssumption
    <3> HIDE DEF h
    <3>2. QED
      BY <1>1, <3>1
  <2> HIDE DEF h
  <2>2. QED
    BY <2>1, SumAgree
<1>6. QED
  BY <1>2, <1>4, <1>5

\* A counter that is over stays over by what the headers could not give back.
LEMMA OverLess ==
  ASSUME NEW c \in Int, NEW b \in Nat, NEW f \in Nat, NEW g \in Nat,
         Over(c, b), Over(f, g)
  PROVE  Over(c - g, b - f)
<1> DEFINE m == c - b
           n == f - g
<1>1. m \in Nat /\ n \in Nat /\ m % SizeModulus = 0 /\ n % SizeModulus = 0
  BY DEF Over
<1>2. (c - g) - (b - f) = m + n
  OBVIOUS
<1> HIDE DEF m, n
<1>3. (m + n) % SizeModulus = 0 /\ m + n \in Nat
  BY <1>1, OverAdd
<1>4. QED
  BY <1>2, <1>3 DEF Over

\* Where r is registered in the array s.
Slots(s, r) == {i \in DOMAIN s : s[i] = r}

\* Each registration takes one slot.
LEMMA AppendSlots ==
  ASSUME NEW S, NEW s \in Seq(S), NEW r \in S, NEW q \in S
  PROVE  Cardinality(Slots(Append(s, r), q)) =
           Cardinality(Slots(s, q)) + (IF q = r THEN 1 ELSE 0)
<1>1. /\ Append(s, r) \in Seq(S) /\ DOMAIN Append(s, r) = 1 .. Len(s) + 1
      /\ \A i \in 1 .. Len(s) : Append(s, r)[i] = s[i]
      /\ Append(s, r)[Len(s) + 1] = r
      /\ DOMAIN s = 1 .. Len(s) /\ Len(s) \in Nat
  OBVIOUS
<1>2. IsFiniteSet(Slots(s, q)) /\ Cardinality(Slots(s, q)) \in Nat
  <2>1. IsFiniteSet(1 .. Len(s))
    BY <1>1, FS_Interval
  <2>2. QED
    BY <1>1, <2>1, FS_Subset, FS_CardinalityType DEF Slots
<1>3. CASE q = r
  <2>1. Slots(Append(s, r), q) = Slots(s, q) \cup {Len(s) + 1} /\ Len(s) + 1 \notin Slots(s, q)
    BY <1>1, <1>3 DEF Slots
  <2>2. QED
    BY <1>2, <1>3, <2>1, FS_AddElement
<1>4. CASE q # r
  <2>1. Slots(Append(s, r), q) = Slots(s, q)
    BY <1>1, <1>4 DEF Slots
  <2>2. QED
    BY <1>2, <1>4, <2>1
<1>5. QED
  BY <1>3, <1>4

\* The swap with the last slot gives one slot back, whichever it was.
LEMMA SwapRemoveSlots ==
  ASSUME NEW S, NEW s \in Seq(S), NEW i \in DOMAIN s, NEW q \in S
  PROVE  /\ Cardinality(Slots(SwapRemove(s, i), q)) =
              Cardinality(Slots(s, q)) - (IF q = s[i] THEN 1 ELSE 0)
         /\ Len(SwapRemove(s, i)) = Len(s) - 1
<1> DEFINE n == Len(s)
           t == SwapRemove(s, i)
<1>1. n \in Nat /\ n > 0 /\ DOMAIN s = 1 .. n /\ i \in 1 .. n
  OBVIOUS
<1>2. /\ Len(t) = n - 1 /\ DOMAIN t = 1 .. n - 1
      /\ \A j \in 1 .. n - 1 : t[j] = IF j = i THEN s[n] ELSE s[j]
  BY <1>1 DEF SwapRemove, Front, Last
<1> HIDE DEF n, t
<1>3. IsFiniteSet(Slots(s, q)) /\ Cardinality(Slots(s, q)) \in Nat
  <2>1. IsFiniteSet(1 .. n)
    BY <1>1, FS_Interval
  <2>2. QED
    BY <1>1, <2>1, FS_Subset, FS_CardinalityType DEF Slots
<1>4. CASE q = s[n]
  <2>1. n \in Slots(s, q)
    BY <1>1, <1>4 DEF Slots
  <2>2. /\ IsFiniteSet(Slots(s, q) \ {n})
        /\ Cardinality(Slots(s, q) \ {n}) = Cardinality(Slots(s, q)) - 1
    BY <1>3, <2>1, FS_RemoveElement
  <2>3. CASE q = s[i]
    <3>1. Slots(t, q) = Slots(s, q) \ {n}
      BY <1>1, <1>2, <1>4, <2>3 DEF Slots
    <3>2. QED
      BY <1>2, <2>2, <2>3, <3>1 DEF n, t
  <2>4. CASE q # s[i]
    <3>1. Slots(t, q) = (Slots(s, q) \ {n}) \cup {i} /\ i \notin Slots(s, q)
      BY <1>1, <1>2, <1>4, <2>4 DEF Slots
    <3>2. Cardinality(Slots(t, q)) = Cardinality(Slots(s, q) \ {n}) + 1
      BY <2>2, <3>1, FS_AddElement
    <3>3. QED
      BY <1>2, <1>3, <2>2, <2>4, <3>2 DEF n, t
  <2>5. QED
    BY <2>3, <2>4
<1>5. CASE q # s[n]
  <2>1. CASE q = s[i]
    <3>1. Slots(t, q) = Slots(s, q) \ {i} /\ i \in Slots(s, q)
      BY <1>1, <1>2, <1>5, <2>1 DEF Slots
    <3>2. Cardinality(Slots(s, q) \ {i}) = Cardinality(Slots(s, q)) - 1
      BY <1>3, <3>1, FS_RemoveElement
    <3>3. QED
      BY <1>2, <2>1, <3>1, <3>2 DEF n, t
  <2>2. CASE q # s[i]
    <3>1. Slots(t, q) = Slots(s, q)
      BY <1>1, <1>2, <1>5, <2>2 DEF Slots
    <3>2. QED
      BY <1>2, <1>3, <2>2, <3>1 DEF n, t
  <2>3. QED
    BY <2>1, <2>2
<1>6. QED
  BY <1>4, <1>5

\* The byte counter as the invariant states it.
LEMMA CounterIs ==
  ASSUME bytesAllocated \in Int, Bytes(live) \in Nat, CountExact
  PROVE  StatsExact <=> /\ Over(bytesAllocated, Bytes(live))
                        /\ SizesFit => bytesAllocated = Bytes(live)
  BY DEF StatsExact, Over

\* What BooksInv says of the blocks and of the headers of a set of objects.
LEMMA BytesFacts ==
  ASSUME BooksInv, NEW S \in SUBSET Objects
  PROVE  /\ Bytes(S) \in Nat /\ HeaderBytes(S) \in Nat /\ Over(Bytes(S), HeaderBytes(S))
         /\ SizesFit => Bytes(S) = HeaderBytes(S)
<1>1. blockSize \in [Objects -> Nat] /\ (SizesFit => \A o \in S : blockSize[o] < SizeModulus)
  BY DEF BooksInv
<1>2. /\ SumFunctionOnSet(blockSize, S) \in Nat /\ SumFunctionOnSet(objSize, S) \in Nat
      /\ Over(SumFunctionOnSet(blockSize, S), SumFunctionOnSet(objSize, S))
      /\ (\A o \in S : blockSize[o] < SizeModulus)
           => SumFunctionOnSet(blockSize, S) = SumFunctionOnSet(objSize, S)
  BY <1>1, HeadersHold DEF objSize
<1>3. QED
  BY <1>1, <1>2 DEF Bytes, HeaderBytes

\* Bytes go with the objects swept and come with the object added.
LEMMA CollectThenAddBooks ==
  ASSUME IInv, BooksInv, NEW n \in Nat, NEW new \in SUBSET Objects, NEW sz \in Nat,
         new = {} \/ (sz \in Sizes /\ \E o \in Objects : new = {o}),
         new \cap (live \ Freed(n)) = {},
         CollectThenAdd(n, new, sz), IInv', UNCHANGED rootsVars
  PROVE  BooksInv'
<1> DEFINE kept == live \ Freed(n)
           b == bytesAllocated - HeaderBytes(Freed(n))
<1>1. /\ live' = kept \cup new
      /\ blockSize' = [o \in Objects |-> IF o \in new THEN sz
                         ELSE IF o \in Freed(n) \ new THEN 0 ELSE blockSize[o]]
      /\ bytesAllocated' = IF new = {} THEN b ELSE b + sz
  BY DEF CollectThenAdd
<1>2. blockSize \in [Objects -> Nat] /\ bytesAllocated \in Nat
  BY DEF BooksInv
<1>3. blockSize' \in [Objects -> Nat]
  BY <1>1, <1>2
<1>4. /\ live \subseteq Objects /\ IsFiniteSet(live) /\ Freed(n) \subseteq live
      /\ kept \subseteq Objects /\ IsFiniteSet(kept)
  <2>1. live \subseteq Objects /\ Freed(n) \subseteq live
    BY DEF IInv, TypeOK, Freed, GcSweep
  <2>2. QED
    BY <2>1, FS_Subset, GcAssumption
<1>5. Bytes(kept) = Bytes(live) - Bytes(Freed(n)) /\ Bytes(kept) \in Nat /\ Bytes(live) \in Nat
  <2>1. \A o \in live : blockSize[o] \in Int
    BY <1>2, <1>4
  <2>2. Bytes(kept) = Bytes(live) - Bytes(Freed(n))
    BY <1>4, <2>1, SumWithout DEF Bytes
  <2>3. QED
    BY <1>4, <2>2, BytesFacts
<1>6. /\ Bytes(Freed(n)) \in Nat /\ HeaderBytes(Freed(n)) \in Nat
      /\ Over(Bytes(Freed(n)), HeaderBytes(Freed(n)))
      /\ SizesFit => Bytes(Freed(n)) = HeaderBytes(Freed(n))
  <2>1. Freed(n) \in SUBSET Objects
    BY <1>4
  <2>2. QED
    BY ONLY <2>1, BooksInv, BytesFacts
<1>7. Over(bytesAllocated, Bytes(live)) /\ (SizesFit => bytesAllocated = Bytes(live))
  BY <1>2, <1>5, CounterIs DEF BooksInv, BooksExact, IInv
<1>8. /\ Over(b, Bytes(kept)) /\ b \in Nat
      /\ SizesFit => b = Bytes(kept)
  <2>1. Over(b, Bytes(kept))
    BY <1>2, <1>5, <1>6, <1>7, OverLess
  <2>2. b \in Int /\ b - Bytes(kept) \in Nat
    BY <1>2, <1>6, <2>1 DEF Over
  <2>3. b \in Nat
    BY <1>5, <2>2
  <2>4. SizesFit => b = Bytes(kept)
    BY <1>5, <1>6, <1>7
  <2>5. QED
    BY <2>1, <2>3, <2>4
<1> HIDE DEF b
<1>9. SumFunctionOnSet(blockSize', kept) = Bytes(kept)
  <2>1. \A o \in kept : blockSize'[o] \in Int /\ blockSize'[o] = blockSize[o]
    BY <1>1, <1>2, <1>4
  <2>2. QED
    BY <1>4, <2>1, SumAgree DEF Bytes
<1>10. /\ Over(bytesAllocated', SumFunctionOnSet(blockSize', live')) /\ bytesAllocated' \in Nat
       /\ SumFunctionOnSet(blockSize', live') \in Nat
       /\ SizesFit => bytesAllocated' = SumFunctionOnSet(blockSize', live')
  <2>1. CASE new = {}
    <3>1. live' = kept /\ bytesAllocated' = b
      BY <1>1, <2>1
    <3>2. QED
      BY <1>5, <1>8, <1>9, <3>1
  <2>2. CASE \E o \in Objects : new = {o}
    <3>1. PICK o \in Objects : new = {o}
      BY <2>2
    <3>2. /\ o \notin kept /\ blockSize'[o] = sz /\ \A p \in kept \cup {o} : blockSize'[p] \in Int
          /\ live' = kept \cup {o} /\ bytesAllocated' = b + sz
      BY <1>1, <1>3, <1>4, <3>1
    <3>3. SumFunctionOnSet(blockSize', live') = Bytes(kept) + sz
      BY <1>4, <1>9, <3>2, SumAdd
    <3>4. (b + sz) - (Bytes(kept) + sz) = b - Bytes(kept)
      BY <1>5, <1>8
    <3>5. QED
      BY <1>5, <1>8, <3>2, <3>3, <3>4 DEF Over
  <2>3. QED
    BY <2>1, <2>2
<1>11. StatsExact'
  <2>1. (bytesAllocated \in Int /\ Bytes(live) \in Nat /\ CountExact)'
    BY <1>10 DEF Bytes, IInv
  <2>2. (Over(bytesAllocated, Bytes(live)) /\ (SizesFit => bytesAllocated = Bytes(live)))'
    BY <1>10 DEF Bytes, Over, SizesFit
  <2>3. (bytesAllocated \in Int /\ Bytes(live) \in Nat /\ CountExact =>
          (StatsExact <=> Over(bytesAllocated, Bytes(live))
                            /\ (SizesFit => bytesAllocated = Bytes(live))))'
    BY CounterIs, PTL
  <2>4. QED
    BY <2>1, <2>2, <2>3
<1>12. RootsBalanced'
  BY DEF BooksInv, BooksExact, RootsBalanced, rootsVars
<1>13. SizesFit => \A o \in Objects : blockSize'[o] < SizeModulus
  <2> SUFFICES ASSUME SizesFit, NEW o \in Objects PROVE blockSize'[o] < SizeModulus
    OBVIOUS
  <2>1. blockSize[o] < SizeModulus /\ (o \in new => sz < SizeModulus) /\ 0 < SizeModulus
    BY GcAssumption DEF BooksInv, SizesFit
  <2>2. QED
    BY <1>1, <2>1
<1>14. QED
  BY <1>3, <1>10, <1>11, <1>12, <1>13 DEF BooksInv, BooksExact, SizesFit

\* The shape of every step that leaves the objects and their sizes alone.
LEMMA BooksUnchanged ==
  ASSUME BooksInv, IInv', UNCHANGED <<live, blockSize, bytesAllocated>>,
         RootsBalanced'
  PROVE  BooksInv'
<1>1. Bytes(live)' = Bytes(live)
  BY DEF Bytes
<1>2. QED
  BY <1>1 DEF BooksInv, BooksExact, StatsExact, IInv, SizesFit

\* piGcRelease gives back the bytes that the header of what it frees could hold.
LEMMA GcReleaseBooks ==
  ASSUME IInv, BooksInv, NEW o \in Objects, GcRelease(o), IInv'
  PROVE  BooksInv'
<1>1. UNCHANGED rootsVars /\ GcDecrement(o) /\ o \in live
  BY DEF GcRelease
<1>2. RootsBalanced'
  BY <1>1 DEF BooksInv, BooksExact, RootsBalanced, rootsVars
<1>3. CASE UNCHANGED <<live, blockSize, bytesAllocated>>
  BY <1>2, <1>3, BooksUnchanged
<1>4. CASE GcFreeObject(o)
  <2>1. /\ live' = live \ {o} /\ blockSize' = [blockSize EXCEPT ![o] = 0]
        /\ bytesAllocated' = bytesAllocated - objSize[o]
    BY <1>4 DEF GcFreeObject, CountFreed
  <2>2. /\ blockSize \in [Objects -> Nat] /\ bytesAllocated \in Nat /\ live \subseteq Objects
    BY DEF BooksInv, IInv, TypeOK
  <2>3. IsFiniteSet(live) /\ IsFiniteSet(live \ {o})
    BY <2>2, FS_Subset, GcAssumption
  <2>4. /\ Bytes(live) = blockSize[o] + Bytes(live \ {o})
        /\ Bytes(live) \in Nat /\ Bytes(live \ {o}) \in Nat
    <3>1. \A p \in live : blockSize[p] \in Int
      BY <2>2
    <3>2. Bytes(live) = blockSize[o] + Bytes(live \ {o})
      BY <1>1, <2>3, <3>1, SumRemove DEF Bytes
    <3>3. live \in SUBSET Objects /\ live \ {o} \in SUBSET Objects
      BY <2>2
    <3>4. QED
      BY <3>2, <3>3, BytesFacts
  <2>5. /\ blockSize[o] \in Nat /\ objSize[o] \in Nat /\ Over(blockSize[o], objSize[o])
        /\ SizesFit => blockSize[o] = objSize[o]
    <3>1. /\ blockSize[o] \in Nat /\ objSize[o] = blockSize[o] % SizeModulus
          /\ SizeModulus \in Nat \ {0}
      BY <2>2, GcAssumption DEF objSize
    <3>2. SizesFit => blockSize[o] < SizeModulus
      BY DEF BooksInv
    <3>3. SizesFit => blockSize[o] % SizeModulus = blockSize[o]
      BY <3>1, <3>2
    <3> DEFINE z == blockSize[o]
    <3>4. z % SizeModulus \in 0 .. SizeModulus - 1 /\ Over(z, z % SizeModulus)
      BY <3>1, RoundedDown DEF Over
    <3> HIDE DEF z
    <3>5. z % SizeModulus \in Nat
      BY <3>1, <3>4
    <3>6. QED
      BY <3>1, <3>3, <3>4, <3>5 DEF z
  <2>6. SumFunctionOnSet(blockSize', live') = Bytes(live \ {o})
    <3>1. \A p \in live \ {o} : blockSize[p] \in Int /\ blockSize[p] = blockSize'[p]
      BY <2>1, <2>2
    <3>2. QED
      BY <2>1, <2>3, <3>1, SumAgree DEF Bytes
  <2>7. Over(bytesAllocated, Bytes(live)) /\ (SizesFit => bytesAllocated = Bytes(live))
    BY <2>2, <2>4, CounterIs DEF BooksInv, BooksExact, IInv
  <2>8. /\ Over(bytesAllocated', Bytes(live \ {o})) /\ bytesAllocated' \in Nat
        /\ SizesFit => bytesAllocated' = Bytes(live \ {o})
    <3> DEFINE c == bytesAllocated - objSize[o]
    <3>1. Over(c, Bytes(live) - blockSize[o]) /\ Bytes(live) - blockSize[o] = Bytes(live \ {o})
      BY <2>2, <2>4, <2>5, <2>7, OverLess
    <3>2. c \in Int /\ c - Bytes(live \ {o}) \in Nat
      BY <2>2, <2>5, <3>1 DEF Over
    <3>3. c \in Nat /\ (SizesFit => c = Bytes(live \ {o}))
      BY <2>4, <2>5, <2>7, <3>2
    <3>4. QED
      BY <2>1, <3>1, <3>3
  <2>9. StatsExact'
    <3>1. (bytesAllocated \in Int /\ Bytes(live) \in Nat /\ CountExact)'
      BY <2>4, <2>6, <2>8 DEF Bytes, IInv
    <3>2. (Over(bytesAllocated, Bytes(live)) /\ (SizesFit => bytesAllocated = Bytes(live)))'
      BY <2>6, <2>8 DEF Bytes, Over, SizesFit
    <3>3. (bytesAllocated \in Int /\ Bytes(live) \in Nat /\ CountExact =>
            (StatsExact <=> Over(bytesAllocated, Bytes(live))
                              /\ (SizesFit => bytesAllocated = Bytes(live))))'
      BY CounterIs, PTL
    <3>4. QED
      BY <3>1, <3>2, <3>3
  <2>10. blockSize' \in [Objects -> Nat] /\ \A p \in Objects : blockSize'[p] <= blockSize[p]
    BY <2>1, <2>2
  <2>11. SizesFit => \A p \in Objects : blockSize'[p] < SizeModulus
    BY <2>2, <2>10, GcAssumption DEF BooksInv
  <2>12. QED
    BY <1>2, <2>8, <2>9, <2>10, <2>11 DEF BooksInv, BooksExact, SizesFit
<1>5. QED
  BY <1>1, <1>3, <1>4 DEF GcDecrement, heapVars, statVars

\* Registering and removing a root.
LEMMA RootBooks ==
  ASSUME IInv, BooksInv, NEW r \in RootVars, GcAddGlobalRoot(r) \/ GcRemoveGlobalRoot(r), IInv'
  PROVE  BooksInv'
<1>1. UNCHANGED <<live, blockSize, bytesAllocated>>
  BY DEF GcAddGlobalRoot, GcRemoveGlobalRoot, heapVars, statVars
<1>2. /\ globalRoots \in Seq(RootVars) /\ registered \in [RootVars -> Nat]
      /\ globalRootCap \in Nat /\ Len(globalRoots) \in Nat /\ Len(globalRoots) <= globalRootCap
      /\ \A q \in RootVars : Cardinality(Slots(globalRoots, q)) = registered[q]
  BY DEF IInv, TypeOK, BooksInv, BooksExact, RootsBalanced, Slots
<1>3. CASE GcAddGlobalRoot(r)
  <2>1. /\ globalRoots' = Append(globalRoots, r)
        /\ registered' = [registered EXCEPT ![r] = @ + 1]
        /\ globalRootCap' = IF Len(globalRoots) >= globalRootCap
                        THEN IF globalRootCap = 0 THEN InitialRootCap ELSE 2 * globalRootCap
                        ELSE globalRootCap
    BY <1>3 DEF GcAddGlobalRoot
  <2>2. \A q \in RootVars : Cardinality(Slots(globalRoots', q)) = registered'[q]
    BY <1>2, <2>1, AppendSlots
  <2>3. Len(globalRoots') = Len(globalRoots) + 1
    BY <1>2, <2>1
  <2>4. Len(globalRoots') <= globalRootCap'
    BY <1>2, <2>1, <2>3, GcAssumption
  <2>5. QED
    BY <1>1, <2>2, <2>4, BooksUnchanged DEF RootsBalanced, Slots
<1>4. CASE GcRemoveGlobalRoot(r)
  <2>1. /\ globalRoots' = IF r \in ToSet(globalRoots)
                          THEN SwapRemove(globalRoots, FirstIndex(globalRoots, r))
                          ELSE globalRoots
        /\ registered' = [registered EXCEPT ![r] = IF @ = 0 THEN 0 ELSE @ - 1]
        /\ globalRootCap' = globalRootCap
    BY <1>4 DEF GcRemoveGlobalRoot
  <2>2. CASE r \in ToSet(globalRoots)
    <3> DEFINE i == FirstIndex(globalRoots, r)
    <3>1. i \in DOMAIN globalRoots /\ globalRoots[i] = r
      BY <1>2, <2>2, FirstIndexFacts
    <3> HIDE DEF i
    <3>2. /\ \A q \in RootVars : Cardinality(Slots(globalRoots', q)) =
                 Cardinality(Slots(globalRoots, q)) - (IF q = r THEN 1 ELSE 0)
          /\ Len(globalRoots') = Len(globalRoots) - 1
      BY <1>2, <2>1, <2>2, <3>1, SwapRemoveSlots DEF i
    <3>3. registered[r] # 0
      <4>1. i \in Slots(globalRoots, r) /\ IsFiniteSet(Slots(globalRoots, r))
        <5>1. IsFiniteSet(1 .. Len(globalRoots)) /\ DOMAIN globalRoots = 1 .. Len(globalRoots)
          BY <1>2, FS_Interval
        <5>2. QED
          BY <3>1, <5>1, FS_Subset DEF Slots
      <4>2. QED
        BY <1>2, <4>1, FS_EmptySet
    <3>4. \A q \in RootVars : Cardinality(Slots(globalRoots', q)) = registered'[q]
      BY <1>2, <2>1, <3>2, <3>3
    <3>5. Len(globalRoots') <= globalRootCap'
      BY <1>2, <2>1, <3>2
    <3>6. QED
      BY <1>1, <3>4, <3>5, BooksUnchanged DEF RootsBalanced, Slots
  <2>3. CASE r \notin ToSet(globalRoots)
    <3>1. Slots(globalRoots, r) = {}
      BY <2>3 DEF Slots, ToSet
    <3>2. registered[r] = 0
      BY <1>2, <3>1, FS_EmptySet
    <3>3. registered' = registered /\ globalRoots' = globalRoots
      BY <1>2, <2>1, <2>3, <3>2
    <3>4. QED
      BY <1>1, <1>2, <2>1, <3>3, BooksUnchanged DEF RootsBalanced, Slots
  <2>4. QED
    BY <2>2, <2>3
<1>5. QED
  BY <1>3, <1>4

\* The books of an empty heap are exact.
LEMMA InitBooksInv == Init => BooksInv
<1> SUFFICES ASSUME Init PROVE BooksInv
  OBVIOUS
<1>1. /\ blockSize \in [Objects -> Nat] /\ bytesAllocated = 0
      /\ \A o \in Objects : blockSize[o] < SizeModulus
  BY GcAssumption DEF Init
<1>2. StatsExact
  <2>1. CountExact /\ Bytes(live) = 0
    BY FS_EmptySet, SumEmpty DEF Init, CountExact, Bytes
  <2>2. QED
    BY <1>1, <2>1, OverNothing, CounterIs
<1>3. RootsBalanced
  <2>1. \A r : {i \in DOMAIN <<>> : <<>>[i] = r} = {}
    OBVIOUS
  <2>2. QED
    BY <2>1, FS_EmptySet DEF Init, RootsBalanced
<1>4. QED
  BY <1>1, <1>2, <1>3 DEF BooksInv, BooksExact

\* Every step keeps the books.
LEMMA NextBooksInv == IInv /\ BooksInv /\ [Next]_vars => BooksInv'
<1> SUFFICES ASSUME IInv, BooksInv, [Next]_vars PROVE BooksInv'
  OBVIOUS
<1>1. IInv'
  BY NextIInv
<1>2. CASE GcCollect
  <2>1. CollectThenAdd(1, {}, 0) /\ UNCHANGED rootsVars
    BY <1>2 DEF GcCollect
  <2>2. QED
    BY <1>1, <2>1, CollectThenAddBooks
<1>3. ASSUME NEW sz \in Sizes, GcAllocError(sz) PROVE BooksInv'
  <2> DEFINE n == AllocRuns(sz)
  <2>1. CollectThenAdd(n, {}, 0) /\ UNCHANGED rootsVars /\ n \in Nat
    BY <1>3, AllocRunsType DEF GcAllocError
  <2> HIDE DEF n
  <2>2. QED
    BY <1>1, <2>1, CollectThenAddBooks
<1>4. ASSUME NEW o \in Objects, NEW sz \in Sizes, GcAlloc(o, sz) PROVE BooksInv'
  <2> DEFINE n == AllocRuns(sz)
  <2>1. /\ CollectThenAdd(n, {o}, sz) /\ UNCHANGED rootsVars /\ n \in Nat
        /\ o \notin live \ Freed(n)
    BY <1>4, AllocRunsType DEF GcAlloc
  <2> HIDE DEF n
  <2>2. QED
    BY <1>1, <2>1, CollectThenAddBooks, GcAssumption
<1>5. ASSUME NEW o \in Objects, GcRelease(o) PROVE BooksInv'
  BY <1>1, <1>5, GcReleaseBooks
<1>6. ASSUME NEW r \in RootVars, GcAddGlobalRoot(r) \/ GcRemoveGlobalRoot(r) PROVE BooksInv'
  BY <1>1, <1>6, RootBooks
<1>7. CASE UNCHANGED <<live, blockSize, bytesAllocated, globalRoots, globalRootCap, registered>>
  <2>1. RootsBalanced'
    BY <1>7 DEF BooksInv, BooksExact, RootsBalanced
  <2>2. QED
    BY <1>1, <1>7, <2>1, BooksUnchanged
<1>8. ASSUME NEW o \in Objects, GcRetain(o) \/ HostForget(o) PROVE BooksInv'
  BY <1>7, <1>8 DEF GcRetain, HostForget, heapVars, rootsVars, statVars
<1>9. ASSUME NEW r \in RootVars, NEW o \in MaybeObject, HostAssign(r, o) PROVE BooksInv'
  BY <1>7, <1>9 DEF HostAssign, heapVars, statVars
<1>10. ASSUME NEW v, GcSetVmStack \/ SvmPush(v) \/ SvmPop PROVE BooksInv'
  BY <1>7, <1>10 DEF GcSetVmStack, SvmPush, SvmPop, heapVars, statVars
<1>11. ASSUME NEW p \in BOOLEAN, GcSetPaused(p) PROVE BooksInv'
  BY <1>7, <1>11 DEF GcSetPaused, heapVars, rootsVars, statVars
<1>12. CASE UNCHANGED vars
  BY <1>7, <1>12 DEF vars, heapVars, rootsVars, statVars
<1>13. QED
  BY <1>2, <1>3, <1>4, <1>5, <1>6, <1>8, <1>9, <1>10, <1>11, <1>12 DEF Next

\* The object counter is the length of the list, the byte counter the size of what
\* is on it when every request fits the header's 32 bits and otherwise over by whole
\* multiples of 2^32, and registrations and removals of roots balance.
THEOREM BooksAreExact == Spec => []BooksExact
<1>1. IInv /\ BooksInv /\ [Next]_vars => (IInv /\ BooksInv)'
  BY NextIInv, NextBooksInv
<1>2. IInv /\ BooksInv => BooksExact
  BY DEF BooksInv
<1>3. QED
  BY <1>1, <1>2, InitIInv, InitBooksInv, PTL DEF Spec

-------------------------------------------------------------------------------
(* What a step may do to objects.                                             *)

\* What FreedBySweepOrLastOwner asks of one step.
FreesSoundly ==
  \A o \in live \ live' :
    \/ ~isPaused /\ collectionCount' > collectionCount
    \/ o \notin frozen /\ held[o] = 1 /\ held'[o] = 0

\* What CollectIsExact asks of one step.
CollectsExactly ==
  collectionCount' > collectionCount =>
    /\ \A o \in Roots : /\ o \in live' /\ refCount'[o] = refCount[o]
                        /\ (o \in frozen <=> o \in frozen')
    /\ \A o \in live' \ Roots : refCount'[o] = 1 /\ o \notin marked'
    /\ Cardinality(live' \ Roots) =
         (objectCount' + objectsFreed') - (objectCount + objectsFreed)

\* The shape of the steps that collect: what they free was unreachable and the
\* collector ran; what survives, a root reaches, or it is the object allocated.
LEMMA CollectThenAddFrees ==
  ASSUME IInv, NEW n \in Nat, NEW new \in SUBSET Objects, NEW sz,
         new \cap (live \ Freed(n)) = {}, CollectThenAdd(n, new, sz)
  PROVE  FreesSoundly /\ CollectsExactly
<1>1. /\ live' = (live \ Freed(n)) \cup new
      /\ refCount' = [o \in Objects |-> IF o \in new THEN 1
                        ELSE IF o \in Freed(n) \ new THEN 0 ELSE refCount[o]]
      /\ frozen' = frozen \ (Freed(n) \cup new)
      /\ marked' = (IF (IF isPaused THEN 0 ELSE n) = 0 THEN marked ELSE GcMarks)
                     \ (Freed(n) \cup new)
      /\ collectionCount' = collectionCount + (IF isPaused THEN 0 ELSE n)
      /\ objectCount' = objectCount - Cardinality(Freed(n)) + Cardinality(new)
      /\ objectsFreed' = objectsFreed + Cardinality(Freed(n))
  BY DEF CollectThenAdd
<1>2. /\ live \subseteq Objects /\ collectionCount \in Nat /\ Roots \subseteq live
      /\ marked \subseteq live /\ objectCount \in Nat /\ objectsFreed \in Nat
  BY DEF IInv, TypeOK, RootsAreLive
<1>3. Freed(n) = IF n = 0 \/ isPaused THEN {} ELSE live \ ((marked \ live) \cup Roots)
  BY DEF Freed, GcSweep, GcMarks, GcMarkRoots, GcClearMarks
<1>4. \A o \in live \ live' : ~isPaused /\ collectionCount' > collectionCount
  BY <1>1, <1>2, <1>3
<1>5. ASSUME NEW o \in Roots
      PROVE  /\ o \in live' /\ refCount'[o] = refCount[o]
             /\ (o \in frozen <=> o \in frozen')
  <2>1. o \in live \ Freed(n) /\ o \notin new /\ o \in Objects
    BY <1>2, <1>3
  <2>2. QED
    BY <1>1, <2>1
<1>6. ASSUME collectionCount' > collectionCount
      PROVE  /\ live' \ Roots = new
             /\ \A o \in new : refCount'[o] = 1 /\ o \notin marked'
             /\ Cardinality(new) =
                  (objectCount' + objectsFreed') - (objectCount + objectsFreed)
  <2>1. ~isPaused /\ n # 0
    BY <1>1, <1>2, <1>6
  <2>2. live \ Freed(n) = Roots
    BY <1>2, <1>3, <2>1
  <2>3. live' \ Roots = new
    BY <1>1, <2>2
  <2>4. \A o \in new : refCount'[o] = 1 /\ o \notin marked'
    BY <1>1
  <2>5. Cardinality(Freed(n)) \in Nat /\ Cardinality(new) \in Nat
    <3>1. Freed(n) \subseteq Objects
      BY <1>2, <1>3
    <3>2. IsFiniteSet(Freed(n)) /\ IsFiniteSet(new)
      BY <3>1, FS_Subset, GcAssumption
    <3>3. QED
      BY <3>2, FS_CardinalityType
  <2> DEFINE cf == Cardinality(Freed(n))
             cn == Cardinality(new)
  <2>6. objectCount' = objectCount - cf + cn /\ objectsFreed' = objectsFreed + cf
    BY <1>1
  <2> HIDE DEF cf, cn
  <2>7. cf \in Nat /\ cn \in Nat
    BY <2>5 DEF cf, cn
  <2>8. cn = (objectCount' + objectsFreed') - (objectCount + objectsFreed)
    BY <1>2, <2>6, <2>7
  <2>9. QED
    BY <2>3, <2>4, <2>8 DEF cn
<1>7. QED
  BY <1>4, <1>5, <1>6 DEF FreesSoundly, CollectsExactly

\* Every step frees by a collection that ran, or by the release of the last owner,
\* and a collection spares exactly what a root reaches.
LEMMA StepFrees ==
  ASSUME IInv, [Next]_vars
  PROVE  FreesSoundly /\ CollectsExactly
<1>1. ASSUME NEW n \in Nat, NEW new \in SUBSET Objects, NEW sz,
             new \cap (live \ Freed(n)) = {}, CollectThenAdd(n, new, sz)
      PROVE  FreesSoundly /\ CollectsExactly
  BY <1>1, CollectThenAddFrees
<1>2. CASE GcCollect
  BY <1>1, <1>2 DEF GcCollect
<1>3. ASSUME NEW sz \in Sizes, GcAllocError(sz) PROVE FreesSoundly /\ CollectsExactly
  <2> DEFINE n == AllocRuns(sz)
  <2>1. CollectThenAdd(n, {}, 0) /\ n \in Nat
    BY <1>3, AllocRunsType DEF GcAllocError
  <2> HIDE DEF n
  <2>2. QED
    BY <1>1, <2>1
<1>4. ASSUME NEW o \in Objects, NEW sz \in Sizes, GcAlloc(o, sz) PROVE FreesSoundly /\ CollectsExactly
  <2> DEFINE n == AllocRuns(sz)
  <2>1. CollectThenAdd(n, {o}, sz) /\ n \in Nat /\ {o} \cap (live \ Freed(n)) = {}
    BY <1>4, AllocRunsType DEF GcAlloc
  <2> HIDE DEF n
  <2>2. QED
    BY <1>1, <2>1
<1>5. collectionCount \in Nat
  BY DEF IInv, TypeOK
<1>6. CASE UNCHANGED <<live, collectionCount>>
  BY <1>5, <1>6 DEF FreesSoundly, CollectsExactly
<1>7. ASSUME NEW o \in Objects, GcRelease(o) PROVE FreesSoundly /\ CollectsExactly
  <2>1. CASE UNCHANGED <<live, collectionCount>>
    BY <1>6, <2>1
  <2>2. CASE o \notin frozen /\ refCount[o] - 1 = 0 /\ GcFreeObject(o)
    <3>1. /\ o \in live /\ held[o] > 0 /\ held' = [held EXCEPT ![o] = @ - 1]
          /\ live' = live \ {o} /\ collectionCount' = collectionCount
      BY <1>7, <2>2 DEF GcRelease, GcFreeObject, CountFreed
    <3>2. held[o] \in Nat /\ held[o] <= refCount[o] /\ refCount[o] \in Int
          /\ held \in [Objects -> Nat]
      BY <2>2, <3>1 DEF IInv, TypeOK, CountCoversOwners
    <3>3. held[o] = 1 /\ held'[o] = 0
      BY <2>2, <3>1, <3>2
    <3>4. QED
      BY <1>5, <2>2, <3>1, <3>3 DEF FreesSoundly, CollectsExactly
  <2>3. QED
    BY <1>7, <2>1, <2>2 DEF GcRelease, GcDecrement, heapVars, statVars
<1>8. ASSUME NEW o \in Objects, GcRetain(o) \/ HostForget(o) PROVE FreesSoundly /\ CollectsExactly
  BY <1>6, <1>8 DEF GcRetain, HostForget, heapVars, statVars
<1>9. ASSUME NEW r \in RootVars, NEW o \in MaybeObject, HostAssign(r, o)
      PROVE  FreesSoundly /\ CollectsExactly
  BY <1>6, <1>9 DEF HostAssign, heapVars, statVars
<1>10. ASSUME NEW r \in RootVars, GcAddGlobalRoot(r) \/ GcRemoveGlobalRoot(r)
       PROVE  FreesSoundly /\ CollectsExactly
  BY <1>6, <1>10 DEF GcAddGlobalRoot, GcRemoveGlobalRoot, heapVars, statVars
<1>11. ASSUME NEW v, GcSetVmStack \/ SvmPush(v) \/ SvmPop PROVE FreesSoundly /\ CollectsExactly
  BY <1>6, <1>11 DEF GcSetVmStack, SvmPush, SvmPop, heapVars, statVars
<1>12. ASSUME NEW p \in BOOLEAN, GcSetPaused(p) PROVE FreesSoundly /\ CollectsExactly
  BY <1>6, <1>12 DEF GcSetPaused, heapVars, statVars
<1>13. CASE UNCHANGED vars
  BY <1>6, <1>13 DEF vars, heapVars, statVars
<1>14. QED
  BY <1>2, <1>3, <1>4, <1>7, <1>8, <1>9, <1>10, <1>11, <1>12, <1>13 DEF Next

\* An object goes by a collection that ran or by the release of its last owner.
THEOREM FreedBySweepOrLastOwnerHolds == Spec => FreedBySweepOrLastOwner
<1>1. IInv /\ [Next]_vars => [FreesSoundly]_vars
  BY StepFrees
<1>2. QED
  BY <1>1, SpecIInv, PTL DEF Spec, FreedBySweepOrLastOwner, FreesSoundly

\* A collection frees exactly what no root reaches.
THEOREM CollectIsExactHolds == Spec => CollectIsExact
<1>1. IInv /\ [Next]_vars => [CollectsExactly]_vars
  BY StepFrees
<1>2. QED
  BY <1>1, SpecIInv, PTL DEF Spec, CollectIsExact, CollectsExactly


-------------------------------------------------------------------------------
(* Doubly linked lists.                                                       *)

Distinct(s) == \A i, j \in DOMAIN s : s[i] = s[j] => i = j

\* The element there, or the NULL at either end.
At(s, i) == IF i \in DOMAIN s THEN s[i] ELSE NULL

\* s is what starts at the head h and is linked by n and back by p.
Linked(s, h, n, p) ==
  /\ s \in Seq(Objects) /\ Distinct(s)
  /\ n \in [Objects -> MaybeObject] /\ p \in [Objects -> MaybeObject]
  /\ h = At(s, 1)
  /\ \A i \in DOMAIN s : n[s[i]] = At(s, i + 1) /\ p[s[i]] = At(s, i - 1)

\* The element at a place, and the places of elements.
LEMMA AtFacts ==
  ASSUME NEW s \in Seq(Objects), Distinct(s)
  PROVE  /\ DOMAIN s = 1 .. Len(s) /\ Len(s) \in Nat
         /\ \A i : At(s, i) \in MaybeObject
         /\ \A i : i \in DOMAIN s <=> At(s, i) # NULL
         /\ \A i : i \in DOMAIN s => At(s, i) = s[i] /\ s[i] \in Objects
         /\ \A i, j \in DOMAIN s : s[i] = At(s, j) => i = j
         /\ \A i \in DOMAIN s : \A j : s[i] = At(s, j) => i = j
  BY GcAssumption DEF At, Distinct, MaybeObject

\* A cell linked in front.
LEMMA LinkKeepsLinked ==
  ASSUME NEW s, NEW h, NEW n, NEW p, Linked(s, h, n, p), NEW o \in Objects, o \notin ToSet(s),
         NEW m, m = [n EXCEPT ![o] = h],
         NEW q, q = [x \in Objects |-> IF x = o THEN NULL ELSE IF x = h THEN o ELSE p[x]]
  PROVE  Linked(<<o>> \o s, o, m, q) /\ ToSet(<<o>> \o s) = ToSet(s) \cup {o}
<1> DEFINE r == <<o>> \o s
<1>1. s \in Seq(Objects) /\ Distinct(s) /\ n \in [Objects -> MaybeObject] /\ h = At(s, 1)
  BY DEF Linked
<1>2. r \in Seq(Objects) /\ Distinct(r) /\ ToSet(r) = ToSet(s) \cup {o}
  BY <1>1, PrependOnlyFacts DEF Distinct
<1>3. /\ Len(r) = Len(s) + 1 /\ r[1] = o
      /\ \A k \in 2 .. Len(s) + 1 : r[k] = s[k - 1]
  BY <1>1
<1> HIDE DEF r
<1>4. \A i \in 2 .. Len(s) + 2 : At(r, i) = At(s, i - 1)
  BY <1>1, <1>2, <1>3 DEF At
<1>5. At(r, 1) = o /\ At(r, 0) = NULL
  BY <1>2, <1>3 DEF At
<1>6. /\ DOMAIN s = 1 .. Len(s) /\ Len(s) \in Nat /\ DOMAIN r = 1 .. Len(s) + 1
      /\ \A k \in DOMAIN s : s[k] \in Objects /\ s[k] # o
  BY <1>1, <1>2, <1>3 DEF ToSet
<1>7. m \in [Objects -> MaybeObject] /\ q \in [Objects -> MaybeObject]
  <2>1. p \in [Objects -> MaybeObject] /\ h \in MaybeObject
    BY <1>1, AtFacts DEF Linked
  <2>2. QED
    BY <1>1, <2>1 DEF MaybeObject
<1>8. \A i \in DOMAIN r : m[r[i]] = At(r, i + 1) /\ q[r[i]] = At(r, i - 1)
  <2> TAKE i \in DOMAIN r
  <2>1. CASE i = 1
    BY <1>1, <1>3, <1>4, <1>5, <1>6, <2>1
  <2>2. CASE i # 1
    <3>1. i - 1 \in DOMAIN s /\ r[i] = s[i - 1] /\ i \in 2 .. Len(s) + 1
      BY <1>3, <1>6, <2>2
    <3>2. n[s[i - 1]] = At(s, i) /\ p[s[i - 1]] = At(s, i - 2)
      BY <3>1, <1>6 DEF Linked
    <3>3. At(r, i + 1) = At(s, i)
      BY <3>1, <1>4, <1>6
    <3>4. m[r[i]] = At(r, i + 1)
      BY <1>1, <1>6, <3>1, <3>2, <3>3
    <3>5. CASE i = 2
      BY <1>1, <1>5, <1>6, <3>1, <3>4, <3>5 DEF At
    <3>6. CASE i # 2
      <4>1. i - 1 \in 2 .. Len(s) + 2 /\ (i - 1) - 1 = i - 2
        BY <3>1, <1>6, <3>6
      <4>2. At(r, i - 1) = At(s, i - 2)
        BY <1>4, <4>1
      <4>3. s[i - 1] # h
        BY <1>1, <1>6, <3>1, <3>6, AtFacts
      <4>4. QED
        BY <1>6, <3>1, <3>2, <3>4, <4>2, <4>3
    <3>7. QED
      BY <3>5, <3>6
  <2>3. QED
    BY <2>1, <2>2
<1>9. QED
  BY <1>2, <1>5, <1>7, <1>8 DEF Linked, r

\* A cell unlinked at the head, in the middle or at the end.
LEMMA UnlinkKeepsLinked ==
  ASSUME NEW s, NEW h, NEW n, NEW p, Linked(s, h, n, p), NEW i \in DOMAIN s,
         NEW o, o = s[i],
         NEW q, q = [x \in Objects |-> IF x = o THEN NULL ELSE IF x = n[o] THEN p[o] ELSE p[x]],
         NEW m, m = [x \in Objects |-> IF x = o THEN NULL ELSE IF x = p[o] THEN n[o] ELSE n[x]],
         NEW g, g = IF p[o] = NULL THEN n[o] ELSE h
  PROVE  /\ Linked(RemoveAt(s, i), g, m, q)
         /\ ToSet(RemoveAt(s, i)) = ToSet(s) \ {o}
         /\ Len(RemoveAt(s, i)) = Len(s) - 1
         /\ \A k \in 1 .. i - 1 : RemoveAt(s, i)[k] = s[k]
         /\ At(RemoveAt(s, i), i) = n[o]
<1> DEFINE r == RemoveAt(s, i)
<1>1. /\ s \in Seq(Objects) /\ Distinct(s) /\ h = At(s, 1)
      /\ n \in [Objects -> MaybeObject] /\ p \in [Objects -> MaybeObject]
      /\ n[o] = At(s, i + 1) /\ p[o] = At(s, i - 1)
  BY DEF Linked
<1>2. /\ r \in Seq(Objects) /\ Distinct(r) /\ ToSet(r) = ToSet(s) \ {o}
      /\ Len(r) = Len(s) - 1
      /\ \A k \in 1 .. Len(s) - 1 : r[k] = IF k < i THEN s[k] ELSE s[k + 1]
  <2>1. /\ r \in Seq(Objects) /\ Len(r) = Len(s) - 1
        /\ \A k \in 1 .. Len(s) - 1 : r[k] = IF k < i THEN s[k] ELSE s[k + 1]
    BY <1>1, RemoveAtFacts
  <2>2. \A k, l \in DOMAIN s : s[k] = s[l] => k = l
    BY <1>1 DEF Distinct
  <2>3. (\A k, l \in DOMAIN r : r[k] = r[l] => k = l) /\ ToSet(r) = ToSet(s) \ {s[i]}
    BY <1>1, <2>2, RemoveOnlyFacts
  <2> HIDE DEF r
  <2>4. QED
    BY <2>1, <2>3 DEF Distinct
<1> HIDE DEF r
<1>3. /\ DOMAIN s = 1 .. Len(s) /\ Len(s) \in Nat /\ i \in 1 .. Len(s)
      /\ DOMAIN r = 1 .. Len(s) - 1
  BY <1>1, <1>2
<1>4. \A k \in Int : At(r, k) = IF k < i THEN At(s, k) ELSE At(s, k + 1)
  BY <1>2, <1>3 DEF At
<1>5. o \in Objects /\ o # NULL /\ \A k \in DOMAIN s : k # i => s[k] # o
  <2>1. o \in Objects
    BY <1>1, <1>3
  <2>2. \A k \in DOMAIN s : s[k] = s[i] => k = i
    BY <1>1 DEF Distinct
  <2>3. QED
    BY <2>1, <2>2, GcAssumption
<1>6. n[o] \in MaybeObject /\ p[o] \in MaybeObject
  BY <1>1, AtFacts
<1>7. m \in [Objects -> MaybeObject] /\ q \in [Objects -> MaybeObject]
  BY <1>1, <1>6 DEF MaybeObject
<1>8. g = At(r, 1)
  <2>1. p[o] = NULL <=> i = 1
    <3>1. i - 1 \in DOMAIN s <=> i # 1
      BY <1>3
    <3>2. QED
      BY <3>1, <1>1, AtFacts
  <2>2. CASE i = 1
    BY <2>1, <2>2, <1>1, <1>4
  <2>3. CASE i # 1
    BY <2>1, <2>3, <1>1, <1>3, <1>4
  <2>4. QED
    BY <2>2, <2>3
<1>9. ASSUME NEW k \in DOMAIN s, k # i
      PROVE  /\ m[s[k]] = IF k = i - 1 THEN At(s, i + 1) ELSE At(s, k + 1)
             /\ q[s[k]] = IF k = i + 1 THEN At(s, i - 1) ELSE At(s, k - 1)
  <2>1. s[k] \in Objects /\ s[k] # o
    BY <1>1, <1>5, <1>9, AtFacts
  <2>2. s[k] = p[o] <=> k = i - 1
    BY <1>1, <1>9, AtFacts
  <2>3. s[k] = n[o] <=> k = i + 1
    BY <1>1, <1>9, AtFacts
  <2>4. n[s[k]] = At(s, k + 1) /\ p[s[k]] = At(s, k - 1)
    BY DEF Linked
  <2>5. QED
    BY <1>1, <2>1, <2>2, <2>3, <2>4
<1>10. \A k \in DOMAIN r : m[r[k]] = At(r, k + 1) /\ q[r[k]] = At(r, k - 1)
  <2> TAKE k \in DOMAIN r
  <2>1. CASE k < i
    <3>1. k \in DOMAIN s /\ k # i /\ r[k] = s[k]
      BY <1>2, <1>3, <2>1
    <3>2. At(r, k + 1) = (IF k = i - 1 THEN At(s, i + 1) ELSE At(s, k + 1))
      <4>1. k + 1 \in Int /\ (k + 1 < i <=> k # i - 1) /\ (k = i - 1 => (k + 1) + 1 = i + 1)
        BY <1>3, <2>1
      <4>2. At(r, k + 1) = IF k + 1 < i THEN At(s, k + 1) ELSE At(s, (k + 1) + 1)
        BY <1>4, <4>1
      <4>3. CASE k = i - 1
        <5>1. (k + 1) + 1 = i + 1 /\ ~ (k + 1 < i)
          BY <4>1, <4>3
        <5>2. At(s, (k + 1) + 1) = At(s, i + 1)
          BY ONLY <5>1
        <5>3. QED
          BY ONLY <4>2, <4>3, <5>1, <5>2
      <4>4. CASE k # i - 1
        BY ONLY <4>1, <4>2, <4>4
      <4>5. QED
        BY ONLY <4>3, <4>4
    <3>3. At(r, k - 1) = At(s, k - 1) /\ k # i + 1
      BY <1>3, <1>4, <2>1
    <3>4. QED
      BY <1>9, <3>1, <3>2, <3>3
  <2>2. CASE ~ (k < i)
    <3>1. k + 1 \in DOMAIN s /\ k + 1 # i /\ r[k] = s[k + 1] /\ k + 1 # i - 1
      BY <1>2, <1>3, <2>2
    <3>2. At(r, k + 1) = At(s, (k + 1) + 1)
      BY <1>3, <1>4, <2>2
    <3>3. At(r, k - 1) = (IF k + 1 = i + 1 THEN At(s, i - 1) ELSE At(s, (k + 1) - 1))
      <4>1. CASE k = i
        BY <1>3, <1>4, <4>1
      <4>2. CASE k # i
        <5>1. ~ (k - 1 < i) /\ (k - 1) + 1 = k /\ k + 1 # i + 1 /\ (k + 1) - 1 = k /\ k - 1 \in Int
          BY <1>3, <2>2, <4>2
        <5>2. At(r, k - 1) = At(s, (k - 1) + 1)
          BY <1>4, <5>1
        <5>3. QED
          BY <5>1, <5>2
      <4>3. QED
        BY <4>1, <4>2
    <3>4. QED
      BY <1>9, <3>1, <3>2, <3>3
  <2>3. QED
    BY <2>1, <2>2
<1>11. At(r, i) = n[o] /\ \A k \in 1 .. i - 1 : r[k] = s[k]
  BY <1>1, <1>2, <1>3, <1>4
<1>12. QED
  BY <1>2, <1>7, <1>8, <1>10, <1>11 DEF Linked, r

\* A list without repetition is as long as its set is large.
LEMMA DistinctLength ==
  ASSUME NEW s \in Seq(Objects), Distinct(s)
  PROVE  Cardinality(ToSet(s)) = Len(s) /\ Len(s) <= Cardinality(Objects)
         /\ Cardinality(Objects) \in Nat
<1>1. s \in [1 .. Len(s) -> ToSet(s)]
  BY DEF ToSet
<1>2. s \in Bijection(1 .. Len(s), ToSet(s))
  <2>1. IsInjective(s)
    BY DEF IsInjective, Distinct
  <2>2. \A t \in ToSet(s) : \E k \in 1 .. Len(s) : s[k] = t
    BY DEF ToSet
  <2>3. QED
    BY <1>1, <2>1, <2>2 DEF Bijection, Injection, Surjection
<1>3. Cardinality(ToSet(s)) = Len(s)
  <2>1. ExistsBijection(1 .. Len(s), ToSet(s)) /\ Len(s) \in Nat
    BY <1>2 DEF ExistsBijection
  <2>2. QED
    BY <2>1, FS_CountingElements
<1>4. ToSet(s) \subseteq Objects
  BY DEF ToSet
<1>5. QED
  BY <1>3, <1>4, GcAssumption, FS_Subset, FS_CardinalityType

\* One unfolding of the walk along gcNext.
WalkStep(n, g) ==
  [i \in 0 .. n |-> IF i = 0 THEN objectList
                    ELSE IF g[i - 1] = NULL THEN NULL ELSE gcNext[g[i - 1]]]

Walk(n) == CHOOSE g : g = WalkStep(n, g)

\* The walk follows the list, and is NULL behind it.  It is where it should be at the
\* first place where it could be elsewhere.
LEMMA WalkFollows ==
  ASSUME NEW s, Linked(s, objectList, gcNext, gcPrev), NEW n \in Nat
  PROVE  \A i \in 0 .. n : Walk(n)[i] = At(s, i + 1)
<1> DEFINE f == [i \in 0 .. n |-> At(s, i + 1)]
<1>1. /\ s \in Seq(Objects) /\ Distinct(s) /\ objectList = At(s, 1)
      /\ \A i \in DOMAIN s : gcNext[s[i]] = At(s, i + 1)
  BY DEF Linked
<1>2. ASSUME NEW i \in 1 .. n
      PROVE  At(s, i + 1) = IF At(s, i) = NULL THEN NULL ELSE gcNext[At(s, i)]
  <2>1. At(s, i) = NULL <=> i \notin DOMAIN s
    BY <1>1, AtFacts
  <2>2. CASE i \in DOMAIN s
    BY <1>1, <2>1, <2>2, AtFacts
  <2>3. CASE i \notin DOMAIN s
    <3>1. i + 1 \notin DOMAIN s
      BY <1>1, <2>3
    <3>2. QED
      BY <2>1, <2>3, <3>1 DEF At
  <2>4. QED
    BY <2>2, <2>3
<1>3. f = WalkStep(n, f)
  <2>1. ASSUME NEW i \in 0 .. n
        PROVE  f[i] = IF i = 0 THEN objectList
                      ELSE IF f[i - 1] = NULL THEN NULL ELSE gcNext[f[i - 1]]
    <3>1. CASE i = 0
      BY <1>1, <3>1
    <3>2. CASE i # 0
      <4>1. i \in 1 .. n /\ i - 1 \in 0 .. n /\ (i - 1) + 1 = i
        BY <3>2
      <4>2. f[i - 1] = At(s, i) /\ f[i] = At(s, i + 1)
        BY <4>1
      <4> HIDE DEF f
      <4>3. QED
        BY <1>2, <3>2, <4>1, <4>2
    <3>3. QED
      BY <3>1, <3>2
  <2>2. f = [i \in 0 .. n |-> f[i]]
    OBVIOUS
  <2> HIDE DEF f
  <2>3. QED
    BY <2>1, <2>2 DEF WalkStep
<1> HIDE DEF f
<1>4. Walk(n) = WalkStep(n, Walk(n))
  BY <1>3 DEF Walk
<1> DEFINE w == Walk(n)
           Bad == {i \in 0 .. n : w[i] # f[i]}
<1>5. w = WalkStep(n, w)
  BY <1>4
<1> HIDE DEF w
<1>6. Bad = {}
  <2> SUFFICES ASSUME Bad # {} PROVE FALSE
    OBVIOUS
  <2>1. PICK i \in Bad : \A j \in Bad : i <= j
    <3>1. Bad \subseteq Nat
      OBVIOUS
    <3>2. QED
      BY <3>1, LeastNatural
  <2>2. i \in 0 .. n /\ w[i] # f[i]
    BY <2>1
  <2>3. /\ w[i] = IF i = 0 THEN objectList
                  ELSE IF w[i - 1] = NULL THEN NULL ELSE gcNext[w[i - 1]]
        /\ f[i] = IF i = 0 THEN objectList
                  ELSE IF f[i - 1] = NULL THEN NULL ELSE gcNext[f[i - 1]]
    BY <1>3, <1>5, <2>2 DEF WalkStep
  <2>4. i # 0
    BY <2>2, <2>3
  <2>5. i - 1 \in 0 .. n /\ ~ (i <= i - 1)
    BY <2>2, <2>4
  <2>6. w[i - 1] = f[i - 1]
    BY <2>1, <2>5
  <2>7. QED
    BY <2>2, <2>3, <2>6
<1>7. \A i \in 0 .. n : w[i] = f[i]
  BY <1>6
<1>8. QED
  BY <1>7 DEF f, w

\* So the links are the list of the live objects.
LEMMA LinkedWalks ==
  ASSUME NEW s, Linked(s, objectList, gcNext, gcPrev), ToSet(s) = live
  PROVE  ListWalks
<1> DEFINE n == Cardinality(Objects)
           at == Walk(n)
<1>1. s \in Seq(Objects) /\ Distinct(s)
  BY DEF Linked
<1>2. n \in Nat /\ Len(s) <= n /\ Cardinality(live) = Len(s) /\ Len(s) \in Nat
  BY <1>1, DistinctLength
<1>3. \A i \in 0 .. n : at[i] = At(s, i + 1)
  BY <1>2, WalkFollows
<1>4. ListWalks <=>
        /\ {at[i] : i \in 0 .. n} \ {NULL} = live
        /\ at[Cardinality(live)] = NULL
        /\ \A i \in 1 .. n : at[i] # NULL => gcPrev[at[i]] = at[i - 1]
        /\ objectList # NULL => gcPrev[objectList] = NULL
  BY DEF ListWalks, Walk, WalkStep
<1> HIDE DEF n, at
<1>5. {at[i] : i \in 0 .. n} \ {NULL} = live
  <2>1. ASSUME NEW x \in live PROVE x \in {at[i] : i \in 0 .. n} \ {NULL}
    <3>1. PICK k \in DOMAIN s : x = s[k]
      BY DEF ToSet
    <3>2. k - 1 \in 0 .. n /\ (k - 1) + 1 = k /\ At(s, k) = x /\ x # NULL
      BY <1>1, <1>2, <3>1, AtFacts, GcAssumption
    <3>3. at[k - 1] = x
      BY <1>3, <3>2
    <3>4. QED
      BY <3>2, <3>3
  <2>2. ASSUME NEW i \in 0 .. n, at[i] # NULL PROVE at[i] \in live
    <3>1. At(s, i + 1) # NULL /\ at[i] = At(s, i + 1)
      BY <1>3, <2>2
    <3>2. i + 1 \in DOMAIN s /\ at[i] = s[i + 1]
      BY <1>1, <3>1, AtFacts
    <3>3. QED
      BY <3>2 DEF ToSet
  <2>3. QED
    BY <2>1, <2>2
<1>6. at[Cardinality(live)] = NULL
  <2>1. Len(s) \in 0 .. n /\ Len(s) + 1 \notin DOMAIN s
    BY <1>1, <1>2
  <2>2. QED
    BY <1>2, <1>3, <2>1 DEF At
<1>7. \A i \in 1 .. n : at[i] # NULL => gcPrev[at[i]] = at[i - 1]
  <2> TAKE i \in 1 .. n
  <2> HAVE at[i] # NULL
  <2>1. /\ i \in 0 .. n /\ i - 1 \in 0 .. n /\ (i - 1) + 1 = i /\ (i + 1) - 1 = i
    BY <1>2
  <2>2. at[i] = At(s, i + 1) /\ at[i - 1] = At(s, i)
    BY <1>3, <2>1
  <2>3. i + 1 \in DOMAIN s /\ at[i] = s[i + 1]
    BY <1>1, <2>2, AtFacts
  <2>4. gcPrev[s[i + 1]] = At(s, (i + 1) - 1)
    BY <2>3 DEF Linked
  <2>5. QED
    BY <2>1, <2>2, <2>3, <2>4
<1>8. objectList # NULL => gcPrev[objectList] = NULL
  <2> HAVE objectList # NULL
  <2>1. objectList = At(s, 1)
    BY DEF Linked
  <2>2. 1 \in DOMAIN s /\ objectList = s[1]
    BY <1>1, <2>1, AtFacts
  <2>3. gcPrev[s[1]] = At(s, 1 - 1)
    BY <2>2 DEF Linked
  <2>4. 1 - 1 \notin DOMAIN s
    BY <1>1
  <2>5. QED
    BY <2>2, <2>3, <2>4 DEF At
<1>9. QED
  BY <1>4, <1>5, <1>6, <1>7, <1>8

-------------------------------------------------------------------------------
(* The inductive invariant.                                                   *)

\* The types of a heap, of which Gc leaves the bytes to the books.
Typed(h) ==
  /\ h.live \subseteq Objects /\ h.marked \subseteq h.live
  /\ h.refCount \in [Objects -> Nat] /\ h.blockSize \in [Objects -> Nat]
  /\ h.objectCount \in Nat /\ h.objectsFreed \in Nat /\ h.collectionCount \in Nat
  /\ h.bytesAllocated \in Int /\ h.bytesFreed \in Int

\* obj->size in the heap b.
HeaderOf(b) == [o \in Objects |-> b.blockSize[o] % SizeModulus]

\* The heap h is the heap b without the objects G.
Without(b, G, h) ==
  /\ h.live = b.live \ G
  /\ h.refCount = [o \in Objects |-> IF o \in G THEN 0 ELSE b.refCount[o]]
  /\ h.blockSize = [o \in Objects |-> IF o \in G THEN 0 ELSE b.blockSize[o]]
  /\ h.frozen = b.frozen \ G
  /\ h.objectCount = b.objectCount - Cardinality(G)
  /\ h.objectsFreed = b.objectsFreed + Cardinality(G)
  /\ h.bytesAllocated = b.bytesAllocated - SumFunctionOnSet(HeaderOf(b), G)
  /\ h.bytesFreed = b.bytesFreed + SumFunctionOnSet(HeaderOf(b), G)

\* What Gc says of a call that starts with the heap b.
FreedOf(b, n) == IF n = 0 \/ isPaused THEN {} ELSE b.live \ Roots
FitsIn(b, S, sz) == SumFunctionOnSet(b.blockSize, S) + sz <= HeapCapacity
AutoRunsOf(b) == IF b.bytesAllocated >= b.nextGcThreshold THEN 1 ELSE 0
FailsFirst(b, sz) ==
  ~MemRaises /\ ~FitsIn(b, b.live \ FreedOf(b, AutoRunsOf(b)), sz)
AllocRunsOf(b, sz) == IF FailsFirst(b, sz) THEN AutoRunsOf(b) + 1 ELSE AutoRunsOf(b)

\* What the call in progress has freed, and the collections it has asked for.
Reclaimed == before.live \ live
Requested ==
  IF call.op = "collect" THEN 1 ELSE AutoRunsOf(before) + (IF call.retried THEN 1 ELSE 0)
Ran == IF isPaused THEN 0 ELSE Requested

Collecting ==
  /\ call.op = "collect" /\ phase # "alloc"
  /\ before.collectionCount < MaxCollections

Allocating ==
  /\ call = [op |-> "alloc", sz |-> call.sz, retried |-> call.retried] /\ call.sz \in Sizes
  /\ before.collectionCount + AllocRunsOf(before, call.sz) <= MaxCollections
  /\ before.objectCount + before.objectsFreed < MaxAllocs /\ errors < MaxErrors
  /\ call.retried => FailsFirst(before, call.sz)

\* The heap is that of the beginning without what was freed, and no root was.
CallSound ==
  /\ HostReady /\ Typed(before)
  /\ Without(before, Reclaimed, Heap)
  /\ live \subseteq before.live /\ Reclaimed \cap Roots = {}
  /\ Collecting \/ Allocating

\* In a collection, the last that was asked for is the one that runs.
Progress ==
  IF phase = "alloc"
    THEN /\ Reclaimed = FreedOf(before, Requested)
         /\ collectionCount = before.collectionCount + Ran
         /\ marked = IF Ran = 0 THEN before.marked ELSE Roots
         /\ nextGcThreshold = IF Ran = 0 THEN before.nextGcThreshold
                                         ELSE bytesAllocated * GrowthFactor
    ELSE /\ ~isPaused /\ Requested >= 1
         /\ collectionCount = before.collectionCount + Requested - 1

\* How far the loops of a collection are on the list s.
Walked(s) ==
  /\ phase \in {"clear", "sweep"} =>
       \E j \in 1 .. Len(s) + 1 :
         /\ cursor = At(s, j)
         /\ \A i \in 1 .. j - 1 : s[i] \in marked <=> phase = "sweep"
  /\ phase = "mark" => todo \subseteq Roots /\ marked = Roots \ todo
  /\ phase = "sweep" => marked = Roots

ListSound ==
  \E s : Linked(s, objectList, gcNext, gcPrev) /\ ToSet(s) = live /\ Walked(s)

ListInv ==
  /\ IInv /\ Typed(Heap)
  /\ phase \in {"idle", "clear", "mark", "sweep", "alloc"}
  /\ phase # "idle" => CallSound /\ Progress
  /\ ListSound

-------------------------------------------------------------------------------
(* Gc's invariant in the steps of the loops.                                  *)

\* A step that marks or unmarks, counts a collection or sets the threshold.
LEMMA LoopStepIInv ==
  ASSUME IInv, marked' \subseteq live, collectionCount' \in Nat,
         UNCHANGED <<live, refCount, blockSize, frozen>>, UNCHANGED <<objectCount, objectsFreed>>,
         UNCHANGED <<held, errors>>, UNCHANGED hostVars
  PROVE  IInv'
<1>1. UNCHANGED rootsVars /\ UNCHANGED isPaused
  BY DEF hostVars
<1>2. Roots' = Roots
  BY <1>1, RootsUnchanged
<1>3. TypeOK'
  BY <1>1 DEF IInv, TypeOK, rootsVars
<1>4. RootsAreLive' /\ CountCoversOwners' /\ CountExact'
  BY <1>2 DEF IInv, RootsAreLive, CountCoversOwners, CountExact
<1>5. HostRootsHeld => OwnedStaysAllocated'
  BY DEF IInv, OwnedStaysAllocated
<1>6. QED
  BY <1>3, <1>4, <1>5 DEF IInv

\* The sweep frees what neither a root nor, if the host roots what it holds, an owner has.
LEMMA SweepIInv ==
  ASSUME IInv, NEW o \in live, o \notin Roots, HostRootsHeld => held[o] = 0,
         GcFreeObject(o), UNCHANGED <<held, errors>>, UNCHANGED hostVars
  PROVE  IInv'
<1>1. UNCHANGED rootsVars /\ UNCHANGED isPaused
  BY DEF hostVars
<1>2. Roots' = Roots
  BY <1>1, RootsUnchanged
<1>3. /\ live' = live \ {o} /\ marked' = marked \ {o} /\ frozen' = frozen \ {o}
      /\ refCount' = [refCount EXCEPT ![o] = 0]
      /\ objectCount' = objectCount - 1 /\ objectsFreed' = objectsFreed + 1
      /\ collectionCount' = collectionCount
  BY DEF GcFreeObject, CountFreed
<1>4. IsFiniteSet(live) /\ Cardinality(live') = Cardinality(live) - 1
  <2>1. IsFiniteSet(live)
    BY FS_Subset, GcAssumption DEF IInv, TypeOK
  <2>2. QED
    BY <1>3, <2>1, FS_RemoveElement
<1>5. CountExact' /\ objectCount' \in Nat
  <2>1. IsFiniteSet(live')
    BY <1>3, <1>4, FS_Subset
  <2>2. QED
    BY <1>3, <1>4, <2>1, FS_CardinalityType DEF IInv, CountExact
<1>6. TypeOK'
  <2>1. refCount' \in [Objects -> 0 .. MaxRefCount - 1]
    BY <1>3, GcAssumption DEF IInv, TypeOK
  <2>2. QED
    BY <1>1, <1>3, <1>5, <2>1 DEF IInv, TypeOK, rootsVars
<1>7. RootsAreLive'
  BY <1>2, <1>3 DEF IInv, RootsAreLive
<1>8. CountCoversOwners'
  BY <1>3 DEF IInv, CountCoversOwners, TypeOK
<1>9. HostRootsHeld => OwnedStaysAllocated'
  BY <1>3 DEF IInv, OwnedStaysAllocated
<1>10. QED
  BY <1>5, <1>6, <1>7, <1>8, <1>9 DEF IInv

\* The types that Gc's invariant leaves open.
LEMMA HeapTyped ==
  Typed(Heap) <=> /\ live \subseteq Objects /\ marked \subseteq live
                  /\ refCount \in [Objects -> Nat] /\ blockSize \in [Objects -> Nat]
                  /\ objectCount \in Nat /\ objectsFreed \in Nat /\ collectionCount \in Nat
                  /\ bytesAllocated \in Int /\ bytesFreed \in Int
  BY DEF Typed, Heap

LEMMA TypedAgain ==
  ASSUME IInv', blockSize' \in [Objects -> Nat], bytesAllocated' \in Int, bytesFreed' \in Int
  PROVE  Typed(Heap)'
<1>1. TypeOK'
  BY DEF IInv
<1>2. refCount' \in [Objects -> Nat]
  BY <1>1, GcAssumption DEF TypeOK
<1>3. QED
  BY <1>1, <1>2 DEF Typed, Heap, TypeOK

\* What freeing an object does to the types.
LEMMA TypedFreed ==
  ASSUME Typed(Heap), IInv', NEW o \in live, GcFreeObject(o)
  PROVE  Typed(Heap)'
<1>1. blockSize' = [blockSize EXCEPT ![o] = 0] /\ bytesAllocated' = bytesAllocated - objSize[o]
      /\ bytesFreed' = bytesFreed + objSize[o]
  BY DEF GcFreeObject, CountFreed
<1>2. blockSize \in [Objects -> Nat] /\ o \in Objects /\ bytesAllocated \in Int /\ bytesFreed \in Int
  BY HeapTyped
<1>3. objSize[o] \in Int
  BY <1>2, GcAssumption DEF objSize
<1>4. blockSize' \in [Objects -> Nat] /\ bytesAllocated' \in Int /\ bytesFreed' \in Int
  BY <1>1, <1>2, <1>3
<1>5. QED
  BY <1>4, TypedAgain

-------------------------------------------------------------------------------
(* Between calls.                                                             *)

\* The lists at the beginning are empty.
LEMMA ListInitInv == ListInit => ListInv
<1> SUFFICES ASSUME ListInit PROVE ListInv
  OBVIOUS
<1>1. IInv /\ phase = "idle"
  BY InitIInv DEF ListInit
<1>2. Typed(Heap)
  <2>1. blockSize \in [Objects -> Nat] /\ bytesAllocated \in Int /\ bytesFreed \in Int
    BY DEF ListInit, Init
  <2>2. refCount \in [Objects -> Nat]
    BY DEF ListInit, Init
  <2>3. QED
    BY <1>1, <2>1, <2>2, HeapTyped DEF IInv, TypeOK
<1>3. ListSound
  <2> DEFINE e == <<>>
  <2>1. e \in Seq(Objects) /\ DOMAIN e = {} /\ ToSet(e) = {}
    BY DEF ToSet
  <2> HIDE DEF e
  <2>2. At(e, 1) = NULL /\ Distinct(e)
    BY <2>1 DEF At, Distinct
  <2>3. /\ objectList = NULL /\ gcNext = [o \in Objects |-> NULL]
        /\ gcPrev = [o \in Objects |-> NULL] /\ live = {}
    BY DEF ListInit, Init
  <2>4. Linked(e, objectList, gcNext, gcPrev)
    BY <2>1, <2>2, <2>3 DEF Linked, MaybeObject
  <2>5. Walked(e)
    BY <1>1 DEF Walked
  <2>6. QED
    BY <2>1, <2>3, <2>4, <2>5 DEF ListSound
<1>4. QED
  BY <1>1, <1>2, <1>3 DEF ListInv

\* The list stays while nothing is linked or unlinked.
LEMMA ListIdle ==
  ASSUME ListSound, UNCHANGED listVars, live' = live, phase' \in {"idle", "alloc"}
  PROVE  ListSound'
<1>1. PICK s : Linked(s, objectList, gcNext, gcPrev) /\ ToSet(s) = live
  BY DEF ListSound
<1>2. UNCHANGED <<objectList, gcNext, gcPrev>>
  BY DEF listVars
<1>3. Linked(s, objectList', gcNext', gcPrev') /\ ToSet(s) = live'
  BY <1>1, <1>2
<1>4. Walked(s)'
  BY DEF Walked
<1>5. QED
  BY <1>3, <1>4 DEF ListSound

\* Unlinking an object, wherever it is.
LEMMA ListUnlink ==
  ASSUME NEW s, Linked(s, objectList, gcNext, gcPrev), ToSet(s) = live,
         NEW i \in DOMAIN s, Unlink(s[i]), live' = live \ {s[i]}
  PROVE  LET r == RemoveAt(s, i)
         IN  /\ Linked(r, objectList', gcNext', gcPrev') /\ ToSet(r) = live'
             /\ Len(r) = Len(s) - 1
             /\ \A k \in 1 .. i - 1 : r[k] = s[k]
             /\ At(r, i) = gcNext[s[i]]
<1> DEFINE o == s[i]
<1>1. /\ gcPrev' = [x \in Objects |-> IF x = o THEN NULL
                      ELSE IF x = gcNext[o] THEN gcPrev[o] ELSE gcPrev[x]]
      /\ gcNext' = [x \in Objects |-> IF x = o THEN NULL
                      ELSE IF x = gcPrev[o] THEN gcNext[o] ELSE gcNext[x]]
      /\ objectList' = IF gcPrev[o] = NULL THEN gcNext[o] ELSE objectList
  BY DEF Unlink
<1>2. o = s[i]
  OBVIOUS
<1> HIDE DEF o
<1>3. QED
  BY <1>1, <1>2, UnlinkKeepsLinked

\* The two links of piGcAlloc, and what they keep.
LinkedNext(n, o, h) == [n EXCEPT ![o] = h]
LinkedPrev(p, o, h) ==
  [x \in Objects |-> IF x = o THEN NULL ELSE IF x = h THEN o ELSE p[x]]

LEMMA LinkMakesLinked ==
  ASSUME NEW s, NEW h, NEW n, NEW p, Linked(s, h, n, p), NEW o \in Objects, o \notin ToSet(s)
  PROVE  /\ Linked(<<o>> \o s, o, LinkedNext(n, o, h), LinkedPrev(p, o, h))
         /\ ToSet(<<o>> \o s) = ToSet(s) \cup {o}
  BY LinkKeepsLinked DEF LinkedNext, LinkedPrev

\* piGcAlloc links the new object in front of the list.
LEMMA ListLink ==
  ASSUME NEW s, Linked(s, objectList, gcNext, gcPrev), ToSet(s) = live,
         NEW o \in Objects, o \notin live, Link(o), live' = live \cup {o}
  PROVE  Linked(<<o>> \o s, objectList', gcNext', gcPrev') /\ ToSet(<<o>> \o s) = live'
<1>1. o \notin ToSet(s)
  OBVIOUS
<1>2. /\ gcNext' = LinkedNext(gcNext, o, objectList)
      /\ gcPrev' = LinkedPrev(gcPrev, o, objectList)
      /\ objectList' = o
  BY DEF Link, LinkedNext, LinkedPrev
<1>3. /\ Linked(<<o>> \o s, o, LinkedNext(gcNext, o, objectList),
                LinkedPrev(gcPrev, o, objectList))
      /\ ToSet(<<o>> \o s) = ToSet(s) \cup {o}
  BY <1>1, LinkMakesLinked
<1>4. QED
  BY <1>2, <1>3

\* The calls of the host that run no loop.
LEMMA OtherCallInv == ListInv /\ OtherCall => ListInv'
<1> SUFFICES ASSUME ListInv, OtherCall PROVE ListInv'
  OBVIOUS
<1>1. IInv /\ Typed(Heap) /\ ListSound /\ phase = "idle"
  BY DEF ListInv, OtherCall
<1>2. UNCHANGED listVars /\ UNCHANGED loopVars
  BY DEF OtherCall
<1>3. Next
  BY DEF OtherCall, Next
<1>4. IInv'
  BY <1>1, <1>3, NextIInv
<1>5. UNCHANGED <<live, blockSize, bytesAllocated, bytesFreed>>
  BY DEF OtherCall, GcRetain, HostForget, GcAddGlobalRoot, GcRemoveGlobalRoot, HostAssign,
         GcSetVmStack, SvmPop, SvmPush, GcSetPaused, heapVars, statVars
<1>6. Typed(Heap)'
  <2>1. blockSize' \in [Objects -> Nat] /\ bytesAllocated' \in Int /\ bytesFreed' \in Int
    BY <1>1, <1>5, HeapTyped
  <2>2. QED
    BY <1>4, <2>1, TypedAgain
<1>7. phase' = "idle"
  BY <1>1, <1>2 DEF loopVars
<1>8. ListSound'
  BY <1>1, <1>2, <1>5, <1>7, ListIdle
<1>9. QED
  BY <1>4, <1>6, <1>7, <1>8 DEF ListInv

\* A release unlinks what it frees.
LEMMA ReleaseInv ==
  ASSUME ListInv, NEW o \in Objects, Release(o)
  PROVE  ListInv'
<1>1. IInv /\ Typed(Heap) /\ ListSound /\ phase = "idle" /\ UNCHANGED loopVars
  BY DEF ListInv, Release
<1>2. GcRelease(o) /\ o \in live /\ GcDecrement(o)
  BY DEF Release, GcRelease
<1>3. IInv'
  BY <1>1, <1>2, GcReleaseIInv
<1>4. phase' = "idle"
  BY <1>1 DEF loopVars
<1>5. CASE GcFreeObject(o)
  <2>1. live' = live \ {o} /\ Unlink(o)
    BY <1>5 DEF GcFreeObject, Release
  <2>2. PICK s : Linked(s, objectList, gcNext, gcPrev) /\ ToSet(s) = live
    BY <1>1 DEF ListSound
  <2>3. PICK i \in DOMAIN s : s[i] = o
    BY <1>2, <2>2 DEF ToSet
  <2> DEFINE r == RemoveAt(s, i)
  <2>4. Linked(r, objectList', gcNext', gcPrev') /\ ToSet(r) = live'
    BY <2>1, <2>2, <2>3, ListUnlink
  <2> HIDE DEF r
  <2>5. Walked(r)'
    BY <1>4 DEF Walked
  <2>6. ListSound'
    BY <2>4, <2>5 DEF ListSound
  <2>7. Typed(Heap)'
    BY <1>1, <1>2, <1>3, <1>5, TypedFreed
  <2>8. QED
    BY <1>3, <1>4, <2>6, <2>7 DEF ListInv
<1>6. CASE UNCHANGED <<live, blockSize, statVars>>
  <2>1. UNCHANGED listVars
    BY <1>2, <1>6 DEF Release
  <2>2. ListSound'
    BY <1>1, <1>4, <1>6, <2>1, ListIdle
  <2>3. blockSize' \in [Objects -> Nat] /\ bytesAllocated' \in Int /\ bytesFreed' \in Int
    BY <1>1, <1>6, HeapTyped DEF statVars
  <2>4. Typed(Heap)'
    BY <1>3, <2>3, TypedAgain
  <2>5. QED
    BY <1>3, <1>4, <2>2, <2>4 DEF ListInv
<1>7. QED
  BY <1>2, <1>5, <1>6 DEF GcDecrement, heapVars

-------------------------------------------------------------------------------
(* The beginning of a call.                                                   *)

\* Nothing is missing from a heap compared with itself.
LEMMA WithoutNone ==
  ASSUME NEW h, Typed(h)
  PROVE  Without(h, {}, h)
<1>1. Cardinality({}) = 0 /\ SumFunctionOnSet(HeaderOf(h), {}) = 0
  BY FS_EmptySet, SumEmpty
<1>2. h.refCount = [o \in Objects |-> h.refCount[o]] /\ h.blockSize = [o \in Objects |-> h.blockSize[o]]
  BY DEF Typed
<1>3. QED
  BY <1>1, <1>2 DEF Without, Typed

\* What Gc says of a call that starts here.
LEMMA HereIs ==
  ASSUME IInv
  PROVE  /\ \A n : FreedOf(Heap, n) = Freed(n)
         /\ \A S, sz : FitsIn(Heap, S, sz) <=> Fits(S, sz)
         /\ AutoRunsOf(Heap) = AutoRuns
         /\ \A sz : AllocRunsOf(Heap, sz) = AllocRuns(sz)
<1>1. Heap.live = live /\ Heap.blockSize = blockSize /\ Heap.bytesAllocated = bytesAllocated
      /\ Heap.nextGcThreshold = nextGcThreshold
  BY DEF Heap
<1>2. GcSweep = live \ Roots
  BY DEF IInv, TypeOK, GcSweep, GcMarks, GcMarkRoots, GcClearMarks
<1>3. \A n : FreedOf(Heap, n) = Freed(n)
  BY <1>1, <1>2 DEF FreedOf, Freed
<1>4. \A S, sz : FitsIn(Heap, S, sz) <=> Fits(S, sz)
  BY <1>1 DEF FitsIn, Fits, Bytes
<1>5. AutoRunsOf(Heap) = AutoRuns
  BY <1>1 DEF AutoRunsOf, AutoRuns, ThresholdReached
<1>6. \A sz : AllocRunsOf(Heap, sz) = AllocRuns(sz)
  BY <1>1, <1>3, <1>4, <1>5 DEF AllocRunsOf, AllocRuns, FailsFirst
<1>7. QED
  BY <1>3, <1>4, <1>5, <1>6

\* What a step of a call leaves alone.
LEMMA HostKept ==
  ASSUME UNCHANGED hostVars
  PROVE  Roots' = Roots /\ isPaused' = isPaused /\ UNCHANGED rootsVars
<1>1. UNCHANGED rootsVars /\ isPaused' = isPaused
  BY DEF hostVars
<1>2. QED
  BY <1>1, RootsUnchanged

\* The heap is remembered as it is.
LEMMA CallBegins ==
  ASSUME ListInv, HostReady, UNCHANGED vars, UNCHANGED listVars, before' = Heap
  PROVE  /\ IInv' /\ Typed(Heap)' /\ Heap' = Heap /\ Roots' = Roots /\ isPaused' = isPaused
         /\ HostReady' /\ Typed(before)' /\ Without(before, Reclaimed, Heap)'
         /\ live' \subseteq before'.live /\ Reclaimed' = {}
         /\ before'.live = live /\ before'.marked = marked
         /\ before'.collectionCount = collectionCount'
         /\ before'.objectCount = objectCount' /\ before'.objectsFreed = objectsFreed'
         /\ before'.nextGcThreshold = nextGcThreshold'
         /\ \A n : FreedOf(before, n)' = Freed(n)
         /\ AutoRunsOf(before)' = AutoRuns
         /\ \A sz : AllocRunsOf(before, sz)' = AllocRuns(sz)
<1>1. IInv /\ Typed(Heap)
  BY DEF ListInv
<1>2. IInv'
  BY <1>1, NextIInv
<1>3. Heap' = Heap /\ UNCHANGED <<heapVars, statVars, nextGcThreshold, held, errors>>
      /\ UNCHANGED rootsVars /\ isPaused' = isPaused
  BY DEF vars, heapVars, statVars, Heap
<1>4. Roots' = Roots
  BY <1>3, RootsUnchanged
<1>5. HostReady'
  BY <1>3, <1>4 DEF HostReady, HeldAreRooted
<1>6. Typed(Heap)'
  BY <1>1, <1>3 DEF Typed
<1>7. Typed(before)'
  BY <1>1 DEF Typed
<1>8. /\ before'.live = live /\ before'.marked = marked
      /\ before'.collectionCount = collectionCount' /\ before'.objectCount = objectCount'
      /\ before'.objectsFreed = objectsFreed'
      /\ before'.nextGcThreshold = nextGcThreshold' /\ live' = live
  BY <1>3 DEF Heap, heapVars, statVars
<1>9. Reclaimed' = {}
  BY <1>8 DEF Reclaimed
<1>10. Without(before', Reclaimed', Heap')
  BY <1>1, <1>3, <1>9, WithoutNone
<1>11. /\ \A n : FreedOf(before, n)' = FreedOf(Heap, n)
       /\ AutoRunsOf(before)' = AutoRunsOf(Heap)
       /\ \A sz : AllocRunsOf(before, sz)' = AllocRunsOf(Heap, sz)
  BY <1>3, <1>4 DEF FreedOf, AutoRunsOf, AllocRunsOf, FailsFirst, FitsIn
<1>12. Without(before, Reclaimed, Heap)'
  BY <1>10 DEF Without
<1>13. QED
  BY <1>1, <1>2, <1>3, <1>4, <1>5, <1>6, <1>7, <1>8, <1>9, <1>11, <1>12, HereIs

\* A loop starts at the head of the list.
LEMMA CycleBegins ==
  ASSUME ListSound, UNCHANGED listVars, live' = live, StartCycle
  PROVE  ListSound'
<1>1. PICK s : Linked(s, objectList, gcNext, gcPrev) /\ ToSet(s) = live
  BY DEF ListSound
<1>2. UNCHANGED <<objectList, gcNext, gcPrev>>
  BY DEF listVars
<1>3. Linked(s, objectList', gcNext', gcPrev') /\ ToSet(s) = live'
  BY <1>1, <1>2
<1>4. cursor' = At(s, 1) /\ 1 \in 1 .. Len(s) + 1 /\ phase' = "clear"
  <2>1. objectList = At(s, 1) /\ Len(s) \in Nat
    BY <1>1, AtFacts DEF Linked
  <2>2. QED
    BY <2>1 DEF StartCycle
<1>5. Walked(s)'
  BY <1>4 DEF Walked
<1>6. QED
  BY <1>3, <1>5 DEF ListSound

\* piGcCollect begins.
LEMMA CollectInv == ListInv /\ Collect => ListInv'
<1> SUFFICES ASSUME ListInv, Collect PROVE ListInv'
  OBVIOUS
<1>1. /\ HostReady /\ UNCHANGED vars /\ UNCHANGED listVars /\ before' = Heap /\ StartCycle
      /\ ~isPaused /\ collectionCount < MaxCollections
      /\ call' = [op |-> "collect", sz |-> 0, retried |-> FALSE]
  BY DEF Collect
<1>2. phase' = "clear" /\ ListSound /\ live' = live
  BY <1>1 DEF StartCycle, ListInv, vars, heapVars
<1>3. ListSound'
  BY <1>1, <1>2, CycleBegins
<1>4. /\ IInv' /\ Typed(Heap)' /\ isPaused' = isPaused
      /\ HostReady' /\ Typed(before)' /\ Without(before, Reclaimed, Heap)'
      /\ live' \subseteq before'.live /\ Reclaimed' = {}
      /\ before'.collectionCount = collectionCount'
  BY <1>1, CallBegins
<1>5. collectionCount' = collectionCount /\ collectionCount \in Nat
  BY <1>1 DEF ListInv, IInv, TypeOK, vars, statVars
<1>6. Collecting'
  BY <1>1, <1>2, <1>4, <1>5 DEF Collecting
<1>7. CallSound'
  BY <1>4, <1>6 DEF CallSound
<1>8. Progress'
  <2>1. Requested' = 1
    BY <1>1 DEF Requested
  <2>2. QED
    BY <1>1, <1>2, <1>4, <1>5, <2>1 DEF Progress
<1>9. QED
  BY <1>2, <1>3, <1>4, <1>7, <1>8 DEF ListInv

\* piGcAlloc begins, with a collection when the threshold is reached.
LEMMA AllocBeginInv ==
  ASSUME ListInv, NEW sz \in Sizes, AllocBegin(sz)
  PROVE  ListInv'
<1>1. /\ HostReady /\ UNCHANGED vars /\ UNCHANGED listVars /\ before' = Heap
      /\ collectionCount + AllocRuns(sz) <= MaxCollections
      /\ objectCount + objectsFreed < MaxAllocs /\ errors < MaxErrors
      /\ call' = [op |-> "alloc", sz |-> sz, retried |-> FALSE]
      /\ IF ThresholdReached /\ ~isPaused THEN StartCycle ELSE phase' = "alloc"
  BY DEF AllocBegin, AllocPre
<1>2. /\ UNCHANGED <<live, marked, collectionCount, objectCount, objectsFreed>>
      /\ UNCHANGED <<nextGcThreshold, errors, bytesAllocated>>
  BY <1>1 DEF vars, heapVars, statVars
<1>3. /\ IInv' /\ Typed(Heap)' /\ isPaused' = isPaused
      /\ HostReady' /\ Typed(before)' /\ Without(before, Reclaimed, Heap)'
      /\ live' \subseteq before'.live /\ Reclaimed' = {}
      /\ before'.marked = marked
      /\ before'.collectionCount = collectionCount'
      /\ before'.objectCount = objectCount' /\ before'.objectsFreed = objectsFreed'
      /\ before'.nextGcThreshold = nextGcThreshold'
      /\ \A n : FreedOf(before, n)' = Freed(n)
      /\ AutoRunsOf(before)' = AutoRuns
      /\ AllocRunsOf(before, sz)' = AllocRuns(sz)
  BY <1>1, CallBegins
<1>4. /\ call'.op = "alloc" /\ call'.sz = sz /\ ~call'.retried
      /\ call' = [op |-> "alloc", sz |-> call'.sz, retried |-> call'.retried]
  BY <1>1
<1>5. AllocRunsOf(before, call.sz)' = AllocRuns(sz)
  BY <1>3, <1>4 DEF AllocRunsOf, FailsFirst, FitsIn
<1>6. Allocating'
  BY <1>1, <1>2, <1>3, <1>4, <1>5 DEF Allocating
<1>7. CallSound'
  BY <1>3, <1>6 DEF CallSound
<1>8. Requested' = AutoRuns /\ AutoRuns \in {0, 1} /\ (AutoRuns = 1 <=> ThresholdReached)
  BY <1>3, <1>4 DEF Requested, AutoRuns
<1>9. collectionCount \in Nat /\ ListSound
  BY DEF ListInv, IInv, TypeOK
<1>10. CASE ThresholdReached /\ ~isPaused
  <2>1. StartCycle /\ phase' = "clear"
    BY <1>1, <1>10 DEF StartCycle
  <2>2. Progress'
    BY <1>2, <1>3, <1>8, <1>9, <1>10, <2>1 DEF Progress
  <2>3. ListSound'
    BY <1>1, <1>2, <1>9, <2>1, CycleBegins
  <2>4. QED
    BY <1>3, <1>7, <2>1, <2>2, <2>3 DEF ListInv
<1>11. CASE ~ (ThresholdReached /\ ~isPaused)
  <2>1. phase' = "alloc"
    BY <1>1, <1>11
  <2>2. Ran' = 0 /\ FreedOf(before, Requested)' = {}
    BY <1>3, <1>8, <1>11 DEF Ran, FreedOf
  <2>3. Progress'
    BY <1>2, <1>3, <1>9, <2>1, <2>2 DEF Progress
  <2>4. ListSound'
    BY <1>1, <1>2, <1>9, <2>1, ListIdle
  <2>5. QED
    BY <1>3, <1>7, <2>1, <2>3, <2>4 DEF ListInv
<1>12. QED
  BY <1>10, <1>11

-------------------------------------------------------------------------------
(* The loops.                                                                 *)

\* What is remembered of the call stays as it is.
LEMMA CallKept ==
  ASSUME UNCHANGED hostVars, before' = before
  PROVE  /\ \A n : FreedOf(before, n)' = FreedOf(before, n)
         /\ AutoRunsOf(before)' = AutoRunsOf(before)
         /\ \A sz : FailsFirst(before, sz)' = FailsFirst(before, sz)
         /\ \A sz : AllocRunsOf(before, sz)' = AllocRunsOf(before, sz)
         /\ Typed(before)' = Typed(before)
<1>1. Roots' = Roots /\ isPaused' = isPaused
  BY HostKept
<1>2. QED
  BY <1>1 DEF FreedOf, AutoRunsOf, FailsFirst, FitsIn, AllocRunsOf, Typed

LEMMA HostReadyKept ==
  ASSUME HostReady, UNCHANGED hostVars, held' = held
  PROVE  HostReady'
<1>1. Roots' = Roots /\ isPaused' = isPaused
  BY HostKept
<1>2. QED
  BY <1>1 DEF HostReady, HeldAreRooted

\* A step that frees nothing, of the same call.
LEMMA CallSoundKept ==
  ASSUME CallSound, UNCHANGED hostVars, UNCHANGED <<held, errors, before>>,
         UNCHANGED <<live, refCount, blockSize, frozen>>,
         UNCHANGED <<objectCount, bytesAllocated, objectsFreed, bytesFreed>>,
         call' = call, phase' = "alloc" => call.op = "alloc"
  PROVE  CallSound' /\ Reclaimed' = Reclaimed /\ Requested' = Requested /\ Ran' = Ran
<1>1. Roots' = Roots /\ isPaused' = isPaused
  BY HostKept
<1>2. Reclaimed' = Reclaimed
  BY DEF Reclaimed
<1>3. Without(before, Reclaimed, Heap)'
  BY <1>2 DEF CallSound, Without, Heap
<1>4. HostReady' /\ Typed(before)'
  BY HostReadyKept, CallKept DEF CallSound
<1>5. (Collecting \/ Allocating)'
  <2>1. CASE Collecting
    BY <2>1 DEF Collecting
  <2>2. CASE Allocating
    <3>1. /\ AllocRunsOf(before, call.sz)' = AllocRunsOf(before, call.sz)
          /\ FailsFirst(before, call.sz)' = FailsFirst(before, call.sz)
      BY <1>1 DEF AllocRunsOf, FailsFirst, FitsIn, FreedOf, AutoRunsOf
    <3>2. Allocating'
      BY <2>2, <3>1 DEF Allocating
    <3>3. QED
      BY <3>2
  <2>3. QED
    BY <2>1, <2>2 DEF CallSound
<1>6. CallSound'
  BY <1>1, <1>2, <1>3, <1>4, <1>5 DEF CallSound
<1>7. Requested' = Requested /\ Ran' = Ran
  BY <1>1 DEF Requested, Ran, AutoRunsOf
<1>8. QED
  BY <1>2, <1>6, <1>7

\* An iteration that clears or marks, or passes what is marked, or a loop that ends.
LEMMA LoopStep ==
  ASSUME ListInv, phase \in {"clear", "mark", "sweep"}, phase' \in {"clear", "mark", "sweep"},
         UNCHANGED <<live, refCount, blockSize, frozen>>, UNCHANGED statVars,
         UNCHANGED <<held, errors, before>>, UNCHANGED hostVars, call' = call,
         marked' \subseteq live, ListSound'
  PROVE  ListInv'
<1>1. IInv /\ Typed(Heap) /\ CallSound /\ Progress /\ collectionCount \in Nat
  BY DEF ListInv, IInv, TypeOK
<1>2. UNCHANGED <<objectCount, bytesAllocated, collectionCount, objectsFreed, bytesFreed>>
  BY DEF statVars
<1>3. IInv'
  BY <1>1, <1>2, LoopStepIInv
<1>4. Typed(Heap)'
  <2>1. blockSize' \in [Objects -> Nat] /\ bytesAllocated' \in Int /\ bytesFreed' \in Int
    BY <1>1, <1>2, HeapTyped
  <2>2. QED
    BY <1>3, <2>1, TypedAgain
<1>5. CallSound' /\ Requested' = Requested
  BY <1>1, <1>2, CallSoundKept
<1>6. Progress'
  BY <1>1, <1>2, <1>5, HostKept DEF Progress
<1>7. QED
  BY <1>3, <1>4, <1>5, <1>6 DEF ListInv

\* A loop that goes on to the next cell, having left the mark of this one as the
\* phase wants it.
LEMMA WalkedOn ==
  ASSUME NEW s, Linked(s, objectList, gcNext, gcPrev), NEW j \in DOMAIN s, cursor = At(s, j),
         \A i \in 1 .. j - 1 : s[i] \in marked <=> phase = "sweep",
         s[j] \in marked' <=> phase = "sweep",
         \A i \in DOMAIN s : i # j => (s[i] \in marked' <=> s[i] \in marked),
         cursor' = gcNext[cursor], phase' = phase, phase \in {"clear", "sweep"},
         phase = "sweep" => marked' = Roots /\ Roots' = Roots
  PROVE  Walked(s)'
<1>1. s \in Seq(Objects) /\ Distinct(s) /\ gcNext[s[j]] = At(s, j + 1)
  BY DEF Linked
<1>2. cursor = s[j] /\ j \in 1 .. Len(s) /\ Len(s) \in Nat /\ DOMAIN s = 1 .. Len(s)
  BY <1>1, AtFacts
<1>3. j + 1 \in 1 .. Len(s) + 1 /\ cursor' = At(s, j + 1)
  BY <1>1, <1>2
<1>4. \A i \in 1 .. (j + 1) - 1 : s[i] \in marked' <=> phase = "sweep"
  <2> TAKE i \in 1 .. (j + 1) - 1
  <2>1. CASE i = j
    BY <2>1
  <2>2. CASE i # j
    BY <1>2, <2>2
  <2>3. QED
    BY <2>1, <2>2
<1>5. QED
  BY <1>3, <1>4 DEF Walked

\* Where a loop stands.
LEMMA LoopStands ==
  ASSUME NEW s, Linked(s, objectList, gcNext, gcPrev), ToSet(s) = live, Walked(s),
         phase \in {"clear", "sweep"}
  PROVE  /\ cursor # NULL =>
              \E j \in DOMAIN s : /\ cursor = At(s, j) /\ cursor = s[j] /\ cursor \in live
                                  /\ \A i \in 1 .. j - 1 : s[i] \in marked <=> phase = "sweep"
         /\ cursor = NULL => \A o \in live : o \in marked <=> phase = "sweep"
<1>1. s \in Seq(Objects) /\ Distinct(s)
  BY DEF Linked
<1>2. PICK j \in 1 .. Len(s) + 1 :
        cursor = At(s, j) /\ \A i \in 1 .. j - 1 : s[i] \in marked <=> phase = "sweep"
  BY DEF Walked
<1>3. CASE cursor # NULL
  <2>1. j \in DOMAIN s /\ cursor = s[j]
    BY <1>1, <1>2, <1>3, AtFacts
  <2>2. cursor \in live
    BY <2>1 DEF ToSet
  <2>3. QED
    BY <1>2, <1>3, <2>1, <2>2
<1>4. CASE cursor = NULL
  <2>1. j = Len(s) + 1
    <3>1. j \notin DOMAIN s
      BY <1>1, <1>2, <1>4, AtFacts
    <3>2. QED
      BY <1>1, <3>1
  <2>2. ASSUME NEW o \in live PROVE o \in marked <=> phase = "sweep"
    <3>1. PICK i \in DOMAIN s : s[i] = o
      BY DEF ToSet
    <3>2. i \in 1 .. j - 1
      BY <1>1, <2>1
    <3>3. QED
      BY <1>2, <3>1, <3>2
  <2>3. QED
    BY <1>4, <2>2
<1>5. QED
  BY <1>3, <1>4

\* pi_GcClearMarks.
LEMMA ClearMarkInv == ListInv /\ ClearMark => ListInv'
<1> SUFFICES ASSUME ListInv, ClearMark PROVE ListInv'
  OBVIOUS
<1>1. /\ phase = "clear" /\ phase' = "clear" /\ cursor # NULL
      /\ marked' = marked \ {cursor} /\ cursor' = gcNext[cursor]
      /\ UNCHANGED <<live, refCount, blockSize, frozen, held, errors, before>>
      /\ UNCHANGED statVars /\ UNCHANGED hostVars /\ UNCHANGED listVars /\ call' = call
  BY DEF ClearMark, ClearNext
<1>2. PICK s : Linked(s, objectList, gcNext, gcPrev) /\ ToSet(s) = live /\ Walked(s)
  BY DEF ListInv, ListSound
<1>3. PICK j \in DOMAIN s :
        cursor = At(s, j) /\ cursor = s[j] /\ \A i \in 1 .. j - 1 : s[i] \notin marked
  BY <1>1, <1>2, LoopStands
<1>4. \A i \in DOMAIN s : i # j => s[i] # cursor
  BY <1>2, <1>3 DEF Linked, Distinct
<1>5. Walked(s)'
  BY <1>1, <1>2, <1>3, <1>4, WalkedOn
<1>6. ListSound'
  BY <1>1, <1>2, <1>5 DEF ListSound, listVars
<1>7. marked' \subseteq live
  BY <1>1 DEF ListInv, IInv, TypeOK
<1>8. QED
  BY <1>1, <1>6, <1>7, LoopStep

\* The first loop ends with no object marked.
LEMMA ClearDoneInv == ListInv /\ ClearDone => ListInv'
<1> SUFFICES ASSUME ListInv, ClearDone PROVE ListInv'
  OBVIOUS
<1>1. /\ phase = "clear" /\ phase' = "mark" /\ cursor = NULL /\ todo' = Roots
      /\ UNCHANGED vars /\ UNCHANGED listVars /\ UNCHANGED <<call, before>>
  BY DEF ClearDone
<1>2. /\ UNCHANGED <<live, refCount, blockSize, marked, frozen, held, errors>>
      /\ UNCHANGED statVars /\ UNCHANGED hostVars
  BY <1>1 DEF vars, heapVars, hostVars
<1>3. PICK s : Linked(s, objectList, gcNext, gcPrev) /\ ToSet(s) = live /\ Walked(s)
  BY DEF ListInv, ListSound
<1>4. marked \subseteq live
  BY DEF ListInv, IInv, TypeOK
<1>5. marked = {}
  BY <1>1, <1>3, <1>4, LoopStands
<1>6. Walked(s)'
  BY <1>1, <1>2, <1>5, HostKept DEF Walked
<1>7. ListSound'
  BY <1>1, <1>2, <1>3, <1>6 DEF ListSound, listVars
<1>8. QED
  BY <1>1, <1>2, <1>4, <1>7, LoopStep

\* pi_GcMarkRoots.
LEMMA MarkRootInv ==
  ASSUME ListInv, NEW o \in Objects, MarkRoot(o)
  PROVE  ListInv'
<1>1. /\ phase = "mark" /\ phase' = "mark" /\ o \in todo
      /\ marked' = marked \cup {o} /\ todo' = todo \ {o}
      /\ UNCHANGED <<live, refCount, blockSize, frozen, held, errors, before>>
      /\ UNCHANGED statVars /\ UNCHANGED hostVars /\ UNCHANGED listVars /\ call' = call
  BY DEF MarkRoot
<1>2. PICK s : Linked(s, objectList, gcNext, gcPrev) /\ ToSet(s) = live /\ Walked(s)
  BY DEF ListInv, ListSound
<1>3. todo \subseteq Roots /\ marked = Roots \ todo
  BY <1>1, <1>2 DEF Walked
<1>4. Walked(s)'
  BY <1>1, <1>3, HostKept DEF Walked
<1>5. ListSound'
  BY <1>1, <1>2, <1>4 DEF ListSound, listVars
<1>6. marked' \subseteq live
  BY <1>1, <1>3 DEF ListInv, IInv, TypeOK, RootsAreLive
<1>7. QED
  BY <1>1, <1>5, <1>6, LoopStep

\* The second loop ends with the roots marked.
LEMMA MarkDoneInv == ListInv /\ MarkDone => ListInv'
<1> SUFFICES ASSUME ListInv, MarkDone PROVE ListInv'
  OBVIOUS
<1>1. /\ phase = "mark" /\ phase' = "sweep" /\ todo = {} /\ cursor' = objectList
      /\ UNCHANGED vars /\ UNCHANGED listVars /\ UNCHANGED <<call, before>>
  BY DEF MarkDone
<1>2. /\ UNCHANGED <<live, refCount, blockSize, marked, frozen, held, errors>>
      /\ UNCHANGED statVars /\ UNCHANGED hostVars
  BY <1>1 DEF vars, heapVars, hostVars
<1>3. PICK s : Linked(s, objectList, gcNext, gcPrev) /\ ToSet(s) = live /\ Walked(s)
  BY DEF ListInv, ListSound
<1>4. marked' = Roots /\ Roots' = Roots
  BY <1>1, <1>2, <1>3, HostKept DEF Walked
<1>5. cursor' = At(s, 1) /\ 1 \in 1 .. Len(s) + 1
  <2>1. objectList = At(s, 1) /\ Len(s) \in Nat
    BY <1>3, AtFacts DEF Linked
  <2>2. QED
    BY <1>1, <2>1
<1>6. Walked(s)'
  BY <1>1, <1>4, <1>5 DEF Walked
<1>7. ListSound'
  BY <1>1, <1>2, <1>3, <1>6 DEF ListSound, listVars
<1>8. marked' \subseteq live
  BY <1>2 DEF ListInv, IInv, TypeOK
<1>9. QED
  BY <1>1, <1>2, <1>7, <1>8, LoopStep

\* u is f with zeros in G, and then with one more.
ZeroIn(u, f, G) == u = [o \in Objects |-> IF o \in G THEN 0 ELSE f[o]]
ZeroedAt(v, u, x) == v = [u EXCEPT ![x] = 0]

LEMMA ZeroMore ==
  ASSUME NEW f, NEW G, NEW x \in Objects, NEW u, NEW v, ZeroIn(u, f, G), ZeroedAt(v, u, x)
  PROVE  ZeroIn(v, f, G \cup {x})
  BY DEF ZeroIn, ZeroedAt

\* A heap without some objects, less one more.
LEMMA WithoutMore ==
  ASSUME NEW b, Typed(b), NEW G \in SUBSET b.live, NEW h, Without(b, G, h),
         NEW x \in h.live, NEW g,
         g.live = h.live \ {x}, g.refCount = [h.refCount EXCEPT ![x] = 0],
         g.blockSize = [h.blockSize EXCEPT ![x] = 0], g.frozen = h.frozen \ {x},
         g.objectCount = h.objectCount - 1, g.objectsFreed = h.objectsFreed + 1,
         g.bytesAllocated = h.bytesAllocated - HeaderOf(h)[x],
         g.bytesFreed = h.bytesFreed + HeaderOf(h)[x]
  PROVE  Without(b, G \cup {x}, g)
<1> DEFINE Sum(S) == SumFunctionOnSet(HeaderOf(b), S)
<1>1. /\ h.live = b.live \ G /\ h.frozen = b.frozen \ G
      /\ h.refCount = [o \in Objects |-> IF o \in G THEN 0 ELSE b.refCount[o]]
      /\ h.blockSize = [o \in Objects |-> IF o \in G THEN 0 ELSE b.blockSize[o]]
      /\ h.objectCount = b.objectCount - Cardinality(G)
      /\ h.objectsFreed = b.objectsFreed + Cardinality(G)
      /\ h.bytesAllocated = b.bytesAllocated - Sum(G) /\ h.bytesFreed = b.bytesFreed + Sum(G)
  BY DEF Without
<1>2. /\ b.live \subseteq Objects /\ b.blockSize \in [Objects -> Nat]
      /\ b.objectCount \in Nat /\ b.objectsFreed \in Nat
      /\ b.bytesAllocated \in Int /\ b.bytesFreed \in Int
  BY DEF Typed
<1>3. /\ x \in Objects /\ x \notin G
      /\ HeaderOf(h)[x] = HeaderOf(b)[x] /\ \A y \in Objects : HeaderOf(b)[y] \in Int
  <2>1. x \in Objects /\ x \notin G /\ h.blockSize[x] = b.blockSize[x]
    BY <1>1, <1>2
  <2>2. \A y \in Objects : b.blockSize[y] % SizeModulus \in Int
    BY <1>2, GcAssumption
  <2>3. QED
    BY <2>1, <2>2 DEF HeaderOf
<1>4. IsFiniteSet(G) /\ Cardinality(G) \in Nat /\ Cardinality(G \cup {x}) = Cardinality(G) + 1
  <2>1. IsFiniteSet(G)
    BY <1>2, FS_Subset, GcAssumption
  <2>2. QED
    BY <1>3, <2>1, FS_AddElement, FS_CardinalityType
<1>5. Sum(G \cup {x}) = Sum(G) + HeaderOf(b)[x] /\ Sum(G) \in Int
  <2> DEFINE f == HeaderOf(b)
  <2>1. \A y \in G \cup {x} : f[y] \in Int
    BY <1>2, <1>3
  <2> HIDE DEF f
  <2>2. IsFiniteSet(G) /\ x \notin G
    BY <1>3, <1>4
  <2>3. SumFunctionOnSet(f, G \cup {x}) = SumFunctionOnSet(f, G) + f[x]
    BY ONLY <2>1, <2>2, SumAdd
  <2>4. SumFunctionOnSet(f, G) \in Int
    BY ONLY <2>1, <2>2, SumInt
  <2>5. QED
    BY <2>3, <2>4 DEF f
<1> HIDE DEF Sum
<1>6. /\ g.refCount = [o \in Objects |-> IF o \in G \cup {x} THEN 0 ELSE b.refCount[o]]
      /\ g.blockSize = [o \in Objects |-> IF o \in G \cup {x} THEN 0 ELSE b.blockSize[o]]
  <2>1. /\ ZeroIn(h.refCount, b.refCount, G) /\ ZeroedAt(g.refCount, h.refCount, x)
        /\ ZeroIn(h.blockSize, b.blockSize, G) /\ ZeroedAt(g.blockSize, h.blockSize, x)
    BY <1>1 DEF ZeroIn, ZeroedAt
  <2>2. ZeroIn(g.refCount, b.refCount, G \cup {x}) /\ ZeroIn(g.blockSize, b.blockSize, G \cup {x})
    BY ONLY <1>3, <2>1, ZeroMore
  <2>3. QED
    BY <2>2 DEF ZeroIn
<1>7. g.live = b.live \ (G \cup {x}) /\ g.frozen = b.frozen \ (G \cup {x})
  BY <1>1
<1>8. /\ g.objectCount = b.objectCount - Cardinality(G \cup {x})
      /\ g.objectsFreed = b.objectsFreed + Cardinality(G \cup {x})
  BY <1>1, <1>2, <1>4
<1>9. /\ g.bytesAllocated = b.bytesAllocated - Sum(G \cup {x})
      /\ g.bytesFreed = b.bytesFreed + Sum(G \cup {x})
  BY <1>1, <1>2, <1>3, <1>5
<1>10. QED
  BY <1>6, <1>7, <1>8, <1>9 DEF Without, Sum

\* An iteration of the sweep that frees.
LEMMA SweepFreesInv ==
  ASSUME ListInv, SweepObject, cursor \notin marked
  PROVE  ListInv'
<1> DEFINE o == cursor
<1>1. /\ phase = "sweep" /\ phase' = "sweep" /\ o # NULL /\ cursor' = gcNext[o]
      /\ GcFreeObject(o) /\ Unlink(o)
      /\ UNCHANGED <<held, errors, before>> /\ UNCHANGED hostVars /\ call' = call
  BY DEF SweepObject, SweepNext
<1>2. /\ IInv /\ Typed(Heap) /\ CallSound /\ ~isPaused /\ Requested >= 1
      /\ collectionCount = before.collectionCount + Requested - 1
  BY <1>1 DEF ListInv, Progress
<1>3. PICK s : Linked(s, objectList, gcNext, gcPrev) /\ ToSet(s) = live /\ Walked(s)
  BY DEF ListInv, ListSound
<1>4. PICK j \in DOMAIN s :
        /\ cursor = s[j] /\ cursor \in live
        /\ \A i \in 1 .. j - 1 : s[i] \in marked
  BY <1>1, <1>3, LoopStands
<1>5. marked = Roots /\ o \notin Roots /\ o \in live
  BY <1>1, <1>3, <1>4 DEF Walked
<1>6. HostRootsHeld => held[o] = 0
  <2>1. HostReady /\ o \in Objects /\ held[o] \in Nat
    BY <1>2, <1>5 DEF CallSound, IInv, TypeOK
  <2>2. QED
    BY <1>2, <1>5, <2>1 DEF HostReady, HeldAreRooted
<1>7. Roots' = Roots /\ isPaused' = isPaused
  BY <1>1, HostKept
<1> HIDE DEF o
<1>8. IInv'
  BY <1>1, <1>2, <1>5, <1>6, SweepIInv
<1>9. Typed(Heap)'
  BY <1>1, <1>2, <1>5, <1>8, TypedFreed
<1>10. /\ live' = live \ {o} /\ marked' = marked \ {o} /\ frozen' = frozen \ {o}
       /\ refCount' = [refCount EXCEPT ![o] = 0] /\ blockSize' = [blockSize EXCEPT ![o] = 0]
       /\ objectCount' = objectCount - 1 /\ objectsFreed' = objectsFreed + 1
       /\ bytesAllocated' = bytesAllocated - objSize[o] /\ bytesFreed' = bytesFreed + objSize[o]
       /\ collectionCount' = collectionCount
  BY <1>1 DEF GcFreeObject, CountFreed
<1>11. ListSound'
  <2> DEFINE r == RemoveAt(s, j)
  <2>1. s[j] = o /\ s \in Seq(Objects)
    BY <1>3, <1>4 DEF o, Linked
  <2>2. /\ Linked(r, objectList', gcNext', gcPrev') /\ ToSet(r) = live'
        /\ Len(r) = Len(s) - 1
        /\ \A k \in 1 .. j - 1 : r[k] = s[k]
        /\ At(r, j) = gcNext[o]
    BY <1>1, <1>3, <1>10, <2>1, ListUnlink
  <2> HIDE DEF r
  <2>3. j \in 1 .. Len(r) + 1 /\ cursor' = At(r, j)
    BY <1>1, <2>1, <2>2
  <2>4. marked' = Roots'
    BY <1>5, <1>7, <1>10
  <2>5. \A i \in 1 .. j - 1 : r[i] \in marked' <=> phase' = "sweep"
    BY <1>1, <1>4, <1>5, <1>10, <2>2
  <2>6. Walked(r)'
    BY <1>1, <2>3, <2>4, <2>5 DEF Walked
  <2>7. QED
    BY <2>2, <2>6 DEF ListSound
<1>12. Reclaimed' = Reclaimed \cup {o} /\ live' \subseteq before'.live
  BY <1>1, <1>2, <1>5, <1>10 DEF Reclaimed, CallSound
<1>13. Without(before, Reclaimed, Heap)'
  <2> DEFINE G == Reclaimed
             g == Heap'
  <2>1. /\ Typed(before) /\ G \in SUBSET before.live /\ Without(before, G, Heap)
        /\ o \in Heap.live
    BY <1>2, <1>5 DEF CallSound, Reclaimed, Heap
  <2>2. /\ g.live = Heap.live \ {o} /\ g.refCount = [Heap.refCount EXCEPT ![o] = 0]
        /\ g.blockSize = [Heap.blockSize EXCEPT ![o] = 0] /\ g.frozen = Heap.frozen \ {o}
        /\ g.objectCount = Heap.objectCount - 1 /\ g.objectsFreed = Heap.objectsFreed + 1
        /\ g.bytesAllocated = Heap.bytesAllocated - HeaderOf(Heap)[o]
        /\ g.bytesFreed = Heap.bytesFreed + HeaderOf(Heap)[o]
    BY <1>10 DEF Heap, HeaderOf, objSize
  <2> HIDE DEF G, g
  <2>3. Without(before, G \cup {o}, g)
    BY <2>1, <2>2, WithoutMore
  <2>4. QED
    BY <1>1, <1>12, <2>3 DEF G, g, Without
<1>14. (Collecting \/ Allocating)' /\ Requested' = Requested
  <2>1. CASE Collecting
    BY <1>1, <2>1 DEF Collecting, Requested
  <2>2. CASE Allocating
    <3>1. /\ AllocRunsOf(before, call.sz)' = AllocRunsOf(before, call.sz)
          /\ FailsFirst(before, call.sz)' = FailsFirst(before, call.sz)
          /\ AutoRunsOf(before)' = AutoRunsOf(before)
      BY <1>1, <1>7 DEF AllocRunsOf, FailsFirst, FitsIn, FreedOf, AutoRunsOf
    <3>2. QED
      BY <1>1, <2>2, <3>1 DEF Allocating, Requested
  <2>3. QED
    BY <1>2, <2>1, <2>2 DEF CallSound
<1>15. HostReady' /\ Typed(before)'
  BY <1>1, <1>2, HostReadyKept, CallKept DEF CallSound
<1>16. Reclaimed' \cap Roots' = {}
  BY <1>2, <1>5, <1>7, <1>12 DEF CallSound
<1>17. CallSound'
  BY <1>12, <1>13, <1>14, <1>15, <1>16 DEF CallSound
<1>18. Progress'
  BY <1>1, <1>2, <1>7, <1>10, <1>14 DEF Progress
<1>19. QED
  BY <1>1, <1>8, <1>9, <1>11, <1>17, <1>18 DEF ListInv

\* pi_GcSweep.
LEMMA SweepObjectInv == ListInv /\ SweepObject => ListInv'
<1> SUFFICES ASSUME ListInv, SweepObject PROVE ListInv'
  OBVIOUS
<1>1. CASE cursor \notin marked
  BY <1>1, SweepFreesInv
<1>2. CASE cursor \in marked
  <2>1. /\ phase = "sweep" /\ phase' = "sweep" /\ cursor # NULL /\ cursor' = gcNext[cursor]
        /\ UNCHANGED <<live, refCount, blockSize, marked, frozen, held, errors, before>>
        /\ UNCHANGED statVars /\ UNCHANGED hostVars /\ UNCHANGED listVars /\ call' = call
    BY <1>2 DEF SweepObject, SweepNext, heapVars
  <2>2. PICK s : Linked(s, objectList, gcNext, gcPrev) /\ ToSet(s) = live /\ Walked(s)
    BY DEF ListInv, ListSound
  <2>3. PICK j \in DOMAIN s :
          cursor = At(s, j) /\ cursor = s[j] /\ \A i \in 1 .. j - 1 : s[i] \in marked
    BY <2>1, <2>2, LoopStands
  <2>4. marked = Roots /\ Roots' = Roots
    BY <2>1, <2>2, HostKept DEF Walked
  <2>5. Walked(s)'
    BY <1>2, <2>1, <2>2, <2>3, <2>4, WalkedOn
  <2>6. ListSound'
    BY <2>1, <2>2, <2>5 DEF ListSound, listVars
  <2>7. marked' \subseteq live
    BY <2>1 DEF ListInv, IInv, TypeOK
  <2>8. QED
    BY <2>1, <2>6, <2>7, LoopStep
<1>3. QED
  BY <1>1, <1>2

\* At the end of a collection nothing is left that no root names.
LEMMA CycleEnds ==
  ASSUME ListInv, phase = "sweep", cursor = NULL
  PROVE  /\ live \subseteq Roots /\ marked = Roots
         /\ Reclaimed = before.live \ Roots /\ Reclaimed = FreedOf(before, Requested)
<1>1. PICK s : Linked(s, objectList, gcNext, gcPrev) /\ ToSet(s) = live /\ Walked(s)
  BY DEF ListInv, ListSound
<1>2. \A o \in live : o \in marked
  BY <1>1, LoopStands
<1>3. marked = Roots
  BY <1>1 DEF Walked
<1>4. /\ live \subseteq before.live /\ Reclaimed \cap Roots = {}
      /\ ~isPaused /\ Requested >= 1
  BY DEF ListInv, CallSound, Progress
<1>5. Requested # 0
  BY <1>4 DEF Requested, AutoRunsOf
<1>6. QED
  BY <1>2, <1>3, <1>4, <1>5 DEF Reclaimed, FreedOf

\* The end of piGcCollect.
LEMMA SweepDoneInv == ListInv /\ SweepDone => ListInv'
<1> SUFFICES ASSUME ListInv, SweepDone PROVE ListInv'
  OBVIOUS
<1>1. /\ phase = "sweep" /\ cursor = NULL
      /\ collectionCount' = collectionCount + 1
      /\ nextGcThreshold' = bytesAllocated * GrowthFactor
      /\ IF call.op = "alloc" THEN phase' = "alloc" /\ UNCHANGED <<call, before>> ELSE Return
      /\ UNCHANGED <<live, refCount, blockSize, marked, frozen>>
      /\ UNCHANGED <<objectCount, bytesAllocated, objectsFreed, bytesFreed>>
      /\ UNCHANGED <<held, errors>> /\ UNCHANGED hostVars /\ UNCHANGED listVars
  BY DEF SweepDone, heapVars
<1>2. IInv /\ Typed(Heap) /\ ListSound /\ CallSound /\ Progress /\ collectionCount \in Nat
  BY <1>1 DEF ListInv, IInv, TypeOK
<1>3. phase' \in {"alloc", "idle"}
  BY <1>1 DEF Return
<1>4. IInv'
  <2>1. marked' \subseteq live /\ collectionCount' \in Nat
    BY <1>1, <1>2 DEF IInv, TypeOK
  <2>2. QED
    BY <1>1, <1>2, <2>1, LoopStepIInv
<1>5. Typed(Heap)'
  <2>1. blockSize' \in [Objects -> Nat] /\ bytesAllocated' \in Int /\ bytesFreed' \in Int
    BY <1>1, <1>2, HeapTyped
  <2>2. QED
    BY <1>4, <2>1, TypedAgain
<1>6. ListSound'
  BY <1>1, <1>2, <1>3, ListIdle
<1>7. CASE call.op = "alloc"
  <2>1. phase' = "alloc" /\ call' = call /\ before' = before
    BY <1>1, <1>7
  <2>2. CallSound' /\ Reclaimed' = Reclaimed /\ Requested' = Requested /\ Ran' = Ran
    BY <1>1, <1>2, <1>7, <2>1, CallSoundKept
  <2>3. /\ ~isPaused /\ Requested >= 1
        /\ collectionCount = before.collectionCount + Requested - 1
    BY <1>1, <1>2 DEF Progress
  <2>4. Ran = Requested /\ Ran # 0 /\ Requested \in Nat /\ before.collectionCount \in Nat
    BY <1>2, <2>3 DEF Ran, Requested, AutoRunsOf, CallSound, Typed
  <2>5. marked = Roots /\ Reclaimed = FreedOf(before, Requested)
    BY <1>1, CycleEnds
  <2>6. Roots' = Roots /\ FreedOf(before, Requested)' = FreedOf(before, Requested)
    BY <1>1, <2>1, <2>2, HostKept DEF FreedOf
  <2>7. Progress'
    BY <1>1, <2>1, <2>2, <2>3, <2>4, <2>5, <2>6 DEF Progress
  <2>8. QED
    BY <1>4, <1>5, <1>6, <2>1, <2>2, <2>7 DEF ListInv
<1>8. CASE call.op # "alloc"
  <2>1. phase' = "idle"
    BY <1>1, <1>8 DEF Return
  <2>2. QED
    BY <1>4, <1>5, <1>6, <2>1 DEF ListInv
<1>9. QED
  BY <1>7, <1>8

\* The sizes of what is there are what they were.
LEMMA BytesKept ==
  ASSUME CallSound
  PROVE  /\ before.live \ Reclaimed = live
         /\ SumFunctionOnSet(before.blockSize, live) = Bytes(live)
         /\ \A sz : FitsIn(before, live, sz) <=> Fits(live, sz)
<1> DEFINE f == before.blockSize
<1>1. /\ Without(before, Reclaimed, Heap) /\ Typed(before) /\ live \subseteq before.live
  BY DEF CallSound
<1>2. before.live \ Reclaimed = live
  BY <1>1 DEF Reclaimed
<1>3. \A o \in live : f[o] \in Int /\ f[o] = blockSize[o]
  <2>1. blockSize = [o \in Objects |-> IF o \in Reclaimed THEN 0 ELSE f[o]]
    BY <1>1 DEF Without, Heap
  <2>2. live \subseteq Objects /\ f \in [Objects -> Nat]
    BY <1>1 DEF Typed
  <2>3. QED
    BY <1>2, <2>1, <2>2
<1>4. IsFiniteSet(live)
  <2>1. live \subseteq Objects
    BY <1>1 DEF Typed
  <2>2. QED
    BY <2>1, FS_Subset, GcAssumption
<1> HIDE DEF f
<1>5. SumFunctionOnSet(f, live) = SumFunctionOnSet(blockSize, live)
  BY ONLY <1>3, <1>4, SumAgree
<1>6. QED
  BY <1>2, <1>5 DEF FitsIn, Fits, Bytes, f

\* What holds when the allocator is asked.
LEMMA AllocStands ==
  ASSUME ListInv, phase = "alloc"
  PROVE  /\ CallSound /\ Allocating /\ Typed(before) /\ call.sz \in Sizes
         /\ Reclaimed = FreedOf(before, Requested)
         /\ collectionCount = before.collectionCount + Ran
         /\ marked = IF Ran = 0 THEN before.marked ELSE Roots
         /\ nextGcThreshold = IF Ran = 0 THEN before.nextGcThreshold
                                         ELSE bytesAllocated * GrowthFactor
         /\ Requested = AutoRunsOf(before) + (IF call.retried THEN 1 ELSE 0)
         /\ AutoRunsOf(before) \in {0, 1}
<1>1. CallSound /\ Progress
  BY DEF ListInv
<1>2. Allocating
  BY <1>1 DEF CallSound, Collecting
<1>3. call.op = "alloc"
  BY <1>2 DEF Allocating
<1>4. Requested = AutoRunsOf(before) + (IF call.retried THEN 1 ELSE 0)
  BY <1>3 DEF Requested
<1>5. QED
  BY <1>1, <1>2, <1>4 DEF Progress, Allocating, AutoRunsOf, CallSound

\* Setting one field of a record leaves the others.
LEMMA RetriedIsSet ==
  ASSUME NEW c, NEW z, NEW r, NEW d, c = [op |-> "alloc", sz |-> z, retried |-> r],
         d = [c EXCEPT !.retried = TRUE]
  PROVE  d = [op |-> "alloc", sz |-> z, retried |-> TRUE]
  OBVIOUS

\* piGcAlloc that was answered NULL collects, unless paused, and asks again.
LEMMA AllocRetriesInv == ListInv /\ AllocRetries => ListInv'
<1> SUFFICES ASSUME ListInv, AllocRetries PROVE ListInv'
  OBVIOUS
<1>1. /\ phase = "alloc" /\ ~Fits(live, call.sz) /\ ~MemRaises /\ ~call.retried
      /\ call' = [call EXCEPT !.retried = TRUE]
      /\ IF isPaused THEN UNCHANGED <<phase, cursor, todo>> ELSE StartCycle
      /\ UNCHANGED vars /\ UNCHANGED listVars /\ before' = before
  BY DEF AllocRetries, RetryLeft
<1>2. /\ UNCHANGED <<live, refCount, blockSize, marked, frozen, held, errors, nextGcThreshold>>
      /\ UNCHANGED <<objectCount, bytesAllocated, collectionCount, objectsFreed, bytesFreed>>
      /\ UNCHANGED hostVars
  BY <1>1 DEF vars, heapVars, statVars, hostVars
<1>3. IInv /\ Typed(Heap) /\ ListSound /\ IInv'
  BY <1>1, NextIInv DEF ListInv
<1>4. Typed(Heap)'
  <2>1. blockSize' \in [Objects -> Nat] /\ bytesAllocated' \in Int /\ bytesFreed' \in Int
    BY <1>2, <1>3, HeapTyped
  <2>2. QED
    BY <1>3, <2>1, TypedAgain
<1>5. /\ CallSound /\ Allocating /\ Typed(before)
      /\ Reclaimed = FreedOf(before, Requested)
      /\ collectionCount = before.collectionCount + Ran
      /\ marked = IF Ran = 0 THEN before.marked ELSE Roots
      /\ nextGcThreshold = IF Ran = 0 THEN before.nextGcThreshold
                                      ELSE bytesAllocated * GrowthFactor
      /\ Requested = AutoRunsOf(before) /\ AutoRunsOf(before) \in {0, 1}
  BY <1>1, AllocStands
<1>6. FailsFirst(before, call.sz)
  BY <1>1, <1>5, BytesKept DEF FailsFirst
<1>7. call' = [op |-> "alloc", sz |-> call.sz, retried |-> TRUE]
  <2>1. PICK r : call = [op |-> "alloc", sz |-> call.sz, retried |-> r]
    BY <1>5 DEF Allocating
  <2>2. QED
    BY ONLY <1>1, <2>1, RetriedIsSet
<1>8. call'.op = "alloc" /\ call'.sz = call.sz /\ call'.retried
  BY <1>7
<1>9. Roots' = Roots /\ isPaused' = isPaused
  BY <1>2, HostKept
<1>10. /\ AutoRunsOf(before)' = AutoRunsOf(before)
       /\ FailsFirst(before, call.sz)' = FailsFirst(before, call.sz)
       /\ AllocRunsOf(before, call.sz)' = AllocRunsOf(before, call.sz)
  BY <1>1, <1>8, <1>9 DEF AutoRunsOf, FailsFirst, AllocRunsOf, FitsIn, FreedOf
<1>11. Allocating'
  BY <1>1, <1>2, <1>5, <1>6, <1>7, <1>8, <1>10 DEF Allocating
<1>12. Reclaimed' = Reclaimed /\ Without(before, Reclaimed, Heap)'
  <2>1. Reclaimed' = Reclaimed
    BY <1>1, <1>2 DEF Reclaimed
  <2>2. QED
    BY <1>1, <1>2, <1>5, <2>1 DEF CallSound, Without, Heap
<1>13. HostReady' /\ Typed(before)'
  BY <1>1, <1>2, <1>5, HostReadyKept, CallKept DEF CallSound
<1>14. CallSound'
  BY <1>1, <1>2, <1>5, <1>9, <1>11, <1>12, <1>13 DEF CallSound
<1>15. Requested' = Requested + 1
  BY <1>5, <1>8, <1>10 DEF Requested
<1>16. collectionCount \in Nat /\ before.collectionCount \in Nat
  BY <1>3, <1>5 DEF IInv, TypeOK, Typed
<1>17. CASE isPaused
  <2>1. phase' = "alloc"
    BY <1>1, <1>17
  <2>2. Ran = 0 /\ Ran' = 0 /\ FreedOf(before, Requested)' = {} /\ Reclaimed = {}
    BY <1>5, <1>9, <1>17 DEF Ran, FreedOf
  <2>3. Progress'
    BY <1>1, <1>2, <1>5, <1>12, <2>1, <2>2 DEF Progress
  <2>4. ListSound'
    BY <1>1, <1>2, <1>3, <2>1, ListIdle
  <2>5. QED
    BY <1>3, <1>4, <1>14, <2>1, <2>3, <2>4 DEF ListInv
<1>18. CASE ~isPaused
  <2>1. StartCycle /\ phase' = "clear"
    BY <1>1, <1>18 DEF StartCycle
  <2>2. Ran = Requested
    BY <1>18 DEF Ran
  <2>3. Progress'
    BY <1>1, <1>2, <1>5, <1>9, <1>15, <1>16, <1>18, <2>1, <2>2 DEF Progress
  <2>4. ListSound'
    BY <1>1, <1>2, <1>3, <2>1, CycleBegins
  <2>5. QED
    BY <1>3, <1>4, <1>14, <2>1, <2>3, <2>4 DEF ListInv
<1>19. QED
  BY <1>17, <1>18

\* piGcAlloc returns a new object, at the head of the list.
LEMMA AllocSucceedsInv ==
  ASSUME ListInv, NEW o \in Objects, AllocSucceeds(o)
  PROVE  ListInv'
<1>1. /\ phase = "alloc" /\ o \notin live /\ Link(o)
      /\ CollectThenAdd(0, {o}, call.sz)
      /\ held' = [held EXCEPT ![o] = 1] /\ phase' = "idle"
      /\ UNCHANGED hostVars /\ errors' = errors
  BY DEF AllocSucceeds, Return
<1>2. IInv /\ Typed(Heap) /\ ListSound /\ HostReady /\ call.sz \in Sizes
  BY <1>1, AllocStands DEF ListInv, CallSound
<1>3. Freed(0) = {} /\ call.sz \in Nat
  BY <1>2, GcAssumption DEF Freed
<1>4. IInv'
  <2>1. held' = [x \in Objects |-> IF x \in {o} THEN 1 ELSE held[x]] /\ errors' \in Nat
    BY <1>1, <1>2 DEF IInv, TypeOK
  <2>2. {o} \cap (live \ Freed(0)) = {} /\ {o} \in SUBSET Objects
    BY <1>1
  <2>3. UNCHANGED <<rootsVars, isPaused>>
    BY <1>1 DEF hostVars
  <2>4. QED
    BY <1>1, <1>2, <2>1, <2>2, <2>3, CollectThenAddIInv
<1>5. /\ live' = live \cup {o}
      /\ blockSize' = [x \in Objects |-> IF x = o THEN call.sz ELSE blockSize[x]]
      /\ bytesAllocated' = bytesAllocated - HeaderBytes({}) + call.sz
      /\ bytesFreed' = bytesFreed + HeaderBytes({})
  BY <1>1, <1>3 DEF CollectThenAdd
<1>6. HeaderBytes({}) = 0
  BY SumEmpty DEF HeaderBytes
<1>7. Typed(Heap)'
  <2>1. blockSize' \in [Objects -> Nat] /\ bytesAllocated' \in Int /\ bytesFreed' \in Int
    BY <1>2, <1>3, <1>5, <1>6, HeapTyped
  <2>2. QED
    BY <1>4, <2>1, TypedAgain
<1>8. ListSound'
  <2>1. PICK s : Linked(s, objectList, gcNext, gcPrev) /\ ToSet(s) = live
    BY <1>2 DEF ListSound
  <2> DEFINE r == <<o>> \o s
  <2>2. Linked(r, objectList', gcNext', gcPrev') /\ ToSet(r) = live'
    BY <1>1, <1>5, <2>1, ListLink
  <2> HIDE DEF r
  <2>3. Walked(r)'
    BY <1>1 DEF Walked
  <2>4. QED
    BY <2>2, <2>3 DEF ListSound
<1>9. QED
  BY <1>1, <1>4, <1>7, <1>8 DEF ListInv

\* piGcAlloc raises an error.
LEMMA AllocRaisesInv == ListInv /\ AllocRaises => ListInv'
<1> SUFFICES ASSUME ListInv, AllocRaises PROVE ListInv'
  OBVIOUS
<1>1. /\ errors' = errors + 1 /\ phase' = "idle"
      /\ UNCHANGED heapVars /\ UNCHANGED statVars /\ UNCHANGED <<nextGcThreshold, held>>
      /\ UNCHANGED hostVars /\ UNCHANGED listVars
  BY DEF AllocRaises, Return
<1>2. IInv /\ Typed(Heap) /\ ListSound
  BY DEF ListInv
<1>3. UNCHANGED <<live, refCount, blockSize, marked, frozen>>
      /\ UNCHANGED <<objectCount, bytesAllocated, collectionCount, objectsFreed, bytesFreed>>
      /\ UNCHANGED rootsVars /\ UNCHANGED isPaused
  BY <1>1 DEF heapVars, statVars, hostVars
<1>4. IInv'
  <2>1. Roots' = Roots
    BY <1>3, RootsUnchanged
  <2>2. TypeOK'
    BY <1>1, <1>2, <1>3 DEF IInv, TypeOK, rootsVars
  <2>3. RootsAreLive' /\ CountCoversOwners' /\ CountExact'
    BY <1>1, <1>2, <1>3, <2>1 DEF IInv, RootsAreLive, CountCoversOwners, CountExact
  <2>4. HostRootsHeld => OwnedStaysAllocated'
    BY <1>1, <1>2, <1>3 DEF IInv, OwnedStaysAllocated
  <2>5. QED
    BY <2>2, <2>3, <2>4 DEF IInv
<1>5. Typed(Heap)'
  <2>1. blockSize' \in [Objects -> Nat] /\ bytesAllocated' \in Int /\ bytesFreed' \in Int
    BY <1>2, <1>3, HeapTyped
  <2>2. QED
    BY <1>4, <2>1, TypedAgain
<1>6. ListSound'
  BY <1>1, <1>2, <1>3, ListIdle
<1>7. QED
  BY <1>1, <1>4, <1>5, <1>6 DEF ListInv

\* Every step keeps the invariant.
LEMMA ListNextInv == ListInv /\ [ListNext]_allVars => ListInv'
<1> SUFFICES ASSUME ListInv, [ListNext]_allVars PROVE ListInv'
  OBVIOUS
<1>1. CASE CallStep
  BY <1>1, ClearMarkInv, ClearDoneInv, MarkDoneInv, SweepObjectInv, SweepDoneInv, MarkRootInv,
     AllocSucceedsInv, AllocRetriesInv, AllocRaisesInv DEF CallStep
<1>2. CASE Collect \/ OtherCall
  BY <1>2, CollectInv, OtherCallInv
<1>3. CASE \E sz \in Sizes : AllocBegin(sz)
  BY <1>3, AllocBeginInv
<1>4. CASE \E o \in Objects : Release(o)
  BY <1>4, ReleaseInv
<1>5. CASE UNCHANGED allVars
  <2>1. UNCHANGED vars /\ UNCHANGED <<listVars, loopVars>>
    BY <1>5 DEF allVars
  <2>2. /\ UNCHANGED <<live, refCount, blockSize, marked, frozen, nextGcThreshold, held, errors>>
        /\ UNCHANGED <<objectCount, bytesAllocated, collectionCount, objectsFreed, bytesFreed>>
        /\ UNCHANGED <<objectList, gcNext, gcPrev, phase, cursor, todo, call, before>>
        /\ UNCHANGED hostVars
    BY <2>1 DEF vars, heapVars, statVars, listVars, loopVars, hostVars
  <2>3. Heap' = Heap /\ Roots' = Roots /\ isPaused' = isPaused
    BY <2>2, HostKept DEF Heap
  <2>4. IInv'
    BY <2>1, NextIInv DEF ListInv
  <2>5. Typed(Heap)'
    BY <2>3 DEF ListInv, Typed
  <2>6. ListSound'
    <3>1. PICK s : Linked(s, objectList, gcNext, gcPrev) /\ ToSet(s) = live /\ Walked(s)
      BY DEF ListInv, ListSound
    <3>2. Walked(s)'
      BY <2>2, <2>3, <3>1 DEF Walked
    <3>3. QED
      BY <2>2, <3>1, <3>2 DEF ListSound
  <2>7. CASE phase # "idle"
    <3>1. CallSound /\ Progress /\ (phase = "alloc" => call.op = "alloc")
      BY <2>7, AllocStands DEF ListInv, Allocating
    <3>2. CallSound' /\ Reclaimed' = Reclaimed /\ Requested' = Requested /\ Ran' = Ran
      BY <2>2, <3>1, CallSoundKept
    <3>3. FreedOf(before, Requested)' = FreedOf(before, Requested)
      BY <2>2, <2>3, <3>2 DEF FreedOf
    <3>4. Progress'
      BY <2>2, <2>3, <3>1, <3>2, <3>3 DEF Progress
    <3>5. QED
      BY <2>2, <2>4, <2>5, <2>6, <3>2, <3>4 DEF ListInv
  <2>8. CASE phase = "idle"
    BY <2>2, <2>4, <2>5, <2>6, <2>8 DEF ListInv
  <2>9. QED
    BY <2>7, <2>8
<1>6. QED
  BY <1>1, <1>2, <1>3, <1>4, <1>5 DEF ListNext

\* The invariant holds after every step of every loop.
THEOREM ListInvHolds == ListSpec => []ListInv
  BY ListInitInv, ListNextInv, PTL DEF ListSpec

\* The links are the list of the objects there are, forth and back, and no loop
\* stands on freed memory, in the middle of a sweep as between calls (gc.c).
THEOREM ListStaysExact == ListSpec => []ListIsExact
<1>1. ASSUME ListInv PROVE ListIsExact
  <2>1. PICK s : Linked(s, objectList, gcNext, gcPrev) /\ ToSet(s) = live /\ Walked(s)
    BY <1>1 DEF ListInv, ListSound
  <2>2. ListWalks
    BY <2>1, LinkedWalks
  <2>3. LoopsStand
    <3>1. phase \in {"clear", "sweep"} => cursor \in live \cup {NULL}
      BY <2>1, LoopStands
    <3>2. phase = "mark" => todo \subseteq live
      BY <1>1, <2>1 DEF Walked, ListInv, IInv, RootsAreLive
    <3>3. QED
      BY <3>1, <3>2 DEF LoopsStand
  <2>4. QED
    BY <2>2, <2>3 DEF ListIsExact
<1>2. QED
  BY <1>1, ListInvHolds, PTL

-------------------------------------------------------------------------------
(* The loops implement Gc.                                                    *)

\* Gc's operators on the heap the host sees.
LEMMA AbstractTerms ==
  ASSUME Seen.marked \subseteq Seen.live
  PROVE  /\ Abstract!Roots = Roots /\ (Abstract!HostReady <=> HostReady)
         /\ \A S : Abstract!Bytes(S) = SumFunctionOnSet(Seen.blockSize, S)
         /\ Abstract!objSize = HeaderOf(Seen)
         /\ \A S : Abstract!HeaderBytes(S) = SumFunctionOnSet(HeaderOf(Seen), S)
         /\ \A S, sz : Abstract!Fits(S, sz) <=> FitsIn(Seen, S, sz)
         /\ Abstract!GcMarks = Roots
         /\ \A n : Abstract!Freed(n) = FreedOf(Seen, n)
         /\ \A sz : Abstract!AllocRuns(sz) = AllocRunsOf(Seen, sz)
<1>1. \A f, S : Abstract!SumFunctionOnSet(f, S) = SumFunctionOnSet(f, S)
  BY DEF SumFunctionOnSet, Abstract!SumFunctionOnSet, FoldFunctionOnSet,
         Abstract!FoldFunctionOnSet, MapThenFoldSet, Abstract!MapThenFoldSet
<1>2. \A s : Abstract!ToSet(s) = ToSet(s)
  BY DEF ToSet, Abstract!ToSet
<1>3. Abstract!Roots = Roots
  BY <1>2 DEF Roots, Abstract!Roots, StackRoots, Abstract!StackRoots,
              GlobalRoots, Abstract!GlobalRoots
<1>4. Abstract!HostReady <=> HostReady
  BY <1>3 DEF HostReady, Abstract!HostReady, HeldAreRooted, Abstract!HeldAreRooted
<1>5. \A S : Abstract!Bytes(S) = SumFunctionOnSet(Seen.blockSize, S)
  BY <1>1 DEF Abstract!Bytes
<1>6. \A S, sz : Abstract!Fits(S, sz) <=> FitsIn(Seen, S, sz)
  BY <1>5 DEF Abstract!Fits, FitsIn
<1>7. Abstract!GcMarks = Roots
  BY <1>3 DEF Abstract!GcMarks, Abstract!GcMarkRoots, Abstract!GcClearMarks
<1>8. \A n : Abstract!Freed(n) = FreedOf(Seen, n)
  BY <1>7 DEF Abstract!Freed, FreedOf, Abstract!GcSweep
<1>9. Abstract!AutoRuns = AutoRunsOf(Seen)
  BY DEF Abstract!AutoRuns, AutoRunsOf, Abstract!ThresholdReached
<1>10. \A sz : Abstract!AllocRuns(sz) = AllocRunsOf(Seen, sz)
  BY <1>6, <1>8, <1>9 DEF Abstract!AllocRuns, AllocRunsOf, FailsFirst
<1>11. Abstract!objSize = HeaderOf(Seen)
  BY DEF Abstract!objSize, HeaderOf
<1>12. \A S : Abstract!HeaderBytes(S) = SumFunctionOnSet(HeaderOf(Seen), S)
  BY <1>1, <1>11 DEF Abstract!HeaderBytes
<1>13. QED
  BY <1>3, <1>4, <1>5, <1>6, <1>7, <1>8, <1>10, <1>11, <1>12

\* The heap between calls is the one the host sees.
LEMMA SeenIdle ==
  ASSUME phase = "idle"
  PROVE  /\ Seen.live = live /\ Seen.refCount = refCount /\ Seen.blockSize = blockSize
         /\ Seen.marked = marked /\ Seen.frozen = frozen
         /\ Seen.nextGcThreshold = nextGcThreshold /\ Seen.objectCount = objectCount
         /\ Seen.bytesAllocated = bytesAllocated
         /\ Seen.collectionCount = collectionCount
         /\ Seen.objectsFreed = objectsFreed /\ Seen.bytesFreed = bytesFreed
  BY DEF Seen, Heap

\* The process starts as Gc does.
LEMMA InitImplements == ListInit => Abstract!Init
<1> SUFFICES ASSUME ListInit PROVE Abstract!Init
  OBVIOUS
<1>1. phase = "idle" /\ Init
  BY DEF ListInit
<1>2. QED
  BY <1>1, SeenIdle DEF Init, Abstract!Init

\* A step of a call that has not ended shows the host nothing.
LEMMA StepStutters ==
  ASSUME UNCHANGED hostVars, UNCHANGED <<held, errors>>, Seen' = Seen
  PROVE  UNCHANGED Abstract!vars
<1>1. UNCHANGED rootsVars /\ UNCHANGED isPaused
  BY DEF hostVars
<1>2. QED
  BY <1>1 DEF Abstract!vars, Abstract!heapVars, Abstract!rootsVars, Abstract!statVars, rootsVars

\* What an action between calls sees before and after.
LEMMA IdleHeaps ==
  ASSUME phase = "idle", UNCHANGED loopVars
  PROVE  /\ Seen.live = live /\ Seen.refCount = refCount /\ Seen.blockSize = blockSize
         /\ Seen.marked = marked /\ Seen.frozen = frozen
         /\ Seen.nextGcThreshold = nextGcThreshold /\ Seen.objectCount = objectCount
         /\ Seen.bytesAllocated = bytesAllocated
         /\ Seen.collectionCount = collectionCount
         /\ Seen.objectsFreed = objectsFreed /\ Seen.bytesFreed = bytesFreed
         /\ Seen'.live = live' /\ Seen'.refCount = refCount' /\ Seen'.blockSize = blockSize'
         /\ Seen'.marked = marked' /\ Seen'.frozen = frozen'
         /\ Seen'.nextGcThreshold = nextGcThreshold' /\ Seen'.objectCount = objectCount'
         /\ Seen'.bytesAllocated = bytesAllocated'
         /\ Seen'.collectionCount = collectionCount'
         /\ Seen'.objectsFreed = objectsFreed' /\ Seen'.bytesFreed = bytesFreed'
<1>1. phase' = "idle"
  BY DEF loopVars
<1>2. QED
  BY <1>1 DEF Seen, Heap

\* piGcRelease is the same step of Gc.
LEMMA ReleaseImplements ==
  ASSUME ListInv, NEW o \in Objects, Release(o)
  PROVE  Abstract!Next
<1>1. phase = "idle" /\ UNCHANGED loopVars /\ GcRelease(o)
  BY DEF Release
<1>2. Seen.marked \subseteq Seen.live
  BY <1>1, IdleHeaps DEF ListInv, IInv, TypeOK
<1>3. Abstract!Roots = Roots
  BY <1>2, AbstractTerms
<1>4. GcDecrement(o) => Abstract!GcDecrement(o)
  BY <1>1, IdleHeaps
     DEF GcDecrement, Abstract!GcDecrement, GcFreeObject, Abstract!GcFreeObject,
         CountFreed, Abstract!CountFreed, heapVars, Abstract!heapVars,
         objSize, Abstract!objSize, statVars, Abstract!statVars
<1>5. Abstract!GcRelease(o)
  BY <1>1, <1>3, <1>4, IdleHeaps
     DEF GcRelease, Abstract!GcRelease, rootsVars, Abstract!rootsVars
<1>6. QED
  BY <1>5 DEF Abstract!Next

\* So is every other call that runs no loop.
LEMMA OtherCallImplements == ListInv /\ OtherCall => Abstract!Next
<1> SUFFICES ASSUME ListInv, OtherCall PROVE Abstract!Next
  OBVIOUS
<1>1. phase = "idle" /\ UNCHANGED loopVars
  BY DEF OtherCall
<1>2. Seen.marked \subseteq Seen.live
  BY <1>1, IdleHeaps DEF ListInv, IInv, TypeOK
<1>3. Abstract!Roots = Roots /\ \A o : Abstract!Reachable(o) <=> Reachable(o)
  BY <1>1, <1>2, AbstractTerms, IdleHeaps DEF Reachable, Abstract!Reachable
<1>4. /\ UNCHANGED heapVars => UNCHANGED Abstract!heapVars
      /\ UNCHANGED statVars => UNCHANGED Abstract!statVars
      /\ UNCHANGED rootsVars => UNCHANGED Abstract!rootsVars
      /\ nextGcThreshold' = nextGcThreshold => Seen'.nextGcThreshold = Seen.nextGcThreshold
  BY <1>1, IdleHeaps DEF heapVars, Abstract!heapVars, statVars, Abstract!statVars,
                         rootsVars, Abstract!rootsVars
<1>5. ASSUME NEW o \in Objects, GcRetain(o) PROVE Abstract!Next
  <2>1. Abstract!GcRetain(o)
    BY <1>1, <1>3, <1>4, <1>5, IdleHeaps
       DEF GcRetain, Abstract!GcRetain, Saturates, Abstract!Saturates
  <2>2. QED
    BY <2>1 DEF Abstract!Next
<1>6. ASSUME NEW o \in Objects, HostForget(o) PROVE Abstract!Next
  <2>1. Abstract!HostForget(o)
    BY <1>4, <1>6 DEF HostForget, Abstract!HostForget
  <2>2. QED
    BY <2>1 DEF Abstract!Next
<1>7. ASSUME NEW r \in RootVars, GcAddGlobalRoot(r) \/ GcRemoveGlobalRoot(r)
      PROVE  Abstract!Next
  <2>1. CASE GcAddGlobalRoot(r)
    <3>1. Abstract!GcAddGlobalRoot(r)
      BY <1>3, <1>4, <2>1 DEF GcAddGlobalRoot, Abstract!GcAddGlobalRoot
    <3>2. QED
      BY <3>1 DEF Abstract!Next
  <2>2. CASE GcRemoveGlobalRoot(r)
    <3>1. /\ \A s : Abstract!ToSet(s) = ToSet(s) /\ Abstract!Front(s) = Front(s)
                                             /\ Abstract!Last(s) = Last(s)
      BY DEF ToSet, Abstract!ToSet, Front, Abstract!Front, Last, Abstract!Last
    <3>2. /\ \A s, i : Abstract!SwapRemove(s, i) = SwapRemove(s, i)
          /\ \A s, x : Abstract!FirstIndex(s, x) = FirstIndex(s, x)
      BY <3>1 DEF SwapRemove, Abstract!SwapRemove, FirstIndex, Abstract!FirstIndex
    <3>3. Abstract!GcRemoveGlobalRoot(r)
      BY <1>4, <2>2, <3>1, <3>2 DEF GcRemoveGlobalRoot, Abstract!GcRemoveGlobalRoot
    <3>4. QED
      BY <3>3 DEF Abstract!Next
  <2>3. QED
    BY <1>7, <2>1, <2>2
<1>8. ASSUME NEW r \in RootVars, NEW o \in MaybeObject, HostAssign(r, o) PROVE Abstract!Next
  <2>1. Abstract!HostAssign(r, o)
    BY <1>3, <1>4, <1>8 DEF HostAssign, Abstract!HostAssign
  <2>2. QED
    BY <2>1 DEF Abstract!Next, Abstract!MaybeObject, MaybeObject
<1>9. ASSUME GcSetVmStack \/ SvmPop PROVE Abstract!Next
  <2>1. \A s : Abstract!Front(s) = Front(s)
    BY DEF Front, Abstract!Front
  <2>2. Abstract!GcSetVmStack \/ Abstract!SvmPop
    BY <1>4, <1>9, <2>1 DEF GcSetVmStack, Abstract!GcSetVmStack, SvmPop, Abstract!SvmPop
  <2>3. QED
    BY <2>2 DEF Abstract!Next
<1>10. ASSUME NEW v \in MaybeObject, SvmPush(v) PROVE Abstract!Next
  <2>1. Abstract!SvmPush(v)
    BY <1>3, <1>4, <1>10 DEF SvmPush, Abstract!SvmPush
  <2>2. QED
    BY <2>1 DEF Abstract!Next, Abstract!MaybeObject, MaybeObject
<1>11. ASSUME NEW p \in BOOLEAN, GcSetPaused(p) PROVE Abstract!Next
  <2>1. Abstract!GcSetPaused(p)
    BY <1>4, <1>11 DEF GcSetPaused, Abstract!GcSetPaused
  <2>2. QED
    BY <2>1 DEF Abstract!Next
<1>12. QED
  BY <1>5, <1>6, <1>7, <1>8, <1>9, <1>10, <1>11 DEF OtherCall

\* The heap h after the objects `new' of sz bytes were added to g.
Added(g, new, sz, h) ==
  /\ h.live = g.live \cup new
  /\ h.refCount = [o \in Objects |-> IF o \in new THEN 1 ELSE g.refCount[o]]
  /\ h.blockSize = [o \in Objects |-> IF o \in new THEN sz ELSE g.blockSize[o]]
  /\ h.marked = g.marked \ new /\ h.frozen = g.frozen \ new
  /\ h.objectCount = g.objectCount + Cardinality(new)
  /\ h.bytesAllocated = (IF new = {} THEN g.bytesAllocated ELSE g.bytesAllocated + sz)
  /\ h.objectsFreed = g.objectsFreed /\ h.bytesFreed = g.bytesFreed
  /\ h.collectionCount = g.collectionCount /\ h.nextGcThreshold = g.nextGcThreshold

\* The heap h when ran collections have reclaimed G from b.
Swept(b, G, ran, h) ==
  /\ Without(b, G, h)
  /\ h.marked = IF ran = 0 THEN b.marked ELSE Roots
  /\ h.collectionCount = b.collectionCount + ran
  /\ h.nextGcThreshold = IF ran = 0 THEN b.nextGcThreshold
                                    ELSE h.bytesAllocated * GrowthFactor

\* Sweeping and then adding is what Gc does in one step.
LEMMA CallIsOneStep ==
  ASSUME Seen.marked \subseteq Seen.live, NEW n, NEW ran, ran = (IF isPaused THEN 0 ELSE n),
         NEW G, G = FreedOf(Seen, n), NEW new, NEW sz, NEW g,
         Swept(Seen, G, ran, g), Added(g, new, sz, Seen')
  PROVE  Abstract!CollectThenAdd(n, new, sz)
<1>1. /\ Abstract!Freed(n) = G /\ Abstract!GcMarks = Roots
      /\ \A S : Abstract!HeaderBytes(S) = SumFunctionOnSet(HeaderOf(Seen), S)
  BY AbstractTerms
<1>2. G \cap Roots = {} /\ (ran = 0 => G = {})
  BY DEF FreedOf
<1>3. Seen'.refCount = [o \in Objects |-> IF o \in new THEN 1
                          ELSE IF o \in G \ new THEN 0 ELSE Seen.refCount[o]]
  BY DEF Swept, Without, Added
<1>4. Seen'.blockSize = [o \in Objects |-> IF o \in new THEN sz
                      ELSE IF o \in G \ new THEN 0 ELSE Seen.blockSize[o]]
  BY DEF Swept, Without, Added
<1>5. /\ Seen'.live = (Seen.live \ G) \cup new
      /\ Seen'.frozen = Seen.frozen \ (G \cup new)
      /\ Seen'.marked = (IF ran = 0 THEN Seen.marked ELSE Roots) \ (G \cup new)
  BY <1>2 DEF Swept, Without, Added
<1>6. /\ Seen'.objectCount = Seen.objectCount - Cardinality(G) + Cardinality(new)
      /\ Seen'.objectsFreed = Seen.objectsFreed + Cardinality(G)
      /\ Seen'.bytesFreed = Seen.bytesFreed + SumFunctionOnSet(HeaderOf(Seen), G)
      /\ Seen'.collectionCount = Seen.collectionCount + ran
  BY DEF Swept, Without, Added
<1>7. /\ g.bytesAllocated = Seen.bytesAllocated - SumFunctionOnSet(HeaderOf(Seen), G)
      /\ Seen'.bytesAllocated = IF new = {} THEN g.bytesAllocated ELSE g.bytesAllocated + sz
      /\ Seen'.nextGcThreshold = IF ran = 0 THEN Seen.nextGcThreshold
                                            ELSE g.bytesAllocated * GrowthFactor
  BY DEF Swept, Without, Added
<1>8. \A S : Abstract!Cardinality(S) = Cardinality(S)
  BY DEF Cardinality, Abstract!Cardinality
<1>9. QED
  BY <1>1, <1>3, <1>4, <1>5, <1>6, <1>7, <1>8 DEF Abstract!CollectThenAdd

\* Adding nothing.
LEMMA AddedNone ==
  ASSUME NEW g, Typed(g)
  PROVE  Added(g, {}, 0, g)
<1>1. Cardinality({}) = 0
  BY FS_EmptySet
<1>2. g.refCount = [o \in Objects |-> g.refCount[o]] /\ g.blockSize = [o \in Objects |-> g.blockSize[o]]
  BY DEF Typed
<1>3. g.objectCount + 0 = g.objectCount
  BY DEF Typed
<1>4. QED
  BY <1>1, <1>2, <1>3 DEF Added

\* What a call that is about to end started from.
LEMMA SeenBusy ==
  ASSUME phase # "idle", phase' = "idle"
  PROVE  Seen = before /\ Seen' = Heap'
  BY DEF Seen

\* The end of piGcCollect is the whole of it in Gc.
LEMMA SweepDoneImplements ==
  ASSUME ListInv, SweepDone
  PROVE  [Abstract!Next]_Abstract!vars
<1>1. /\ phase = "sweep" /\ cursor = NULL
      /\ collectionCount' = collectionCount + 1
      /\ nextGcThreshold' = bytesAllocated * GrowthFactor
      /\ IF call.op = "alloc" THEN phase' = "alloc" /\ UNCHANGED <<call, before>> ELSE Return
      /\ UNCHANGED <<live, refCount, blockSize, marked, frozen>>
      /\ UNCHANGED <<objectCount, bytesAllocated, objectsFreed, bytesFreed>>
      /\ UNCHANGED <<held, errors>> /\ UNCHANGED hostVars
  BY DEF SweepDone, heapVars
<1>2. CallSound /\ Progress /\ Typed(before) /\ Without(before, Reclaimed, Heap)
  BY <1>1 DEF ListInv, CallSound
<1>3. CASE call.op = "alloc"
  <2>1. Seen' = Seen
    BY <1>1, <1>3 DEF Seen
  <2>2. QED
    BY <1>1, <2>1, StepStutters
<1>4. CASE call.op # "alloc"
  <2>1. Seen = before /\ Seen' = Heap'
    BY <1>1, <1>4, SeenBusy DEF Return
  <2>2. /\ Requested = 1 /\ before.collectionCount < MaxCollections
        /\ ~isPaused /\ collectionCount = before.collectionCount + Requested - 1
    BY <1>1, <1>2, <1>4 DEF CallSound, Collecting, Allocating, Requested, Progress
  <2>3. marked = Roots /\ Reclaimed = FreedOf(before, 1)
    BY <1>1, <2>2, CycleEnds
  <2>4. Typed(Heap)' /\ Typed(Heap) /\ Typed(before)
    BY <1>1, <1>2, SweepDoneInv DEF ListInv
  <2>5. Swept(before, Reclaimed, 1, Heap')
    <3>1. Without(before, Reclaimed, Heap')
      BY <1>1, <1>2 DEF Without, Heap
    <3>2. Heap'.marked = Roots /\ Heap'.nextGcThreshold = Heap'.bytesAllocated * GrowthFactor
      BY <1>1, <2>3 DEF Heap
    <3>3. Heap'.collectionCount = before.collectionCount + 1
      BY <1>1, <2>2, <2>4 DEF Heap, Typed
    <3>4. QED
      BY <3>1, <3>2, <3>3 DEF Swept
  <2>6. Added(Heap', {}, 0, Heap')
    <3>1. Typed(Heap')
      BY <2>4 DEF Typed
    <3>2. QED
      BY <3>1, AddedNone
  <2>7. Seen.marked \subseteq Seen.live
    BY <2>1, <2>4 DEF Typed
  <2> DEFINE g == Heap'
  <2>8. Swept(Seen, Reclaimed, 1, g) /\ Added(g, {}, 0, Seen')
    BY <2>1, <2>5, <2>6
  <2>9. Reclaimed = FreedOf(Seen, 1)
    BY <2>1, <2>3
  <2> HIDE DEF g
  <2>10. Abstract!CollectThenAdd(1, {}, 0)
    BY <2>2, <2>7, <2>8, <2>9, CallIsOneStep
  <2>11. Abstract!HostReady
    BY <1>2, <2>7, AbstractTerms DEF CallSound
  <2>12. UNCHANGED <<Abstract!rootsVars, isPaused, held, errors>>
    BY <1>1 DEF Abstract!rootsVars, hostVars, rootsVars
  <2>13. Abstract!GcCollect
    BY <2>1, <2>2, <2>10, <2>11, <2>12 DEF Abstract!GcCollect
  <2>14. QED
    BY <2>13 DEF Abstract!Next
<1>5. QED
  BY <1>3, <1>4

\* piGcAlloc is answered for good after the collections Gc says it makes.
LEMMA AllocDecided ==
  ASSUME ListInv, phase = "alloc", Fits(live, call.sz) \/ ~RetryLeft
  PROVE  /\ Requested = AllocRunsOf(before, call.sz)
         /\ before.live \ Reclaimed = live /\ Reclaimed = FreedOf(before, Requested)
         /\ FitsIn(before, live, call.sz) <=> Fits(live, call.sz)
         /\ Swept(before, Reclaimed, Ran, Heap) /\ Typed(before)
         /\ before.marked \subseteq before.live /\ HostReady
         /\ before.collectionCount + Requested <= MaxCollections
         /\ before.objectCount + before.objectsFreed < MaxAllocs /\ errors < MaxErrors
<1>1. /\ CallSound /\ Allocating /\ Typed(before) /\ call.sz \in Sizes
      /\ Reclaimed = FreedOf(before, Requested)
      /\ collectionCount = before.collectionCount + Ran
      /\ marked = IF Ran = 0 THEN before.marked ELSE Roots
      /\ nextGcThreshold = IF Ran = 0 THEN before.nextGcThreshold
                                      ELSE bytesAllocated * GrowthFactor
      /\ Requested = AutoRunsOf(before) + (IF call.retried THEN 1 ELSE 0)
      /\ AutoRunsOf(before) \in {0, 1}
  BY AllocStands
<1>2. /\ before.live \ Reclaimed = live
      /\ \A sz : FitsIn(before, live, sz) <=> Fits(live, sz)
  BY <1>1, BytesKept
<1>3. Requested = AllocRunsOf(before, call.sz)
  <2>1. CASE call.retried
    <3>1. FailsFirst(before, call.sz)
      BY <1>1, <2>1 DEF Allocating
    <3>2. QED
      BY <1>1, <2>1, <3>1 DEF AllocRunsOf
  <2>2. CASE ~call.retried
    <3>1. Requested = AutoRunsOf(before)
      BY <1>1, <2>2
    <3>2. before.live \ FreedOf(before, AutoRunsOf(before)) = live
      BY <1>1, <1>2, <3>1
    <3>3. ~FailsFirst(before, call.sz)
      BY <1>2, <2>2, <3>2 DEF FailsFirst, RetryLeft
    <3>4. QED
      BY <3>1, <3>3 DEF AllocRunsOf
  <2>3. QED
    BY <2>1, <2>2
<1>4. Swept(before, Reclaimed, Ran, Heap)
  <2>1. Without(before, Reclaimed, Heap)
    BY <1>1 DEF CallSound
  <2>2. /\ Heap.marked = marked /\ Heap.collectionCount = collectionCount
        /\ Heap.nextGcThreshold = nextGcThreshold /\ Heap.bytesAllocated = bytesAllocated
    BY DEF Heap
  <2>3. QED
    BY <1>1, <2>1, <2>2 DEF Swept
<1>5. before.marked \subseteq before.live /\ HostReady
  BY <1>1 DEF Typed, CallSound
<1>6. /\ before.collectionCount + Requested <= MaxCollections
      /\ before.objectCount + before.objectsFreed < MaxAllocs /\ errors < MaxErrors
  BY <1>1, <1>3 DEF Allocating
<1>7. QED
  BY <1>1, <1>2, <1>3, <1>4, <1>5, <1>6

\* What Gc says of an allocation that is about to end.
LEMMA AllocSeen ==
  ASSUME ListInv, phase = "alloc", Fits(live, call.sz) \/ ~RetryLeft, phase' = "idle",
         UNCHANGED hostVars
  PROVE  /\ Abstract!AllocRuns(call.sz) = Requested /\ Abstract!AllocPre(call.sz)
         /\ Seen.live \ Abstract!Freed(Requested) = live
         /\ Abstract!Fits(live, call.sz) <=> Fits(live, call.sz)
         /\ Seen.objectCount + Seen.objectsFreed < MaxAllocs /\ errors < MaxErrors
         /\ UNCHANGED <<Abstract!rootsVars, isPaused>>
         /\ \A new, sz : Added(Heap, new, sz, Heap') =>
                           Abstract!CollectThenAdd(Requested, new, sz)
<1>1. /\ Requested = AllocRunsOf(before, call.sz)
      /\ before.live \ Reclaimed = live /\ Reclaimed = FreedOf(before, Requested)
      /\ FitsIn(before, live, call.sz) <=> Fits(live, call.sz)
      /\ Swept(before, Reclaimed, Ran, Heap) /\ Typed(before)
      /\ before.marked \subseteq before.live /\ HostReady
      /\ before.collectionCount + Requested <= MaxCollections
      /\ before.objectCount + before.objectsFreed < MaxAllocs /\ errors < MaxErrors
  BY AllocDecided
<1>2. Seen = before /\ Seen' = Heap'
  BY SeenBusy
<1>3. Seen.marked \subseteq Seen.live
  BY <1>1, <1>2
<1>4. /\ Abstract!AllocRuns(call.sz) = AllocRunsOf(Seen, call.sz)
      /\ Abstract!Freed(Requested) = FreedOf(Seen, Requested)
      /\ Abstract!Fits(live, call.sz) <=> FitsIn(Seen, live, call.sz)
      /\ Abstract!HostReady
  BY <1>1, <1>3, AbstractTerms
<1>5. /\ Abstract!AllocRuns(call.sz) = Requested
      /\ Seen.live \ Abstract!Freed(Requested) = live
      /\ Abstract!Fits(live, call.sz) <=> Fits(live, call.sz)
      /\ Seen.objectCount + Seen.objectsFreed < MaxAllocs
  BY <1>1, <1>2, <1>4
<1>6. Abstract!AllocPre(call.sz)
  BY <1>1, <1>2, <1>4, <1>5 DEF Abstract!AllocPre
<1>7. UNCHANGED <<Abstract!rootsVars, isPaused>>
  BY DEF Abstract!rootsVars, hostVars, rootsVars
<1>8. ASSUME NEW new, NEW sz, Added(Heap, new, sz, Heap')
      PROVE  Abstract!CollectThenAdd(Requested, new, sz)
  <2> DEFINE g == Heap
             G == Reclaimed
             n == Requested
             m == Ran
  <2>1. /\ Swept(Seen, G, m, g) /\ Added(g, new, sz, Seen') /\ G = FreedOf(Seen, n)
        /\ m = IF isPaused THEN 0 ELSE n
    BY <1>1, <1>2, <1>8 DEF Ran
  <2> HIDE DEF g, G, n, m
  <2>2. Abstract!CollectThenAdd(n, new, sz)
    BY ONLY <1>3, <2>1, CallIsOneStep
  <2>3. QED
    BY <2>2 DEF n
<1>9. QED
  BY <1>1, <1>5, <1>6, <1>7, <1>8

\* piGcAlloc that returns an object does what Gc says at that step.
LEMMA AllocSucceedsImplements ==
  ASSUME ListInv, NEW o \in Objects, AllocSucceeds(o)
  PROVE  Abstract!Next
<1>1. /\ phase = "alloc" /\ o \notin live /\ Fits(live, call.sz)
      /\ CollectThenAdd(0, {o}, call.sz)
      /\ held' = [held EXCEPT ![o] = 1] /\ phase' = "idle"
      /\ UNCHANGED hostVars /\ errors' = errors
  BY DEF AllocSucceeds, Return
<1>2. Typed(Heap) /\ call.sz \in Sizes
  BY <1>1, AllocStands DEF ListInv
<1>3. Added(Heap, {o}, call.sz, Heap')
  <2>1. Freed(0) = {} /\ HeaderBytes({}) = 0 /\ Cardinality({}) = 0
    BY SumEmpty, FS_EmptySet DEF Freed, HeaderBytes
  <2>2. /\ live' = live \cup {o}
        /\ refCount' = [x \in Objects |-> IF x \in {o} THEN 1 ELSE refCount[x]]
        /\ blockSize' = [x \in Objects |-> IF x \in {o} THEN call.sz ELSE blockSize[x]]
        /\ marked' = marked \ {o} /\ frozen' = frozen \ {o}
        /\ objectCount' = objectCount - 0 + Cardinality({o})
        /\ objectsFreed' = objectsFreed + 0 /\ bytesFreed' = bytesFreed + 0
        /\ bytesAllocated' = bytesAllocated - 0 + call.sz
        /\ collectionCount' = collectionCount + 0
        /\ nextGcThreshold' = nextGcThreshold
    BY <1>1, <2>1 DEF CollectThenAdd
  <2>3. /\ objectCount \in Nat /\ objectsFreed \in Nat /\ collectionCount \in Nat
        /\ bytesAllocated \in Int /\ bytesFreed \in Int
    BY <1>2, HeapTyped
  <2>4. /\ objectCount' = objectCount + Cardinality({o})
        /\ objectsFreed' = objectsFreed /\ bytesFreed' = bytesFreed
        /\ bytesAllocated' = bytesAllocated + call.sz /\ collectionCount' = collectionCount
    BY <2>2, <2>3
  <2>5. QED
    BY <2>2, <2>4 DEF Added, Heap
<1>4. /\ Abstract!AllocRuns(call.sz) = Requested /\ Abstract!AllocPre(call.sz)
      /\ Seen.live \ Abstract!Freed(Requested) = live
      /\ Abstract!Fits(live, call.sz)
      /\ Seen.objectCount + Seen.objectsFreed < MaxAllocs
      /\ UNCHANGED <<Abstract!rootsVars, isPaused>>
      /\ Abstract!CollectThenAdd(Requested, {o}, call.sz)
  BY <1>1, <1>3, AllocSeen
<1>5. Abstract!GcAlloc(o, call.sz)
  BY <1>1, <1>4 DEF Abstract!GcAlloc
<1>6. QED
  BY <1>2, <1>5 DEF Abstract!Next

\* piGcAlloc that raises does, too.
LEMMA AllocRaisesImplements ==
  ASSUME ListInv, AllocRaises
  PROVE  Abstract!Next
<1>1. /\ phase = "alloc" /\ ~Fits(live, call.sz) /\ ~RetryLeft
      /\ errors' = errors + 1 /\ phase' = "idle" /\ held' = held
      /\ UNCHANGED heapVars /\ UNCHANGED statVars /\ UNCHANGED nextGcThreshold
      /\ UNCHANGED hostVars
  BY DEF AllocRaises, Return
<1>2. Typed(Heap) /\ call.sz \in Sizes /\ Heap' = Heap
  BY <1>1, AllocStands DEF ListInv, Heap, heapVars, statVars
<1>3. Added(Heap, {}, 0, Heap')
  BY <1>2, AddedNone
<1>4. /\ Abstract!AllocRuns(call.sz) = Requested /\ Abstract!AllocPre(call.sz)
      /\ Seen.live \ Abstract!Freed(Requested) = live
      /\ ~Abstract!Fits(live, call.sz) /\ errors < MaxErrors
      /\ UNCHANGED <<Abstract!rootsVars, isPaused>>
      /\ Abstract!CollectThenAdd(Requested, {}, 0)
  BY <1>1, <1>3, AllocSeen
<1>5. Abstract!GcAllocError(call.sz)
  BY <1>1, <1>4 DEF Abstract!GcAllocError
<1>6. QED
  BY <1>2, <1>5 DEF Abstract!Next

\* Every step of the loops is a step of Gc or one that the host does not see.
LEMMA StepImplements == ListInv /\ [ListNext]_allVars => [Abstract!Next]_Abstract!vars
<1> SUFFICES ASSUME ListInv, [ListNext]_allVars PROVE [Abstract!Next]_Abstract!vars
  OBVIOUS
<1>1. ASSUME \/ ClearMark \/ ClearDone \/ MarkDone \/ SweepObject \/ AllocRetries
             \/ \E o \in Objects : MarkRoot(o)
      PROVE  UNCHANGED Abstract!vars
  <2>1. /\ UNCHANGED hostVars /\ UNCHANGED <<held, errors>> /\ before' = before
        /\ phase # "idle" /\ phase' # "idle"
    BY <1>1 DEF ClearMark, ClearDone, MarkDone, SweepObject, AllocRetries, MarkRoot,
                vars, hostVars, StartCycle
  <2>2. QED
    BY <2>1, StepStutters DEF Seen
<1>2. ASSUME Collect \/ \E sz \in Sizes : AllocBegin(sz)
      PROVE  UNCHANGED Abstract!vars
  <2>1. /\ UNCHANGED vars /\ phase = "idle" /\ phase' # "idle" /\ before' = Heap
    BY <1>2 DEF Collect, AllocBegin, StartCycle
  <2>2. UNCHANGED hostVars /\ UNCHANGED <<held, errors>>
    BY <2>1 DEF vars, hostVars
  <2>3. QED
    BY <2>1, <2>2, StepStutters DEF Seen
<1>3. ASSUME UNCHANGED allVars PROVE UNCHANGED Abstract!vars
  <2>1. UNCHANGED hostVars /\ UNCHANGED <<held, errors>> /\ Heap' = Heap
        /\ phase' = phase /\ before' = before
    BY <1>3 DEF allVars, vars, hostVars, Heap, heapVars, statVars, loopVars
  <2>2. QED
    BY <2>1, StepStutters DEF Seen
<1>4. QED
  BY <1>1, <1>2, <1>3, SweepDoneImplements, AllocSucceedsImplements, AllocRaisesImplements,
     ReleaseImplements, OtherCallImplements DEF ListNext, CallStep

\* The loops of gc.c, the surgery on the list and the retry of piGcAlloc do together
\* what Gc says each call does at once, and the host sees nothing in between.
THEOREM ListImplementsGc == ListSpec => ImplementsGc
  BY InitImplements, StepImplements, ListInvHolds, PTL
     DEF ListSpec, ImplementsGc, Abstract!Spec

\* gc.h: before piGcAlloc raises an error, everything no root reaches has been
\* freed, unless the collector is paused or the allocator raises on its own.
THEOREM EmergencyCollects == ~MemRaises => (ListSpec => EmergencyGcBeforeError)
<1> SUFFICES ASSUME ~MemRaises PROVE ListSpec => EmergencyGcBeforeError
  OBVIOUS
<1>1. ASSUME ListInv, [ListNext]_allVars, errors' > errors
      PROVE  isPaused \/ live' \subseteq Roots
  <2>1. errors \in Nat
    BY <1>1 DEF ListInv, IInv, TypeOK
  <2>2. AllocRaises
    <3>1. \A e : ~(errors' = errors /\ e)
      BY <1>1, <2>1
    <3>2. QED
      BY <1>1, <3>1
         DEF ListNext, CallStep, ClearMark, ClearDone, MarkDone, SweepObject, SweepDone,
             MarkRoot, AllocSucceeds, AllocRetries, Collect, AllocBegin, Release, GcRelease,
             OtherCall, GcRetain, HostForget, GcAddGlobalRoot, GcRemoveGlobalRoot,
             HostAssign, GcSetVmStack, SvmPop, SvmPush, GcSetPaused, vars, allVars
  <2>3. phase = "alloc" /\ ~RetryLeft /\ live' = live
    BY <2>2 DEF AllocRaises, heapVars
  <2>4. call.retried
    BY <2>3 DEF RetryLeft
  <2>5. /\ before.live \ Reclaimed = live /\ Reclaimed = FreedOf(before, Requested)
    BY <1>1, <2>3, AllocDecided
  <2>6. Requested # 0
    BY <1>1, <2>3, <2>4, AllocStands
  <2>7. QED
    BY <2>3, <2>5, <2>6 DEF FreedOf
<1>2. ASSUME ListInv, [ListNext]_allVars
      PROVE  [errors' > errors => isPaused \/ live' \subseteq Roots]_vars
  BY <1>1, <1>2
<1>3. QED
  BY <1>2, ListInvHolds, PTL DEF ListSpec, EmergencyGcBeforeError

===============================================================================
