---------------------------------- MODULE Gc ----------------------------------
(***************************************************************************)
(* The hybrid collector of lib/runtime/gc.c: reference counts reclaim at   *)
(* once, a stop-the-world mark-and-sweep reclaims what no root reaches.    *)
(* One action per API function, at the granularity a host sees (the whole  *)
(* call); module GcList refines GcCollect to list cells and loop steps.    *)
(*                                                                         *)
(* Objects of every type have no internal references today                 *)
(* (pi_GcMarkObject marks nothing further), so an object is its header.    *)
(* The host is any C caller: it owns the references it got from piGcAlloc  *)
(* and piGcRetain (`held', a history variable), writes the variables it    *)
(* registers as global roots, and pushes values on the evaluation stack.   *)
(***************************************************************************)
EXTENDS Integers, Sequences, FiniteSets, FiniteSetsExt, SequencesExt

CONSTANTS
  Objects,          \* addresses piGcAlloc can return; a freed one is reused
  RootVars,         \* host variables of type PiObject *
  Sizes,            \* sizes a host asks for
  SizeModulus,      \* 2^32: obj->size is a uint32_t
  NULL,
  MaxRefCount,      \* UINT16_MAX
  InitialThreshold, \* config.nextGcThreshold of pi_InitGcContext
  GrowthFactor,     \* config.heapGrowthFactor
  InitialRootCap,   \* first capacity of globalRoots
  HeapCapacity,     \* bytes env->mem.alloc can hand out
  MemRaises,        \* TRUE: env->mem.alloc raises when it fails; FALSE: NULL
  HostRootsHeld,    \* TRUE: the host roots what it holds before any collection
  \* bounds of the model
  MaxHeld, MaxAllocs, MaxCollections, MaxStack, MaxRoots, MaxErrors

ASSUME GcAssumption ==
  /\ NULL \notin Objects
  /\ IsFiniteSet(Objects)
  /\ Sizes \subseteq Nat \ {0}
  /\ SizeModulus \in Nat \ {0}
  /\ MaxRefCount \in Nat /\ MaxRefCount >= 2
  /\ InitialThreshold \in Nat /\ GrowthFactor \in Nat
  /\ InitialRootCap \in Nat \ {0}
  /\ MemRaises \in BOOLEAN /\ HostRootsHeld \in BOOLEAN

VARIABLES
  live,             \* the objects on gc.objectList
  refCount,         \* obj->refCount, 0 for memory that is not an object
  blockSize,        \* bytes of its block, as piGcAlloc was asked for them
  marked, frozen,   \* objects whose flags hold MARKED, FROZEN
  vmStack,          \* values of the registered stack (NULL: a value that is not
                    \* an object), or NULL when no stack is registered
  globalRoots,      \* gc.globalRoots[0 .. globalRootCount - 1]
  globalRootCap,
  rootVar,          \* what each host variable points at
  isPaused,
  nextGcThreshold,
  objectCount, bytesAllocated, collectionCount, objectsFreed, bytesFreed,
  held,             \* history: references the host owns
  registered,       \* history: registrations of a variable not yet removed
  errors            \* history: out-of-memory errors raised

statVars == <<objectCount, bytesAllocated, collectionCount, objectsFreed, bytesFreed>>
heapVars == <<live, refCount, blockSize, marked, frozen>>
rootsVars == <<vmStack, globalRoots, globalRootCap, rootVar, registered>>
vars == <<heapVars, rootsVars, statVars, isPaused, nextGcThreshold, held, errors>>

MaybeObject == Objects \cup {NULL}
Bytes(S) == SumFunctionOnSet(blockSize, S)

\* obj->size: piGcAlloc stores what it was asked for as a uint32_t.
objSize == [o \in Objects |-> blockSize[o] % SizeModulus]
HeaderBytes(S) == SumFunctionOnSet(objSize, S)

\* No request is too large for that header.
SizesFit == \A sz \in Sizes : sz < SizeModulus

-------------------------------------------------------------------------------
(* Marking and sweeping.                                                      *)

StackRoots == IF vmStack = NULL THEN {} ELSE ToSet(vmStack) \ {NULL}

GlobalRoots == {rootVar[r] : r \in ToSet(globalRoots)} \ {NULL}

Roots == StackRoots \cup GlobalRoots

\* pi_GcClearMarks and pi_GcMarkRoots, on the set of marked objects.
GcClearMarks(m) == m \ live
GcMarkRootsNoGlobals(m) == m \cup StackRoots    \* mutant: the second loop is lost
GcMarkRoots(m) == m \cup Roots

GcMarks == GcMarkRoots(GcClearMarks(marked))

\* What pi_GcSweep hands to pi_GcFreeObject.
GcSweep == live \ GcMarks

FreedWhilePaused(n) == IF n = 0 THEN {} ELSE GcSweep   \* mutant: isPaused not read

\* mutant: what still has a count is spared
FreedUncounted(n) ==
  IF n = 0 \/ isPaused THEN {} ELSE {o \in GcSweep : refCount[o] = 0}

\* What n consecutive calls of piGcCollect free; the second finds nothing.
Freed(n) == IF n = 0 \/ isPaused THEN {} ELSE GcSweep

(***************************************************************************)
(* n calls of piGcCollect, after which the objects `new' (none, or the one *)
(* being allocated, of sz bytes) join the list with one reference.  What   *)
(* comes is counted in full, what goes by what its header could hold.      *)
(***************************************************************************)
CollectThenAdd(n, new, sz) ==
  LET freed == Freed(n)
      ran   == IF isPaused THEN 0 ELSE n
      bytes == bytesAllocated - HeaderBytes(freed)
      gone  == freed \ new
  IN  /\ live' = (live \ freed) \cup new
      /\ refCount' = [o \in Objects |-> IF o \in new THEN 1
                                        ELSE IF o \in gone THEN 0 ELSE refCount[o]]
      /\ blockSize' = [o \in Objects |-> IF o \in new THEN sz
                                    ELSE IF o \in gone THEN 0 ELSE blockSize[o]]
      /\ marked' = (IF ran = 0 THEN marked ELSE GcMarks) \ (freed \cup new)
      /\ frozen' = frozen \ (freed \cup new)
      /\ objectCount' = objectCount - Cardinality(freed) + Cardinality(new)
      /\ objectsFreed' = objectsFreed + Cardinality(freed)
      /\ bytesFreed' = bytesFreed + HeaderBytes(freed)
      /\ bytesAllocated' = IF new = {} THEN bytes ELSE bytes + sz
      /\ collectionCount' = collectionCount + ran
      /\ nextGcThreshold' = IF ran = 0 THEN nextGcThreshold ELSE bytes * GrowthFactor

-------------------------------------------------------------------------------
(* Collection and allocation.                                                 *)

HeldAreRooted == \A o \in Objects : held[o] > 0 => o \in Roots

\* The host's side of every call that may collect.
HostReady == isPaused \/ ~HostRootsHeld \/ HeldAreRooted

GcCollect ==
  /\ HostReady
  /\ collectionCount < MaxCollections
  /\ CollectThenAdd(1, {}, 0)
  /\ UNCHANGED <<rootsVars, isPaused, held, errors>>

\* env->mem.alloc succeeds while the objects in S are allocated.
Fits(S, sz) == Bytes(S) + sz <= HeapCapacity

ThresholdReached == bytesAllocated >= nextGcThreshold

AutoRuns == IF ThresholdReached THEN 1 ELSE 0

\* The emergency collection needs a handler that reports failure as NULL.
AllocRuns(sz) ==
  IF ~MemRaises /\ ~Fits(live \ Freed(AutoRuns), sz) THEN AutoRuns + 1 ELSE AutoRuns

AllocPre(sz) ==
  /\ HostReady
  /\ collectionCount + AllocRuns(sz) <= MaxCollections

GcAlloc(o, sz) ==
  LET n == AllocRuns(sz)
  IN  /\ AllocPre(sz)
      /\ objectCount + objectsFreed < MaxAllocs
      /\ Fits(live \ Freed(n), sz)
      /\ o \notin live \ Freed(n)
      /\ CollectThenAdd(n, {o}, sz)
      /\ held' = [held EXCEPT ![o] = 1]
      /\ UNCHANGED <<rootsVars, isPaused, errors>>

GcAllocError(sz) ==
  LET n == AllocRuns(sz)
  IN  /\ AllocPre(sz)
      /\ errors < MaxErrors
      /\ ~Fits(live \ Freed(n), sz)
      /\ CollectThenAdd(n, {}, 0)
      /\ errors' = errors + 1
      /\ UNCHANGED <<rootsVars, isPaused, held>>

-------------------------------------------------------------------------------
(* Reference counting.                                                        *)

SaturatesLate(o) == refCount[o] >= MaxRefCount          \* mutant: off by one
Saturates(o) == refCount[o] >= MaxRefCount - 1

\* The host retains an object it owns or reads from a root.
GcRetain(o) ==
  /\ o \in live
  /\ held[o] > 0 \/ o \in Roots
  /\ held[o] < MaxHeld
  /\ held' = [held EXCEPT ![o] = @ + 1]
  /\ IF Saturates(o)
       THEN frozen' = frozen \cup {o} /\ UNCHANGED refCount
       ELSE refCount' = [refCount EXCEPT ![o] = @ + 1] /\ UNCHANGED frozen
  /\ UNCHANGED <<live, blockSize, marked, rootsVars, statVars, isPaused,
                 nextGcThreshold, errors>>

\* mutant: the size is not given back
CountFreedNoBytes(o) ==
  /\ objectCount' = objectCount - 1
  /\ objectsFreed' = objectsFreed + 1
  /\ bytesFreed' = bytesFreed + objSize[o]
  /\ UNCHANGED <<bytesAllocated, collectionCount>>

CountFreed(o) ==
  /\ objectCount' = objectCount - 1
  /\ bytesAllocated' = bytesAllocated - objSize[o]
  /\ objectsFreed' = objectsFreed + 1
  /\ bytesFreed' = bytesFreed + objSize[o]
  /\ UNCHANGED collectionCount

\* pi_GcFreeObject outside a sweep.
GcFreeObject(o) ==
  /\ live' = live \ {o}
  /\ refCount' = [refCount EXCEPT ![o] = 0]
  /\ blockSize' = [blockSize EXCEPT ![o] = 0]
  /\ marked' = marked \ {o}
  /\ frozen' = frozen \ {o}
  /\ CountFreed(o)

\* mutant: the FROZEN flag is not read
GcDecrementFrozen(o) ==
  IF refCount[o] - 1 = 0
    THEN GcFreeObject(o)
    ELSE /\ refCount' = [refCount EXCEPT ![o] = @ - 1]
         /\ UNCHANGED <<live, blockSize, marked, frozen, statVars>>

\* piGcRelease on a frozen object returns at once.
GcDecrement(o) ==
  IF o \in frozen
    THEN UNCHANGED <<heapVars, statVars>>
    ELSE IF refCount[o] - 1 = 0
           THEN GcFreeObject(o)
           ELSE /\ refCount' = [refCount EXCEPT ![o] = @ - 1]
                /\ UNCHANGED <<live, blockSize, marked, frozen, statVars>>

\* The host gives its last reference back only after unrooting the object.
GcRelease(o) ==
  /\ o \in live
  /\ held[o] > 0
  /\ held[o] > 1 \/ o \notin Roots
  /\ GcDecrement(o)
  /\ held' = [held EXCEPT ![o] = @ - 1]
  /\ UNCHANGED <<rootsVars, isPaused, nextGcThreshold, errors>>

\* The host drops a reference without piGcRelease and leaves the object to the
\* tracing half, as the interpreter does with every value it pops.
HostForget(o) ==
  /\ held[o] > 0
  /\ held' = [held EXCEPT ![o] = @ - 1]
  /\ UNCHANGED <<heapVars, rootsVars, statVars, isPaused, nextGcThreshold, errors>>

-------------------------------------------------------------------------------
(* Roots.                                                                     *)

Reachable(o) == o = NULL \/ (o \in live /\ (held[o] > 0 \/ o \in Roots))

HostAssign(r, o) ==
  /\ Reachable(o)
  /\ rootVar[r] # o
  /\ rootVar' = [rootVar EXCEPT ![r] = o]
  /\ UNCHANGED <<heapVars, vmStack, globalRoots, globalRootCap, registered, statVars,
                 isPaused, nextGcThreshold, held, errors>>

\* A host does not register a variable it left pointing at a freed object.
GcAddGlobalRoot(r) ==
  /\ Reachable(rootVar[r])
  /\ Len(globalRoots) < MaxRoots
  /\ globalRootCap' = IF Len(globalRoots) >= globalRootCap
                        THEN IF globalRootCap = 0 THEN InitialRootCap ELSE 2 * globalRootCap
                        ELSE globalRootCap
  /\ globalRoots' = Append(globalRoots, r)
  /\ registered' = [registered EXCEPT ![r] = @ + 1]
  /\ UNCHANGED <<heapVars, vmStack, rootVar, statVars, isPaused, nextGcThreshold, held, errors>>

SwapRemoveNoSwap(s, i) == Front(s)      \* mutant: the slot is not overwritten

\* Overwrite the slot with the last one, then shorten.
SwapRemove(s, i) == Front([s EXCEPT ![i] = Last(s)])

FirstIndex(s, r) == CHOOSE i \in DOMAIN s : s[i] = r /\ \A j \in 1 .. i - 1 : s[j] # r

GcRemoveGlobalRoot(r) ==
  /\ IF r \in ToSet(globalRoots)
       THEN globalRoots' = SwapRemove(globalRoots, FirstIndex(globalRoots, r))
       ELSE UNCHANGED globalRoots
  /\ registered' = [registered EXCEPT ![r] = IF @ = 0 THEN 0 ELSE @ - 1]
  /\ UNCHANGED <<heapVars, vmStack, globalRootCap, rootVar, statVars, isPaused,
                 nextGcThreshold, held, errors>>

\* piRunSvmChunk registers a stack it has just initialised, and clears the
\* registration before it frees the stack.
GcSetVmStack ==
  /\ vmStack' = IF vmStack = NULL THEN <<>> ELSE NULL
  /\ UNCHANGED <<heapVars, globalRoots, globalRootCap, rootVar, registered, statVars,
                 isPaused, nextGcThreshold, held, errors>>

SvmPush(v) ==
  /\ vmStack # NULL
  /\ Len(vmStack) < MaxStack
  /\ Reachable(v)
  /\ vmStack' = Append(vmStack, v)
  /\ UNCHANGED <<heapVars, globalRoots, globalRootCap, rootVar, registered, statVars,
                 isPaused, nextGcThreshold, held, errors>>

SvmPop ==
  /\ vmStack # NULL
  /\ vmStack # <<>>
  /\ vmStack' = Front(vmStack)
  /\ UNCHANGED <<heapVars, globalRoots, globalRootCap, rootVar, registered, statVars,
                 isPaused, nextGcThreshold, held, errors>>

GcSetPaused(paused) ==
  /\ isPaused # paused
  /\ isPaused' = paused
  /\ UNCHANGED <<heapVars, rootsVars, statVars, nextGcThreshold, held, errors>>

-------------------------------------------------------------------------------
Init ==
  /\ live = {} /\ marked = {} /\ frozen = {}
  /\ refCount = [o \in Objects |-> 0]
  /\ blockSize = [o \in Objects |-> 0]
  /\ vmStack = NULL
  /\ globalRoots = <<>>
  /\ globalRootCap = 0
  /\ rootVar = [r \in RootVars |-> NULL]
  /\ isPaused = FALSE
  /\ nextGcThreshold = InitialThreshold
  /\ objectCount = 0 /\ bytesAllocated = 0 /\ collectionCount = 0
  /\ objectsFreed = 0 /\ bytesFreed = 0
  /\ held = [o \in Objects |-> 0]
  /\ registered = [r \in RootVars |-> 0]
  /\ errors = 0

Next ==
  \/ GcCollect
  \/ \E sz \in Sizes : GcAllocError(sz)
  \/ \E o \in Objects, sz \in Sizes : GcAlloc(o, sz)
  \/ \E o \in Objects : GcRetain(o)
  \/ \E o \in Objects : GcRelease(o)
  \/ \E o \in Objects : HostForget(o)
  \/ \E r \in RootVars, o \in MaybeObject : HostAssign(r, o)
  \/ \E r \in RootVars : GcAddGlobalRoot(r)
  \/ \E r \in RootVars : GcRemoveGlobalRoot(r)
  \/ GcSetVmStack
  \/ \E v \in MaybeObject : SvmPush(v)
  \/ SvmPop
  \/ \E p \in BOOLEAN : GcSetPaused(p)

Spec == Init /\ [][Next]_vars

-------------------------------------------------------------------------------
(* Properties.                                                                *)

\* Types of the collector's state (gc.h, object.h).  The byte counters are
\* pinned down by StatsExact instead.
TypeOK ==
  /\ live \subseteq Objects
  /\ marked \subseteq live
  /\ frozen \subseteq live
  /\ refCount \in [Objects -> 0 .. MaxRefCount - 1]
  /\ vmStack = NULL \/ vmStack \in Seq(MaybeObject)
  /\ globalRoots \in Seq(RootVars)
  /\ globalRootCap \in Nat
  /\ rootVar \in [RootVars -> MaybeObject]
  /\ isPaused \in BOOLEAN
  /\ held \in [Objects -> Nat]
  /\ registered \in [RootVars -> Nat]
  /\ objectCount \in Nat /\ collectionCount \in Nat
  /\ objectsFreed \in Nat /\ errors \in Nat

\* The mark phase of the next collection never follows a pointer to freed
\* memory: every object a registered root or the evaluation stack names is on
\* the object list (pi_GcMarkRoots dereferences them all).
RootsAreLive == Roots \subseteq live

\* A reference the host owns stays good until the host gives it back, across
\* collections, releases by other owners, freezing and address reuse.
OwnedStaysAllocated == \A o \in Objects : held[o] > 0 => o \in live

\* The saturating 16-bit count never falls below the references the host owns
\* unless it is frozen at its maximum, so no release can free an object that
\* somebody else still owns.
CountCoversOwners ==
  \A o \in live :
    IF o \in frozen THEN refCount[o] = MaxRefCount - 1
                    ELSE refCount[o] > 0 /\ held[o] <= refCount[o]

\* The counters agree with the object list they are kept beside.  The bytes are
\* never counted short; they are counted over by whole multiples of 2^32, what
\* the headers of freed objects could not give back, and not at all as long as
\* every request fits the header.
CountExact == objectCount = Cardinality(live)
StatsExact ==
  /\ CountExact
  /\ bytesAllocated >= Bytes(live)
  /\ (bytesAllocated - Bytes(live)) % SizeModulus = 0
  /\ SizesFit => bytesAllocated = Bytes(live)

\* Registrations and removals of a global root balance, whatever their order
\* and however the swap-removal permutes the array (gc.h: each registration
\* should be balanced with a corresponding removal).
RootsBalanced ==
  /\ \A r \in RootVars :
       Cardinality({i \in DOMAIN globalRoots : globalRoots[i] = r}) = registered[r]
  /\ Len(globalRoots) <= globalRootCap

\* The collector's books: what it counts is what it keeps.
BooksExact == StatsExact /\ RootsBalanced

\* A collection frees exactly the unreachable objects: what a root reaches
\* survives with its count and its flags, and what no root reaches is gone: all
\* the list holds besides is what the same call allocated, new and unmarked.
CollectIsExact ==
  [][ collectionCount' > collectionCount =>
        /\ \A o \in Roots : /\ o \in live' /\ refCount'[o] = refCount[o]
                            /\ (o \in frozen <=> o \in frozen')
        /\ \A o \in live' \ Roots : refCount'[o] = 1 /\ o \notin marked'
        /\ Cardinality(live' \ Roots) =
             (objectCount' + objectsFreed') - (objectCount + objectsFreed) ]_vars

\* An object goes by a collection that ran or by the release of its last owner:
\* never while the collector is paused by anything else, and never by a release once
\* its count is frozen.
FreedBySweepOrLastOwner ==
  [][ \A o \in live \ live' :
        \/ ~isPaused /\ collectionCount' > collectionCount
        \/ o \notin frozen /\ held[o] = 1 /\ held'[o] = 0 ]_vars

\* string.h, piStringNew: "The caller owns the returned string. Use piGcRetain()
\* to add references or piGcRelease() to release ownership": an allocation leaves
\* every object that still has an owner on the list.
AllocKeepsOwned ==
  [][ objectCount' + objectsFreed' > objectCount + objectsFreed =>
        \A o \in Objects : held[o] > 0 => o \in live' ]_vars

\* gc.h, piGcAlloc: "If allocation fails, an emergency GC is attempted before
\* raising an error": an out-of-memory error leaves no garbage behind.
EmergencyGcBeforeError ==
  [][ errors' > errors => isPaused \/ live' \subseteq Roots ]_vars
===============================================================================
