-------------------------------- MODULE GcList --------------------------------
(***************************************************************************)
(* The collector of lib/runtime/gc.c at the grain of its loops: the doubly *)
(* linked object list, the clear, mark and sweep loops one iteration a     *)
(* step, and piGcAlloc before, between and after the collections it        *)
(* triggers.  `live' is the memory that holds an object; the list must     *)
(* find all of it.  The process is single-threaded, so no host action runs *)
(* while a call is in progress.  Implements Gc: a call takes effect at its *)
(* last step, `before' holds what it started from.                         *)
(***************************************************************************)
EXTENDS Gc

VARIABLES
  objectList,       \* gc.objectList: the first object or NULL
  gcNext, gcPrev,   \* the links in each header
  phase,            \* "idle", "clear", "mark", "sweep" or "alloc"
  cursor,           \* obj of the clear and sweep loops
  todo,             \* roots pi_GcMarkRoots has not visited
  call,             \* the call in progress
  before            \* history: heap and counters when it started, NULL between

listVars == <<objectList, gcNext, gcPrev>>
loopVars == <<phase, cursor, todo, call, before>>
allVars == <<vars, listVars, loopVars>>
hostVars == <<rootsVars, isPaused>>
NoCall == [op |-> "none", sz |-> 0, retried |-> FALSE]

Heap ==
  [live |-> live, refCount |-> refCount, blockSize |-> blockSize, marked |-> marked,
   frozen |-> frozen, nextGcThreshold |-> nextGcThreshold,
   objectCount |-> objectCount, bytesAllocated |-> bytesAllocated,
   collectionCount |-> collectionCount, objectsFreed |-> objectsFreed,
   bytesFreed |-> bytesFreed]

-------------------------------------------------------------------------------
(* The list.                                                                  *)

\* piGcAlloc links a new object in front.
Link(o) ==
  /\ gcNext' = [gcNext EXCEPT ![o] = objectList]
  /\ gcPrev' = [x \in Objects |-> IF x = o THEN NULL
                                  ELSE IF x = objectList THEN o ELSE gcPrev[x]]
  /\ objectList' = o

\* mutant: the successor keeps its link back
UnlinkKeepsPrev(o) ==
  /\ gcPrev' = [gcPrev EXCEPT ![o] = NULL]
  /\ gcNext' = [x \in Objects |-> IF x = o THEN NULL
                                  ELSE IF x = gcPrev[o] THEN gcNext[o] ELSE gcNext[x]]
  /\ objectList' = IF gcPrev[o] = NULL THEN gcNext[o] ELSE objectList

\* pi_GcFreeObject unlinks; the links of the freed object are gone with it.
Unlink(o) ==
  LET n == gcNext[o]
      p == gcPrev[o]
  IN  /\ gcPrev' = [x \in Objects |-> IF x = o THEN NULL ELSE IF x = n THEN p ELSE gcPrev[x]]
      /\ gcNext' = [x \in Objects |-> IF x = o THEN NULL ELSE IF x = p THEN n ELSE gcNext[x]]
      /\ objectList' = IF p = NULL THEN n ELSE objectList

-------------------------------------------------------------------------------
(* One collection, loop iteration by loop iteration.                          *)

StartCycle ==
  /\ phase' = "clear"
  /\ cursor' = objectList
  /\ todo' = {}

ClearNextStays(o) == o       \* mutant: the cursor does not move on
ClearNext(o) == gcNext[o]

ClearMark ==
  /\ phase = "clear" /\ cursor # NULL
  /\ marked' = marked \ {cursor}
  /\ cursor' = ClearNext(cursor)
  /\ UNCHANGED <<live, refCount, blockSize, frozen, statVars, nextGcThreshold, held, errors,
                 hostVars, listVars, phase, todo, call, before>>

ClearDone ==
  /\ phase = "clear" /\ cursor = NULL
  /\ phase' = "mark"
  /\ todo' = Roots
  /\ UNCHANGED <<vars, listVars, cursor, call, before>>

MarkRoot(o) ==
  /\ phase = "mark" /\ o \in todo
  /\ marked' = marked \cup {o}
  /\ todo' = todo \ {o}
  /\ UNCHANGED <<live, refCount, blockSize, frozen, statVars, nextGcThreshold, held, errors,
                 hostVars, listVars, phase, cursor, call, before>>

MarkDone ==
  /\ phase = "mark" /\ todo = {}
  /\ phase' = "sweep"
  /\ cursor' = objectList
  /\ UNCHANGED <<vars, listVars, todo, call, before>>

\* mutant: gcNext is read from the freed header
SweepNextAfterFree(o) == IF o \in marked THEN gcNext[o] ELSE NULL

\* The loop reads gcNext before it frees the object.
SweepNext(o) == gcNext[o]

SweepObject ==
  /\ phase = "sweep" /\ cursor # NULL
  /\ cursor' = SweepNext(cursor)
  /\ IF cursor \in marked
       THEN UNCHANGED <<heapVars, statVars, listVars>>
       ELSE GcFreeObject(cursor) /\ Unlink(cursor)
  /\ UNCHANGED <<nextGcThreshold, held, errors, hostVars, phase, todo, call, before>>

Return == phase' = "idle" /\ call' = NoCall /\ before' = NULL

\* The end of piGcCollect: back to the host or to piGcAlloc.
SweepDone ==
  /\ phase = "sweep" /\ cursor = NULL
  /\ collectionCount' = collectionCount + 1
  /\ nextGcThreshold' = bytesAllocated * GrowthFactor
  /\ IF call.op = "alloc"
       THEN phase' = "alloc" /\ UNCHANGED <<call, before>>
       ELSE Return
  /\ UNCHANGED <<heapVars, objectCount, bytesAllocated, objectsFreed, bytesFreed, held,
                 errors, hostVars, listVars, cursor, todo>>

-------------------------------------------------------------------------------
(* The calls.                                                                 *)

Collect ==
  /\ phase = "idle" /\ ~isPaused
  /\ HostReady
  /\ collectionCount < MaxCollections
  /\ StartCycle
  /\ call' = [op |-> "collect", sz |-> 0, retried |-> FALSE]
  /\ before' = Heap
  /\ UNCHANGED <<vars, listVars>>

AllocBegin(sz) ==
  /\ phase = "idle"
  /\ AllocPre(sz)
  /\ objectCount + objectsFreed < MaxAllocs /\ errors < MaxErrors
  /\ IF ThresholdReached /\ ~isPaused
       THEN StartCycle
       ELSE phase' = "alloc" /\ UNCHANGED <<cursor, todo>>
  /\ call' = [op |-> "alloc", sz |-> sz, retried |-> FALSE]
  /\ before' = Heap
  /\ UNCHANGED <<vars, listVars>>

AllocSucceeds(o) ==
  /\ phase = "alloc"
  /\ Fits(live, call.sz)
  /\ o \in Objects \ live
  /\ Link(o)
  /\ CollectThenAdd(0, {o}, call.sz)
  /\ held' = [held EXCEPT ![o] = 1]
  /\ Return
  /\ UNCHANGED <<hostVars, errors, cursor, todo>>

RetryLeftNever == FALSE      \* mutant: the first failure is final
RetryLeft == ~MemRaises /\ ~call.retried

AllocRetries ==
  /\ phase = "alloc"
  /\ ~Fits(live, call.sz) /\ RetryLeft
  /\ call' = [call EXCEPT !.retried = TRUE]
  /\ IF isPaused THEN UNCHANGED <<phase, cursor, todo>> ELSE StartCycle
  /\ UNCHANGED <<vars, listVars, before>>

AllocRaises ==
  /\ phase = "alloc"
  /\ ~Fits(live, call.sz) /\ ~RetryLeft
  /\ errors' = errors + 1
  /\ Return
  /\ UNCHANGED <<heapVars, statVars, nextGcThreshold, held, hostVars, listVars,
                 cursor, todo>>

Release(o) ==
  /\ phase = "idle"
  /\ GcRelease(o)
  /\ IF o \in live' THEN UNCHANGED listVars ELSE Unlink(o)
  /\ UNCHANGED loopVars

\* The calls that touch neither the list nor the heap, and the host's own code.
OtherCall ==
  /\ phase = "idle"
  /\ \/ \E o \in Objects : GcRetain(o) \/ HostForget(o)
     \/ \E r \in RootVars : GcAddGlobalRoot(r) \/ GcRemoveGlobalRoot(r)
     \/ \E r \in RootVars, o \in MaybeObject : HostAssign(r, o)
     \/ GcSetVmStack \/ SvmPop
     \/ \E v \in MaybeObject : SvmPush(v)
     \/ \E p \in BOOLEAN : GcSetPaused(p)
  /\ UNCHANGED <<listVars, loopVars>>

-------------------------------------------------------------------------------
ListInit ==
  /\ Init
  /\ objectList = NULL
  /\ gcNext = [o \in Objects |-> NULL]
  /\ gcPrev = [o \in Objects |-> NULL]
  /\ phase = "idle" /\ cursor = NULL /\ todo = {} /\ call = NoCall
  /\ before = NULL

CallStep ==
  \/ ClearMark \/ ClearDone \/ MarkDone \/ SweepObject \/ SweepDone
  \/ \E o \in Objects : MarkRoot(o)
  \/ \E o \in Objects : AllocSucceeds(o)
  \/ AllocRetries \/ AllocRaises

ListNext ==
  \/ CallStep
  \/ Collect
  \/ \E sz \in Sizes : AllocBegin(sz)
  \/ \E o \in Objects : Release(o)
  \/ OtherCall

\* A call in progress keeps executing: the thread that made it runs nothing else.
ListSpec == ListInit /\ [][ListNext]_allVars /\ WF_allVars(CallStep)

-------------------------------------------------------------------------------
(* Properties.                                                                *)

\* Walking gcNext from gc.objectList meets every object once and ends, in the
\* middle of a sweep as between calls, and gcPrev walks the same list back.
ListWalks ==
  LET n == Cardinality(Objects)
      at[i \in 0 .. n] == IF i = 0 THEN objectList
                          ELSE IF at[i - 1] = NULL THEN NULL ELSE gcNext[at[i - 1]]
  IN  /\ {at[i] : i \in 0 .. n} \ {NULL} = live
      /\ at[Cardinality(live)] = NULL
      /\ \A i \in 1 .. n : at[i] # NULL => gcPrev[at[i]] = at[i - 1]
      /\ objectList # NULL => gcPrev[objectList] = NULL

\* No loop of a collection stands on freed memory, and no root it still has to
\* mark has been freed.
LoopsStand ==
  /\ phase \in {"clear", "sweep"} => cursor \in live \cup {NULL}
  /\ phase = "mark" => todo \subseteq live

\* List, links and loops agree with the objects there are, after every step.
ListIsExact == ListWalks /\ LoopsStand

\* Every call returns: the loops terminate and piGcAlloc retries at most once.
CallsReturn == (phase # "idle") ~> (phase = "idle")

\* The heap as the host may see it: that of the last completed call.
Seen == IF phase = "idle" THEN Heap ELSE before

Abstract == INSTANCE Gc WITH
  live <- Seen.live, refCount <- Seen.refCount, blockSize <- Seen.blockSize,
  marked <- Seen.marked, frozen <- Seen.frozen,
  nextGcThreshold <- Seen.nextGcThreshold, objectCount <- Seen.objectCount,
  bytesAllocated <- Seen.bytesAllocated, collectionCount <- Seen.collectionCount,
  objectsFreed <- Seen.objectsFreed, bytesFreed <- Seen.bytesFreed

\* The loops, the list surgery and the retry together do what Gc says the call
\* does in one step, and nothing else is visible to the host.
ImplementsGc == Abstract!Spec
===============================================================================
