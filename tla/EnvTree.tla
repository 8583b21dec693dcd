------------------------------- MODULE EnvTree -------------------------------
(***************************************************************************)
(* The lifecycle of environments in lib/runtime/env.c: initialisation,     *)
(* children with derived capabilities, and piFreeEnv, which frees the      *)
(* children of an environment while each of them takes itself off the list *)
(* the loop is walking.  The recursion is explicit: `frames' is the C call *)
(* stack of piFreeEnv, one frame for each environment being torn down.     *)
(* The host calls from one thread, between calls, on structures it owns.   *)
(***************************************************************************)
EXTENDS Naturals, Sequences, FiniteSets, SequencesExt

CONSTANTS
  Envs,               \* PiEnv structures of the host
  Caps, Spawn,        \* capabilities, PI_CAP_ENV_SPAWN among them
  Limits,             \* memory limits, 0 meaning unlimited
  HeapSizes,          \* heap sizes the host asks for
  InitialChildCap,    \* first capacity of the children array
  NULL,
  MemoryMayFail,      \* TRUE: mmap and realloc can fail for any size
  NarrowFrees,        \* TRUE: the host frees no environment that has, or has
                      \* below it, one with two children
  \* bounds of the model
  MaxChildren,
  MaxChanges          \* sets of capabilities and limits, of live environments, that
                      \* are no more what the environment started with

ASSUME EnvAssumption ==
  /\ NULL \notin Envs
  /\ Spawn \in Caps
  /\ 0 \in Limits /\ Limits \subseteq Nat
  /\ HeapSizes \subseteq Nat
  /\ InitialChildCap \in Nat \ {0}
  /\ MemoryMayFail \in BOOLEAN /\ NarrowFrees \in BOOLEAN

VARIABLES
  state,              \* env->state
  parent, children, childCap,
  heapMapped,         \* env->heap is a mapped region
  caps, memoryLimit,  \* env->caps.flags, env->caps.memoryLimit
  frames,             \* calls of piFreeEnv in progress, innermost last
  doomed,             \* history: the environments the outermost call must free
  granted             \* history: the capabilities and limit an environment started
                      \* with, and the capabilities the host has added since

familyVars == <<parent, children, childCap>>
capVars == <<caps, memoryLimit, granted>>
vars == <<state, familyVars, heapMapped, capVars, frames, doomed>>

Idle == frames = <<>>
Alive(e) == state[e] = "init"

-------------------------------------------------------------------------------
(* Initialisation.                                                            *)

\* PI_ENV_HEAP_MIN_SIZE and PI_ENV_HEAP_DEFAULT_SIZE are 0, rounding up to pages
\* keeps 0, and mmap refuses to map nothing.
HeapCanMap(size) == size > 0

Nothing == [caps |-> {}, limit |-> 0, added |-> {}]

\* piInitEnvWithSize up to its return, with the capabilities its caller leaves.
InitEnvWithSize(e, cs, limit) ==
  /\ state' = [state EXCEPT ![e] = "init"]
  /\ heapMapped' = [heapMapped EXCEPT ![e] = TRUE]
  /\ caps' = [caps EXCEPT ![e] = cs]
  /\ granted' = [granted EXCEPT ![e] = [caps |-> cs, limit |-> limit, added |-> {}]]
  /\ memoryLimit' = [memoryLimit EXCEPT ![e] = limit]

\* The error is reported and control leaves; the structures stay as they are.
RaiseError == UNCHANGED vars

InitEnv(e, size) ==
  /\ Idle
  /\ state[e] = "uninit"
  /\ HeapCanMap(size)
  /\ InitEnvWithSize(e, Caps, 0)
  /\ UNCHANGED <<familyVars, frames, doomed>>

InitEnvError(e, size) ==
  /\ Idle
  /\ state[e] = "uninit"
  /\ ~HeapCanMap(size) \/ MemoryMayFail
  /\ RaiseError

-------------------------------------------------------------------------------
(* Children and capabilities.                                                 *)

DeriveAll(parentCaps, requested) == requested                 \* mutant: no intersection
Derive(parentCaps, requested) == parentCaps \cap requested

ChildArrayFull(p) == Len(children[p]) >= childCap[p]

CanCreate(p, c) ==
  /\ Idle
  /\ Alive(p) /\ state[c] = "uninit" /\ c # p

CreateChildEnv(p, c, requested, size) ==
  /\ CanCreate(p, c)
  /\ Spawn \in caps[p]
  /\ HeapCanMap(size)
  /\ Len(children[p]) < MaxChildren
  /\ InitEnvWithSize(c, Derive(caps[p], requested), memoryLimit[p])
  /\ parent' = [parent EXCEPT ![c] = p]
  /\ children' = [children EXCEPT ![p] = Append(@, c)]
  /\ childCap' = [childCap EXCEPT ![p] = IF ~ChildArrayFull(p) THEN @
                                         ELSE IF @ = 0 THEN InitialChildCap ELSE 2 * @]
  /\ UNCHANGED <<frames, doomed>>

\* No capability to spawn, or no memory for the child's heap.
CreateChildError(p, c, size) ==
  /\ CanCreate(p, c)
  /\ Spawn \notin caps[p] \/ ~HeapCanMap(size) \/ MemoryMayFail
  /\ RaiseError

\* realloc fails after the child was initialised: the child, which already names
\* its parent, is freed again, and the caller gets NULL.
CreateChildUndone(p, c, requested, size) ==
  /\ CanCreate(p, c)
  /\ Spawn \in caps[p]
  /\ HeapCanMap(size)
  /\ MemoryMayFail /\ ChildArrayFull(p)
  /\ InitEnvWithSize(c, Derive(caps[p], requested), memoryLimit[p])
  /\ parent' = [parent EXCEPT ![c] = p]
  /\ frames' = <<[env |-> c, next |-> 0]>>
  /\ doomed' = {c}
  /\ UNCHANGED <<children, childCap>>

\* The bound on the changes of rights.
Changes ==
  {d \in Envs : Alive(d) /\ <<caps[d], {}>> # <<granted[d].caps, granted[d].added>>} \X {"caps"}
    \cup {d \in Envs : Alive(d) /\ memoryLimit[d] # granted[d].limit} \X {"limit"}
MayChange(e, what) == Cardinality(Changes \cup {<<e, what>>}) <= MaxChanges

\* The parent is not asked.  (The history records what e did not start with.)
GrantCapabilities(e, cs) ==
  /\ Idle /\ Alive(e) /\ MayChange(e, "caps")
  /\ caps' = [caps EXCEPT ![e] = @ \cup cs]
  /\ granted' = [granted EXCEPT ![e].added = @ \cup (cs \ granted[e].caps)]
  /\ UNCHANGED <<state, familyVars, heapMapped, memoryLimit, frames, doomed>>

RevokeCapabilities(e, cs) ==
  /\ Idle /\ Alive(e) /\ MayChange(e, "caps")
  /\ caps' = [caps EXCEPT ![e] = @ \ cs]
  /\ UNCHANGED <<state, familyVars, heapMapped, memoryLimit, granted, frames, doomed>>

SetLimit(current, limit) ==
  IF limit > 0 /\ (current = 0 \/ limit < current) THEN limit ELSE current

CapabilityContextSetLimits(e, limit) ==
  /\ Idle /\ Alive(e) /\ MayChange(e, "limit")
  /\ memoryLimit' = [memoryLimit EXCEPT ![e] = SetLimit(@, limit)]
  /\ UNCHANGED <<state, familyVars, heapMapped, caps, granted, frames, doomed>>

-------------------------------------------------------------------------------
(* piFreeEnv.                                                                 *)

HasChildren(S) == \A p \in S : ToSet(children[p]) \subseteq S

\* e and everything below it: what every set with e and the children of its
\* members has.
Descendants(e) ==
  {d \in Envs : \A S \in SUBSET Envs : e \in S /\ HasChildren(S) => d \in S}

RemoveChildNot(cs, c) == cs                          \* mutant: the parent is not told
RemoveChildFromParent(cs, c) ==
  IF c \notin ToSet(cs) THEN cs
  ELSE RemoveAt(cs, CHOOSE i \in DOMAIN cs :
                      cs[i] = c /\ \A j \in 1 .. i - 1 : cs[j] # c)

AlreadyFreeNever(e) == FALSE                         \* mutant: the check is missing
AlreadyFree(e) == state[e] = "uninit"

\* piFreeEnv(e) down to its loop over the children; `below' is the stack it is
\* called from.
Enter(e, below) ==
  IF AlreadyFree(e)
    THEN /\ frames' = below
         /\ UNCHANGED <<state, parent, children>>
    ELSE /\ state' = [state EXCEPT ![e] = "terminated"]
         /\ children' = IF parent[e] = NULL THEN children
                        ELSE [children EXCEPT ![parent[e]] = RemoveChildFromParent(@, e)]
         /\ parent' = [parent EXCEPT ![e] = NULL]
         /\ frames' = Append(below, [env |-> e, next |-> 1])

\* The host frees an environment, or frees again one it has freed.
FreeEnv(e) ==
  /\ Idle
  /\ NarrowFrees => \A d \in Descendants(e) : Len(children[d]) <= 1
  /\ Enter(e, <<>>)
  /\ doomed' = IF state[e] = "uninit" THEN {} ELSE Descendants(e)
  /\ UNCHANGED <<childCap, heapMapped, capVars>>

Top == Last(frames)

LoopOverEarly(f) == f.next >= Len(children[f.env])       \* mutant: stops one short
LoopOverExactly(f) == f.next = Len(children[f.env]) + 1  \* mutant: `!=' for `<'
LoopOver(f) == f.next > Len(children[f.env])

FreeUndoneChild ==
  /\ ~Idle /\ Top.next = 0
  /\ Enter(Top.env, Front(frames))
  /\ UNCHANGED <<childCap, heapMapped, capVars, doomed>>

\* One iteration of pi_FreeChildEnvironments: the index moves on although the
\* child has taken itself out of the array and the rest has moved up.
FreeChild ==
  /\ ~Idle /\ ~LoopOver(Top)
  /\ Top.next \in DOMAIN children[Top.env]
  /\ Enter(children[Top.env][Top.next],
           Append(Front(frames), [Top EXCEPT !.next = @ + 1]))
  /\ UNCHANGED <<childCap, heapMapped, capVars, doomed>>

\* The rest of piFreeEnv: the objects go with the heap.  (What the code leaves in
\* the capabilities of a freed structure is dropped: the next initialisation
\* overwrites it before it is read.)
FreeFinish ==
  LET e == Top.env
  IN  /\ ~Idle /\ LoopOver(Top)
      /\ children' = [children EXCEPT ![e] = <<>>]
      /\ childCap' = [childCap EXCEPT ![e] = 0]
      /\ heapMapped' = [heapMapped EXCEPT ![e] = FALSE]
      /\ state' = [state EXCEPT ![e] = "uninit"]
      /\ frames' = Front(frames)
      /\ doomed' = IF Len(frames) = 1 THEN {} ELSE doomed
      /\ caps' = [caps EXCEPT ![e] = {}]
      /\ granted' = [granted EXCEPT ![e] = Nothing]
      /\ memoryLimit' = [memoryLimit EXCEPT ![e] = 0]
      /\ UNCHANGED parent

-------------------------------------------------------------------------------
Init ==
  /\ state = [e \in Envs |-> "uninit"]
  /\ parent = [e \in Envs |-> NULL]
  /\ children = [e \in Envs |-> <<>>]
  /\ childCap = [e \in Envs |-> 0]
  /\ heapMapped = [e \in Envs |-> FALSE]
  /\ caps = [e \in Envs |-> {}]
  /\ granted = [e \in Envs |-> Nothing]
  /\ memoryLimit = [e \in Envs |-> 0]
  /\ frames = <<>> /\ doomed = {}

FreeStep == FreeUndoneChild \/ FreeChild \/ FreeFinish

Next ==
  \/ FreeStep
  \/ \E e \in Envs : FreeEnv(e)
  \/ \E e \in Envs, size \in HeapSizes : InitEnv(e, size) \/ InitEnvError(e, size)
  \/ \E e \in Envs, cs \in SUBSET Caps : GrantCapabilities(e, cs) \/ RevokeCapabilities(e, cs)
  \/ \E e \in Envs, limit \in Limits : CapabilityContextSetLimits(e, limit)
  \/ \E p, c \in Envs, size \in HeapSizes : CreateChildError(p, c, size)
  \/ \E p, c \in Envs, cs \in SUBSET Caps, size \in HeapSizes :
       CreateChildEnv(p, c, cs, size) \/ CreateChildUndone(p, c, cs, size)

\* piFreeEnv runs to its end: the thread that called it does nothing else.
Spec == Init /\ [][Next]_vars /\ WF_vars(FreeStep)

-------------------------------------------------------------------------------
(* Properties.                                                                *)

\* Types of the environment structures and of the call stack.
TypeOK ==
  /\ state \in [Envs -> {"uninit", "init", "terminated"}]
  /\ parent \in [Envs -> Envs \cup {NULL}]
  /\ children \in [Envs -> Seq(Envs)] /\ childCap \in [Envs -> Nat]
  /\ \A e \in Envs : Len(children[e]) <= childCap[e]
  /\ heapMapped \in [Envs -> BOOLEAN]
  /\ caps \in [Envs -> SUBSET Caps] /\ memoryLimit \in [Envs -> Limits]
  /\ granted \in [Envs -> [caps : SUBSET Caps, limit : Limits, added : SUBSET Caps]]
  /\ frames \in Seq([env : Envs, next : Nat])
  /\ doomed \subseteq Envs

\* Between calls the parent links and the children arrays agree: a child is
\* listed once, by the live parent it names, and an array lists nothing else.
FamilyConsistent ==
  Idle => /\ \A c \in Envs : parent[c] # NULL =>
                Alive(c) /\ Alive(parent[c]) /\ c \in ToSet(children[parent[c]])
          /\ \A p \in Envs : \A i, j \in DOMAIN children[p] :
                /\ parent[children[p][i]] = p
                /\ children[p][i] = children[p][j] => i = j

\* Nested calls of piFreeEnv tear down different environments, each of which
\* still has its heap: no heap is destroyed twice and none is used after.
FramesSound ==
  /\ \A i, j \in DOMAIN frames : frames[i].env = frames[j].env => i = j
  /\ \A i \in DOMAIN frames : heapMapped[frames[i].env]
  /\ \A e \in Envs : heapMapped[e] <=> state[e] # "uninit"

\* env.h, piFreeEnv: "Releases all resources including heap, GC objects, and
\* child environments": when the call the host made returns, it has freed the
\* environment and everything below it.
FreeEnvIsComplete ==
  [][ ~Idle /\ frames' = <<>> => \A e \in doomed : ~heapMapped'[e] ]_vars

AsTight(limit, other) == other = 0 \/ limit \in 1 .. other

\* All the capabilities an environment was ever given: piGrantCapabilities "does
\* not check if the capabilities are valid for the parent" (capability.h:273).
EverGiven(e) == granted[e].caps \cup granted[e].added

\* Whatever is granted to and revoked from whom, whenever limits are set and
\* children are made: what an environment holds it started with or the host granted
\* to it, and what it started with its parent had from its own start or the host's
\* grants to the parent.  No limit is looser than the one the environment, or its
\* parent, started with.
NoEscalation ==
  \A c \in Envs : Alive(c) =>
    /\ caps[c] \subseteq EverGiven(c) /\ AsTight(memoryLimit[c], granted[c].limit)
    /\ parent[c] # NULL =>
         /\ granted[c].caps \subseteq EverGiven(parent[c])
         /\ AsTight(granted[c].limit, granted[parent[c]].limit)

\* Every call of piFreeEnv returns.
FreeReturns == ~Idle ~> Idle
===============================================================================
