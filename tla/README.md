# Formal model of the pi-lang runtime

TLA+ modules, TLC configurations and TLAPS proofs about the C program in `src/`:
the runtime of a small language (collector, heap, environments, values), its stack
machine, its common containers, and the beginnings of a compiler front end.
Everything is single-threaded C; what is hard in it is not parallelism but calls
that do more than they say (an allocation that collects, a write that rehashes, a
free that recurses into its own caller's list), memory that is reused while
somebody still points at it, errors that jump over the code that would have tidied
up, and counters, indices and sizes at the end of their range.

Contents: inventory · modules and how they correspond to the code · runs · proofs ·
disagreements · what is not modelled · plan.

## 1. Inventory

| Component | Source | State it keeps | Operations | Hard behaviour |
|---|---|---|---|---|
| Garbage collector | `lib/runtime/gc.c`, `runtime/gc.h`, `object.h` | doubly linked object list, mark and frozen flags, 16-bit counts, global roots array, pointer to the evaluation stack, threshold, statistics, pause flag | `piGcAlloc`, `piGcCollect`, `piGcRetain`, `piGcRelease`, `piGcAddGlobalRoot`, `piGcRemoveGlobalRoot`, `piGcSetVmStack`, `piGcSetPaused` | every allocation may collect, twice; two schemes of reclamation on one list; counts saturate; sweep frees under its own cursor |
| POSIX heap | `lib/runtime/env.c` 75-395 | block list in address order, free list in the order of frees, used size | alloc, free, realloc, create, destroy | splitting, merging forward, growing in place, moving with failure, rounding |
| Environments | `lib/runtime/env.c` 505-905, `runtime/env.h` | state, heap, collector, parent, children array, capabilities | `piInitEnv*`, `piCreateChildEnv`, `piFreeEnv` | mutual recursion of `piFreeEnv` and `pi_FreeChildEnvironments` over an array the callee edits; undoing a half-made child |
| Capabilities | `runtime/capability.h`, `lib/runtime/capability.c` | flags, four limits, path prefixes | grant, revoke, derive, set limits, check | monotonicity along a tree that changes |
| Values | `runtime/value.h`, `lib/runtime/value.c` | NaN-boxed or tagged words, value arrays with an inline part | constructors, casts, truth, arrays, equality, order, hash, copy, print | 32-bit wrap, two representations, debug and release definitions |
| Stack machine | `lib/svm/svm.c`, `svm/opcode.inc` | ip, evaluation stack, registered stack root, error handler | dispatch loop, one case per opcode | errors that `longjmp` into the loop; variable-width instructions |
| Chunks | `lib/svm/chunk.c`, `svm/chunk.h` | code bytes, constant pool, line records | write op, short op, LDC, LDI, push line, free | growth by the number of bytes written, one-byte pool indices |
| Errors | `lib/common/error.c` | one thread-local `jmp_buf` pointer and code | set handler, raise | a handler that outlives its frame |
| Hash table | `lib/common/hash.c` | power-of-two buckets of chains, count, iterators of the host | init, get, set, delete, clear, free, iterate | resize before a write and after a removal, stale iterators, ownership of keys |
| Arena | `lib/common/arena.c` | chain of blocks, the current one, the total | init, alloc, reset, free | reuse after reset, requests larger than a block |
| Strings | `lib/common/string.c`, `lib/runtime/string.c` | characters, count, hash, `clear` flag | init, copy, duplicate, free, equals, compare | who owns the characters; a stored hash that must stay true |
| I/O | `lib/runtime/io.c`, `runtime/io.h`, wrappers of `env.h` | a table of handlers per build; a stream with its handle and flags | open, close, read, write, seek, tell, flush, size, eof; delete, rename, make and remove directories; read a line, print, read and write a whole file | two builds behind one interface; stdio's buffer and its mark of the end; several handlers in one call, each of which may fail; streams left open when an error jumps |
| Source streams | `lib/compiler/source.c`, `compiler/source.h` | buffer, bytes of the file before it (`delta`), start and end of the lexeme with line and column | open, close, peek, read, advance, retreat, read a line | a read that refills the buffer moves the lexeme under its reader; peek and read disagree about the end |
| Lexer, tokens | `lib/compiler/lexer.c`, `compiler/token.inc` | none between calls; the caller's token | `piScanToken` | tokens cut off by the end of a line, a buffer or the source; a path that leaves the token unset |
| Driver | `src/pi/pi.c` | a stream, a token per line | the prompt's loop over lines and tokens | trusts a token the scanner may not have set |
| Parser, code generator | `lib/compiler/parser.c`, `lib/svm/codegen.c` | none | placeholders | none yet |
| Memory | `lib/common/memory.c` | the process heap; statistics of tracking builds | malloc, calloc, realloc, free and aligned variants | failure ends the process |
| System, disassembler, diagnostics | `lib/common/system.c`, `lib/svm/disasm.c`, `lib/compiler/diagnostic.c` | little or none | queries, printing | none |

How they interact. An environment owns a heap and a collector; the collector takes
memory from the environment's handlers, which raise through the error handler when
it runs out. The stack machine registers its evaluation stack as a root of the
collector and its own frame as the error handler of the thread. A value that is an
object is a pointer into the collector's list. Children derive their capabilities
from their parent and are freed by it. The chunk's pool and the evaluation stack are
the same `PiValueArray`. The driver's prompt reads lines into a source stream and has
the lexer cut them into tokens, whose text stays in the stream's buffer. A stream of the
I/O layer is allocated from the environment's heap, so opening a file can raise; the arena,
the common strings and the hash table take their memory from the process heap.

What makes each of them correct: no root ever names freed memory and nothing the
host owns disappears (collector); blocks tile the region and the free list is the
set of free blocks (heap); the tree of environments agrees with itself and a free
frees everything below (environments); a derivation gives a child nothing its parent was never given, and no limit
looser than its parent's (capabilities); bytes execute what was written and no array is written
past its room (stack machine, chunks); a handler is alive when it is jumped to
(errors); every key is found and every iteration is complete (hash table); a token is in the
text where it says, has the class and length the text calls for, and every scan
returns (source streams, lexer); every file the process holds has a stream, or was lost
to an error, and what is written is what is read, in either build (I/O); what the arena
hands out never overlaps and every block of the process heap has one owner (arena,
strings); stored hash, equality and order agree (strings).

The hazards behind these properties are listed, each at its line, in `PROJECT.json`.

## 2. Modules

    Allocator  <--implements--  PosixHeap          MCPosixHeap
    Gc         <--implements--  GcList             MCGc, MCGcList
    EnvTree                                        MCEnvTree
    SvmValue <-- Program  <--implements--  Svm     MCSvm
    Map        <--implements--  HashTable          MCHashTable
    Source  <--extends--  Lexer                    MCLexer
    Files      <--implements--  Io                 MCIo
    CHeap  <--extends--  Arena, Strings
    Arena, Strings, Values  <--extends--  Common   MCCommon
    DataLemmas, GcList | PosixHeap | EnvTree | HashTable | Io | Lexer, Svm | Common
      <--extends--  GcProofs | PosixHeapProofs | EnvTreeProofs | HashTableProofs
                      | IoProofs | LanguageProofs | CommonProofs

The arrow *implements* means that the lower-level module declares an INSTANCE of the upper one with
a refinement mapping, and that a run checks the upper specification as a property.
`MC*` modules hold the values a configuration needs that are not plain constants.
Operators that are commented *mutant* are plausible slips in the code (a lost
reset, an off-by-one, a swapped read); each property is broken by at least one of
them when it replaces the definition beside it, which is how the properties were
tried out.

**Gc.** A host's view of `gc.c`: one action per API call. `live` is the object
list, `refCount`, `marked` and `frozen` the headers, `globalRoots` the array with
its swap-removal, `vmStack` the registered stack (or NULL). `piGcAlloc` is one
action, with the collections it triggers (`AllocRuns`: none, one at the threshold,
one more when memory fails and the handler answers NULL). A header keeps a size in 32
bits (`objSize`, `SizeModulus`) while the statistics grow by the size that was asked for
(`blockSize`). The host is modelled too: `held`
counts the references it owns, it assigns registered variables and pushes values
it can reach, and gives references back or forgets them (`HostForget`, a C caller
that leaves an object to the next sweep). The host releases
its last reference to an object only when no root names it (a root does not count
as an owner in `gc.c`). `HostRootsHeld` is the rest of the host's contract: it roots
what it holds before a call that may collect. Objects carry no
inner references because `pi_GcMarkObject` follows none today.

**GcList.** The same calls loop by loop: `gcNext` and `gcPrev`, the clear, mark and
sweep loops one iteration a step, the retry inside `piGcAlloc`. A call implements
its `Gc` action at its last step; until then the mapping shows the heap `before`
the call.

**Allocator, PosixHeap.** The allocator promises disjoint, aligned regions that are
large enough, stay put until given back, and survive a failed reallocation. The
heap is `env.c`'s first fit: `hdr` maps block addresses to headers, `freeList`
keeps the order that frees and splits leave. Addresses are numbers and `AlignUp`
wraps at `WordSize` as `size_t` does.

**EnvTree.** Environments, their children arrays, capabilities and memory limit: derived
by a child, granted, revoked and tightened by the host at any time. `granted` is the
history of what an environment started with and what the host added since;
`MaxChanges` bounds how many sets and limits of live environments are no more what they
started as. `frames` is the C stack of `piFreeEnv`: the loop index of a caller stays
where it is while the callee takes itself out of the array. `NarrowFrees` says
whether the host keeps from freeing a parent of two; `MemoryMayFail` lets
any mapping or reallocation fail.

**SvmValue, Program, Svm.** `SvmValue` is what the operator tables answer: types and
wrapped payloads, with reals reduced to the five classes that truth tests and casts
tell apart (a real other than zero and one half may cast to any integer). `Program` is the promise: a list of instructions with their operands is
executed from the first. `Svm` is the code: bytes and one-byte arguments, pool
indices, capacities and growth, line records, ip, the registered stack, and the
thread's error handler, which the loop takes over. A debug build reports an
underflow by raising, which jumps back into the loop: with the ip reached or the ip
at `setjmp` (a nondeterministic choice, since `ip` is a local that is not
`volatile`).

**Map, HashTable.** `HashTable` keeps chains in the order the code leaves them
(inserted in front, reversed by each resize), resizes where the code does (before
the key is looked up in `piHashTableSet`, after a removal in `piHashTableDelete`),
and counts the character buffers the table owns. The host may mutate the table
while it iterates, short of deleting the entry its iterator stands on, clearing or
freeing the table. `steady` records whether entries came, went or moved.

**Source, Lexer.** `Source` has one operator per function of `source.c`, from a stream
record to the next: `Refill` is the middle of `pi_SourceReadFile`, `ReadLine` the
line input of the prompt. `piCloseSource` of a text tests a stream pointer that nobody set:
the close may do anything, and the model then stops (`StreamUnset`). `Lexer` holds the state: the stream, and in `mode` the place
inside `piScanToken`, which advances by one `piSourceRead` a step. A token keeps what
the code keeps, a place in the buffer and a length. The host is the loop of `pi_Repl`,
which tests the token and not the result, or a program that scans a text or a file
and may retreat. `text` is the history of what the stream was given; the properties
compare tokens with it. The characters of the run are one or more of each class the
scanner tells apart, and only ASCII, the one encoding the stream knows; in the proofs
`Character` is any set with NUL and the newline in it and without the mark `EOF`.

**Files, Io.** `Files` is what `io.h` promises: a stream is at a position of a file,
reads and writes there or appends, and what was written reaches the disk some time, or
not at all once the stream is closed. `Io` is the code: `io` chooses the table of handlers
the build installs, an operator named after each handler says what it does to the stream,
and the wrappers of `env.h` (`FileOpen`, `FileRead`, ...) are the host's actions. The
operating system and stdio are external: a `FILE` has a position, a mark that it met the end
(`eof`) and bytes held back (`unwritten`), which a seek, a size, a flush, a read or a close
stores. `PosixOpenMode` and `WindowsCreationDisposition` translate the flags as the code
does. The calls that use several handlers (a line; a file read or written whole) run one
handler a step, with `call` as their locals, and every early return is a step of its own, a size that cannot be had among them.
The disk may fill at any call that stores (write, flush, seek, size, read, a line, a file
written whole): on POSIX stdio stores a part, drops the rest, and the stream stands behind what
was stored (`DiskFull`); the caller is told, except by a close. An allocation fails either by an answer of NULL (a host's own memory handler) or by a jump
out of the call (the handlers of `env.c`), which leaves the file open: `lost`.

**CHeap, Arena, Strings, Common.** `CHeap` is the process heap, of which malloc answers the
lowest free block, so that addresses are reused at once. `Arena` keeps the chain newest
first, with the place of `curr` in it; `handed` is the history of what was handed out since
the last reset. Rounding a size and adding it to what is used wrap at `WordSize` as `size_t`
does; a request that wraps is served like any other. `AddressSpace` is what malloc can have
given out at once, less than `SIZE_MAX`; `MaxHanded` bounds the ranges held at once. `Strings` keeps PiStrings whose characters are elsewhere or in a block of
the heap, with the count and hash they were made with; memory ends in a NUL, and
`DupMemory` copies as `strncpy` does. The host follows what `piStringCopy` asks of it: of
two strings that share a block it frees one and forgets the other. `Common` composes both
over one heap.

**Values.** Equality, order and hash as functions of two values, with the C conversions
their operands meet: widening with or without sign, truncation of reals, low bits for a
char. A cast that C leaves undefined (NaN, or a real outside the target's range) may answer either
way, and a pair the code does not implement (`piNotImpl`, which aborts) has no answer, so
`ValueEqualsTo` is a set. The
reference they are compared with is the number a value stands for. The only state is the
pair of `operands` the host has in hand; values use no heap, so `Common` compares every pair, objects with scalars included,
while the heap is empty, in the run `common`.

## 3. Runs

Every bound is a CONSTANT with "bound of the model" beside it.

| Run | Configuration | Shows | Bounds and why they are enough |
|---|---|---|---|
| `gc` | `MCGc.cfg` | No root or owned reference dangles; counts cover owners; statistics, root registrations and collections are exact; objects fall to sweeps outside a pause, or to the release of their last owner | two addresses and three allocations (an address is reused), counts that saturate at the second retain, two variables registered at most twice in all, a stack of one, one collection: a sweep needs one object to keep and one to free; two sizes, of which the header's field holds one and truncates the other |
| `gc_list` | `MCGcList.cfg` | The list is the set of live objects, and the loops stand on its cells, in the middle of every loop; calls implement `Gc` and return; an error comes only after an emergency collection | three objects: head, middle and tail; two collections, so that one call can hold both; two sizes, of which the larger fails as long as the one stack slot keeps an object |
| `heap` | `MCPosixHeap.cfg` | Blocks tile the region, the free list is exact, nothing overlaps, sizes suffice, the allocator is implemented | a region of 40 bytes in the code's proportions has room for five smallest blocks; requests of 0, 1 and sizes that split, leave too little to split, or outgrow the merge of two smallest blocks |
| `env` | `MCEnvTree.cfg` | Parent links and arrays agree, no heap is torn down twice, no environment holds what neither its parent's start nor a grant explains, and limits never loosen down the tree; a free takes everything below and returns | three environments give a chain, a fork and a reuse; two capabilities, two changes at once by grants, revocations or `SetLimits` (enough for one in a parent and one in its child), a limit besides "unlimited", a size of zero, failures anywhere |
| `svm` | `MCSvm.cfg` | No array is overrun, the loop stands on instruction boundaries, line records add up, the stack root is never left behind, bytes execute the program and answer what the tables say on every type; only a zero divisor gives NaN; runs end | four instructions: of ten kinds that may underflow, and one operator of each kind on values of each type that may not; integers modulo 4, so that wrap, sign and -1 occur; capacities of one and two so that each array grows |
| `hash` | `MCHashTable.cfg` | Resizing loses no key, load and capacity stay in bounds, owned keys are freed once, an undisturbed iteration is exact, a map is implemented | four keys that collide differently in 2, 4 and 8 buckets, so that the table grows twice and shrinks again; default capacity 2 in place of 8, the loads 3/4 and 1/4 as in the code |
| `scan` | `MCLexer.cfg` | Tokens are where they say, of the class and length of their text (except for the codes and ends that section 5 lists and the property names), across refills, lines and rescans; every scan returns | every text and file of up to two characters of eighteen kinds, up to six over the comment characters, up to four over keyword, number and operator characters; what is typed, up to four; a buffer of four bytes, so that files are longer than it and refills come back full, short and empty; three lines, one rescan |
| `io` | `MCIo.cfg` | The files the process holds are those with a stream and those an error lost; lines and whole files are exact; "at the end" means that nothing is left; calls end; files with positions are implemented, in both builds, with a disk that fills at any call that stores | two files of up to two bytes and one stream: a rename finds its target there or not, a write is behind, over and at the end; a stdio buffer of two and line buffers of one to three bytes are filled, short and exact; two handles, so that errors can use them up; five sets of flags, one for each mode the code derives |
| `common` | `MCCommon.cfg` | What the arena hands out is aligned, inside its blocks and apart; every block of the heap has one owner; stored hashes, equality and order agree; values have one order and are ordered, equal and hashed as their numbers unless C loses a sign, objects apart from scalars | widths of 2, 3 and 6 bits, so that each modulus is crossed, and halves around them and at the ends of the wide ranges, where casts become undefined; three addresses, so that arena and strings reuse each other's; of a word of 32, requests of 1 and 3, which fit, do not fit and exceed a block, 31, which rounds to nothing, and 30, which wraps the sum; three ranges held at once, block sizes that are and are not multiples of the alignment; two strings over two texts that differ in case, with a hash that collides |
| `gc_owner` | `MCGcOwner.cfg` | *violated:* an allocation sweeps an object that has an owner but no root | two objects |
| `env_free` | `MCEnvFree.cfg` | *violated:* freeing a parent of two children leaves one | three environments |
| `svm_release` | `MCSvmRelease.cfg` | *violated:* a release build takes 2.0 for zero when it divides | one division |

Deadlock is checked except in the configurations of `Svm`, where a process that called
`abort` stops, in `scan`, where a closed stream stays closed, and in `io`, where errors may
have left every file open that the model has. `Svm`, `PosixHeap`,
`EnvTree` and `Io` also state their type invariants, as parts of the inductive invariants of
section 4; what the runs check of them is stronger.

**Fairness.** Only a call in progress is fair: `WF(CallStep)` in `GcList`,
`WF(FreeStep)` in `EnvTree`, `WF(LoopStep)` in `Svm`, `WF(ScanStep)` in `Lexer`,
`WF(CallStep)` in `Io`. The thread that entered the
call executes nothing else, so it takes the next step of the call. Nothing
obliges the host to call anything. `CallsReturn`, `FreeReturns`, `RunsEnd`,
`ScanEnds` and `CallsEnd` rest on it.

`RunsEnd` is checked for programs that do not underflow. With an underflow and the
ip restored to its value at `setjmp` the chunk restarts for ever; see section 5.

## 4. Proofs

Eight modules of proofs, each of them about every value of the constants. An assumption on a
constant is named below; TLC evaluates the ones that the components declare
(`GcAssumption`, `EnvAssumption`, `HashAssumption`, `IoAssumption`, `HeapAssumption`,
`SourceAssumption`, `LexerAssumption`, `SvmAssumption`, `ArenaAssumption`, `StringsAssumption`, `ValuesAssumption`).

| Module | Theorem | Establishes `Spec => ...` | Under |
|---|---|---|---|
| `GcProofs` | `TypeCorrect` | `[]TypeOK` | |
| | `NoDanglingRoot` | `[]RootsAreLive`: the mark phase never writes to freed memory | |
| | `CountsCoverOwners` | `[]CountCoversOwners` | |
| | `RootedOwnersKeepObjects` | `[]OwnedStaysAllocated` | `HostRootsHeld` |
| | `BooksAreExact` | `[]BooksExact`: objects and registrations add up, and bytes too if sizes fit the header (`SizesFit`, a hypothesis inside the property), else but for multiples of 2^32 | |
| | `CollectIsExactHolds` | `CollectIsExact`: what the roots reach stays, and everything else but the object just made is gone | |
| | `FreedBySweepOrLastOwnerHolds` | `FreedBySweepOrLastOwner` | |
| | `ListStaysExact` | `[]ListIsExact`: both links walk the live objects, no loop stands on freed memory | |
| | `ListImplementsGc` | `ImplementsGc` | |
| | `EmergencyCollects` | `EmergencyGcBeforeError` | `~MemRaises` |
| `PosixHeapProofs` | `BlocksAlwaysTile`, `FreeListIsExact`, `UsedSizeIsExact` | tiling, free list and used size, apart | |
| | `HeapStaysSound` | `[]HeapIsSound`, which adds what the owners got | `RequestsRoundUp` |
| | `HeapImplementsAllocator` | `ImplementsAllocator` | |
| `EnvTreeProofs` | `TearDownIsSound` | `[]FramesSound` | |
| | `FamiliesAreConsistent` | `[]FamilyConsistent` | `NarrowFrees` |
| | `RightsNeverEscalate` | `[]NoEscalation` | `NarrowFrees` |
| | `FreeEnvCompletes` | `FreeEnvIsComplete` | `NarrowFrees` |
| `HashTableProofs` | `TableStaysSound` | `[]TableIsSound` | |
| | `KeysStayOwnedOnce` | `[]KeysOwnedOnce` | |
| | `IterationStaysExact` | `IterationExact` | |
| | `TableImplementsMap` | `ImplementsMap` | |
| `IoProofs` | `HandlesAreAccounted` | `[]HandlesAccounted` | |
| | `CallsAreExact` | `[]CallsExact` | |
| | `EofIsTheEnd` | `[]EofMeansEnd` | |
| | `IoImplementsFiles` | `ImplementsFiles` | |
| `LanguageProofs` | `LexemesStayExact` | `[]LexemeExact` | |
| | `TokensStayClassified` | `[]TokensClassified`: the class `token.inc` gives the text, up to the exclusions the property names | |
| | `LoopStaysInBounds` | `[]InBounds` | |
| | `LinesStayExact` | `[]LinesExact` | |
| | `StackStaysRegistered` | `[]StackRegistered` | |
| | `MachineImplementsProgram` | `ImplementsProgram` | `FewConstants` |
| | `QuotientsKeepTheirType` | `QuotientKeepsType` | `FewConstants`, `LoadsAreClassed`, `Debug` |
| `CommonProofs` | `ArenaSoundHolds` | `[]ArenaSound`: ranges aligned, inside and apart while what was handed out is `Measurable` (in the property); the total always exact | |
| | `HeapIsOwnedHolds` | `[]HeapIsOwned` | |
| | `ComparisonsAgreeHolds` | `[]ComparisonsAgree`, whatever the hash function | |
| | `ValuesAgreeHolds` | `[]ValuesAgree` | |

Each component module also has its inductive invariant as a theorem (`SpecIInv`,
`SpecLexerInv`, `ListInvHolds`, `IInvHolds`, `InvHolds`, `StructureHolds`, `NarrowHolds`) and its type invariant.

**DataLemmas** holds what several of them need: sums over finite sets, the ends and the
middle of sequences, multiples. The library's induction theorems take an operator as a
parameter, which the installed provers cannot instantiate, so induction is done by hand: of
the sets for which a sum would misbehave one has the least cardinality
(`SmallestSet`, from the library's `WFMin` on the naturals), and it does not
misbehave because the set without one element does not. In the same way
`TotalSolves` shows that the recursion behind `SumFunctionOnSet` has a solution at all,
before which nothing can be said of the byte counters; `IntervalRecursion` does the same for a
recursion that counts from one end of an interval to the other, and `IntervalInduction` is
induction over it.

**GcProofs.** `RootsAreLive` alone is not inductive. A sweep frees what is not
marked, so that its roots survive is easy; but a release frees an object when its
count reaches zero, and then neither a root nor another owner may be left with it. `IInv` is the
conjunction of `TypeOK`, `RootsAreLive`, `CountCoversOwners` (counts bound owners
unless frozen, so a release that reaches zero was the last), `CountExact` and, under
`HostRootsHeld`, `OwnedStaysAllocated`: what is owned is on the list, so what the
host assigns or pushes is. Every action then has a lemma (`GcAllocIInv`, `GcReleaseIInv`,
...); the ones that collect share `CollectThenAddIInv`, and the ones that touch
roots only share `RootStepIInv` and `RootsUnchanged`. `BooksInv` is a second layer over it
(a sweep subtracts the sum of what it frees, as the headers have it: `HeaderBytes` and
`Bytes` differ by a multiple of the modulus, and not at all if sizes fit), and the two action properties follow from the
effect of each action on the list (`StepFrees`). The run `gc_owner` shows that
`HostRootsHeld` cannot be dropped from `RootedOwnersKeepObjects`.

Its second part is about `GcList`. `ListIsExact` walks the links by a recursive function, which no step
can be reasoned about with; `ListInv` says instead that there is a sequence without repetition
whose elements are the live objects and whose neighbours the links name (`Linked`), and
`LinkedWalks` derives the walk from it. What a loop has done is said by its place in
that sequence (`Walked`): in the clear loop what lies before the cursor is unmarked, in the sweep
it is marked, so that a sweep at its end has left roots only. `CallSound` compares the
heap with `before`, the heap the call started from: it is `before` without `Reclaimed`
(`Without`: list, counts, sizes, flags and counters), nothing reclaimed is a root, and `Progress`
says which of the collections that `piGcAlloc` makes is running. The invariant holds
with either kind of allocator, paused or not. For the refinement, `AllocDecided` shows that an
allocation ends after as many collections as `AllocRuns` of `Gc` says, `CallIsOneStep` that
what they left is what one `CollectThenAdd` leaves; every other step of a loop
stutters (`StepStutters`). `EmergencyCollects` has the hypothesis that the allocator answers NULL
(`~MemRaises`): one that raises never lets `piGcAlloc` try again (section 5).

**PosixHeapProofs.** Tiling says that the headers, followed by their sizes, cut the region
without a gap; with it go alignment of places and sizes, a free list without repetition
whose members are exactly the free blocks (so the search for the block
to unlink never fails), and the sum of the used sizes. The lemmas are about what the code
does to a heap, whoever calls it: `Split`, `MergeNext`, taking a block, unlinking one; `Alloc`,
`Free` and `Realloc` are put together from them. `AlignUp` wraps at the width of `size_t`,
and what wraps is served with the smallest block: all of this survives it except that the owner
has what it asked for, which is why `HeapStaysSound` alone has the hypothesis
`RequestsRoundUp`. The refinement maps each block with an owner to the range behind its
header.

**EnvTreeProofs.** `Structure` holds whatever the host frees: live environments, arrays
without repetition that list only live children which name the owner, and a stack of frames whose
environments differ and are torn down. `Narrow` adds, as long as the host frees no parent of
two (the run `env_free` shows what happens otherwise): a parent that is named lists the child,
unless it is the one whose creation just failed; what the call must free has at most one
child each, and no loop has run past it; what is not freed yet is on the stack or below it
(`RestIsBelow`, a closure property, so that no induction over the depth is needed); and the
rights, of which a child's start is compared with `EverGiven` of its parent, since a revocation
takes nothing from the children and a grant asks no parent. `FreeEnvIsComplete` then says that at the last return nothing of `doomed` is left.

**HashTableProofs.** Most of it is about tables as values, whoever holds them: `Sound` says that
every entry is in the bucket its key selects and that no two of a chain have one key, and
`SearchFinds` that a search then finds exactly what is there. `PushAdds`, `WrittenKeeps` and
`UnlinkedKeeps` say what a write and a removal do to the entries. `ResizeKeeps` is an induction
along the loop of `pi_HashTableResize`: `FlatHolds` shows that the loop meets every entry once,
and after each round the new buckets are sound and hold exactly the entries met. The powers of two
need `DoublePower`, `HalfPower` and, for an initial capacity, `NextPowerIs`; `GrownKeeps`
and `ShrunkKeeps` are the arithmetic of the loads, for which `HashAssumption` says what the
code's constants (8, 3/4 and 1/4) satisfy: a table of default size holds an entry, and half
a table is not overfull when a shrink is due. The inductive invariant is `TableInv` (`Books`:
sound, counted, loaded, owned) with `IterInv`: as long as an iteration is steady, what it
answered are the keys of the buckets behind the iterator and of the entries of its own chain up
to the one it stands on (`Swept`), in a sequence without repetition. An update keeps that
because a replacement leaves every key at its place (the last conjunct of `WrittenKeeps`); a
resize ends the steadiness, since the capacity is then another. For the refinement,
`MapOf` is a function of the set of entries alone (`SameMap`), so resizing is invisible in it.
Capacities and counts are numbers without a width here: a table never gets near the 2^32
at which `pi_NextPowerOf2` and the doubling would wrap.

**IoProofs.** `HandlesAccounted` is not inductive: closing one of two streams on a file
would lose it. `IInv` adds that an open file has one stream and a lost one has none (`Apart`),
that a call in progress has its stream open, that stdio alone holds bytes back, behind those
it stored or at the end when appending (which a full disk, storing a part and dropping the rest,
leaves true: `HeldPlace`), and that its mark stands where nothing is left
(`HeldSound`), and what each call has done up to its next step (`CallSound`). The file is compared as the process sees it
(`View`: what is stored, with what is held back).

Under the refinement that view is the text of `Files`, and a position is the one of the handle.
`RefInv` adds to `IInv` what is true of a file because of how it came to be open (`Told`:
an open or lost file is a file and not a directory, it appends if its flags say so and the build does that,
sizes are within `MaxSize`). `Turns` is what every handler has in common, that it touches
one stream and the file behind it, and `Seen` what `Files` sees of that; `TurnsFacts` connects
them, so that each handler is left with a lemma about one file (`ReadsStays`, `WritesWrites`, ...). A flush, a store that was
held back and the steps of a call between its handlers are stutters, or the store that `Files`
leaves open when it happens.

**LanguageProofs, the scanner.** `LexerInv` is about a token that is only half read. `SourceInv`
says that the stream shows its text: the buffer of a file is a window on it that starts at `delta`, with
what is unread behind it, the buffer of a text is the text, the one of a prompt starts with the last line and
a NUL (`Shows`); and that the stream's positions are where their offsets are in that text (`Placed`, over
`ExactAt`: the line is one more than the newlines before, the column counts from the last of them). `LexemeInv`
says of each place in `piScanToken` what has been read so far (`Shape`: a word, a literal of a
radix, one character or a punctuator that goes on from it, a comment whose last character may open or
close a level), and `MadeSound` that a token, until the scanner moves on, is of the lexeme behind it and
classified. `RefillShows` and `ReadLineFacts` are the two
ways the buffer changes: after a refill the window starts where the lexeme does, so positions keep their
places; a new line is at its place because the line before was read to its end (`LineEnds`), which is what
`dropped` excludes, as `stale` excludes a refill that came short. `ShowsPeek` turns what the
scanner sees next into what the text has there, so that each token class is left with a lemma about
sequences (`PunctuatorClassified`, `DigitsClassified`, `BlockClassified`, ...). What the property excludes is there by name: a bracket with the code of a
round one (`BracketConfused`), `va` (`KeywordPrefix`), and the ends the scanner takes for the end of the
source (`PageEnds`, `NulFollows`). `SourceAssumption` asks for a page of three
characters at least, for the line, its end and the NUL of a prompt.

**LanguageProofs, the machine.** `IInv`: the code has every opcode where its instruction starts, with room for
the argument, and nothing behind the last (`Laid`, over the offsets `Starts`, a recursive
function), the pool has no more constants than the program instructions, line records
end where instructions do, arrays fit their capacities, and while the loop runs it stands at the start of an
instruction (`Standing`), the start the abstract program counter names. `LoopStaysInBounds` needs no
hypothesis: an index that wraps names another constant and breaks no array. The refinement
needs `FewConstants` (no more instructions than a byte can name constants), for
`piSvmChunkWriteLdC` truncates the index and the machine then pushes another constant than the
program says. `QuotientsKeepTheirType` adds that what the host loads is a value of the
model (`LoadsAreClassed`) and that the build is a debug build, without which the run
`svm_release` shows the opposite.

**CommonProofs.** In the arena, the blocks of the chain differ in their places
(`ChainDistinct`), each is used up to a boundary (`UsedSound`), and, as long as nothing is handed out whose arithmetic wrapped (`Tame`), a range starts at a
boundary and ends inside what is used (`RangeSound`). Boundaries and room stay right whatever
wraps, which is why a reset makes the arena sound again; a new range starts behind that, so it meets no
other, and a reset that empties the blocks forgets the ranges with them. The total is a sum
over the places of the blocks, which the chain's order cannot change. A string has its characters
cleared exactly if they are on the heap, the memory goes on behind them (so a copy never
reads past its end), none of them is a NUL, and the hash is the one of these characters
(`SoundIn`). `HeapInv` ties both to the heap: what is live is what the arena frees and what strings own,
and the two have nothing in common. Every step of the strings then is one of three to the
heap (`HeapStep`): it leaves the owned blocks alone, adds the one that `malloc` answered, or takes
away one that no other string names. Comparison is an induction over the shorter
of two texts: the first place they differ decides, and from the other side it decides the opposite way.
`ValuesAgree` is an invariant of the pair of operands, and its proof the cases of two types, objects included: which
conversion C makes, and that each keeps the number where the property says so, for every width of
integer that `ValuesAssumption` allows and whatever a cast that C leaves undefined answers. It does not depend on which sign the
comparison answers for "before", only that it is always the same (`First`, `Second`).

Only model-checked. Liveness (`CallsReturn`, `FreeReturns`, `RunsEnd`, `ScanEnds`,
`CallsEnd`): fairness and ENABLED are outside the prover. Every invariant and every action property of
the passing runs is a theorem.

## 5. Disagreements between code and documents

With a run: the three violations above; `PROJECT.json` quotes code and text.

Seen while modelling; each follows from the lines named and has no run of its own:

- `gc.h:146-147` promises an emergency collection before an out-of-memory error. The
  branch exists (`gc.c:211-219`, run `gc_list`), but the handlers an environment
  installs raise themselves (`env.c:462-471`), so it is never reached there.
- `env.h:58` says a minimum heap size of 0 means one page; `pi_PosixHeapCreate`
  rounds 0 to 0 and `mmap` refuses it (`env.c:105-122`), so `piInitEnv` with the
  default size always raises.
- `env.c:256` says "with coalescing"; a freed block merges with its successor only
  (`env.c:276`), so blocks freed in address order never join.
- `pi_AlignUp` (`env.c:85`) wraps for requests within one unit of `SIZE_MAX` and a
  smallest block is handed out.
- `pi_FreeGcContext` gives the global roots array, which came from `piRealloc`
  (`gc.c:334`), to `pi_PosixHeapFree` (`env.c:576`).
- An object's size is kept in 32 bits (`object.h:124`, `gc.c:230`), but the statistics grow by
  the `size_t` (`gc.c:241`) and shrink by what was kept (`gc.c:51`): an object of 2^32 bytes or
  more is never quite subtracted again, and the threshold is met too early from then on.
  `BooksExact` says that the difference is a multiple of 2^32, and none if sizes fit.
- `capability.h:25-26` and `42-43` promise that children hold a subset of their
  parent's capabilities; revoking from a parent (`capability.h:290`) leaves its
  children as they were, and `piGrantCapabilities` (`capability.h:276`) gives a child what its
  parent lacks, as its own comment admits (`capability.h:273`). `NoEscalation` states what does
  hold: what an environment has it started with or was granted, and what it started with its parent
  had started with or been granted.
- DIV and REM test the divisor before the cast to the dividend's type (`svm.c:647`):
  an integer by 0.5, and the smallest integer by -1, reach the hardware division.
  `SvmValue` models both as `Trap`.
- RET of a char of 128 or more answers a negative exit code (`svm.c:194-197`).
- `opcode.inc:147` describes EQ as a comparison of two values; its case is empty
  (`svm.c:855`).
- `piSvmChunkWriteLdC` (`chunk.h:128-132`) truncates the constant's index to one byte.
- `ip` is not `volatile` (`svm.c:155`): after an error its value is indeterminate.
- `error.h:286-287`: "The jmp_buf must remain valid for the entire duration it is
  registered". `pi_SvmLoop` registers the buffer of its own frame (`svm.c:151`) and
  nobody puts the previous one back, so after a run the next error of the host jumps
  into a frame that is gone. `RaiseError` stops the model there.
- `source.h:241-242` says a negative peek is the end of the source; a file longer than
  a page answers it at the end of the page (`source.c:259-262`), and a scanner that
  peeks first never reads on. Only comments and what follows a zero read without
  peeking. `TokensClassified` names these ends `PageEnds`: a token cut there is classified as if the
  source ended. A NUL in the text ends a token likewise (`NulFollows`).
- `piOpenSourceText` (`source.c:160-172`) never sets the stream pointer that `piCloseSource`
  (`source.c:197`) tests, so closing a text may hand a stray pointer to `fclose`.
- `pi_SourceReadFile` tells the end of the file by `delta < streamSize`
  (`source.c:307`), where `delta` counts the bytes before the buffer, not the bytes
  read. A file that ends inside a comment, or in a zero, is therefore refilled with nothing: what the buffer
  held is scanned again (`stale` in the model, after which `Exact` promises nothing),
  or the lexeme fills the buffer and the read goes past it (`Overrun`).
- A comment's closing pair is not seen when the buffer of a file ends between its two
  characters (`lexer.c:283`: the second is only peeked).
- A zero that no radix follows (`lexer.c:213-236`) takes the next character with it and
  returns an undefined result without setting the token; the prompt then prints the
  token before, or, first on a line, tests an uninitialised one (`pi.c:101-107`) and may
  drop the rest of the line (`dropped` in the model).
- All brackets get the codes of the round ones (`lexer.c:311-323`) although `token.inc`
  42-46 has codes for the others; `va` is the keyword `var` (`lexer.c:106` compares as many
  characters as the lexeme has). `TokensClassified` admits exactly these, as `BracketConfused` and
  `KeywordPrefix`.
- `pi_Repl` tests a `size_t` for being negative (`pi.c:92`), so the prompt goes on at
  the end of its input.
- `io.h:77-84` describes `PI_STREAM_CREATE` and `PI_STREAM_TRUNCATE`; the POSIX open mode looks
  at neither (`io.c:468-485`): writing alone truncates and creates, reading and writing never
  creates. On Windows `PI_STREAM_APPEND` seeks once, when the file is opened (`io.c:118-156`).
- The end of a file is a mark on POSIX, set only by a read that came short, and a
  comparison on Windows (`io.c:300`, `706`); asking for the size takes the mark away
  (`io.c:695`). An empty file reads as an empty buffer on POSIX and as NULL on Windows.
- `piWriteEntireFile` answers OK when the disk was full at the close (`io.c:559`, `1073`); a text
  longer than stdio's buffer meets the full disk in the write, and is answered with the error.
- `if (!stream)` and `if (!buffer)` after `piEnvAlloc` (`io.c:535`, `1034`) are dead with the
  handlers an environment installs, which jump: the file stays open.
- `piEnvGetWorkingDir` without a working directory asks the handler, and the default handler
  asks `piEnvGetWorkingDir` (`env.h:586-598`, `io.c:378`): they call each other for ever.
- `piArenaReset` empties every block, but only the head is ever filled again
  (`arena.c:123-145`).
- `piArenaAlloc` rounds a size near `SIZE_MAX` to 0 (`arena.c:71`), and the sum with what is used
  of the block may wrap (`arena.c:123`): the range handed out then ends outside its block, and may
  overlap the next. `ArenaSound` speaks of ranges whose sizes are `Measurable`.
- A duplicate of a string with a NUL in it loses what follows, but keeps count and hash; the
  duplicate of a slice has no NUL behind it (`string.c:108`). A freed string has hash 0, so it
  is not equal to an empty one, although the two compare as equal (`string.c:141-144`).
- The statistics of tracking builds never count a free or a resize (`memory.h:361-387`).
- `value.h:548-551` says a comparison is positive when the first value comes first; the code
  answers -1 (`value.c:391-393`). `ValuesAgree` holds of either sign: it asks that one answer
  always stands for "before" and the opposite one for "after".
- Between types, equality casts the right operand to the left one's type and is not
  symmetric (0u equals 0.5, 0.5 does not equal 0u; `value.c:208`, `274`), a real outside the range of the
  cast may equal anything, true equals every object but no object equals true, an unsigned value is
  below every negative one (`value.c:484`), and equal values may have different hashes, 0.0
  and -0.0 among them (`value.c:55-113`). `ValuesAgree` states what does hold.
- `piFreeSvmChunk` (`chunk.c:38`) drops the line records that `chunk.h:101` says it
  releases.

## 6. Not modelled, and why

Formatting, printing and the disassembler (no state). Operating-system queries; the
Windows heap. Of the I/O layer the console, standard streams, the working directory, the
listing of directories, the table without handlers and the conversion of error codes. Which
capability guards which handler: no handler checks one. Values as text. Reallocation and aligned blocks of the
process heap, and its statistics. The computed-goto dispatch, which does not compile. Parser and
code generator, which are placeholders. The contents of paths and strings. Failure of
`malloc` in the common library, which ends the process. What `piArenaAllocZero` clears of a range
whose size wrapped (the others it clears are not used yet). Code past the end of a chunk
that has no RET or EXIT, and a release build that pops an empty stack: what such runs
read is not a state of the program. A read behind the buffer of a file, likewise.
Spans of source text, which nothing builds yet, and `piOpenSourceBuffer`, which leaves
the kind of its stream unset.

## 7. Plan

Done, in this order: Gc, GcList and GcProofs; Allocator and PosixHeap; EnvTree;
SvmValue, Program and Svm; Map and HashTable; Source and Lexer; Files and Io; CHeap,
Arena, Strings and Common; Values.

Proved since: GcProofs completed, PosixHeapProofs, EnvTreeProofs, IoProofs, the machine,
the lists of GcList, HashTableProofs, `ImplementsFiles` of Io, CommonProofs and the scanner, with
DataLemmas below them.

Next modules: the driver's use of environments, runs and handlers, composed from
`EnvTree` and `Svm`; the collector over the heap in place of a memory that may fail.

To check the project, in this directory: `tlc -config <cfg> <module>` for each row of
section 3, and `tlapm` on each module of section 4.
