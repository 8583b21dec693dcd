---------------------------------- MODULE Svm ----------------------------------
(***************************************************************************)
(* The stack machine (lib/svm/svm.c) and the chunks it runs                *)
(* (lib/svm/chunk.c): instruction bytes, the constant pool with its 8-bit  *)
(* indices, line records, growing arrays, the dispatch loop one            *)
(* instruction a step, and what the loop does with the thread's error      *)
(* handler (lib/common/error.c) and the collector's stack root.  A byte of *)
(* code is an opcode, named by its mnemonic, or an argument.               *)
(* Modelled as built with the switch and NaN-boxed values; an allocation   *)
(* that fails ends the process and is left out.                            *)
(***************************************************************************)
EXTENDS Program, FiniteSets

CONSTANTS
  IndexModulus,         \* UINT8_MAX + 1: an argument holds one byte
  InlineCap, ArrayCap,  \* PI_INLINE_STACK_SIZE, PI_DEFAULT_ARRAY_CAP
  CodeCap, CodeGrowth,  \* PI_GrowCap: CodeCap at first, then CodeGrowth times
  Careless,             \* instructions of the programs that may underflow, which
                        \* only a debug build notices
  Careful,              \* instructions of the programs that never do
  \* bounds of the model
  MaxLines, MaxErrors

ASSUME SvmAssumption ==
  /\ IndexModulus \in Nat \ {0}
  /\ InlineCap \in Nat \ {0} /\ ArrayCap \in Nat \ {0} /\ InlineCap < ArrayCap
  /\ CodeCap \in Nat /\ CodeCap >= 2 /\ CodeGrowth \in Nat /\ CodeGrowth >= 2
  /\ Instructions = Careless \cup Careful /\ (Careless # {} => Debug)
  /\ \A i \in Instructions : /\ i = Instr(i.op, i.arg)
                             /\ i.op = "LDI" => i.arg = UInt(i.arg.bits)

VARIABLES
  code, codeCap,
  data, dataCap,        \* chunk->data, the constant pool
  lines,                \* chunk->lines, oldest first: the offset of each record
  ip,                   \* index of the next byte
  stackCap,
  vmStack,              \* gc.vmStack: TRUE when evalStack is registered
  handler,              \* whose jmp_buf g_ErrorHandler.buf points at
  errors                \* history: errors raised

chunkVars == <<code, codeCap, data, dataCap, lines>>
loopVars == <<ip, stackCap, vmStack, handler>>
vars == <<programVars, chunkVars, loopVars, errors>>

-------------------------------------------------------------------------------
(* Writing a chunk.                                                           *)

ShouldGrow(cap, count, n) == n > cap - count

GrowArray(cap, count) ==
  IF ~ShouldGrow(cap, count, 1) THEN cap ELSE IF cap = 0 THEN ArrayCap ELSE 2 * cap

\* mutant: room is made for one byte whatever is written
GrowCodeByOne(n) ==
  IF ~ShouldGrow(codeCap, Len(code), 1) THEN codeCap
  ELSE IF codeCap < CodeCap THEN CodeCap ELSE CodeGrowth * codeCap

GrowCode(n) ==
  IF ~ShouldGrow(codeCap, Len(code), n) THEN codeCap
  ELSE IF codeCap < CodeCap THEN CodeCap ELSE CodeGrowth * codeCap

\* mutant: the current line grows by one byte only
LinesAfterByOne(n) == IF lines = <<>> THEN lines ELSE [lines EXCEPT ![Len(lines)] = @ + 1]

LinesAfter(n) == IF lines = <<>> THEN lines ELSE [lines EXCEPT ![Len(lines)] = @ + n]

OpByte(op) == [kind |-> "op", byte |-> op]
ArgByte(arg) == [kind |-> "arg", byte |-> arg]

\* piSvmChunkWriteOp and piSvmChunkWriteShortOp.
WriteBytes(bytes) ==
  /\ code' = code \o bytes
  /\ codeCap' = GrowCode(Len(bytes))
  /\ lines' = LinesAfter(Len(bytes))

ArgumentOf(i) == IF i.op = "LDC" THEN Len(data) % IndexModulus
                 ELSE IF i.op = "LDI" THEN i.arg.bits ELSE i.arg

HasArgument(op) == op \in {"LDI", "LDC", "EXIT"}

\* The depth that straight-line code without errors has reached at its end.
Depth(p) == LET after(d, i) == IF i.op \in Binary \cup {"POP", "OUT"} THEN d - 1
                               ELSE IF i.op \in {"LDI", "LDC", "DUP"} THEN d + 1 ELSE d
            IN  FoldLeft(after, 0, p)

\* A bound of the model: line records, handlers and errors of the host are explored
\* around the careless programs only.
InDetail(p) == ToSet(p) \subseteq Careless

\* What a host writes: programs with less care, or ones that find their operands.
Plausible(p) ==
  \/ InDetail(p)
  \/ /\ ToSet(p) \subseteq Careful /\ Operands(Last(p).op) <= Depth(Front(p))
     /\ lines = <<>> /\ errors = 0 /\ handler # "host"

Ends(i) == i.op \in {"EXIT", "RET"} \/ i.op \notin Known

Closed == program # <<>> /\ Ends(Last(program))

\* piSvmChunkWriteOp, piSvmChunkWriteLdI and piSvmChunkWriteLdC; nothing behind
\* the instruction that ends the run.
ChunkWrite(i) ==
  /\ ~Closed
  /\ Plausible(Append(program, i))
  /\ Write(i)
  /\ WriteBytes(IF HasArgument(i.op) THEN <<OpByte(i.op), ArgByte(ArgumentOf(i))>>
                                   ELSE <<OpByte(i.op)>>)
  /\ IF i.op = "LDC" THEN data' = Append(data, i.arg) /\ dataCap' = GrowArray(dataCap, Len(data))
                     ELSE UNCHANGED <<data, dataCap>>
  /\ UNCHANGED <<loopVars, errors>>

PushLine ==
  /\ status = "host" /\ ~Closed /\ InDetail(program)
  /\ Len(lines) < MaxLines
  /\ lines' = Append(lines, Len(code))
  /\ UNCHANGED <<programVars, code, codeCap, data, dataCap, loopVars, errors>>

\* piFreeSvmChunk, then piInitSvmChunk for the next program.
FreeChunk ==
  /\ Clear
  /\ lines' = <<>>
  /\ code' = <<>> /\ codeCap' = 0 /\ data' = <<>> /\ dataCap' = InlineCap
  /\ UNCHANGED <<loopVars, errors>>

-------------------------------------------------------------------------------
(* Running it.                                                                *)

RunChunk ==
  /\ Closed
  /\ Run
  /\ ip' = 1
  /\ stackCap' = IF ArrayCap > InlineCap THEN ArrayCap ELSE InlineCap
  /\ vmStack' = TRUE
  /\ handler' = "loop"
  /\ UNCHANGED <<chunkVars, errors>>

\* An argument met where an opcode is expected is no opcode the loop knows.
Op == IF code[ip].kind = "op" THEN code[ip].byte ELSE "ILLEGAL"
Argument == code[ip + 1].byte

WidthOne(op) == 1                                      \* mutant: the argument is not skipped
WidthThree(op) == IF HasArgument(op) THEN 3 ELSE 1     \* mutant: it is skipped twice
Width(op) == IF HasArgument(op) THEN 2 ELSE 1

\* What Effects, MayAbort and Exits need of the instruction at ip.
Decoded == Instr(Op, CASE Op = "LDC" -> data[Argument + 1]
                       [] Op = "LDI" -> UInt(Argument)
                       [] Op = "EXIT" -> Argument
                       [] OTHER -> Null)

\* Nothing checks ip against the end of the code; what lies there is not modelled.
Fetched == status = "running" /\ ip \in DOMAIN code
Ready == Fetched /\ ~Underflows(Op, stack)

\* Pops before pushes: the array grows only when a load or a DUP fills it.
Dispatch ==
  /\ Ready
  /\ stack' \in Effects(Decoded, stack)
  /\ stackCap' = IF Len(stack') > Len(stack) THEN GrowArray(stackCap, Len(stack)) ELSE stackCap
  /\ ip' = ip + Width(Op)
  /\ pc' = pc + 1
  /\ UNCHANGED <<program, status, result, chunkVars, vmStack, handler, errors>>

\* A debug build raises; the error comes back to the loop's own setjmp, which
\* ignores it.  The local ip is not volatile: after longjmp it is what it was at
\* the raise, or what it was at setjmp if the compiler kept it in a register.
RaiseUnderflow ==
  /\ Fetched /\ Underflows(Op, stack) /\ Debug
  /\ errors' = IF errors < MaxErrors THEN errors + 1 ELSE errors
  /\ stack' = <<>>
  /\ \/ ip' = ip + Width(Op) /\ pc' = pc + 1
     \/ ip' = 1 /\ pc' = 1
  /\ UNCHANGED <<program, status, result, chunkVars, stackCap, vmStack, handler>>

\* mutant: the stack stays registered after it is freed
UnregisteredNot == vmStack
Unregistered == FALSE

\* EXIT, RET and the illegal opcodes, and the rest of piRunSvmChunk.
Return ==
  /\ Ready
  /\ result' \in Exits(Decoded, stack)
  /\ status' = "host" /\ pc' = 0 /\ stack' = <<>>
  /\ vmStack' = Unregistered
  /\ ip' = 0 /\ stackCap' = 0
  /\ UNCHANGED <<program, chunkVars, handler, errors>>

\* piNotImpl calls abort(); a trapped division is a fatal signal.
Die ==
  /\ Ready
  /\ MayAbort(Decoded, stack)
  /\ status' = "aborted"
  /\ UNCHANGED <<program, pc, stack, result, chunkVars, loopVars, errors>>

-------------------------------------------------------------------------------
(* The host.                                                                  *)

SetErrorHandler ==
  /\ status = "host" /\ handler # "host" /\ InDetail(program)
  /\ handler' = "host"
  /\ UNCHANGED <<programVars, chunkVars, ip, stackCap, vmStack, errors>>

\* Some other call of the host raises: control goes where the handler says.  The
\* loop's own jmp_buf is still registered after a run, though its frame is gone:
\* C says nothing of a jump there, and the model stops.
RaiseError ==
  /\ status = "host" /\ errors < MaxErrors /\ InDetail(program)
  /\ errors' = errors + 1
  /\ status' = IF handler = "host" THEN "host" ELSE "aborted"
  /\ UNCHANGED <<program, pc, stack, result, chunkVars, loopVars>>

SvmInit ==
  /\ Init
  /\ code = <<>> /\ codeCap = 0 /\ data = <<>> /\ dataCap = InlineCap /\ lines = <<>>
  /\ ip = 0 /\ stackCap = 0 /\ vmStack = FALSE /\ handler = "none"
  /\ errors = 0

LoopStep == Dispatch \/ RaiseUnderflow \/ Return \/ Die

SvmNext ==
  \/ \E i \in Instructions : ChunkWrite(i)
  \/ PushLine \/ FreeChunk \/ RunChunk
  \/ Dispatch \/ RaiseUnderflow \/ Return \/ Die
  \/ SetErrorHandler \/ RaiseError

\* A run in progress keeps executing.
SvmSpec == SvmInit /\ [][SvmNext]_vars /\ WF_vars(LoopStep)

-------------------------------------------------------------------------------
(* Properties.                                                                *)

\* Types of the chunk, the loop's locals and the handler.
SvmTypeOK ==
  /\ status \in {"host", "running", "aborted"}
  /\ program \in Seq(Instructions) /\ Len(data) <= Len(program)
  /\ ip \in Nat /\ pc \in Nat /\ stackCap \in Nat
  /\ codeCap \in Nat /\ dataCap \in Nat
  /\ vmStack \in BOOLEAN
  /\ handler \in {"none", "host", "loop"}

\* Where the instructions of a program start, and where the next one would.
Starts(p) ==
  LET width == [k \in DOMAIN p |-> Width(p[k].op)]
  IN  [k \in 1 .. Len(p) + 1 |-> 1 + SumFunctionOnSet(width, 1 .. k - 1)]

\* No array is written past its capacity however writes of one and two bytes
\* interleave with growth, and while the loop runs it stands on the first byte of
\* the instruction the writer meant, never on an argument.
InBounds ==
  /\ Len(code) <= codeCap /\ Len(data) <= dataCap
  /\ status = "running" => /\ Len(stack) <= stackCap
                           /\ pc \in DOMAIN program /\ ip = Starts(program)[pc]

\* chunk.h, offset: "the maximum offset of the instructions of this line": a
\* record ends where the next begins, between instructions, the last at the end.
LinesExact ==
  /\ lines # <<>> => Last(lines) = Len(code)
  /\ \A k \in DOMAIN lines : /\ lines[k] + 1 \in ToSet(Starts(program))
                             /\ k > 1 => lines[k - 1] <= lines[k]

\* The collector sees the evaluation stack exactly while it exists, whatever
\* errors the run met: no root ever names a stack that was freed.
StackRegistered == status # "aborted" => (vmStack <=> status = "running")

WellFormed == \A k \in DOMAIN program :
                Operands(program[k].op) <= Depth(SubSeq(program, 1, k - 1))

\* Straight-line code that finds its operands ends: every run returns or dies
\* (opcode.inc, OP_EXIT: "Terminates the execution with an exit code").
RunsEnd == (status = "running" /\ WellFormed) ~> (status # "running")

Abstract == INSTANCE Program

\* The bytes, the pool, the capacities and the dispatch loop execute the
\* instructions the host wrote, with their operands, in their order.
ImplementsProgram == Abstract!Spec

IsZero(v) == IF v.type = "REAL" THEN v.bits = "zero" ELSE v.bits = 0
Dividing == Ready /\ Op \in {"DIV", "REM"}

\* svm.c, DIV and REM: "Checks if rhs is zero": a divisor that is not zero yields
\* a value of the dividend's type, not the NaN that stands for a zero divisor.
QuotientKeepsType ==
  [][ Dividing /\ pc' = pc + 1 /\ ~IsZero(Last(stack)) =>
        Last(stack').type = stack[Len(stack) - 1].type ]_vars
===============================================================================
