------------------------------- MODULE Program -------------------------------
(***************************************************************************)
(* What the stack machine promises a host that writes chunks through the   *)
(* functions of chunk.h: a chunk is a list of instructions that carry      *)
(* their operands, executed from the first on; nothing is said of bytes,   *)
(* constant indices, capacities or error handlers.                         *)
(***************************************************************************)
EXTENDS SvmValue, Sequences, SequencesExt

CONSTANTS
  Instructions,      \* what the host writes
  MaxInstructions    \* bound of the model

VARIABLES
  program,     \* instructions [op, arg]
  pc, stack,
  status,      \* "host", "running" or "aborted"
  result       \* exit code of the last run, or NoResult

NoResult == "none"

machine == <<pc, stack, status, result>>
programVars == <<program, machine>>

Instr(op, arg) == [op |-> op, arg |-> arg]

Unary == {"BNOT", "NOT", "NEG"}
Binary == Arithmetic \cup BitwiseOps \cup Logic

\* Mnemonics that the loop knows.
Known == {"NOP", "EQ", "LDI", "LDC", "POP", "OUT", "DUP", "EXIT", "RET"} \cup Unary \cup Binary

\* Values an instruction takes off the stack (DUP looks at one).
Operands(op) == IF op \in Binary THEN 2
                ELSE IF op \in Unary \cup {"POP", "OUT", "DUP"} THEN 1 ELSE 0

Underflows(op, s) == Len(s) < Operands(op)

\* The stacks an instruction that neither ends the run nor fails can leave.
Effects(i, s) ==
  LET top == Last(s)
      under == s[Len(s) - 1]
  IN  CASE i.op \in {"NOP", "EQ"} -> {s}
        [] i.op \in {"LDI", "LDC"} -> {Append(s, i.arg)}
        [] i.op \in {"POP", "OUT"} -> {Front(s)}
        [] i.op = "DUP" -> {Append(s, top)}
        [] i.op \in Unary -> {Append(Front(s), v) : v \in UnaryAnswers(i.op, top)}
        [] i.op \in Binary -> {Append(Front(Front(s)), v) :
                                 v \in BinaryAnswers(i.op, under, top) \ {Trap}}
        [] OTHER -> {}

\* The run may end abnormally: no such operation, or a trapped division.
MayAbort(i, s) ==
  LET top == Last(s)
      under == s[Len(s) - 1]
  IN  CASE i.op \in Unary -> UnaryAnswers(i.op, top) = {}
        [] i.op \in Binary -> LET A == BinaryAnswers(i.op, under, top)
                              IN  A = {} \/ Trap \in A
        [] i.op = "RET" -> s # <<>> /\ ExitCodesOf(top) = {}
        [] OTHER -> FALSE

\* Exit codes with which an instruction ends the run.
Exits(i, s) ==
  CASE i.op = "EXIT" -> {i.arg}
    [] i.op = "RET" -> IF s = <<>> THEN {0} ELSE ExitCodesOf(Last(s))
    [] i.op \notin Known -> {1}
    [] OTHER -> {}

Write(i) ==
  /\ status = "host"
  /\ Len(program) < MaxInstructions
  /\ program' = Append(program, i)
  /\ UNCHANGED machine

Clear ==
  /\ status = "host"
  /\ program' = <<>>
  /\ UNCHANGED machine

Run ==
  /\ status = "host" /\ program # <<>>
  /\ status' = "running" /\ pc' = 1 /\ stack' = <<>>
  /\ UNCHANGED <<program, result>>

Execute ==
  /\ status = "running"
  /\ ~Underflows(program[pc].op, stack)
  /\ stack' \in Effects(program[pc], stack)
  /\ pc' = pc + 1
  /\ UNCHANGED <<program, status, result>>

\* An operand is missing: what was there is lost and the error reported; the run
\* goes on behind the instruction, or from the start again.
Underflow ==
  /\ status = "running"
  /\ Underflows(program[pc].op, stack)
  /\ stack' = <<>>
  /\ pc' \in {1, pc + 1}
  /\ UNCHANGED <<program, status, result>>

Finish ==
  /\ status = "running"
  /\ result' \in Exits(program[pc], stack)
  /\ status' = "host" /\ pc' = 0 /\ stack' = <<>>
  /\ UNCHANGED program

Abort ==
  /\ status = "running"
  /\ ~Underflows(program[pc].op, stack)
  /\ MayAbort(program[pc], stack)
  /\ status' = "aborted"
  /\ UNCHANGED <<program, pc, stack, result>>

\* An error of the host itself.
HostEnds ==
  /\ status = "host"
  /\ status' = "aborted"
  /\ UNCHANGED <<program, pc, stack, result>>

Init ==
  /\ program = <<>>
  /\ pc = 0 /\ stack = <<>> /\ status = "host" /\ result = NoResult

Next ==
  \/ \E i \in Instructions : Write(i)
  \/ Clear \/ Run \/ Execute \/ Underflow \/ Finish \/ Abort \/ HostEnds

Spec == Init /\ [][Next]_programVars
===============================================================================
