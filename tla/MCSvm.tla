-------------------------------- MODULE MCSvm --------------------------------
(* Instances of Svm for TLC: the instructions each run lets the host write. *)
EXTENDS Svm

Plain(ops) == {Instr(op, Null) : op \in ops}

\* Loads of both kinds, stack shuffling, operators of both arities, three ends.
Mixed ==
  {Instr("LDI", UInt(1)), Instr("LDC", Of("SINT", -1)), Instr("EXIT", 3)}
    \cup Plain({"DUP", "POP", "EQ", "SUB", "RET", "JMP"})

\* Operators of every kind on values of every type: truth values of each, numbers
\* a division can trap on, reals of three classes.
Typed ==
  {Instr("LDC", v) : v \in {Of("CHAR", 1), UInt(3), Of("SINT", -2),
                            Of("SINT", -1), [type |-> "OBJC", bits |-> 1],
                            Real("zero"), Real("half"), Real("whole")}}
    \cup Plain({"NEG", "NOT", "OR", "BAND", "ADD", "DIV", "REM", "RET"})

MixedAndTyped == Mixed \cup Typed
===============================================================================
