------------------------------- MODULE SvmValue -------------------------------
(***************************************************************************)
(* Values of the stack machine and what its operators answer               *)
(* (runtime/value.h, lib/svm/svm.c).  A value is its type tag and its      *)
(* payload: Width bits for the integers, CharWidth for a char, and for a   *)
(* real only the class that truth tests and casts tell apart:              *)
(*   zero    0.0 and -0.0                                                  *)
(*   half    not zero, magnitude below 1, low mantissa bits clear (0.5)    *)
(*   whole   a whole number, low mantissa bits clear (2.0)                 *)
(*   fine    low mantissa bits set (0.1, 3.1)                              *)
(*   nan     not a number or infinite                                      *)
(* An answer that depends on more than the class is any of the class's     *)
(* possible outcomes.                                                      *)
(***************************************************************************)
EXTENDS Integers

CONSTANTS
  Modulus, CharModulus,   \* 2^32 and 2^8: pi_uint_t and char wrap here
  Debug                   \* PI_DEBUG

ASSUME SvmValueAssumption ==
  /\ Modulus \in Nat \ {0} /\ Modulus % 2 = 0
  /\ CharModulus \in 1 .. Modulus
  /\ Debug \in BOOLEAN

RealClasses == {"zero", "half", "whole", "fine", "nan"}

Null == [type |-> "NONE", bits |-> 0]
Bool(b) == [type |-> "BOOL", bits |-> IF b THEN 1 ELSE 0]
Of(type, n) == [type |-> type, bits |-> n % (IF type = "CHAR" THEN CharModulus ELSE Modulus)]
UInt(n) == Of("UINT", n)
Real(c) == [type |-> "REAL", bits |-> c]
Reals == {Real(c) : c \in RealClasses}
AnyOf(type) == {Of(type, n) : n \in 0 .. Modulus - 1}

\* What the hardware does with an integer division it cannot carry out.
Trap == [type |-> "TRAP", bits |-> 0]

IsInt(v) == v.type \in {"UINT", "SINT"}

\* A payload read as a C int32_t, and that of a char, which is signed.
Signed(n) == IF n >= Modulus \div 2 THEN n - Modulus ELSE n
SignedChar(n) == IF n >= CharModulus \div 2 THEN n - CharModulus ELSE n

-------------------------------------------------------------------------------
(* Truth.                                                                     *)

\* mutant: a debug build tests the bits as a release build does
IsTrueByBits(v) == IF v.type = "REAL" THEN v.bits = "fine" ELSE v.bits # 0

\* piIsTrue: a debug build looks at the value, a release build at the low 44 bits
\* of its representation, which most short reals and the NaN leave clear.
IsTrue(v) ==
  IF v.type = "REAL" THEN v.bits \in IF Debug THEN RealClasses \ {"zero"} ELSE {"fine"}
                     ELSE v.bits # 0

-------------------------------------------------------------------------------
(* Operators.                                                                 *)

Arithmetic == {"ADD", "SUB", "MUL", "DIV", "POW", "REM"}
BitwiseOps == {"BAND", "BOR", "BXOR"}
Logic == {"AND", "OR"}

Numeric == {"UINT", "SINT", "REAL"}

\* The comb() tables: the left operand gives the type.
Implemented(op, l, r) ==
  \/ op \in Logic
  \/ op \in BitwiseOps /\ IsInt(l) /\ IsInt(r)
  \/ op \in Arithmetic /\ l.type \in Numeric /\ r.type \in Numeric
  \/ op \in {"ADD", "SUB"} /\ l.type = "CHAR" /\ r.type \in {"CHAR", "UINT", "SINT"}

\* The numbers a C cast of v to an integer type may give: any, where the real is too
\* large for the type.
Casts(v) ==
  IF v.type # "REAL" THEN {v.bits}
  ELSE IF v.bits \in {"zero", "half"} THEN {0} ELSE 0 .. Modulus - 1

Truncated(a, b) == LET q == (IF a < 0 THEN -a ELSE a) \div (IF b < 0 THEN -b ELSE b)
                   IN  IF (a < 0) = (b < 0) THEN q ELSE -q

\* Integer division of the payloads a and b as `type'.
Divide(op, type, a, b) ==
  LET x == IF type = "SINT" THEN Signed(a) ELSE a
      y == IF type = "SINT" THEN Signed(b) ELSE b
  IN  IF y = 0 \/ (type = "SINT" /\ y = -1 /\ x = -(Modulus \div 2)) THEN Trap
      ELSE Of(type, IF op = "DIV" THEN Truncated(x, y) ELSE x - y * Truncated(x, y))

\* POW rounds the libm result; the bitwise operators are left to the type.
Compute(op, type, a, b) ==
  CASE op = "ADD" -> {Of(type, a + b)}
    [] op = "SUB" -> {Of(type, a - b)}
    [] op = "MUL" -> {Of(type, a * b)}
    [] op \in {"DIV", "REM"} -> {Divide(op, type, a, b)}
    [] OTHER -> AnyOf(type)

BinaryAnswers(op, l, r) ==
  IF op \in Logic
    THEN {Bool(IF op = "AND" THEN IsTrue(l) /\ IsTrue(r) ELSE IsTrue(l) \/ IsTrue(r))}
  ELSE IF op \in {"DIV", "REM"} /\ ~IsTrue(r) THEN {Real("nan")}
  ELSE IF ~Implemented(op, l, r) THEN {}
  ELSE IF l.type = "REAL" THEN Reals
  ELSE UNION {Compute(op, l.type, l.bits, b) : b \in Casts(r)}

\* An object has no negation of any kind; NOT takes any other value, NEG and BNOT
\* take numbers, and NEG makes an unsigned number signed.
UnaryAnswers(op, v) ==
  CASE op = "NOT" /\ v.type = "REAL" -> {Bool(v.bits = "zero")}
    [] op = "NOT" /\ v.type \notin {"REAL", "OBJC"} -> {Bool(v.bits = 0)}
    [] op = "NEG" /\ v.type = "REAL" -> {v}
    [] op = "NEG" /\ IsInt(v) -> {Of("SINT", -v.bits)}
    [] op = "BNOT" /\ IsInt(v) -> {Of(v.type, Modulus - 1 - v.bits)}
    [] OTHER -> {}

\* The exit codes RET can make of a value; an object has none.
ExitCodesOf(v) ==
  CASE v.type = "OBJC" -> {}
    [] v.type = "CHAR" -> {SignedChar(v.bits)}
    [] v.type = "REAL" -> {Signed(n) : n \in Casts(v)}
    [] OTHER -> {Signed(v.bits)}
===============================================================================
