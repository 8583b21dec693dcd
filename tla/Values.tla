--------------------------------- MODULE Values ---------------------------------
(***************************************************************************)
(* Equality, order and hash of values (lib/runtime/value.c) of NaN-boxed   *)
(* builds, where C converts between operands of different types: integers  *)
(* of 32 bits are widened to 64, a char is signed, a real is truncated.    *)
(* Reals are counted in halves.  Where a branch is piNotImpl the process   *)
(* ends, and the call has no answer.                                       *)
(***************************************************************************)
EXTENDS Integers

CONSTANTS
  CharModulus, Modulus, LongModulus,  \* 2^8, 2^32 and 2^64
  Halves,           \* reals of the model, twice their value
  MinusZero, NaN,   \* reals that are no number of their own
  Objects,          \* string objects: where they are, and their characters
  StringHash(_)     \* FNV-1a: some function of the characters

ASSUME ValuesAssumption ==
  /\ {CharModulus, Modulus, LongModulus} \subseteq Nat
  /\ \A m \in {CharModulus, Modulus, LongModulus} : m > 0 /\ m % 2 = 0
  /\ Modulus % CharModulus = 0 /\ LongModulus % Modulus = 0
  /\ CharModulus < Modulus /\ 2 * Modulus <= LongModulus
  /\ Halves \subseteq Int /\ {MinusZero, NaN} \cap Halves = {}
  /\ \A x, y \in Objects : x.at = y.at => x = y

VARIABLE operands     \* two values the host compares or hashes, until its next call

NoValue == [type |-> "NONE", bits |-> 0]

Scalars ==
  {NoValue} \cup [type : {"BOOL"}, bits : {0, 1}]
            \cup [type : {"CHAR"}, bits : 0 .. CharModulus - 1]
            \cup [type : {"UINT", "SINT"}, bits : 0 .. Modulus - 1]
            \cup [type : {"REAL"}, bits : Halves \cup {MinusZero, NaN}]

ObjectValues == [type : {"OBJC"}, bits : Objects]

IsNaN(v) == v.type = "REAL" /\ v.bits = NaN

Signed(n, modulus) == IF n >= modulus \div 2 THEN n - modulus ELSE n

\* Twice the number a value stands for.
Twice(v) ==
  CASE v.type = "CHAR" -> 2 * Signed(v.bits, CharModulus)
    [] v.type = "SINT" -> 2 * Signed(v.bits, Modulus)
    [] v.type = "REAL" -> IF v.bits = MinusZero THEN 0 ELSE v.bits
    [] OTHER -> 2 * v.bits

\* The number a C cast to a wide integer starts from.
Whole(v) == IF Twice(v) < 0 THEN -((-Twice(v)) \div 2) ELSE Twice(v) \div 2

\* piIsTrue of a debug build.
Truth(v) == IF v.type \in {"NONE", "OBJC"} THEN v.type = "OBJC" ELSE IsNaN(v) \/ Twice(v) # 0

-------------------------------------------------------------------------------
(* piValueEqualsTo: the answers it may give, none where it is not             *)
(* implemented.  A real out of the range of its target has no defined cast.   *)

BoolEqualsTo(l, r) == {(l.bits = 1) = Truth(r)}

CharEqualsTo(l, r) ==
  {r.type \in {"CHAR", "UINT", "SINT"} /\ l.bits = r.bits % CharModulus}

\* The cast of r to a whole number in the range is undefined.
CastUndefined(r, range) == IsNaN(r) \/ (r.type = "REAL" /\ Whole(r) \notin range)

UIntEqualsTo(l, r) ==
  CASE r.type = "NONE" -> {FALSE}
    [] CastUndefined(r, 0 .. LongModulus - 1) -> BOOLEAN
    [] OTHER -> {l.bits = Whole(r) % LongModulus}

SIntEqualsTo(l, r) ==
  CASE r.type = "NONE" -> {FALSE}
    [] CastUndefined(r, -(LongModulus \div 2) .. LongModulus \div 2 - 1) -> BOOLEAN
    [] OTHER -> {Whole(l) = Whole(r)}

RealEqualsTo(l, r) ==
  {r.type \notin {"NONE", "CHAR"} /\ ~IsNaN(l) /\ ~IsNaN(r) /\ Twice(l) = Twice(r)}

\* The same object, or strings with the same characters: the tag of a scalar makes no
\* address.
ObjectEqualsTo(l, r) ==
  {r.type = "OBJC" /\ (l.bits.at = r.bits.at \/ l.bits.text = r.bits.text)}

\* Only none and the bools can be asked about an object.
EqualityMissing(l, r) == l.type \notin {"NONE", "BOOL", "OBJC"} /\ r.type = "OBJC"

ValueEqualsTo(l, r) ==
  CASE l.type = "NONE" -> {r = NoValue}
    [] l.type = "BOOL" -> BoolEqualsTo(l, r)
    [] l.type = "OBJC" -> ObjectEqualsTo(l, r)
    [] EqualityMissing(l, r) -> {}
    [] l.type = "CHAR" /\ r.type # "OBJC" -> CharEqualsTo(l, r)
    [] l.type = "UINT" /\ r.type # "OBJC" -> UIntEqualsTo(l, r)
    [] l.type = "SINT" /\ r.type # "OBJC" -> SIntEqualsTo(l, r)
    [] l.type = "REAL" /\ r.type # "OBJC" -> RealEqualsTo(l, r)

\* The same representation.
ValueStrictlyEqualsTo(l, r) == l = r

-------------------------------------------------------------------------------
(* piValueCompareTo and piValueGetHashCode.                                   *)

CompareBits(x, y) == IF x < y THEN -1 ELSE IF x = y THEN 0 ELSE 1

\* mutant: a signed left operand is widened as the unsigned one is
ConvertedUnsigned(l, r) ==
  IF l.type \in {"UINT", "SINT"} /\ r.type \in {"CHAR", "SINT"}
    THEN <<Twice(l) % (2 * LongModulus), Twice(r) % (2 * LongModulus)>>
    ELSE <<Twice(l), Twice(r)>>

\* The usual arithmetic conversions: uint64_t with a signed type is unsigned, a char
\* with a uint32_t wraps to it, everything else keeps its value.
Converted(l, r) ==
  CASE l.type = "UINT" /\ r.type \in {"CHAR", "SINT"} ->
         <<Twice(l), Twice(r) % (2 * LongModulus)>>
    [] l.type = "CHAR" /\ r.type = "UINT" -> <<Twice(l) % (2 * Modulus), Twice(r)>>
    [] OTHER -> <<Twice(l), Twice(r)>>

\* Objects have no order, but none compares with them too.
OrderMissing(l, r) == l.type = "OBJC" \/ (l.type # "NONE" /\ r.type = "OBJC")

ValueCompareTo(l, r) ==
  IF l.type = "NONE" THEN IF r = NoValue THEN 0 ELSE -1
  ELSE IF r.type = "NONE" \/ IsNaN(l) \/ IsNaN(r) THEN 1
  ELSE CompareBits(Converted(l, r)[1], Converted(l, r)[2])

\* A negative int is widened before its halves are joined; a char is not a number of
\* 64 bits; of a real the bits are hashed, and of a string its hash is taken.
ValueGetHashCode(v) ==
  CASE v.type = "BOOL" -> IF v.bits = 1 THEN 1231 ELSE 1237
    [] v.type = "CHAR" -> Signed(v.bits, CharModulus) % Modulus
    [] v.type = "SINT" /\ Signed(v.bits, Modulus) < 0 -> Modulus - 1 - v.bits
    [] v.type = "OBJC" -> StringHash(v.bits.text)
    [] OTHER -> v.bits

-------------------------------------------------------------------------------
NoOperands == <<NoValue, NoValue>>

ValuesInit == operands = NoOperands

ValuesNext ==
  \/ operands = NoOperands /\ \E l, r \in Scalars : operands' = <<l, r>>
  \/ operands = NoOperands /\ \E l, r \in ObjectValues : operands' = <<l, r>>
  \/ /\ operands = NoOperands
     /\ \E v \in Scalars, o \in ObjectValues : operands' \in {<<v, o>>, <<o, v>>}

-------------------------------------------------------------------------------
(* Properties, of the operands l and r.                                       *)

\* A negative operand meets an unsigned one: C turns it into a large number.
SignLost(l, r) ==
  \/ l.type = "UINT" /\ r.type \in {"CHAR", "SINT"} /\ Twice(r) < 0
  \/ l.type = "CHAR" /\ r.type = "UINT" /\ Twice(l) < 0

SameKind(l, r) == l.type = r.type \/ {l.type, r.type} = {"UINT", "SINT"}

\* What the code answers where the first value comes first, and where it comes second:
\* for false and true.
Bool(bit) == [type |-> "BOOL", bits |-> bit]
First == ValueCompareTo(Bool(0), Bool(1))
Second == ValueCompareTo(Bool(1), Bool(0))

\* The place of a value in the order: none comes before everything else.
ComesBefore(l, r) ==
  IF "NONE" \in {l.type, r.type} THEN l.type = "NONE" /\ r.type # "NONE"
  ELSE Twice(l) < Twice(r)

\* Whichever sign stands for it, the order is that of the numbers, for operands of any
\* two types and both ways round, unless a sign is lost.
OrderIsNumeric(l, r) ==
  ~SignLost(l, r) =>
    ValueCompareTo(l, r) = IF ComesBefore(l, r) THEN First
                           ELSE IF ComesBefore(r, l) THEN Second ELSE 0

\* Integers are equal exactly if their numbers are, signed or not, and so are values
\* of one type; equality then agrees with the order, and with representation.
EqualityIsNumeric(l, r) ==
  SameKind(l, r) =>
    /\ ValueEqualsTo(l, r) = {Twice(l) = Twice(r)}
    /\ ~SignLost(l, r) => ValueEqualsTo(l, r) = {ValueCompareTo(l, r) = 0}
    /\ ValueStrictlyEqualsTo(l, r) => ValueEqualsTo(l, r) = {TRUE}

\* A scalar and an object are never equal, whichever is asked, but that true equals
\* every object.
ObjectsStandApart(l, r) ==
  (l.type = "OBJC") # (r.type = "OBJC") /\ TRUE \in ValueEqualsTo(l, r) => l = Bool(1)

\* A table keyed by these hashes finds a value by an equal one: of the same type,
\* zeros of the reals apart, a non-negative integer of either, and a string.
EqualsHashAlike(l, r) ==
  SameKind(l, r) /\ TRUE \in ValueEqualsTo(l, r) =>
    ValueGetHashCode(l) = ValueGetHashCode(r) \/ MinusZero \in {l.bits, r.bits}

\* Order, equality and hash of any two values other than NaN are those of the numbers
\* they stand for, wherever C keeps the number when it converts one to the other;
\* the order is one, and objects are kept apart from scalars.
ValuesAgree ==
  LET l == operands[1]
      r == operands[2]
  IN  ~IsNaN(l) /\ ~IsNaN(r) =>
        /\ 0 \notin {First, Second} /\ (First < 0) # (Second < 0)
        /\ ~OrderMissing(l, r) => OrderIsNumeric(l, r)
        /\ "OBJC" \notin {l.type, r.type} => EqualityIsNumeric(l, r)
        /\ ObjectsStandApart(l, r)
        /\ EqualsHashAlike(l, r)
===============================================================================
