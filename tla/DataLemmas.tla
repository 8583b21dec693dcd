------------------------------ MODULE DataLemmas ------------------------------
(***************************************************************************)
(* Facts about sums over finite sets and about sequences, which the proofs *)
(* of several components rest on.  Induction over a finite set is an       *)
(* argument about a counterexample of least cardinality.                   *)
(***************************************************************************)
EXTENDS Integers, Sequences, FiniteSets, FiniteSetsExt, SequencesExt,
        FiniteSetTheorems, WellFoundedInduction, TLAPS

-------------------------------------------------------------------------------
(* Least elements.                                                            *)

\* Every non-empty set of natural numbers has a least element.
LEMMA LeastNatural ==
  ASSUME NEW T, T \subseteq Nat, T # {}
  PROVE  \E i \in T : \A j \in T : i <= j
<1> DEFINE R == {p \in Nat \X Nat : p[1] < p[2]}
<1>1. IsWellFoundedOn(R, Nat)
  BY NatLessThanWellFounded DEF OpToRel
<1> HIDE DEF R
<1>2. PICK i \in T : \A j \in T : ~ (<<j, i>> \in R)
  BY <1>1, WFMin
<1>3. ASSUME NEW j \in T PROVE i <= j
  <2>1. ~ (<<j, i>> \in R)
    BY <1>2
  <2>2. <<j, i>> \in Nat \X Nat /\ <<j, i>>[1] = j /\ <<j, i>>[2] = i
    OBVIOUS
  <2>3. ~ (j < i)
    BY <2>1, <2>2 DEF R
  <2>4. i \in Nat /\ j \in Nat
    OBVIOUS
  <2>5. QED
    BY <2>3, <2>4
<1>4. QED
  BY <1>3

\* Of a non-empty set of finite sets one is smallest.
LEMMA SmallestSet ==
  ASSUME NEW U, IsFiniteSet(U), NEW Bad \in SUBSET (SUBSET U), Bad # {}
  PROVE  \E s \in Bad : \A t \in Bad : Cardinality(s) <= Cardinality(t)
<1> DEFINE Sizes == {Cardinality(s) : s \in Bad}
<1>1. \A s \in Bad : Cardinality(s) \in Nat
  BY FS_Subset, FS_CardinalityType
<1>2. Sizes \subseteq Nat /\ Sizes # {}
  BY <1>1
<1>3. PICK n \in Sizes : \A m \in Sizes : n <= m
  BY <1>2, LeastNatural
<1>4. QED
  BY <1>3

-------------------------------------------------------------------------------
(* Sums over finite sets.                                                     *)

Some(s) == CHOOSE x \in s : TRUE

\* One unfolding of the recursion behind SumFunctionOnSet.
SumStep(f, S, g) ==
  [s \in SUBSET S |-> IF s = {} THEN 0 ELSE f[Some(s)] + g[s \ {Some(s)}]]

Total(f, S) == CHOOSE g : g = SumStep(f, S, g)

\* SumFunctionOnSet is the solution of that recursion, taken at the set.
LEMMA SumIsTotal ==
  ASSUME NEW f, NEW S
  PROVE  SumFunctionOnSet(f, S) = Total(f, S)[S]
  BY DEF SumFunctionOnSet, FoldFunctionOnSet, MapThenFoldSet, Total, SumStep, Some

\* The recursion has a solution over a finite set.
LEMMA TotalSolves ==
  ASSUME NEW S, IsFiniteSet(S), NEW f, \A x \in S : f[x] \in Int
  PROVE  /\ Total(f, S) = SumStep(f, S, Total(f, S))
         /\ Total(f, S) \in [SUBSET S -> Int]
<1> DEFINE Solves(g, n) == \A s \in SUBSET S :
                             Cardinality(s) <= n => g[s] = SumStep(f, S, g)[s]
           Unsolved == {n \in Nat : ~ \E g \in [SUBSET S -> Int] : Solves(g, n)}
<1>1. \A s \in SUBSET S : IsFiniteSet(s) /\ Cardinality(s) \in Nat
  BY FS_Subset, FS_CardinalityType
<1>2. \A s \in SUBSET S : s # {} => /\ Some(s) \in s /\ f[Some(s)] \in Int
                                   /\ s \ {Some(s)} \in SUBSET S
                                   /\ Cardinality(s \ {Some(s)}) = Cardinality(s) - 1
  BY <1>1, FS_RemoveElement DEF Some
<1>3. ASSUME NEW g \in [SUBSET S -> Int]
      PROVE  SumStep(f, S, g) \in [SUBSET S -> Int]
  <2>1. ASSUME NEW s \in SUBSET S
        PROVE  (IF s = {} THEN 0 ELSE f[Some(s)] + g[s \ {Some(s)}]) \in Int
    <3>1. CASE s = {}
      BY <3>1
    <3>2. CASE s # {}
      <4>1. f[Some(s)] \in Int /\ g[s \ {Some(s)}] \in Int
        BY <1>2, <3>2
      <4>2. QED
        BY <3>2, <4>1
    <3>3. QED
      BY <3>1, <3>2
  <2>2. QED
    BY <2>1 DEF SumStep
<1>4. Unsolved = {}
  <2> SUFFICES ASSUME Unsolved # {} PROVE FALSE
    OBVIOUS
  <2>1. PICK n \in Unsolved : \A m \in Unsolved : n <= m
    <3>1. Unsolved \subseteq Nat
      OBVIOUS
    <3> HIDE DEF Unsolved
    <3>2. QED
      BY <3>1, LeastNatural
  <2>2. CASE n = 0
    <3> DEFINE g == [s \in SUBSET S |-> 0]
    <3>1. g \in [SUBSET S -> Int]
      OBVIOUS
    <3>2. Solves(g, 0)
      <4> SUFFICES ASSUME NEW s \in SUBSET S, Cardinality(s) <= 0
                   PROVE  g[s] = SumStep(f, S, g)[s]
        OBVIOUS
      <4>1. s = {}
        BY <1>1, FS_EmptySet
      <4>2. QED
        BY <4>1 DEF SumStep
    <3>3. QED
      BY <2>2, <3>1, <3>2
  <2>3. CASE n # 0
    <3>1. n - 1 \in Nat /\ n - 1 \notin Unsolved
      <4>1. Unsolved \subseteq Nat
        OBVIOUS
      <4> HIDE DEF Unsolved
      <4>2. QED
        BY <2>1, <2>3, <4>1
    <3>2. PICK g \in [SUBSET S -> Int] : Solves(g, n - 1)
      BY <3>1
    <3> DEFINE h == SumStep(f, S, g)
    <3>3. h \in [SUBSET S -> Int]
      BY <1>3
    <3>4. Solves(h, n)
      <4> SUFFICES ASSUME NEW s \in SUBSET S, Cardinality(s) <= n
                   PROVE  h[s] = SumStep(f, S, h)[s]
        OBVIOUS
      <4>1. CASE s = {}
        BY <4>1 DEF SumStep
      <4>2. CASE s # {}
        <5> DEFINE r == s \ {Some(s)}
        <5>1. r \in SUBSET S /\ Cardinality(r) <= n - 1
          BY <1>1, <1>2, <4>2
        <5>2. h[r] = g[r]
          BY <3>2, <5>1
        <5>3. h[s] = f[Some(s)] + g[r] /\ SumStep(f, S, h)[s] = f[Some(s)] + h[r]
          BY <4>2 DEF SumStep
        <5>4. QED
          BY <5>2, <5>3
      <4>3. QED
        BY <4>1, <4>2
    <3>5. QED
      BY <3>3, <3>4
  <2>4. QED
    BY <2>2, <2>3
<1>5. PICK g \in [SUBSET S -> Int] : Solves(g, Cardinality(S))
  BY <1>1, <1>4
<1>6. \A s \in SUBSET S : Cardinality(s) <= Cardinality(S)
  BY FS_Subset
<1>7. g = SumStep(f, S, g)
  <2>1. \A s \in SUBSET S : g[s] = SumStep(f, S, g)[s]
    BY <1>5, <1>6
  <2>2. SumStep(f, S, g) \in [SUBSET S -> Int]
    BY <1>3
  <2>3. QED
    BY <2>1, <2>2
<1>8. Total(f, S) = SumStep(f, S, Total(f, S))
  BY <1>7 DEF Total
<1> DEFINE T == Total(f, S)
<1>9. T = SumStep(f, S, T)
  BY <1>8
<1> HIDE DEF T
<1>10. \A s \in SUBSET S : T[s] = IF s = {} THEN 0 ELSE f[Some(s)] + T[s \ {Some(s)}]
  BY <1>9 DEF SumStep
<1>11. \A s \in SUBSET S : T[s] \in Int
  <2> DEFINE Bad == {s \in SUBSET S : T[s] \notin Int}
  <2> SUFFICES ASSUME Bad # {} PROVE FALSE
    OBVIOUS
  <2>1. PICK s \in Bad : \A t \in Bad : Cardinality(s) <= Cardinality(t)
    <3>1. Bad \in SUBSET (SUBSET S)
      OBVIOUS
    <3> HIDE DEF Bad
    <3>2. QED
      BY <3>1, SmallestSet
  <2>2. s # {}
    BY <1>10
  <2>3. s \ {Some(s)} \notin Bad
    BY <1>1, <1>2, <2>1, <2>2
  <2>4. f[Some(s)] \in Int /\ T[s \ {Some(s)}] \in Int
    BY <1>2, <2>2, <2>3
  <2>5. T[s] = f[Some(s)] + T[s \ {Some(s)}]
    BY <1>10, <2>2
  <2>6. QED
    BY <2>4, <2>5
<1>12. T \in [SUBSET S -> Int]
  <2>1. T = [s \in SUBSET S |-> T[s]]
    BY <1>9 DEF SumStep
  <2>2. QED
    BY <1>11, <2>1
<1>13. QED
  BY <1>9, <1>12 DEF T

\* The value of the sum does not depend on the set it is a part of.
LEMMA TotalOfPart ==
  ASSUME NEW S, IsFiniteSet(S), NEW f, \A x \in S : f[x] \in Int, NEW R \in SUBSET S
  PROVE  SumFunctionOnSet(f, R) = Total(f, S)[R]
<1> DEFINE T == Total(f, S)
           P == Total(f, R)
           Bad == {s \in SUBSET R : T[s] # P[s]}
<1>1. IsFiniteSet(R)
  BY FS_Subset
<1>2. \A s \in SUBSET S : T[s] = IF s = {} THEN 0 ELSE f[Some(s)] + T[s \ {Some(s)}]
  <2>1. T = SumStep(f, S, T)
    BY TotalSolves
  <2> HIDE DEF T
  <2>2. QED
    BY <2>1 DEF SumStep
<1>3. \A s \in SUBSET R : P[s] = IF s = {} THEN 0 ELSE f[Some(s)] + P[s \ {Some(s)}]
  <2>1. P = SumStep(f, R, P)
    BY <1>1, TotalSolves
  <2> HIDE DEF P
  <2>2. QED
    BY <2>1 DEF SumStep
<1>4. Bad = {}
  <2> HIDE DEF T, P
  <2> SUFFICES ASSUME Bad # {} PROVE FALSE
    OBVIOUS
  <2>1. PICK s \in Bad : \A t \in Bad : Cardinality(s) <= Cardinality(t)
    <3>1. Bad \in SUBSET (SUBSET R)
      OBVIOUS
    <3> HIDE DEF Bad
    <3>2. QED
      BY <1>1, <3>1, SmallestSet
  <2>2. s # {}
    BY <1>2, <1>3
  <2>3. /\ Some(s) \in s /\ s \ {Some(s)} \in SUBSET R
        /\ Cardinality(s \ {Some(s)}) = Cardinality(s) - 1 /\ Cardinality(s) \in Nat
    BY <1>1, <2>2, FS_Subset, FS_CardinalityType, FS_RemoveElement DEF Some
  <2>4. T[s \ {Some(s)}] = P[s \ {Some(s)}]
    BY <2>1, <2>3
  <2>5. QED
    BY <1>2, <1>3, <2>2, <2>4
<1>5. P[R] = T[R]
  BY <1>4
<1>6. QED
  BY <1>5, SumIsTotal

\* A sum of nothing.
LEMMA SumEmpty ==
  ASSUME NEW f
  PROVE  SumFunctionOnSet(f, {}) = 0
<1> DEFINE T == Total(f, {})
<1>1. T = SumStep(f, {}, T)
  BY FS_EmptySet, TotalSolves
<1> HIDE DEF T
<1>2. T[{}] = 0
  BY <1>1 DEF SumStep
<1>3. QED
  BY <1>2, SumIsTotal DEF T

\* A sum of integers is an integer.
LEMMA SumInt ==
  ASSUME NEW S, IsFiniteSet(S), NEW f, \A x \in S : f[x] \in Int
  PROVE  SumFunctionOnSet(f, S) \in Int
  BY TotalSolves, SumIsTotal

\* Any element may be taken out first.
LEMMA SumRemove ==
  ASSUME NEW S, IsFiniteSet(S), NEW f, \A x \in S : f[x] \in Int, NEW x \in S
  PROVE  SumFunctionOnSet(f, S) = f[x] + SumFunctionOnSet(f, S \ {x})
<1> DEFINE T == Total(f, S)
           Bad == {s \in SUBSET S : \E y \in s : T[s] # f[y] + T[s \ {y}]}
<1>1. \A s \in SUBSET S : T[s] = IF s = {} THEN 0 ELSE f[Some(s)] + T[s \ {Some(s)}]
  <2>1. T = SumStep(f, S, T)
    BY TotalSolves
  <2> HIDE DEF T
  <2>2. QED
    BY <2>1 DEF SumStep
<1>2. \A s \in SUBSET S : T[s] \in Int
  <2>1. T \in [SUBSET S -> Int]
    BY TotalSolves
  <2> HIDE DEF T
  <2>2. QED
    BY <2>1
<1>3. Bad = {}
  <2> HIDE DEF T
  <2> SUFFICES ASSUME Bad # {} PROVE FALSE
    OBVIOUS
  <2>1. PICK s \in Bad : \A t \in Bad : Cardinality(s) <= Cardinality(t)
    <3>1. Bad \in SUBSET (SUBSET S)
      OBVIOUS
    <3> HIDE DEF Bad
    <3>2. QED
      BY <3>1, SmallestSet
  <2>2. PICK y \in s : T[s] # f[y] + T[s \ {y}]
    OBVIOUS
  <2> DEFINE c == Some(s)
             r == s \ {y, c}
  <2>3. s \in SUBSET S /\ c \in s
    BY <2>2 DEF Some
  <2> HIDE DEF c
  <2>4. T[s] = f[c] + T[s \ {c}] /\ y # c
    BY <1>1, <2>2, <2>3 DEF c
  <2>5. ASSUME NEW z \in s
        PROVE  \A w \in s \ {z} : T[s \ {z}] = f[w] + T[(s \ {z}) \ {w}]
    <3>1. /\ s \ {z} \in SUBSET S /\ Cardinality(s) \in Nat
          /\ Cardinality(s \ {z}) = Cardinality(s) - 1
      BY <2>3, FS_Subset, FS_CardinalityType, FS_RemoveElement
    <3>2. s \ {z} \notin Bad
      BY <2>1, <3>1
    <3>3. QED
      BY <3>1, <3>2
  <2>6. T[s \ {c}] = f[y] + T[r]
    <3>1. y \in s \ {c} /\ (s \ {c}) \ {y} = r
      BY <2>2, <2>4
    <3>2. QED
      BY <2>3, <2>5, <3>1
  <2>7. T[s \ {y}] = f[c] + T[r]
    <3>1. c \in s \ {y} /\ (s \ {y}) \ {c} = r
      BY <2>3, <2>4
    <3>2. QED
      BY <2>2, <2>5, <3>1
  <2>8. f[c] \in Int /\ f[y] \in Int /\ r \in SUBSET S
    BY <2>2, <2>3
  <2>9. T[r] \in Int
    BY <1>2, <2>8
  <2>10. QED
    BY <2>2, <2>4, <2>6, <2>7, <2>8, <2>9
<1>4. T[S] = f[x] + T[S \ {x}]
  BY <1>3
<1>5. QED
  BY <1>4, TotalOfPart

\* Adding an element adds its value.
LEMMA SumAdd ==
  ASSUME NEW S, IsFiniteSet(S), NEW x, x \notin S, NEW f, \A y \in S \cup {x} : f[y] \in Int
  PROVE  SumFunctionOnSet(f, S \cup {x}) = SumFunctionOnSet(f, S) + f[x]
<1>1. IsFiniteSet(S \cup {x}) /\ (S \cup {x}) \ {x} = S
  BY FS_AddElement
<1>2. SumFunctionOnSet(f, S) \in Int
  BY SumInt
<1>3. QED
  BY <1>1, <1>2, SumRemove

\* The sum depends on the function at the elements of the set only.
LEMMA SumAgree ==
  ASSUME NEW S, IsFiniteSet(S), NEW f, NEW g, \A x \in S : f[x] \in Int /\ f[x] = g[x]
  PROVE  SumFunctionOnSet(f, S) = SumFunctionOnSet(g, S)
<1> DEFINE Bad == {s \in SUBSET S : SumFunctionOnSet(f, s) # SumFunctionOnSet(g, s)}
<1> SUFFICES ASSUME Bad # {} PROVE FALSE
  OBVIOUS
<1>1. PICK s \in Bad : \A t \in Bad : Cardinality(s) <= Cardinality(t)
  <2>1. Bad \in SUBSET (SUBSET S)
    OBVIOUS
  <2> HIDE DEF Bad
  <2>2. QED
    BY <2>1, SmallestSet
<1>2. s # {}
  BY SumEmpty
<1>3. PICK x \in s : TRUE
  BY <1>2
<1>4. /\ IsFiniteSet(s) /\ s \ {x} \in SUBSET S /\ Cardinality(s) \in Nat
      /\ Cardinality(s \ {x}) = Cardinality(s) - 1
  BY FS_Subset, FS_CardinalityType, FS_RemoveElement
<1>5. s \ {x} \notin Bad
  BY <1>1, <1>4
<1>6. /\ SumFunctionOnSet(f, s) = f[x] + SumFunctionOnSet(f, s \ {x})
      /\ SumFunctionOnSet(g, s) = g[x] + SumFunctionOnSet(g, s \ {x})
  <2>1. \A y \in s : f[y] \in Int /\ g[y] \in Int
    OBVIOUS
  <2>2. QED
    BY <1>4, <2>1, SumRemove
<1>7. QED
  BY <1>4, <1>5, <1>6

\* What is taken away counts for what it held.
LEMMA SumWithout ==
  ASSUME NEW S, IsFiniteSet(S), NEW f, \A x \in S : f[x] \in Int, NEW R \in SUBSET S
  PROVE  SumFunctionOnSet(f, S \ R) = SumFunctionOnSet(f, S) - SumFunctionOnSet(f, R)
<1> DEFINE Sum(s) == SumFunctionOnSet(f, s)
           Bad == {s \in SUBSET S : Sum(S \ s) # Sum(S) - Sum(s)}
<1>1. \A s \in SUBSET S : /\ IsFiniteSet(s) /\ Sum(s) \in Int /\ Cardinality(s) \in Nat
                          /\ \A x \in s : Sum(s) = f[x] + Sum(s \ {x})
  <2> SUFFICES ASSUME NEW s \in SUBSET S
               PROVE  /\ IsFiniteSet(s) /\ Sum(s) \in Int /\ Cardinality(s) \in Nat
                      /\ \A x \in s : Sum(s) = f[x] + Sum(s \ {x})
    OBVIOUS
  <2>1. IsFiniteSet(s) /\ \A x \in s : f[x] \in Int
    BY FS_Subset
  <2>2. QED
    BY <2>1, FS_CardinalityType, SumInt, SumRemove
<1>2. Sum({}) = 0
  BY SumEmpty
<1> HIDE DEF Sum
<1> SUFFICES ASSUME Bad # {} PROVE FALSE
  BY DEF Sum
<1>3. PICK s \in Bad : \A t \in Bad : Cardinality(s) <= Cardinality(t)
  <2>1. Bad \in SUBSET (SUBSET S)
    OBVIOUS
  <2> HIDE DEF Bad
  <2>2. QED
    BY <2>1, SmallestSet
<1>4. s # {}
  <2> SUFFICES ASSUME s = {} PROVE FALSE
    OBVIOUS
  <2>1. S \ s = S /\ Sum(S) \in Int
    BY <1>1
  <2>2. QED
    BY <1>2, <2>1
<1>5. PICK x \in s : TRUE
  BY <1>4
<1> DEFINE r == s \ {x}
<1>6. r \in SUBSET S /\ Cardinality(r) = Cardinality(s) - 1 /\ Cardinality(s) \in Nat
  BY <1>1, FS_RemoveElement
<1>7. Sum(S \ r) = Sum(S) - Sum(r)
  BY <1>3, <1>6
<1>8. Sum(s) = f[x] + Sum(r)
  BY <1>1
<1>9. Sum(S \ r) = f[x] + Sum(S \ s)
  <2>1. x \in S \ r /\ (S \ r) \ {x} = S \ s /\ S \ r \in SUBSET S
    OBVIOUS
  <2>2. QED
    BY <1>1, <2>1
<1>10. Sum(S) \in Int /\ Sum(r) \in Int /\ Sum(S \ s) \in Int /\ f[x] \in Int
  BY <1>1, <1>6
<1>11. QED
  BY <1>7, <1>8, <1>9, <1>10

\* A sum of natural numbers is a natural number.
LEMMA SumNat ==
  ASSUME NEW S, IsFiniteSet(S), NEW f, \A x \in S : f[x] \in Nat
  PROVE  SumFunctionOnSet(f, S) \in Nat
<1> DEFINE Bad == {s \in SUBSET S : SumFunctionOnSet(f, s) \notin Nat}
<1> SUFFICES ASSUME Bad # {} PROVE FALSE
  OBVIOUS
<1>1. PICK s \in Bad : \A t \in Bad : Cardinality(s) <= Cardinality(t)
  <2>1. Bad \in SUBSET (SUBSET S)
    OBVIOUS
  <2> HIDE DEF Bad
  <2>2. QED
    BY <2>1, SmallestSet
<1>2. s # {}
  BY SumEmpty
<1>3. PICK x \in s : TRUE
  BY <1>2
<1>4. /\ IsFiniteSet(s) /\ s \ {x} \in SUBSET S /\ Cardinality(s) \in Nat
      /\ Cardinality(s \ {x}) = Cardinality(s) - 1
  BY FS_Subset, FS_CardinalityType, FS_RemoveElement
<1>5. SumFunctionOnSet(f, s \ {x}) \in Nat /\ f[x] \in Nat
  BY <1>1, <1>4
<1>6. SumFunctionOnSet(f, s) = f[x] + SumFunctionOnSet(f, s \ {x})
  <2>1. \A y \in s : f[y] \in Int
    OBVIOUS
  <2>2. QED
    BY <1>4, <2>1, SumRemove
<1>7. QED
  BY <1>5, <1>6

-------------------------------------------------------------------------------
(* Sequences and the sets of their elements.                                  *)

\* Dropping the last element of a sequence only drops elements.
LEMMA FrontFacts ==
  ASSUME NEW S, NEW s \in Seq(S), s # <<>>
  PROVE  Front(s) \in Seq(S) /\ ToSet(Front(s)) \subseteq ToSet(s)
  BY DEF Front, ToSet

\* Dropping the last element keeps the others where they are.
LEMMA FrontAt ==
  ASSUME NEW S, NEW s \in Seq(S), s # <<>>
  PROVE  /\ Front(s) \in Seq(S) /\ Len(Front(s)) = Len(s) - 1
         /\ \A i \in 1 .. Len(s) - 1 : Front(s)[i] = s[i]
<1>1. ASSUME NEW i \in DOMAIN s
      PROVE  /\ SubSeq(s, 1, i - 1) \in Seq(S) /\ Len(SubSeq(s, 1, i - 1)) = i - 1
             /\ \A k \in 1 .. i - 1 : SubSeq(s, 1, i - 1)[k] = s[k]
  OBVIOUS
<1>2. Len(s) \in DOMAIN s
  OBVIOUS
<1>3. QED
  BY <1>1, <1>2 DEF Front

\* Appending adds exactly the appended element.
LEMMA AppendFacts ==
  ASSUME NEW S, NEW s \in Seq(S), NEW v \in S
  PROVE  Append(s, v) \in Seq(S) /\ ToSet(Append(s, v)) = ToSet(s) \cup {v}
<1>1. /\ Append(s, v) \in Seq(S) /\ DOMAIN Append(s, v) = 1 .. Len(s) + 1
      /\ \A i \in 1 .. Len(s) : Append(s, v)[i] = s[i]
      /\ Append(s, v)[Len(s) + 1] = v
  OBVIOUS
<1>2. DOMAIN s = 1 .. Len(s) /\ Len(s) \in Nat
  OBVIOUS
<1>3. DOMAIN Append(s, v) = DOMAIN s \cup {Len(s) + 1}
  BY <1>1, <1>2
<1>4. QED
  BY <1>1, <1>2, <1>3 DEF ToSet

\* Appending keeps the elements where they are.
LEMMA AppendAt ==
  ASSUME NEW S, NEW s \in Seq(S), NEW v \in S
  PROVE  /\ Append(s, v) \in Seq(S) /\ Len(Append(s, v)) = Len(s) + 1
         /\ \A i \in 1 .. Len(s) : Append(s, v)[i] = s[i]
         /\ Append(s, v)[Len(s) + 1] = v
  OBVIOUS

\* A new element keeps the elements of a sequence different.
LEMMA AppendDistinct ==
  ASSUME NEW S, NEW s \in Seq(S), NEW v \in S, v \notin ToSet(s),
         \A i, j \in DOMAIN s : s[i] = s[j] => i = j
  PROVE  \A i, j \in DOMAIN Append(s, v) : Append(s, v)[i] = Append(s, v)[j] => i = j
<1> DEFINE k == Len(s)
           t == Append(s, v)
<1>1. /\ k \in Nat /\ DOMAIN s = 1 .. k /\ DOMAIN t = 1 .. k + 1
      /\ t[k + 1] = v /\ \A i \in 1 .. k : t[i] = s[i]
  OBVIOUS
<1>2. \A i \in 1 .. k : s[i] # v
  BY <1>1 DEF ToSet
<1> HIDE DEF k, t
<1>3. ASSUME NEW i \in 1 .. k + 1, NEW j \in 1 .. k + 1, t[i] = t[j] PROVE i = j
  BY <1>1, <1>2, <1>3
<1>4. QED
  BY <1>1, <1>3 DEF t

\* Removing at an index closes the gap.
LEMMA RemoveAtFacts ==
  ASSUME NEW S, NEW s \in Seq(S), NEW i \in DOMAIN s
  PROVE  /\ RemoveAt(s, i) \in Seq(S) /\ Len(RemoveAt(s, i)) = Len(s) - 1
         /\ \A k \in 1 .. Len(s) - 1 :
              RemoveAt(s, i)[k] = IF k < i THEN s[k] ELSE s[k + 1]
<1> DEFINE a == SubSeq(s, 1, i - 1)
           b == SubSeq(s, i + 1, Len(s))
<1>1. a \in Seq(S) /\ Len(a) = i - 1 /\ \A k \in 1 .. i - 1 : a[k] = s[k]
  OBVIOUS
<1>2. b \in Seq(S) /\ Len(b) = Len(s) - i /\ \A k \in 1 .. Len(s) - i : b[k] = s[k + i]
  OBVIOUS
<1>3. RemoveAt(s, i) = a \o b
  BY DEF RemoveAt
<1> HIDE DEF a, b
<1>4. a \o b \in Seq(S) /\ Len(a \o b) = Len(s) - 1
  BY <1>1, <1>2
<1>5. ASSUME NEW k \in 1 .. Len(s) - 1
      PROVE  (a \o b)[k] = IF k < i THEN s[k] ELSE s[k + 1]
  <2>1. (a \o b)[k] = IF k <= Len(a) THEN a[k] ELSE b[k - Len(a)]
    BY <1>1, <1>2
  <2>2. CASE k < i
    BY <2>1, <2>2, <1>1
  <2>3. CASE ~ (k < i)
    <3>1. k - Len(a) \in 1 .. Len(s) - i /\ (k - Len(a)) + i = k + 1 /\ ~ (k <= Len(a))
      BY <2>3, <1>1
    <3>2. (a \o b)[k] = s[k + 1]
      BY <3>1, <2>1, <1>2
    <3>3. QED
      BY <3>2, <2>3
  <2>4. QED
    BY <2>2, <2>3
<1>6. QED
  BY <1>3, <1>4, <1>5

\* Removing the only occurrence of an element removes the element.
LEMMA RemoveOnlyFacts ==
  ASSUME NEW S, NEW s \in Seq(S), NEW i \in DOMAIN s,
         \A k, l \in DOMAIN s : s[k] = s[l] => k = l
  PROVE  LET r == RemoveAt(s, i)
         IN  /\ \A k, l \in DOMAIN r : r[k] = r[l] => k = l
             /\ ToSet(r) = ToSet(s) \ {s[i]}
<1> DEFINE r == RemoveAt(s, i)
           at(k) == IF k < i THEN k ELSE k + 1
<1>1. r \in Seq(S) /\ Len(r) = Len(s) - 1 /\ i \in 1 .. Len(s) /\ DOMAIN r = 1 .. Len(s) - 1
      /\ DOMAIN s = 1 .. Len(s)
  BY RemoveAtFacts
<1>2. \A k \in 1 .. Len(s) - 1 : r[k] = s[at(k)] /\ at(k) \in 1 .. Len(s) /\ at(k) # i
  <2>1. \A k \in 1 .. Len(s) - 1 : r[k] = s[at(k)]
    BY RemoveAtFacts
  <2>2. \A k \in 1 .. Len(s) - 1 : at(k) \in 1 .. Len(s) /\ at(k) # i
    BY <1>1
  <2>3. QED
    BY <2>1, <2>2
<1> HIDE DEF r
<1>3. ASSUME NEW k \in DOMAIN r, NEW l \in DOMAIN r, r[k] = r[l] PROVE k = l
  <2>1. at(k) = at(l)
    BY <1>1, <1>2, <1>3
  <2>2. QED
    BY <2>1, <1>1
<1>4. ASSUME NEW x \in ToSet(r) PROVE x \in ToSet(s) \ {s[i]}
  <2>1. PICK k \in 1 .. Len(s) - 1 : x = r[k]
    BY <1>1 DEF ToSet
  <2>2. x = s[at(k)] /\ at(k) \in DOMAIN s /\ at(k) # i
    BY <1>1, <1>2, <2>1
  <2> HIDE DEF at
  <2>3. QED
    BY <2>2 DEF ToSet
<1>5. ASSUME NEW x \in ToSet(s), x # s[i] PROVE x \in ToSet(r)
  <2>1. PICK l \in 1 .. Len(s) : x = s[l]
    BY DEF ToSet
  <2> DEFINE k == IF l < i THEN l ELSE l - 1
  <2>2. k \in 1 .. Len(s) - 1 /\ at(k) = l
    BY <2>1, <1>1, <1>5
  <2> HIDE DEF k, at
  <2>3. r[k] = x /\ k \in DOMAIN r
    BY <2>2, <2>1, <1>1, <1>2
  <2>4. QED
    BY <2>3 DEF ToSet
<1>6. QED
  BY <1>3, <1>4, <1>5 DEF r

\* An element put in the place of another, in a sequence that has each once.
LEMMA ReplaceOnlyFacts ==
  ASSUME NEW S, NEW s \in Seq(S), NEW i \in DOMAIN s, NEW v \in S, v \notin ToSet(s),
         \A k, l \in DOMAIN s : s[k] = s[l] => k = l
  PROVE  LET r == ReplaceAt(s, i, v)
         IN  /\ r \in Seq(S)
             /\ \A k, l \in DOMAIN r : r[k] = r[l] => k = l
             /\ ToSet(r) = (ToSet(s) \ {s[i]}) \cup {v}
<1> DEFINE r == ReplaceAt(s, i, v)
<1>1. r \in Seq(S) /\ DOMAIN r = DOMAIN s /\ \A k \in DOMAIN s : r[k] = IF k = i THEN v ELSE s[k]
  BY DEF ReplaceAt
<1> HIDE DEF r
<1>2. \A k \in DOMAIN s : s[k] # v
  BY DEF ToSet
<1>3. \A k, l \in DOMAIN r : r[k] = r[l] => k = l
  BY <1>1, <1>2
<1>4. ToSet(r) = (ToSet(s) \ {s[i]}) \cup {v}
  <2>1. ASSUME NEW x \in ToSet(r) PROVE x \in (ToSet(s) \ {s[i]}) \cup {v}
    BY <1>1 DEF ToSet
  <2>2. ASSUME NEW x \in ToSet(s), x # s[i] PROVE x \in ToSet(r)
    BY <1>1, <2>2 DEF ToSet
  <2>3. v \in ToSet(r)
    BY <1>1 DEF ToSet
  <2>4. QED
    BY <2>1, <2>2, <2>3
<1>5. QED
  BY <1>1, <1>3, <1>4 DEF r

\* An element put in front of a sequence that does not have it.
LEMMA PrependOnlyFacts ==
  ASSUME NEW S, NEW s \in Seq(S), NEW v \in S, v \notin ToSet(s),
         \A k, l \in DOMAIN s : s[k] = s[l] => k = l
  PROVE  LET r == <<v>> \o s
         IN  /\ r \in Seq(S)
             /\ \A k, l \in DOMAIN r : r[k] = r[l] => k = l
             /\ ToSet(r) = ToSet(s) \cup {v}
<1> DEFINE r == <<v>> \o s
<1>1. r \in Seq(S) /\ DOMAIN s = 1 .. Len(s) /\ Len(s) \in Nat
  OBVIOUS
<1>2. DOMAIN r = 1 .. Len(s) + 1
  OBVIOUS
<1>3. \A k \in 1 .. Len(s) + 1 : r[k] = IF k = 1 THEN v ELSE s[k - 1]
  OBVIOUS
<1> HIDE DEF r
<1>4. \A k \in DOMAIN s : s[k] # v
  BY DEF ToSet
<1>5. \A k, l \in DOMAIN r : r[k] = r[l] => k = l
  <2>1. ASSUME NEW k \in DOMAIN r, NEW l \in DOMAIN r, r[k] = r[l] PROVE k = l
    <3>1. k # 1 => k - 1 \in DOMAIN s /\ r[k] = s[k - 1]
      BY <1>1, <1>2, <1>3
    <3>2. l # 1 => l - 1 \in DOMAIN s /\ r[l] = s[l - 1]
      BY <1>1, <1>2, <1>3
    <3>3. (k = 1 => r[k] = v) /\ (l = 1 => r[l] = v)
      BY <1>1, <1>2, <1>3
    <3>4. k # 1 /\ l # 1 => k - 1 = l - 1
      BY <2>1, <3>1, <3>2
    <3>5. QED
      BY <1>1, <1>2, <1>4, <2>1, <3>1, <3>2, <3>3, <3>4
  <2>2. QED
    BY <2>1
<1>6. ToSet(r) = ToSet(s) \cup {v}
  <2>1. ASSUME NEW x \in ToSet(r) PROVE x \in ToSet(s) \cup {v}
    <3>1. PICK k \in DOMAIN r : x = r[k]
      BY DEF ToSet
    <3>2. k # 1 => k - 1 \in DOMAIN s /\ r[k] = s[k - 1]
      BY <1>1, <1>2, <1>3
    <3>3. k = 1 => r[k] = v
      BY <1>1, <1>2, <1>3
    <3>4. QED
      BY <3>1, <3>2, <3>3 DEF ToSet
  <2>2. ASSUME NEW x \in ToSet(s) PROVE x \in ToSet(r)
    <3>1. PICK k \in DOMAIN s : x = s[k]
      BY DEF ToSet
    <3>2. k + 1 \in DOMAIN r /\ k + 1 # 1 /\ k + 1 - 1 = k
      BY <1>1, <1>2
    <3>3. r[k + 1] = s[k]
      BY <1>2, <1>3, <3>2
    <3>4. QED
      BY <3>1, <3>2, <3>3 DEF ToSet
  <2>3. v \in ToSet(r)
    <3>1. 1 \in DOMAIN r /\ r[1] = v
      BY <1>1, <1>2, <1>3
    <3>2. QED
      BY <3>1 DEF ToSet
  <2>4. QED
    BY <2>1, <2>2, <2>3
<1>7. QED
  BY <1>1, <1>5, <1>6 DEF r

-------------------------------------------------------------------------------
(* Multiples.                                                                 *)

\* A multiple of a number is it some times over.
LEMMA MultipleIs ==
  ASSUME NEW d \in Nat \ {0}, NEW m \in Nat
  PROVE  m % d = 0 <=> \E k \in Nat : m = k * d
<1>1. m = d * (m \div d) + (m % d) /\ m \div d \in Nat
  OBVIOUS
<1>2. m % d = 0 => m = (m \div d) * d
  BY <1>1
<1>3. \A k \in Nat : (k * d) % d = 0
  OBVIOUS
<1>4. QED
  BY <1>1, <1>2, <1>3

\* The sum and the difference of multiples are multiples.
LEMMA MultiplesAdd ==
  ASSUME NEW d \in Nat \ {0}, NEW m \in Nat, NEW n \in Nat, m % d = 0, n % d = 0
  PROVE  (m + n) % d = 0 /\ (n <= m => (m - n) % d = 0)
<1>1. PICK k \in Nat : m = k * d
  BY MultipleIs
<1>2. PICK l \in Nat : n = l * d
  BY MultipleIs
<1>3. \A i \in Int : (i * d) % d = 0
  OBVIOUS
<1>4. k * d + l * d = (k + l) * d /\ k * d - l * d = (k - l) * d
  OBVIOUS
<1>5. m + n = (k + l) * d /\ m - n = (k - l) * d
  BY <1>1, <1>2, <1>4
<1>6. k + l \in Int /\ k - l \in Int
  OBVIOUS
<1>7. QED
  BY <1>3, <1>5, <1>6

\* Two multiples lie as far apart as the number at least.
LEMMA MultiplesApart ==
  ASSUME NEW d \in Nat \ {0}, NEW m \in Nat, NEW n \in Nat, m % d = 0, n % d = 0, m < n
  PROVE  m + d <= n
<1>1. PICK k \in Nat : m = k * d
  BY MultipleIs
<1>2. PICK l \in Nat : n = l * d
  BY MultipleIs
<1>3. k * d < l * d
  BY <1>1, <1>2
<1>4. k < l
  BY <1>3
<1>5. (k + 1) * d <= l * d
  BY <1>4
<1>6. (k + 1) * d = k * d + d
  OBVIOUS
<1>7. QED
  BY <1>1, <1>2, <1>5, <1>6

\* A number less its rest is the multiple below it.
LEMMA RoundedDown ==
  ASSUME NEW d \in Nat \ {0}, NEW m \in Nat
  PROVE  /\ m % d \in 0 .. d - 1
         /\ m - (m % d) \in Nat /\ (m - (m % d)) % d = 0
<1>1. m = d * (m \div d) + (m % d) /\ m \div d \in Nat /\ m % d \in 0 .. d - 1
  OBVIOUS
<1>2. d * (m \div d) = (m \div d) * d /\ (m \div d) * d \in Nat
  BY <1>1
<1>3. m - (m % d) = (m \div d) * d
  BY <1>1, <1>2
<1>4. ((m \div d) * d) % d = 0
  BY <1>1
<1>5. QED
  BY <1>1, <1>2, <1>3, <1>4

-------------------------------------------------------------------------------
(* Recursive functions on an interval.                                        *)

IsStep(st, S, a, n) == st \in [S \X (a .. n) -> S]
RecursionStep(a, n, x, st, g) ==
  [i \in a .. n |-> IF i = a THEN x ELSE st[<<g[i - 1], i>>]]

\* A recursion from the first element of an interval has a solution.
LEMMA IntervalRecursion ==
  ASSUME NEW S, NEW a \in Int, NEW n \in Int, a <= n, NEW x \in S,
         NEW st, IsStep(st, S, a, n)
  PROVE  \E g \in [a .. n -> S] : g = RecursionStep(a, n, x, st, g)
<1> DEFINE Step(g, m) == [i \in a .. m |-> IF i = a THEN x ELSE st[<<g[i - 1], i>>]]
           Solvable(m) == \E g \in [a .. m -> S] : g = Step(g, m)
           Unsolved == {m \in Nat : a + m <= n /\ ~Solvable(a + m)}
<1>1. Solvable(a)
  <2> DEFINE g == [i \in a .. a |-> x]
  <2>1. g \in [a .. a -> S] /\ g = Step(g, a)
    OBVIOUS
  <2>2. QED
    BY <2>1
<1>2. ASSUME NEW m \in Int, a < m, m <= n, Solvable(m - 1)
      PROVE  Solvable(m)
  <2>1. PICK g \in [a .. m - 1 -> S] : g = Step(g, m - 1)
    BY <1>2
  <2> DEFINE h == [i \in a .. m |-> IF i = m THEN st[<<g[m - 1], m>>] ELSE g[i]]
  <2>2. g[m - 1] \in S /\ <<g[m - 1], m>> \in S \X (a .. n)
    BY <1>2
  <2>3. h \in [a .. m -> S]
    BY <1>2, <2>2 DEF IsStep
  <2>4. ASSUME NEW i \in a .. m
        PROVE  h[i] = IF i = a THEN x ELSE st[<<h[i - 1], i>>]
    <3>1. CASE i = m
      <4>1. h[i - 1] = g[m - 1] /\ h[i] = st[<<g[m - 1], m>>]
        BY <1>2, <3>1
      <4>2. i # a
        BY <1>2, <3>1
      <4>3. st[<<h[i - 1], i>>] = st[<<g[m - 1], m>>]
        BY ONLY <3>1, <4>1
      <4>4. QED
        BY ONLY <4>1, <4>2, <4>3
    <3>2. CASE i # m
      <4>1. i \in a .. m - 1 /\ h[i] = g[i] /\ (i # a => h[i - 1] = g[i - 1])
        BY <1>2, <3>2
      <4>2. g[i] = IF i = a THEN x ELSE st[<<g[i - 1], i>>]
        <5>1. g[i] = Step(g, m - 1)[i]
          BY <2>1
        <5>2. QED
          BY <4>1, <5>1
      <4>3. QED
        BY <4>1, <4>2
    <3>3. QED
      BY <3>1, <3>2
  <2>5. h = Step(h, m)
    <3>1. h = [i \in a .. m |-> h[i]]
      OBVIOUS
    <3> HIDE DEF h
    <3>2. QED
      BY <2>4, <3>1
  <2>6. QED
    BY <2>3, <2>5
<1>3. Unsolved = {}
  <2> SUFFICES ASSUME Unsolved # {} PROVE FALSE
    OBVIOUS
  <2>1. Unsolved \subseteq Nat
    OBVIOUS
  <2>2. PICK m \in Unsolved : \A k \in Unsolved : m <= k
    <3> HIDE DEF Unsolved
    <3>1. QED
      BY <2>1, LeastNatural
  <2> HIDE DEF Solvable
  <2>3. m # 0 /\ m \in Nat /\ a + m <= n /\ ~Solvable(a + m)
    BY <1>1, <2>2
  <2>4. m - 1 \in Nat /\ m - 1 \notin Unsolved
    <3> HIDE DEF Unsolved
    <3>1. QED
      BY <2>1, <2>2, <2>3
  <2>5. Solvable(a + (m - 1))
    BY <2>3, <2>4
  <2>6. a + m \in Int /\ a < a + m /\ (a + m) - 1 = a + (m - 1)
    BY <2>3
  <2>7. Solvable(a + m)
    BY <1>2, <2>3, <2>5, <2>6
  <2>8. QED
    BY <2>3, <2>7
<1>4. Solvable(n)
  <2>1. \E k \in Nat : a + k = n
    <3>1. n - a \in Nat /\ a + (n - a) = n
      OBVIOUS
    <3>2. QED
      BY <3>1
  <2>2. PICK k \in Nat : a + k = n
    BY <2>1
  <2> HIDE DEF Solvable
  <2>3. a + k <= n /\ k \notin Unsolved
    <3>1. a + k <= n
      BY <2>2
    <3>2. k \notin Unsolved
      BY ONLY <1>3
    <3>3. QED
      BY ONLY <3>1, <3>2
  <2>4. Solvable(a + k)
    BY <2>3
  <2>5. QED
    BY ONLY <2>2, <2>4
<1>5. QED
  BY <1>4 DEF RecursionStep

\* Counting from the first number at which a statement about an interval fails.
LEMMA IntervalInduction ==
  ASSUME NEW a \in Int, NEW n \in Int, NEW T, a \in T,
         \A m \in a .. n - 1 : m \in T => m + 1 \in T
  PROVE  \A m \in a .. n : m \in T
<1> DEFINE Bad == {k \in Nat : a + k <= n /\ a + k \notin T}
<1>1. Bad = {}
  <2> SUFFICES ASSUME Bad # {} PROVE FALSE
    OBVIOUS
  <2>1. Bad \subseteq Nat
    OBVIOUS
  <2>2. PICK k \in Bad : \A j \in Bad : k <= j
    <3> HIDE DEF Bad
    <3>1. QED
      BY <2>1, LeastNatural
  <2>3. k # 0 /\ k \in Nat /\ a + k <= n /\ a + k \notin T
    BY <2>2
  <2>4. k - 1 \in Nat /\ k - 1 \notin Bad
    <3> HIDE DEF Bad
    <3>1. QED
      BY <2>1, <2>2, <2>3
  <2>5. a + (k - 1) \in T /\ a + (k - 1) \in a .. n - 1 /\ (a + (k - 1)) + 1 = a + k
    BY <2>3, <2>4
  <2>6. QED
    BY <2>3, <2>5
<1>2. ASSUME NEW m \in a .. n PROVE m \in T
  <2>1. \E k \in Nat : a + k = m
    <3>1. m - a \in Nat /\ a + (m - a) = m
      OBVIOUS
    <3>2. QED
      BY <3>1
  <2>2. PICK k \in Nat : a + k = m
    BY <2>1
  <2>3. a + k <= n
    BY <2>2
  <2>4. a + k \in T
    BY <1>1, <2>3
  <2>5. QED
    BY <2>2, <2>4
<1>3. QED
  BY <1>2


===============================================================================
