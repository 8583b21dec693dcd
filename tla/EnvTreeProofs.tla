----------------------------- MODULE EnvTreeProofs -----------------------------
(***************************************************************************)
(* Proofs about EnvTree, for every number of environments, capabilities,   *)
(* limits, heap sizes and bounds.                                          *)
(***************************************************************************)
EXTENDS EnvTree, DataLemmas

USE EnvAssumption

-------------------------------------------------------------------------------
(* The structure, which holds whatever the host frees.                        *)

Distinct(s) == \A i, j \in DOMAIN s : s[i] = s[j] => i = j

\* A heap is mapped while its environment is in use or being torn down.
HeapsFollowState == \A e \in Envs : heapMapped[e] <=> state[e] # "uninit"

\* How many calls of piFreeEnv are in progress.
Depth == Len(frames)

\* The environments of the call stack are different, and all are being torn down
\* but a child whose creation failed, which its parent frees from the outside.
StackSound ==
  /\ \A i, j \in DOMAIN frames : frames[i].env = frames[j].env => i = j
  /\ \A i \in DOMAIN frames :
       IF frames[i].next = 0 THEN Depth = 1 /\ Alive(frames[i].env)
       ELSE state[frames[i].env] = "terminated"

TornDownOnStack ==
  \A e \in Envs : state[e] = "terminated" => \E i \in DOMAIN frames : frames[i].env = e

\* An array lists live environments that name its owner, each once.
ListsSound ==
  \A p \in Envs : Distinct(children[p])
                  /\ \A c \in ToSet(children[p]) : Alive(c) /\ parent[c] = p

LinksLive == \A c \in Envs : parent[c] # NULL => Alive(c)

FreedHaveNone == \A e \in Envs : state[e] = "uninit" => children[e] = <<>>

Structure ==
  /\ TypeOK
  /\ HeapsFollowState
  /\ StackSound /\ TornDownOnStack
  /\ ListsSound
  /\ LinksLive /\ FreedHaveNone

-------------------------------------------------------------------------------
(* What holds as long as the host frees no parent of two.                     *)

\* A parent that is named is in use and lists the child, unless the child is the
\* one whose creation just failed.
LinksListed ==
  \A c \in Envs : parent[c] # NULL =>
    /\ state[parent[c]] # "uninit"
    /\ c \in ToSet(children[parent[c]]) \/ frames = <<[env |-> c, next |-> 0]>>

\* What the call must free is narrow, and no loop has run past a child.
DoomedNarrow ==
  /\ \A d \in doomed : Len(children[d]) <= 1 /\ ToSet(children[d]) \subseteq doomed
  /\ \A i \in DOMAIN frames : frames[i].env \in doomed
                              /\ Len(children[frames[i].env]) + frames[i].next <= 2

\* What the call has not freed yet is on its stack or below an environment there.
RestIsBelow ==
  /\ Idle => doomed = {}
  /\ \A S \in SUBSET Envs :
       HasChildren(S) /\ (\A i \in DOMAIN frames : frames[i].env \in S)
         => \A d \in doomed : heapMapped[d] => d \in S

Narrow == LinksListed /\ DoomedNarrow /\ RestIsBelow /\ NoEscalation

-------------------------------------------------------------------------------
(* The structure is kept.                                                     *)

Frame == [env : Envs, next : Nat]

\* Taking a child off an array removes it from the array and nothing else.
LEMMA RemoveChildFacts ==
  ASSUME NEW s \in Seq(Envs), Distinct(s), NEW c
  PROVE  LET r == RemoveChildFromParent(s, c)
         IN  /\ r \in Seq(Envs) /\ Distinct(r) /\ ToSet(r) = ToSet(s) \ {c}
             /\ Len(r) <= Len(s)
             /\ c \in ToSet(s) => Len(r) = Len(s) - 1
<1>1. CASE c \notin ToSet(s)
  BY <1>1 DEF RemoveChildFromParent
<1>2. CASE c \in ToSet(s)
  <2> DEFINE T == {i \in DOMAIN s : s[i] = c}
             first(i) == s[i] = c /\ \A j \in 1 .. i - 1 : s[j] # c
             i == CHOOSE k \in DOMAIN s : first(k)
  <2>1. T # {} /\ T \subseteq Nat
    BY <1>2 DEF ToSet
  <2>2. PICK k \in T : \A j \in T : k <= j
    BY <2>1, LeastNatural
  <2>3. first(k) /\ k \in DOMAIN s
    BY <2>2
  <2>4. i \in DOMAIN s /\ s[i] = c
    BY <2>3
  <2>5. RemoveChildFromParent(s, c) = RemoveAt(s, i)
    BY <1>2 DEF RemoveChildFromParent
  <2> HIDE DEF i
  <2>6. RemoveAt(s, i) \in Seq(Envs) /\ Len(RemoveAt(s, i)) = Len(s) - 1
    BY <2>4, RemoveAtFacts
  <2>7. Distinct(RemoveAt(s, i)) /\ ToSet(RemoveAt(s, i)) = ToSet(s) \ {c}
    BY <2>4, RemoveOnlyFacts DEF Distinct
  <2>8. QED
    BY <2>5, <2>6, <2>7
<1>3. QED
  BY <1>1, <1>2

\* An empty array is the empty sequence.
LEMMA EmptyArray ==
  ASSUME NEW s \in Seq(Envs)
  PROVE  s = <<>> <=> ToSet(s) = {}
<1>1. ASSUME ToSet(s) = {} PROVE s = <<>>
  <2>1. Len(s) \in Nat /\ (Len(s) > 0 => 1 \in DOMAIN s)
    OBVIOUS
  <2>2. Len(s) = 0
    BY <1>1, <2>1 DEF ToSet
  <2>3. QED
    BY <2>2
<1>2. QED
  BY <1>1 DEF ToSet

\* piFreeEnv of a live environment takes it off the one array that can list it.
LEMMA EnterFacts ==
  ASSUME Structure, NEW e \in Envs, Alive(e), NEW below, Enter(e, below)
  PROVE  /\ state' = [state EXCEPT ![e] = "terminated"]
         /\ parent' = [parent EXCEPT ![e] = NULL]
         /\ frames' = Append(below, [env |-> e, next |-> 1])
         /\ children' \in [Envs -> Seq(Envs)]
         /\ \A p \in Envs : /\ Distinct(children'[p])
                            /\ ToSet(children'[p]) = ToSet(children[p]) \ {e}
                            /\ Len(children'[p]) <= Len(children[p])
                            /\ e \in ToSet(children[p])
                                 => Len(children'[p]) = Len(children[p]) - 1
<1>1. ~AlreadyFree(e)
  BY DEF AlreadyFree, Alive
<1>2. /\ state' = [state EXCEPT ![e] = "terminated"]
      /\ parent' = [parent EXCEPT ![e] = NULL]
      /\ frames' = Append(below, [env |-> e, next |-> 1])
      /\ children' = IF parent[e] = NULL THEN children
                     ELSE [children EXCEPT ![parent[e]] = RemoveChildFromParent(@, e)]
  BY <1>1 DEF Enter
<1>3. /\ children \in [Envs -> Seq(Envs)] /\ parent[e] \in Envs \cup {NULL}
      /\ \A p \in Envs : Distinct(children[p]) /\ children[p] \in Seq(Envs)
      /\ \A p \in Envs : e \in ToSet(children[p]) => parent[e] = p
  BY DEF Structure, TypeOK, ListsSound
<1>4. CASE parent[e] = NULL
  <2>1. \A p \in Envs : e \notin ToSet(children[p])
    BY <1>3, <1>4
  <2>2. children' = children
    BY <1>2, <1>4
  <2>3. \A p \in Envs : Len(children[p]) <= Len(children[p])
    BY <1>3
  <2>4. QED
    BY <1>2, <1>3, <2>1, <2>2, <2>3
<1>5. CASE parent[e] # NULL
  <2> DEFINE q == parent[e]
             r == RemoveChildFromParent(children[q], e)
  <2>1. q \in Envs /\ children' = [children EXCEPT ![q] = r]
    BY <1>2, <1>3, <1>5
  <2>2. /\ r \in Seq(Envs) /\ Distinct(r) /\ ToSet(r) = ToSet(children[q]) \ {e}
        /\ Len(r) <= Len(children[q])
        /\ e \in ToSet(children[q]) => Len(r) = Len(children[q]) - 1
    BY <1>3, <2>1, RemoveChildFacts
  <2> HIDE DEF r
  <2>3. children' \in [Envs -> Seq(Envs)]
    BY <1>3, <2>1, <2>2
  <2>4. ASSUME NEW p \in Envs
        PROVE  /\ Distinct(children'[p])
               /\ ToSet(children'[p]) = ToSet(children[p]) \ {e}
               /\ Len(children'[p]) <= Len(children[p])
               /\ e \in ToSet(children[p]) => Len(children'[p]) = Len(children[p]) - 1
    <3>1. CASE p = q
      <4>1. children'[p] = r
        BY <3>1, <2>1, <1>3
      <4>2. QED
        BY <4>1, <3>1, <2>2
    <3>2. CASE p # q
      <4>1. children'[p] = children[p] /\ e \notin ToSet(children[p])
        BY <3>2, <2>1, <1>3
      <4>2. Len(children[p]) <= Len(children[p])
        BY <1>3
      <4>3. QED
        BY <4>1, <4>2, <1>3
    <3>3. QED
      BY <3>1, <3>2
  <2>5. QED
    BY <1>2, <2>3, <2>4
<1>6. QED
  BY <1>4, <1>5

\* What the stack below a call must be for the call to keep the structure.
GoodBelow(below) ==
  /\ below \in Seq(Frame)
  /\ \A i, j \in DOMAIN below : below[i].env = below[j].env => i = j
  /\ \A i \in DOMAIN below : below[i].next # 0 /\ state[below[i].env] = "terminated"
  /\ \A d \in Envs : state[d] = "terminated" => \E i \in DOMAIN below : below[i].env = d

\* A call of piFreeEnv keeps the structure.
LEMMA EnterStructure ==
  ASSUME Structure, NEW e \in Envs, Alive(e), NEW below, GoodBelow(below),
         Enter(e, below), doomed' \subseteq Envs,
         UNCHANGED <<childCap, heapMapped, capVars>>
  PROVE  Structure'
<1> DEFINE f == [env |-> e, next |-> 1]
<1>1. /\ state' = [state EXCEPT ![e] = "terminated"]
      /\ parent' = [parent EXCEPT ![e] = NULL]
      /\ frames' = Append(below, f)
      /\ children' \in [Envs -> Seq(Envs)]
  BY EnterFacts
<1>2. \A p \in Envs : /\ Distinct(children'[p])
                      /\ ToSet(children'[p]) = ToSet(children[p]) \ {e}
                      /\ Len(children'[p]) <= Len(children[p])
  BY EnterFacts
<1>3. below \in Seq(Frame) /\ f \in Frame
  BY DEF GoodBelow, Frame
<1>4. /\ frames' \in Seq(Frame) /\ Len(frames') = Len(below) + 1
      /\ \A i \in 1 .. Len(below) : frames'[i] = below[i]
      /\ frames'[Len(below) + 1] = f
      /\ DOMAIN frames' = 1 .. Len(below) + 1 /\ DOMAIN below = 1 .. Len(below)
  BY <1>1, <1>3, AppendFacts
<1> HIDE DEF f
<1>5. f.env = e /\ f.next = 1
  BY DEF f
<1>6. \A d \in Envs : state'[d] = IF d = e THEN "terminated" ELSE state[d]
  BY <1>1 DEF Structure, TypeOK
<1>7. state[e] = "init"
  BY DEF Alive
<1>8. \A i \in 1 .. Len(below) :
        below[i].env # e /\ below[i].next # 0 /\ state'[below[i].env] = "terminated"
        /\ below[i].env \in Envs
  <2>1. ASSUME NEW i \in 1 .. Len(below)
        PROVE  /\ below[i].env # e /\ below[i].next # 0
               /\ state'[below[i].env] = "terminated" /\ below[i].env \in Envs
    <3>1. below[i] \in Frame
      BY <1>3
    <3>2. below[i].env \in Envs
      BY <3>1 DEF Frame
    <3>3. below[i].next # 0 /\ state[below[i].env] = "terminated"
      BY <1>4 DEF GoodBelow
    <3>4. QED
      BY <3>2, <3>3, <1>6, <1>7
  <2>2. QED
    BY <2>1
<1>9. TypeOK'
  <2>1. /\ state' \in [Envs -> {"uninit", "init", "terminated"}]
        /\ parent' \in [Envs -> Envs \cup {NULL}]
    BY <1>1 DEF Structure, TypeOK
  <2>2. \A p \in Envs : Len(children'[p]) <= childCap'[p]
    <3>1. ASSUME NEW p \in Envs PROVE Len(children'[p]) <= childCap[p]
      <4>1. /\ Len(children'[p]) \in Nat /\ Len(children[p]) \in Nat /\ childCap[p] \in Nat
            /\ Len(children[p]) <= childCap[p]
        BY <1>1 DEF Structure, TypeOK
      <4>2. QED
        BY <4>1, <1>2
    <3>2. QED
      BY <3>1
  <2>3. frames' \in Seq([env : Envs, next : Nat])
    BY <1>4 DEF Frame
  <2>4. QED
    BY <1>1, <2>1, <2>2, <2>3 DEF Structure, TypeOK, capVars
<1>10. HeapsFollowState'
  BY <1>6, <1>7 DEF Structure, HeapsFollowState
<1>11. StackSound'
  <2>1. \A i, j \in DOMAIN frames' : frames'[i].env = frames'[j].env => i = j
    BY <1>4, <1>5, <1>8, <1>3 DEF GoodBelow
  <2>2. \A i \in DOMAIN frames' :
          frames'[i].next # 0 /\ state'[frames'[i].env] = "terminated"
    BY <1>4, <1>5, <1>6, <1>8
  <2>3. QED
    BY <2>1, <2>2 DEF StackSound
<1>12. TornDownOnStack'
  <2>1. ASSUME NEW d \in Envs, state'[d] = "terminated"
        PROVE  \E i \in DOMAIN frames' : frames'[i].env = d
    <3>1. CASE d = e
      <4>1. Len(below) + 1 \in DOMAIN frames'
        BY <1>3, <1>4
      <4>2. QED
        BY <4>1, <3>1, <1>4, <1>5
    <3>2. CASE d # e
      <4>1. PICK i \in 1 .. Len(below) : below[i].env = d
        BY <2>1, <3>2, <1>6, <1>4 DEF GoodBelow
      <4>2. i \in DOMAIN frames' /\ frames'[i].env = d
        BY <4>1, <1>3, <1>4
      <4>3. QED
        BY <4>2
    <3>3. QED
      BY <3>1, <3>2
  <2>2. QED
    BY <2>1 DEF TornDownOnStack
<1>13. ListsSound'
  <2>1. ASSUME NEW p \in Envs, NEW c \in ToSet(children'[p])
        PROVE  state'[c] = "init" /\ parent'[c] = p
    <3>1. c \in ToSet(children[p]) /\ c # e
      BY <1>2
    <3>2. c \in Envs
      BY <3>1 DEF Structure, TypeOK, ToSet
    <3>3. state[c] = "init" /\ parent[c] = p
      BY <3>1 DEF Structure, ListsSound, Alive
    <3>4. QED
      BY <3>1, <3>2, <3>3, <1>1, <1>6 DEF Structure, TypeOK
  <2>2. QED
    BY <2>1, <1>2 DEF ListsSound, Alive
<1>14. LinksLive'
  BY <1>1, <1>6 DEF Structure, LinksLive, TypeOK, Alive
<1>15. FreedHaveNone'
  <2>1. ASSUME NEW d \in Envs, state'[d] = "uninit" PROVE children'[d] = <<>>
    <3>1. children[d] = <<>>
      BY <2>1, <1>6 DEF Structure, FreedHaveNone
    <3>2. ToSet(children'[d]) = {} /\ children'[d] \in Seq(Envs)
      BY <3>1, <1>1, <1>2, EmptyArray DEF Structure, TypeOK
    <3>3. QED
      BY <3>2, EmptyArray
  <2>2. QED
    BY <2>1 DEF FreedHaveNone
<1>16. QED
  BY <1>9, <1>10, <1>11, <1>12, <1>13, <1>14, <1>15 DEF Structure

\* The innermost call and the calls below it.
LEMMA TopFacts ==
  ASSUME Structure, ~Idle
  PROVE  /\ Depth \in Nat \ {0} /\ DOMAIN frames = 1 .. Depth
         /\ frames \in Seq(Frame) /\ \A i \in 1 .. Depth : frames[i] \in Frame
         /\ Top = frames[Depth] /\ Top \in Frame
         /\ Top.env \in Envs /\ Top.next \in Nat
         /\ Front(frames) \in Seq(Frame) /\ Len(Front(frames)) = Depth - 1
         /\ \A i \in 1 .. Depth - 1 : Front(frames)[i] = frames[i]
<1>1. frames \in Seq(Frame) /\ frames # <<>>
  BY DEF Structure, TypeOK, Frame, Idle
<1>2. Depth \in Nat \ {0} /\ DOMAIN frames = 1 .. Depth
  BY <1>1 DEF Depth
<1>3. \A i \in 1 .. Depth : frames[i] \in Frame
  BY <1>1 DEF Depth
<1>4. Top = frames[Depth] /\ Top \in Frame
  BY <1>2, <1>3 DEF Top, Last, Depth
<1>5. Top.env \in Envs /\ Top.next \in Nat
  BY <1>4 DEF Frame
<1>6. /\ Front(frames) \in Seq(Frame) /\ Len(Front(frames)) = Depth - 1
      /\ \A i \in 1 .. Depth - 1 : Front(frames)[i] = frames[i]
  BY <1>1, FrontAt DEF Depth
<1>7. QED
  BY <1>1, <1>2, <1>3, <1>4, <1>5, <1>6

\* piFreeEnv starts a teardown: the structure stands with the new frame on it.
LEMMA FreeEnvStructure ==
  ASSUME Structure, NEW e \in Envs, FreeEnv(e)
  PROVE  Structure'
<1>1. frames = <<>> /\ UNCHANGED <<childCap, heapMapped, capVars>> /\ Enter(e, <<>>)
      /\ doomed' \subseteq Envs
  BY DEF FreeEnv, Idle, Descendants
<1>2. \A d \in Envs : state[d] # "terminated"
  BY <1>1 DEF Structure, TornDownOnStack
<1>3. CASE AlreadyFree(e)
  <2>1. UNCHANGED <<state, parent, children>> /\ frames' = <<>>
    BY <1>1, <1>3 DEF Enter
  <2>2. UNCHANGED <<state, familyVars, heapMapped, capVars, frames>>
    BY <2>1, <1>1 DEF familyVars
  <2>3. TypeOK'
    BY <2>2, <1>1 DEF Structure, TypeOK, familyVars, capVars
  <2>4. QED
    BY <2>2, <2>3 DEF Structure, HeapsFollowState, StackSound, TornDownOnStack, ListsSound,
                      LinksLive, FreedHaveNone, Alive, Distinct, Depth, familyVars
<1>4. CASE ~AlreadyFree(e)
  <2>1. Alive(e)
    BY <1>2, <1>4 DEF AlreadyFree, Alive, Structure, TypeOK
  <2>2. GoodBelow(<<>>)
    BY <1>2 DEF GoodBelow
  <2>3. QED
    BY <2>1, <2>2, <1>1, EnterStructure
<1>5. QED
  BY <1>3, <1>4

\* The frames below the innermost are of environments being torn down.
LEMMA FrontGood ==
  ASSUME Structure, ~Idle
  PROVE  \A i \in 1 .. Depth - 1 :
           /\ frames[i].next # 0 /\ state[frames[i].env] = "terminated"
           /\ frames[i].env # Top.env /\ frames[i].env \in Envs
<1>1. ASSUME NEW i \in 1 .. Depth - 1
      PROVE  /\ frames[i].next # 0 /\ state[frames[i].env] = "terminated"
             /\ frames[i].env # Top.env /\ frames[i].env \in Envs
  <2>1. /\ Depth \in Nat \ {0} /\ DOMAIN frames = 1 .. Depth
        /\ frames[i] \in Frame /\ Top = frames[Depth]
    BY TopFacts
  <2>2. /\ i \in DOMAIN frames /\ i # Depth /\ Depth # 1
        /\ Depth \in DOMAIN frames
    BY <2>1
  <2>3. frames[i].env \in Envs
    BY <2>1 DEF Frame
  <2>4. QED
    BY <2>1, <2>2, <2>3 DEF Structure, StackSound
<1>2. QED
  BY <1>1

\* So it does when a child that was never finished is freed.
LEMMA FreeUndoneChildStructure ==
  ASSUME Structure, FreeUndoneChild
  PROVE  Structure'
<1>1. ~Idle /\ Top.next = 0 /\ Enter(Top.env, Front(frames))
      /\ UNCHANGED <<childCap, heapMapped, capVars>> /\ doomed' = doomed
  BY DEF FreeUndoneChild
<1>2. Top = frames[Depth] /\ Depth \in DOMAIN frames /\ Top.env \in Envs
  BY <1>1, TopFacts
<1>3. Depth = 1 /\ Alive(Top.env)
  BY <1>1, <1>2 DEF Structure, StackSound
<1>4. \A d \in Envs : state[d] # "terminated"
  <2>1. ASSUME NEW d \in Envs, state[d] = "terminated" PROVE FALSE
    <3>1. PICK i \in DOMAIN frames : frames[i].env = d
      BY <2>1 DEF Structure, TornDownOnStack
    <3>2. i = Depth
      BY <1>1, <1>3, TopFacts
    <3>3. QED
      BY <3>1, <3>2, <2>1, <1>2, <1>3 DEF Alive
  <2>2. QED
    BY <2>1
<1>5. Front(frames) \in Seq(Frame) /\ Len(Front(frames)) = 0
  BY <1>1, <1>3, TopFacts
<1>6. GoodBelow(Front(frames))
  BY <1>4, <1>5 DEF GoodBelow
<1>7. doomed' \subseteq Envs
  BY <1>1 DEF Structure, TypeOK
<1>8. QED
  BY <1>1, <1>2, <1>3, <1>6, <1>7, EnterStructure

\* The call FreeChild makes: the child is live, and the stack below it is good.
LEMMA FreeChildFacts ==
  ASSUME Structure, FreeChild
  PROVE  LET e == Top.env
             c == children[e][Top.next]
             g == [Top EXCEPT !.next = @ + 1]
             below == Append(Front(frames), g)
         IN  /\ c \in ToSet(children[e]) /\ c \in Envs /\ Alive(c) /\ parent[c] = e
             /\ g.env = e /\ g.next = Top.next + 1
             /\ Top.next \in 1 .. Len(children[e])
             /\ below \in Seq(Frame) /\ Len(below) = Depth
             /\ below[Depth] = g
             /\ \A i \in 1 .. Depth - 1 : below[i] = frames[i]
             /\ GoodBelow(below)
             /\ Enter(c, below)
<1> DEFINE e == Top.env
           c == children[e][Top.next]
           g == [Top EXCEPT !.next = @ + 1]
           below == Append(Front(frames), g)
<1>1. ~Idle /\ Enter(c, below) /\ Top.next \in DOMAIN children[e]
  BY DEF FreeChild
<1>2. /\ Depth \in Nat \ {0} /\ DOMAIN frames = 1 .. Depth
      /\ Top = frames[Depth] /\ Top \in Frame
      /\ e \in Envs /\ Top.next \in Nat
      /\ Front(frames) \in Seq(Frame) /\ Len(Front(frames)) = Depth - 1
      /\ \A i \in 1 .. Depth - 1 : Front(frames)[i] = frames[i]
  BY <1>1, TopFacts
<1>3. Top.next \in 1 .. Len(children[e]) /\ c \in ToSet(children[e]) /\ c \in Envs
  <2>1. children[e] \in Seq(Envs)
    BY <1>2 DEF Structure, TypeOK
  <2>2. Top.next \in 1 .. Len(children[e]) /\ c \in Envs
    BY <2>1, <1>1
  <2>3. c \in ToSet(children[e])
    BY <1>1 DEF ToSet
  <2>4. QED
    BY <2>2, <2>3
<1>4. Alive(c) /\ parent[c] = e
  BY <1>2, <1>3 DEF Structure, ListsSound
<1>5. g.env = e /\ g.next = Top.next + 1 /\ g \in Frame
  BY <1>2 DEF Frame
<1>6. /\ below \in Seq(Frame) /\ Len(below) = Depth
      /\ below[Depth] = g /\ DOMAIN below = 1 .. Depth
      /\ \A i \in 1 .. Depth - 1 : below[i] = frames[i]
  <2> HIDE DEF g
  <2> DEFINE b == Front(frames)
  <2>1. /\ below \in Seq(Frame) /\ Len(below) = Len(b) + 1
        /\ \A i \in 1 .. Len(b) : below[i] = b[i]
        /\ below[Len(b) + 1] = g
    BY <1>2, <1>5, AppendAt
  <2>2. Len(b) = Depth - 1 /\ \A i \in 1 .. Depth - 1 : b[i] = frames[i]
    BY <1>2
  <2> HIDE DEF b, below
  <2>3. Len(b) + 1 = Depth
    BY <1>2, <2>2
  <2>4. DOMAIN below = 1 .. Len(below)
    BY <2>1
  <2>5. QED
    BY <2>1, <2>2, <2>3, <2>4
<1> HIDE DEF below, g, c, e
<1>7. \A i \in 1 .. Depth : below[i].env = frames[i].env /\ below[i].next # 0
  <2>1. ASSUME NEW i \in 1 .. Depth
        PROVE  below[i].env = frames[i].env /\ below[i].next # 0
    <3>1. CASE i = Depth
      BY <3>1, <1>2, <1>5, <1>6 DEF e
    <3>2. CASE i # Depth
      <4>1. i \in 1 .. Depth - 1
        BY <3>2, <1>2
      <4>2. QED
        BY <4>1, <1>1, <1>6, FrontGood
    <3>3. QED
      BY <3>1, <3>2
  <2>2. QED
    BY <2>1
<1>8. state[e] = "terminated"
  <2>1. Top.next # 0 /\ Depth \in DOMAIN frames
    BY <1>2, <1>3
  <2>2. QED
    BY <2>1, <1>2 DEF Structure, StackSound, e
<1>9. GoodBelow(below)
  <2>1. \A i, j \in DOMAIN below : below[i].env = below[j].env => i = j
    BY <1>2, <1>6, <1>7 DEF Structure, StackSound
  <2>2. \A i \in DOMAIN below : below[i].next # 0 /\ state[below[i].env] = "terminated"
    <3>1. ASSUME NEW i \in DOMAIN below PROVE state[below[i].env] = "terminated"
      <4>1. CASE i = Depth
        BY <4>1, <1>7, <1>6, <1>8, <1>2 DEF e
      <4>2. CASE i # Depth
        <5>1. i \in 1 .. Depth - 1
          BY <4>2, <1>2, <1>6
        <5>2. QED
          BY <5>1, <1>1, <1>6, FrontGood
      <4>3. QED
        BY <4>1, <4>2
    <3>2. QED
      BY <3>1, <1>6, <1>7
  <2>3. \A d \in Envs : state[d] = "terminated" => \E i \in DOMAIN below : below[i].env = d
    BY <1>2, <1>6, <1>7 DEF Structure, TornDownOnStack
  <2>4. QED
    BY <2>1, <2>2, <2>3, <1>6 DEF GoodBelow
<1>10. QED
  BY <1>1, <1>3, <1>4, <1>5, <1>6, <1>9 DEF below, g, c, e

\* So it does when a teardown goes down to a child.
LEMMA FreeChildStructure ==
  ASSUME Structure, FreeChild
  PROVE  Structure'
<1> DEFINE c == children[Top.env][Top.next]
           below == Append(Front(frames), [Top EXCEPT !.next = @ + 1])
<1>1. c \in Envs /\ Alive(c) /\ GoodBelow(below) /\ Enter(c, below)
  BY FreeChildFacts
<1>2. UNCHANGED <<childCap, heapMapped, capVars>> /\ doomed' \subseteq Envs
  BY DEF FreeChild, Structure, TypeOK
<1> HIDE DEF c, below
<1>3. QED
  BY <1>1, <1>2, EnterStructure

\* The rest of piFreeEnv leaves a structure nobody names as its own.
LEMMA FreeFinishStructure ==
  ASSUME Structure, FreeFinish
  PROVE  Structure'
<1> DEFINE e == Top.env
<1>1. /\ ~Idle /\ LoopOver(Top)
      /\ children' = [children EXCEPT ![e] = <<>>]
      /\ childCap' = [childCap EXCEPT ![e] = 0]
      /\ heapMapped' = [heapMapped EXCEPT ![e] = FALSE]
      /\ state' = [state EXCEPT ![e] = "uninit"]
      /\ frames' = Front(frames)
      /\ doomed' \subseteq doomed
      /\ caps' = [caps EXCEPT ![e] = {}]
      /\ granted' = [granted EXCEPT ![e] = Nothing]
      /\ memoryLimit' = [memoryLimit EXCEPT ![e] = 0]
      /\ parent' = parent
  BY DEF FreeFinish
<1>2. /\ Depth \in Nat \ {0} /\ DOMAIN frames = 1 .. Depth
      /\ Top = frames[Depth] /\ e \in Envs /\ Top.next \in Nat
      /\ Front(frames) \in Seq(Frame) /\ Len(Front(frames)) = Depth - 1
      /\ \A i \in 1 .. Depth - 1 : Front(frames)[i] = frames[i]
  BY <1>1, TopFacts
<1>3. /\ frames' \in Seq(Frame) /\ Len(frames') = Depth - 1
      /\ \A i \in 1 .. Depth - 1 : frames'[i] = frames[i]
      /\ DOMAIN frames' = 1 .. Depth - 1
  BY <1>1, <1>2
<1>4. Top.next # 0 /\ state[e] = "terminated"
  <2>1. Len(children[e]) \in Nat
    BY <1>2 DEF Structure, TypeOK
  <2>2. Top.next > Len(children[e])
    BY <1>1 DEF LoopOver
  <2>3. Top.next # 0
    BY <2>1, <2>2, <1>2
  <2>4. QED
    BY <2>3, <1>2 DEF Structure, StackSound
<1> HIDE DEF e
<1>5. \A i \in 1 .. Depth - 1 :
        /\ frames[i].next # 0 /\ state[frames[i].env] = "terminated"
        /\ frames[i].env # e /\ frames[i].env \in Envs
  BY <1>1, FrontGood DEF e
<1>6. \A d \in Envs : /\ state'[d] = IF d = e THEN "uninit" ELSE state[d]
                      /\ children'[d] = IF d = e THEN <<>> ELSE children[d]
                      /\ childCap'[d] = IF d = e THEN 0 ELSE childCap[d]
  BY <1>1, <1>2 DEF Structure, TypeOK
<1>7. TypeOK'
  <2>1. /\ state' \in [Envs -> {"uninit", "init", "terminated"}]
        /\ parent' \in [Envs -> Envs \cup {NULL}]
        /\ heapMapped' \in [Envs -> BOOLEAN]
        /\ caps' \in [Envs -> SUBSET Caps] /\ memoryLimit' \in [Envs -> Limits]
    BY <1>1, <1>2 DEF Structure, TypeOK
  <2>2. children' \in [Envs -> Seq(Envs)] /\ childCap' \in [Envs -> Nat]
    <3>1. <<>> \in Seq(Envs)
      OBVIOUS
    <3>2. QED
      BY <3>1, <1>1, <1>2 DEF Structure, TypeOK
  <2>3. granted' \in [Envs -> [caps : SUBSET Caps, limit : Limits, added : SUBSET Caps]]
    <3>1. Nothing \in [caps : SUBSET Caps, limit : Limits, added : SUBSET Caps]
      BY DEF Nothing
    <3>2. QED
      BY <3>1, <1>1, <1>2 DEF Structure, TypeOK
  <2>4. \A d \in Envs : Len(children'[d]) <= childCap'[d]
    <3>1. Len(<<>>) <= 0
      OBVIOUS
    <3>2. QED
      BY <3>1, <1>6 DEF Structure, TypeOK
  <2>5. frames' \in Seq([env : Envs, next : Nat]) /\ doomed' \subseteq Envs
    BY <1>1, <1>3 DEF Frame, Structure, TypeOK
  <2>6. QED
    BY <2>1, <2>2, <2>3, <2>4, <2>5 DEF TypeOK
<1>8. HeapsFollowState'
  BY <1>1, <1>2 DEF Structure, TypeOK, HeapsFollowState
<1>9. StackSound'
  <2>1. \A i, j \in DOMAIN frames' : frames'[i].env = frames'[j].env => i = j
    BY <1>2, <1>3 DEF Structure, StackSound
  <2>2. \A i \in DOMAIN frames' :
          frames'[i].next # 0 /\ state'[frames'[i].env] = "terminated"
    <3>1. ASSUME NEW i \in 1 .. Depth - 1
          PROVE  frames'[i].next # 0 /\ state'[frames'[i].env] = "terminated"
      <4>1. /\ frames'[i] = frames[i] /\ frames[i].next # 0
            /\ state[frames[i].env] = "terminated"
            /\ frames[i].env # e /\ frames[i].env \in Envs
        BY <1>3, <1>5
      <4>2. QED
        BY <4>1, <1>6
    <3>2. QED
      BY <3>1, <1>3
  <2>3. QED
    BY <2>1, <2>2 DEF StackSound
<1>10. TornDownOnStack'
  <2>1. ASSUME NEW d \in Envs, state'[d] = "terminated"
        PROVE  \E i \in DOMAIN frames' : frames'[i].env = d
    <3>1. d # e /\ state[d] = "terminated"
      BY <2>1, <1>6
    <3>2. PICK i \in 1 .. Depth : frames[i].env = d
      BY <3>1, <1>2 DEF Structure, TornDownOnStack
    <3>3. i # Depth
      BY <3>1, <3>2, <1>2 DEF e
    <3>4. QED
      BY <3>2, <3>3, <1>2, <1>3
  <2>2. QED
    BY <2>1 DEF TornDownOnStack
<1>11. ListsSound'
  <2>1. ASSUME NEW p \in Envs
        PROVE  Distinct(children'[p])
               /\ \A c \in ToSet(children'[p]) : state'[c] = "init" /\ parent'[c] = p
    <3>1. CASE p = e
      <4>1. children'[p] = <<>>
        BY <3>1, <1>6
      <4>2. QED
        BY <4>1 DEF Distinct, ToSet
    <3>2. CASE p # e
      <4>1. children'[p] = children[p]
        BY <3>2, <1>6
      <4>2. \A c \in ToSet(children[p]) : c \in Envs /\ state[c] = "init" /\ parent[c] = p
        BY DEF Structure, TypeOK, ListsSound, Alive, ToSet
      <4>3. Distinct(children[p])
        BY DEF Structure, ListsSound
      <4>4. QED
        BY <4>1, <4>2, <4>3, <1>1, <1>4, <1>6
    <3>3. QED
      BY <3>1, <3>2
  <2>2. QED
    BY <2>1 DEF ListsSound, Alive
<1>12. LinksLive'
  BY <1>1, <1>4, <1>6 DEF Structure, LinksLive, Alive
<1>13. FreedHaveNone'
  BY <1>6 DEF Structure, FreedHaveNone
<1>14. QED
  BY <1>7, <1>8, <1>9, <1>10, <1>11, <1>12, <1>13 DEF Structure

\* A structure that comes into use is fresh: it names nobody, and nobody lists it.
LEMMA FreshFacts ==
  ASSUME Structure, NEW c \in Envs, state[c] = "uninit"
  PROVE  /\ parent[c] = NULL /\ children[c] = <<>>
         /\ \A p \in Envs : c \notin ToSet(children[p])
         /\ \A i \in DOMAIN frames : frames[i].env # c
<1>1. parent[c] = NULL /\ children[c] = <<>>
  BY DEF Structure, LinksLive, FreedHaveNone, Alive
<1>2. \A p \in Envs : c \notin ToSet(children[p])
  BY DEF Structure, ListsSound, Alive
<1>3. \A i \in DOMAIN frames : frames[i].env # c
  BY DEF Structure, StackSound, Alive
<1>4. QED
  BY <1>1, <1>2, <1>3

\* The types after piInitEnv.
LEMMA InitEnvTypes ==
  ASSUME TypeOK, NEW c \in Envs, NEW cs \in SUBSET Caps, NEW limit \in Limits,
         InitEnvWithSize(c, cs, limit)
  PROVE  /\ state' \in [Envs -> {"uninit", "init", "terminated"}]
         /\ heapMapped' \in [Envs -> BOOLEAN]
         /\ caps' \in [Envs -> SUBSET Caps] /\ memoryLimit' \in [Envs -> Limits]
         /\ granted' \in [Envs -> [caps : SUBSET Caps, limit : Limits, added : SUBSET Caps]]
         /\ \A d \in Envs : state'[d] = IF d = c THEN "init" ELSE state[d]
<1>1. [caps |-> cs, limit |-> limit, added |-> {}]
        \in [caps : SUBSET Caps, limit : Limits, added : SUBSET Caps]
  OBVIOUS
<1>2. granted' \in [Envs -> [caps : SUBSET Caps, limit : Limits, added : SUBSET Caps]]
  BY <1>1 DEF InitEnvWithSize, TypeOK
<1>3. QED
  BY <1>2 DEF InitEnvWithSize, TypeOK

\* The heaps after piInitEnv: the new environment owns its own or none.
LEMMA InitEnvHeaps ==
  ASSUME Structure, NEW c \in Envs, NEW cs, NEW limit, InitEnvWithSize(c, cs, limit)
  PROVE  HeapsFollowState'
  BY DEF InitEnvWithSize, Structure, TypeOK, HeapsFollowState

\* Between calls nothing is being torn down.
LEMMA IdleFacts ==
  ASSUME Structure, frames = <<>>
  PROVE  \A d \in Envs : state[d] = "uninit" \/ state[d] = "init"
<1>1. DOMAIN frames = {}
  OBVIOUS
<1>2. QED
  BY <1>1 DEF Structure, TypeOK, TornDownOnStack

\* The structure after piInitEnv.
LEMMA InitEnvStructure ==
  ASSUME Structure, NEW e \in Envs, NEW size, InitEnv(e, size)
  PROVE  Structure'
<1>1. /\ frames = <<>> /\ state[e] = "uninit" /\ InitEnvWithSize(e, Caps, 0)
      /\ UNCHANGED <<parent, children, childCap, frames, doomed>>
  BY DEF InitEnv, Idle, familyVars
<1>2. TypeOK'
  BY <1>1, InitEnvTypes DEF Structure, TypeOK
<1>3. \A d \in Envs : state'[d] = IF d = e THEN "init" ELSE state[d]
  BY <1>1, InitEnvTypes DEF Structure
<1>4. HeapsFollowState'
  BY <1>1, InitEnvHeaps
<1>5. StackSound' /\ TornDownOnStack'
  <2>1. frames' = <<>> /\ \A d \in Envs : state'[d] # "terminated"
    BY <1>1, <1>3, IdleFacts
  <2>2. DOMAIN frames' = {}
    BY <2>1
  <2>3. StackSound'
    BY <2>2 DEF StackSound
  <2>4. TornDownOnStack'
    BY <2>1 DEF TornDownOnStack
  <2>5. QED
    BY <2>3, <2>4
<1>6. ListsSound'
  <2>1. \A p \in Envs : \A c \in ToSet(children[p]) :
          c \in Envs /\ c # e /\ state[c] = "init" /\ parent[c] = p
    BY <1>1 DEF Structure, TypeOK, ListsSound, Alive, ToSet
  <2>2. QED
    BY <2>1, <1>1, <1>3 DEF Structure, ListsSound, Distinct, Alive
<1>7. LinksLive' /\ FreedHaveNone'
  BY <1>1, <1>3 DEF Structure, LinksLive, FreedHaveNone, Alive
<1>8. QED
  BY <1>2, <1>4, <1>5, <1>6, <1>7 DEF Structure

\* piCreateChildEnv starts the child like any environment, with fewer rights.
LEMMA ChildTypes ==
  ASSUME TypeOK, NEW p \in Envs, NEW cs
  PROVE  Derive(caps[p], cs) \in SUBSET Caps /\ memoryLimit[p] \in Limits
  BY DEF TypeOK, Derive

\* The structure after piCreateChildEnv, whichever of its steps fails.
LEMMA CreateChildEnvStructure ==
  ASSUME Structure, NEW p \in Envs, NEW c \in Envs, NEW cs, NEW size,
         CreateChildEnv(p, c, cs, size)
  PROVE  Structure'
<1>1. /\ frames = <<>> /\ Alive(p) /\ state[c] = "uninit" /\ c # p
      /\ InitEnvWithSize(c, Derive(caps[p], cs), memoryLimit[p])
      /\ parent' = [parent EXCEPT ![c] = p]
      /\ children' = [children EXCEPT ![p] = Append(@, c)]
      /\ childCap' = [childCap EXCEPT ![p] = IF ~ChildArrayFull(p) THEN @
                                             ELSE IF @ = 0 THEN InitialChildCap ELSE 2 * @]
      /\ UNCHANGED <<frames, doomed>>
  BY DEF CreateChildEnv, CanCreate, Idle
<1>2. /\ state' \in [Envs -> {"uninit", "init", "terminated"}]
      /\ heapMapped' \in [Envs -> BOOLEAN]
      /\ caps' \in [Envs -> SUBSET Caps] /\ memoryLimit' \in [Envs -> Limits]
      /\ granted' \in [Envs -> [caps : SUBSET Caps, limit : Limits, added : SUBSET Caps]]
      /\ \A d \in Envs : state'[d] = IF d = c THEN "init" ELSE state[d]
  BY <1>1, ChildTypes, InitEnvTypes DEF Structure
<1>3. /\ children[p] \in Seq(Envs) /\ childCap[p] \in Nat /\ Len(children[p]) <= childCap[p]
      /\ children \in [Envs -> Seq(Envs)] /\ childCap \in [Envs -> Nat]
  BY DEF Structure, TypeOK
<1> DEFINE s == Append(children[p], c)
           cap == IF ~ChildArrayFull(p) THEN childCap[p]
                  ELSE IF childCap[p] = 0 THEN InitialChildCap ELSE 2 * childCap[p]
<1>4. /\ s \in Seq(Envs) /\ Len(s) = Len(children[p]) + 1
      /\ \A i \in 1 .. Len(children[p]) : s[i] = children[p][i]
      /\ s[Len(children[p]) + 1] = c
      /\ ToSet(s) = ToSet(children[p]) \cup {c}
  BY <1>3, AppendAt, AppendFacts
<1>5. cap \in Nat /\ Len(children[p]) + 1 <= cap
  BY <1>3 DEF ChildArrayFull
<1>6. Len(s) <= cap
  BY <1>4, <1>5
<1>7. \A d \in Envs : /\ parent'[d] = IF d = c THEN p ELSE parent[d]
                      /\ children'[d] = IF d = p THEN s ELSE children[d]
                      /\ childCap'[d] = IF d = p THEN cap ELSE childCap[d]
  BY <1>1 DEF Structure, TypeOK
<1>8. children' \in [Envs -> Seq(Envs)] /\ childCap' \in [Envs -> Nat]
      /\ parent' \in [Envs -> Envs \cup {NULL}]
  <2>1. children' = [children EXCEPT ![p] = s] /\ childCap' = [childCap EXCEPT ![p] = cap]
    BY <1>1
  <2> HIDE DEF s, cap
  <2>2. QED
    BY <2>1, <1>1, <1>3, <1>4, <1>5 DEF Structure, TypeOK
<1> HIDE DEF s, cap
<1>9. TypeOK'
  <2>1. \A d \in Envs : Len(children'[d]) <= childCap'[d]
    BY <1>6, <1>7 DEF Structure, TypeOK
  <2>2. QED
    BY <2>1, <1>1, <1>2, <1>8 DEF Structure, TypeOK
<1>10. HeapsFollowState'
  BY <1>1, InitEnvHeaps
<1>11. StackSound' /\ TornDownOnStack'
  <2>1. frames' = <<>> /\ \A d \in Envs : state'[d] # "terminated"
    BY <1>1, <1>2, IdleFacts
  <2>2. DOMAIN frames' = {}
    BY <2>1
  <2>3. StackSound'
    BY <2>2 DEF StackSound
  <2>4. TornDownOnStack'
    BY <2>1 DEF TornDownOnStack
  <2>5. QED
    BY <2>3, <2>4
<1>12. c \notin ToSet(children[p]) /\ children[c] = <<>> /\ parent[c] = NULL
       /\ \A q \in Envs : c \notin ToSet(children[q])
  BY <1>1, FreshFacts
<1>13. ListsSound'
  <2>1. ASSUME NEW q \in Envs
        PROVE  /\ Distinct(children'[q])
               /\ \A d \in ToSet(children'[q]) : state'[d] = "init" /\ parent'[d] = q
    <3>1. /\ Distinct(children[q])
          /\ \A d \in ToSet(children[q]) : d \in Envs /\ state[d] = "init" /\ parent[d] = q
      BY DEF Structure, TypeOK, ListsSound, Alive, ToSet
    <3>2. \A d \in ToSet(children[q]) : state'[d] = "init" /\ parent'[d] = q
      <4>1. \A d \in ToSet(children[q]) : d # c
        BY <1>12
      <4>2. QED
        BY <4>1, <3>1, <1>2, <1>7
    <3>3. CASE q = p
      <4>1. children'[q] = s
        BY <3>3, <1>7
      <4>2. \A d \in ToSet(s) : state'[d] = "init" /\ parent'[d] = q
        BY <3>2, <3>3, <1>2, <1>4, <1>7
      <4>3. Distinct(s)
        <5>1. \A i, j \in DOMAIN children[p] : children[p][i] = children[p][j] => i = j
          BY <3>1, <3>3 DEF Distinct
        <5>2. \A i, j \in DOMAIN s : s[i] = s[j] => i = j
          BY <5>1, <1>3, <1>12, AppendDistinct DEF s
        <5>3. QED
          BY <5>2 DEF Distinct
      <4>4. QED
        BY <4>1, <4>2, <4>3
    <3>4. CASE q # p
      BY <3>1, <3>2, <3>4, <1>7
    <3>5. QED
      BY <3>3, <3>4
  <2>2. QED
    BY <2>1 DEF ListsSound, Alive
<1>14. LinksLive'
  BY <1>2, <1>7 DEF Structure, LinksLive, Alive
<1>15. FreedHaveNone'
  BY <1>1, <1>2, <1>7 DEF Structure, FreedHaveNone, Alive
<1>16. QED
  BY <1>9, <1>10, <1>11, <1>13, <1>14, <1>15 DEF Structure

\* The child that could not be listed waits on the stack to be freed.
LEMMA CreateChildUndoneStructure ==
  ASSUME Structure, NEW p \in Envs, NEW c \in Envs, NEW cs, NEW size,
         CreateChildUndone(p, c, cs, size)
  PROVE  Structure'
<1> DEFINE f == [env |-> c, next |-> 0]
<1>1. /\ frames = <<>> /\ Alive(p) /\ state[c] = "uninit" /\ c # p
      /\ InitEnvWithSize(c, Derive(caps[p], cs), memoryLimit[p])
      /\ parent' = [parent EXCEPT ![c] = p]
      /\ frames' = <<f>> /\ doomed' = {c}
      /\ UNCHANGED <<children, childCap>>
  BY DEF CreateChildUndone, CanCreate, Idle
<1>2. f \in Frame /\ f.env = c /\ f.next = 0
  BY DEF Frame
<1> HIDE DEF f
<1>3. frames' \in Seq(Frame) /\ Len(frames') = 1 /\ frames'[1] = f /\ DOMAIN frames' = {1}
  BY <1>1, <1>2
<1>4. /\ state' \in [Envs -> {"uninit", "init", "terminated"}]
      /\ heapMapped' \in [Envs -> BOOLEAN]
      /\ caps' \in [Envs -> SUBSET Caps] /\ memoryLimit' \in [Envs -> Limits]
      /\ granted' \in [Envs -> [caps : SUBSET Caps, limit : Limits, added : SUBSET Caps]]
      /\ \A d \in Envs : state'[d] = IF d = c THEN "init" ELSE state[d]
  BY <1>1, ChildTypes, InitEnvTypes DEF Structure
<1>5. \A d \in Envs : parent'[d] = IF d = c THEN p ELSE parent[d]
  BY <1>1 DEF Structure, TypeOK
<1>6. TypeOK'
  <2>1. parent' \in [Envs -> Envs \cup {NULL}] /\ doomed' \subseteq Envs
    BY <1>1 DEF Structure, TypeOK
  <2>2. frames' \in Seq([env : Envs, next : Nat])
    BY <1>3 DEF Frame
  <2>3. QED
    BY <2>1, <2>2, <1>1, <1>4 DEF Structure, TypeOK
<1>7. HeapsFollowState'
  BY <1>1, InitEnvHeaps
<1>8. StackSound' /\ TornDownOnStack'
  <2>1. \A d \in Envs : state'[d] # "terminated"
    BY <1>1, <1>4, IdleFacts
  <2>2. StackSound'
    BY <1>2, <1>3, <1>4 DEF StackSound, Depth, Alive
  <2>3. TornDownOnStack'
    BY <2>1 DEF TornDownOnStack
  <2>4. QED
    BY <2>2, <2>3
<1>9. ListsSound'
  <2>1. \A q \in Envs : \A d \in ToSet(children[q]) :
          d \in Envs /\ d # c /\ state[d] = "init" /\ parent[d] = q
    BY <1>1 DEF Structure, TypeOK, ListsSound, Alive, ToSet
  <2>2. \A q \in Envs : \A d \in ToSet(children[q]) : state'[d] = "init" /\ parent'[d] = q
    BY <2>1, <1>4, <1>5
  <2>3. \A q \in Envs : Distinct(children[q])
    BY DEF Structure, ListsSound
  <2>4. QED
    BY <2>2, <2>3, <1>1 DEF ListsSound, Alive
<1>10. LinksLive' /\ FreedHaveNone'
  BY <1>1, <1>4, <1>5 DEF Structure, LinksLive, FreedHaveNone, Alive
<1>11. QED
  BY <1>6, <1>7, <1>8, <1>9, <1>10 DEF Structure

\* Capabilities and limits are no part of the structure.
LEMMA RightsStructure ==
  ASSUME Structure, UNCHANGED <<state, familyVars, heapMapped, frames, doomed>>,
         caps' \in [Envs -> SUBSET Caps], memoryLimit' \in [Envs -> Limits],
         granted' \in [Envs -> [caps : SUBSET Caps, limit : Limits, added : SUBSET Caps]]
  PROVE  Structure'
<1>1. TypeOK'
  BY DEF Structure, TypeOK, familyVars
<1>2. QED
  BY <1>1 DEF Structure, HeapsFollowState, StackSound, TornDownOnStack, ListsSound,
              LinksLive, FreedHaveNone, Alive, Distinct, Depth, familyVars

\* What a grant writes down has its type.
LEMMA GrantTypes ==
  ASSUME Structure, NEW e \in Envs, NEW cs \in SUBSET Caps, GrantCapabilities(e, cs)
  PROVE  /\ caps' \in [Envs -> SUBSET Caps] /\ memoryLimit' = memoryLimit
         /\ granted' \in [Envs -> [caps : SUBSET Caps, limit : Limits, added : SUBSET Caps]]
         /\ \A d \in Envs :
              /\ granted'[d].caps = granted[d].caps /\ granted'[d].limit = granted[d].limit
              /\ granted'[d].added =
                   IF d = e THEN granted[d].added \cup (cs \ granted[e].caps) ELSE granted[d].added
              /\ caps'[d] = IF d = e THEN caps[d] \cup cs ELSE caps[d]
<1>1. /\ granted \in [Envs -> [caps : SUBSET Caps, limit : Limits, added : SUBSET Caps]]
      /\ caps \in [Envs -> SUBSET Caps]
  BY DEF Structure, TypeOK
<1>2. /\ caps' = [caps EXCEPT ![e] = @ \cup cs] /\ memoryLimit' = memoryLimit
      /\ granted' = [granted EXCEPT ![e].added = @ \cup (cs \ granted[e].caps)]
  BY DEF GrantCapabilities
<1>3. \A d \in Envs : caps'[d] = IF d = e THEN caps[d] \cup cs ELSE caps[d]
  BY <1>1, <1>2
<1>4. \A d \in Envs : granted'[d] = IF d = e
        THEN [granted[e] EXCEPT !.added = @ \cup (cs \ granted[e].caps)] ELSE granted[d]
  BY <1>1, <1>2
<1>5. granted[e].caps \in SUBSET Caps /\ granted[e].added \in SUBSET Caps
  BY <1>1
<1>6. granted' \in [Envs -> [caps : SUBSET Caps, limit : Limits, added : SUBSET Caps]]
  BY <1>1, <1>2, <1>5
<1>7. caps' \in [Envs -> SUBSET Caps]
  BY <1>1, <1>2
<1>8. QED
  BY <1>1, <1>2, <1>3, <1>4, <1>6, <1>7

\* What is granted an environment holds, and is written down.
LEMMA GrantRecorded ==
  ASSUME Structure, NEW e \in Envs, NEW cs \in SUBSET Caps, GrantCapabilities(e, cs)
  PROVE  caps'[e] = caps[e] \cup cs /\ cs \subseteq EverGiven(e)'
<1>1. /\ granted'[e].caps = granted[e].caps
      /\ granted'[e].added = granted[e].added \cup (cs \ granted[e].caps)
      /\ caps'[e] = caps[e] \cup cs
  BY GrantTypes, Zenon
<1>2. cs \subseteq granted'[e].caps \cup granted'[e].added
  BY <1>1
<1>3. QED
  BY <1>1, <1>2 DEF EverGiven

\* A limit is a number of bytes or none.
LEMMA SetLimitType ==
  ASSUME NEW current \in Limits, NEW limit \in Limits
  PROVE  SetLimit(current, limit) \in Limits
  BY DEF SetLimit

\* The structure at the start: no environment at all.
LEMMA InitStructure == Init => Structure
<1> SUFFICES ASSUME Init PROVE Structure
  OBVIOUS
<1>1. \A e \in Envs : /\ state[e] = "uninit" /\ parent[e] = NULL /\ children[e] = <<>>
                      /\ childCap[e] = 0 /\ heapMapped[e] = FALSE
  BY DEF Init
<1>2. TypeOK
  <2>1. Nothing \in [caps : SUBSET Caps, limit : Limits, added : SUBSET Caps]
        /\ <<>> \in Seq(Envs)
        /\ <<>> \in Seq([env : Envs, next : Nat]) /\ Len(<<>>) <= 0
    BY DEF Nothing
  <2>2. granted \in [Envs -> [caps : SUBSET Caps, limit : Limits, added : SUBSET Caps]]
    BY <2>1 DEF Init
  <2>3. children \in [Envs -> Seq(Envs)] /\ childCap \in [Envs -> Nat]
        /\ \A e \in Envs : Len(children[e]) <= childCap[e]
    BY <2>1, <1>1 DEF Init
  <2>4. QED
    BY <2>1, <2>2, <2>3 DEF Init, TypeOK
<1>3. ListsSound
  <2>1. DOMAIN <<>> = {} /\ ToSet(<<>>) = {}
    BY DEF ToSet
  <2>2. QED
    BY <2>1, <1>1 DEF ListsSound, Distinct
<1>4. StackSound /\ TornDownOnStack
  BY <1>1 DEF Init, StackSound, TornDownOnStack
<1>5. QED
  BY <1>1, <1>2, <1>3, <1>4 DEF Structure, HeapsFollowState, LinksLive, FreedHaveNone

\* Every step keeps the structure.
LEMMA NextStructure == Structure /\ [Next]_vars => Structure'
<1> SUFFICES ASSUME Structure, [Next]_vars PROVE Structure'
  OBVIOUS
<1>1. ASSUME UNCHANGED vars PROVE Structure'
  BY <1>1, RightsStructure DEF vars, capVars, Structure, TypeOK
<1>2. ASSUME NEW e \in Envs, NEW cs \in SUBSET Caps, GrantCapabilities(e, cs)
       PROVE  Structure'
  <2>1. memoryLimit \in [Envs -> Limits]
    BY DEF Structure, TypeOK
  <2>2. QED
    BY <2>1, <1>2, GrantTypes, RightsStructure DEF GrantCapabilities
<1>3. CASE FreeUndoneChild
  BY <1>3, FreeUndoneChildStructure
<1>4. CASE FreeChild
  BY <1>4, FreeChildStructure
<1>5. CASE FreeFinish
  BY <1>5, FreeFinishStructure
<1>6. ASSUME NEW e \in Envs, FreeEnv(e) PROVE Structure'
  BY <1>6, FreeEnvStructure
<1>7. ASSUME NEW e \in Envs, NEW size \in HeapSizes, InitEnv(e, size) \/ InitEnvError(e, size)
      PROVE  Structure'
  BY <1>1, <1>7, InitEnvStructure DEF InitEnvError, RaiseError
<1>8. ASSUME NEW e \in Envs, NEW cs \in SUBSET Caps, RevokeCapabilities(e, cs)
      PROVE  Structure'
  <2>1. /\ caps' \in [Envs -> SUBSET Caps] /\ memoryLimit' \in [Envs -> Limits]
        /\ granted' = granted
        /\ granted \in [Envs -> [caps : SUBSET Caps, limit : Limits, added : SUBSET Caps]]
    BY <1>8 DEF RevokeCapabilities, Structure, TypeOK
  <2>2. QED
    BY <2>1, <1>8, RightsStructure DEF RevokeCapabilities
<1>9. ASSUME NEW e \in Envs, NEW limit \in Limits, CapabilityContextSetLimits(e, limit)
      PROVE  Structure'
  <2>1. /\ caps' \in [Envs -> SUBSET Caps] /\ memoryLimit' \in [Envs -> Limits]
        /\ granted' = granted
        /\ granted \in [Envs -> [caps : SUBSET Caps, limit : Limits, added : SUBSET Caps]]
    BY <1>9, SetLimitType DEF CapabilityContextSetLimits, Structure, TypeOK
  <2>2. QED
    BY <2>1, <1>9, RightsStructure DEF CapabilityContextSetLimits
<1>10. ASSUME NEW p \in Envs, NEW c \in Envs, NEW size \in HeapSizes,
             CreateChildError(p, c, size)
      PROVE  Structure'
  BY <1>1, <1>10 DEF CreateChildError, RaiseError
<1>11. ASSUME NEW p \in Envs, NEW c \in Envs, NEW cs \in SUBSET Caps, NEW size \in HeapSizes,
              CreateChildEnv(p, c, cs, size) \/ CreateChildUndone(p, c, cs, size)
       PROVE  Structure'
  BY <1>11, CreateChildEnvStructure, CreateChildUndoneStructure
<1>12. QED
  BY <1>1, <1>2, <1>3, <1>4, <1>5, <1>6, <1>7, <1>8, <1>9, <1>10, <1>11 DEF Next, FreeStep

\* Whatever the host frees: the structure of the environments and of the call stack
\* is sound in every reachable state.
THEOREM StructureHolds == Spec => []Structure
<1>1. QED
  BY InitStructure, NextStructure, PTL DEF Spec

\* No environment is torn down twice at a time, and none without its heap, also when
\* children are skipped.
THEOREM TearDownIsSound == Spec => []FramesSound
<1>1. ASSUME Structure PROVE FramesSound
  <2>1. \A i \in DOMAIN frames : frames[i].env \in Envs /\ state[frames[i].env] # "uninit"
    <3>1. frames \in Seq(Frame)
      BY <1>1 DEF Structure, TypeOK, Frame
    <3>2. \A i \in DOMAIN frames : frames[i] \in Frame
      BY <3>1
    <3>3. \A i \in DOMAIN frames : frames[i].env \in Envs
      BY <3>2 DEF Frame
    <3>4. QED
      BY <1>1, <3>3 DEF Structure, StackSound, Alive
  <2>2. \A i \in DOMAIN frames : heapMapped[frames[i].env]
    BY <1>1, <2>1 DEF Structure, HeapsFollowState
  <2>3. QED
    BY <1>1, <2>2 DEF Structure, FramesSound, HeapsFollowState, StackSound
<1>2. QED
  BY <1>1, StructureHolds, PTL

-------------------------------------------------------------------------------
(* Families, rights and complete frees, for hosts that free no parent of two. *)

\* A call of piFreeEnv keeps what holds of narrow trees.
LEMMA EnterNarrow ==
  ASSUME Structure, LinksListed, NoEscalation,
         NEW e \in Envs, Alive(e), NEW below, GoodBelow(below), Enter(e, below),
         \A c \in Envs : frames = <<[env |-> c, next |-> 0]>> => c = e,
         UNCHANGED <<childCap, heapMapped, capVars>>,
         doomed' \subseteq Envs, e \in doomed',
         \A d \in doomed' : Len(children[d]) <= 1 /\ ToSet(children[d]) \subseteq doomed',
         \A i \in DOMAIN below : below[i].env \in doomed'
                                 /\ Len(children'[below[i].env]) + below[i].next <= 2,
         \A S \in SUBSET Envs :
           HasChildren(S) /\ e \in S /\ (\A i \in DOMAIN below : below[i].env \in S)
             => \A d \in doomed' : heapMapped[d] => d \in S
  PROVE  Narrow'
<1> DEFINE f == [env |-> e, next |-> 1]
<1>1. /\ state' = [state EXCEPT ![e] = "terminated"]
      /\ parent' = [parent EXCEPT ![e] = NULL]
      /\ frames' = Append(below, f)
      /\ children' \in [Envs -> Seq(Envs)]
      /\ \A p \in Envs : /\ ToSet(children'[p]) = ToSet(children[p]) \ {e}
                         /\ Len(children'[p]) <= Len(children[p])
  BY EnterFacts
<1>2. below \in Seq(Frame) /\ f \in Frame /\ f.env = e /\ f.next = 1
  BY DEF GoodBelow, Frame
<1> HIDE DEF f
<1>3. /\ Len(below) \in Nat /\ DOMAIN below = 1 .. Len(below)
      /\ DOMAIN frames' = 1 .. Len(below) + 1
      /\ \A i \in 1 .. Len(below) : frames'[i] = below[i]
      /\ frames'[Len(below) + 1] = f
  BY <1>1, <1>2, AppendAt
<1>4. /\ \A d \in Envs : state'[d] = IF d = e THEN "terminated" ELSE state[d]
      /\ \A d \in Envs : parent'[d] = IF d = e THEN NULL ELSE parent[d]
  BY <1>1 DEF Structure, TypeOK
<1>5. LinksListed'
  <2>1. ASSUME NEW c \in Envs, parent'[c] # NULL
        PROVE  state'[parent'[c]] # "uninit" /\ c \in ToSet(children'[parent'[c]])
    <3>1. c # e /\ parent'[c] = parent[c] /\ parent[c] # NULL
      BY <2>1, <1>4
    <3>2. parent[c] \in Envs
      BY <3>1 DEF Structure, TypeOK
    <3>3. state[parent[c]] # "uninit" /\ c \in ToSet(children[parent[c]])
      BY <3>1 DEF LinksListed
    <3>4. QED
      BY <3>1, <3>2, <3>3, <1>1, <1>4
  <2>2. QED
    BY <2>1 DEF LinksListed
<1>6. DoomedNarrow'
  <2>1. \A d \in Envs : Len(children[d]) \in Nat /\ Len(children'[d]) \in Nat
    BY <1>1 DEF Structure, TypeOK
  <2>2. \A d \in doomed' : Len(children'[d]) <= 1 /\ ToSet(children'[d]) \subseteq doomed'
    <3>1. ASSUME NEW d \in doomed' PROVE Len(children'[d]) <= 1
      <4>1. d \in Envs /\ Len(children[d]) <= 1 /\ Len(children'[d]) <= Len(children[d])
        BY <1>1
      <4>2. QED
        BY <4>1, <2>1
    <3>2. ASSUME NEW d \in doomed' PROVE ToSet(children'[d]) \subseteq doomed'
      BY <1>1
    <3>3. QED
      BY <3>1, <3>2
  <2>3. ASSUME NEW i \in DOMAIN frames'
        PROVE  /\ frames'[i].env \in doomed'
               /\ Len(children'[frames'[i].env]) + frames'[i].next <= 2
    <3>1. CASE i \in 1 .. Len(below)
      BY <3>1, <1>3
    <3>2. CASE i = Len(below) + 1
      <4>1. frames'[i].env = e /\ frames'[i].next = 1
        BY <3>2, <1>2, <1>3
      <4>2. QED
        BY <4>1, <2>1, <2>2
    <3>3. QED
      BY <3>1, <3>2, <1>3
  <2>4. QED
    BY <2>2, <2>3 DEF DoomedNarrow
<1>7. RestIsBelow'
  <2>1. ~Idle'
    BY <1>3 DEF Idle
  <2>2. ASSUME NEW S \in SUBSET Envs, HasChildren(S)',
               \A i \in DOMAIN frames' : frames'[i].env \in S
        PROVE  \A d \in doomed' : heapMapped'[d] => d \in S
    <3>1. e \in S
      <4>1. Len(below) + 1 \in DOMAIN frames'
        BY <1>3
      <4>2. QED
        BY <4>1, <2>2, <1>2, <1>3
    <3>2. \A i \in DOMAIN below : below[i].env \in S
      <4>1. ASSUME NEW i \in 1 .. Len(below) PROVE below[i].env \in S
        <5>1. i \in DOMAIN frames' /\ frames'[i] = below[i]
          BY <1>3
        <5>2. QED
          BY <5>1, <2>2
      <4>2. QED
        BY <4>1, <1>3
    <3>3. HasChildren(S)
      BY <3>1, <2>2, <1>1 DEF HasChildren
    <3>4. QED
      BY <3>1, <3>2, <3>3
  <2>3. QED
    BY <2>1, <2>2 DEF RestIsBelow
<1>8. NoEscalation'
  <2>1. \A c \in Envs : state'[c] = "init" =>
          c # e /\ state[c] = "init" /\ parent'[c] = parent[c]
    BY <1>4
  <2>2. QED
    BY <2>1 DEF NoEscalation, EverGiven, Alive, capVars
<1>9. QED
  BY <1>5, <1>6, <1>7, <1>8 DEF Narrow

\* A teardown that starts leaves the rights narrow.
LEMMA FreeEnvNarrow ==
  ASSUME NarrowFrees, Structure, Narrow, NEW e \in Envs, FreeEnv(e)
  PROVE  Narrow'
<1>1. frames = <<>> /\ UNCHANGED <<childCap, heapMapped, capVars>> /\ Enter(e, <<>>)
      /\ (\A d \in Descendants(e) : Len(children[d]) <= 1)
      /\ doomed' = IF state[e] = "uninit" THEN {} ELSE Descendants(e)
  BY DEF FreeEnv, Idle
<1>2. \A d \in Envs : state[d] = "uninit" \/ state[d] = "init"
  BY <1>1, IdleFacts
<1>3. CASE state[e] = "uninit"
  <2>1. UNCHANGED <<state, parent, children>> /\ frames' = <<>> /\ doomed' = {}
    BY <1>1, <1>3 DEF Enter, AlreadyFree
  <2>2. LinksListed' /\ NoEscalation'
    BY <2>1, <1>1 DEF Narrow, LinksListed, NoEscalation, EverGiven, Alive, capVars
  <2>3. DoomedNarrow' /\ RestIsBelow'
    BY <2>1 DEF DoomedNarrow, RestIsBelow
  <2>4. QED
    BY <2>2, <2>3 DEF Narrow
<1>4. CASE state[e] # "uninit"
  <2>1. Alive(e)
    BY <1>2, <1>4 DEF Alive
  <2>2. GoodBelow(<<>>)
    BY <1>2 DEF GoodBelow
  <2>3. doomed' = Descendants(e) /\ doomed' \subseteq Envs /\ e \in doomed'
    BY <1>1, <1>4 DEF Descendants
  <2>4. ASSUME NEW d \in Descendants(e) PROVE ToSet(children[d]) \subseteq Descendants(e)
    <3>1. ASSUME NEW c \in ToSet(children[d]) PROVE c \in Descendants(e)
      <4>1. d \in Envs /\ c \in Envs
        BY DEF Descendants, Structure, TypeOK, ToSet
      <4>2. ASSUME NEW S \in SUBSET Envs, e \in S, HasChildren(S) PROVE c \in S
        BY <4>2 DEF Descendants, HasChildren
      <4>3. QED
        BY <4>1, <4>2 DEF Descendants
    <3>2. QED
      BY <3>1
  <2>5. \A S \in SUBSET Envs : HasChildren(S) /\ e \in S => \A d \in doomed' : d \in S
    BY <2>3 DEF Descendants
  <2>6. \A c \in Envs : frames = <<[env |-> c, next |-> 0]>> => c = e
    BY <1>1
  <2>7. QED
    BY <1>1, <2>1, <2>2, <2>3, <2>4, <2>5, <2>6, EnterNarrow DEF Narrow
<1>5. QED
  BY <1>3, <1>4

\* So does freeing a child that was never finished.
LEMMA FreeUndoneChildNarrow ==
  ASSUME Structure, Narrow, FreeUndoneChild
  PROVE  Narrow'
<1> DEFINE e == Top.env
<1>1. ~Idle /\ Top.next = 0 /\ Enter(e, Front(frames))
      /\ UNCHANGED <<childCap, heapMapped, capVars>> /\ doomed' = doomed
  BY DEF FreeUndoneChild
<1>2. /\ Top = frames[Depth] /\ Depth \in DOMAIN frames /\ e \in Envs
      /\ DOMAIN frames = 1 .. Depth
      /\ Front(frames) \in Seq(Frame) /\ Len(Front(frames)) = Depth - 1
  BY <1>1, TopFacts
<1>3. Depth = 1 /\ Alive(e)
  BY <1>1, <1>2 DEF Structure, StackSound
<1>4. /\ Len(Front(frames)) = 0 /\ DOMAIN Front(frames) = {}
      /\ \A i \in DOMAIN frames : frames[i].env = e
  BY <1>2, <1>3
<1>5. GoodBelow(Front(frames))
  <2>1. \A d \in Envs : state[d] # "terminated"
    BY <1>3, <1>4 DEF Structure, TornDownOnStack, Alive
  <2>2. QED
    BY <2>1, <1>2, <1>4 DEF GoodBelow
<1>6. \A c \in Envs : frames = <<[env |-> c, next |-> 0]>> => c = e
  <2>1. ASSUME NEW c \in Envs, frames = <<[env |-> c, next |-> 0]>> PROVE c = e
    <3>1. frames[1] = [env |-> c, next |-> 0]
      BY <2>1
    <3>2. QED
      BY <3>1, <1>2, <1>3
  <2>2. QED
    BY <2>1
<1>7. e \in doomed /\ doomed \subseteq Envs
      /\ \A d \in doomed : Len(children[d]) <= 1 /\ ToSet(children[d]) \subseteq doomed
  BY <1>2 DEF Structure, TypeOK, Narrow, DoomedNarrow
<1>8. \A S \in SUBSET Envs : HasChildren(S) /\ e \in S => \A d \in doomed : heapMapped[d] => d \in S
  BY <1>4 DEF Narrow, RestIsBelow
<1> HIDE DEF e
<1>9. LinksListed /\ NoEscalation
  BY DEF Narrow
<1>10. QED
  BY <1>1, <1>2, <1>3, <1>4, <1>5, <1>6, <1>7, <1>8, <1>9, EnterNarrow

\* So does going down to a child.
LEMMA FreeChildNarrow ==
  ASSUME Structure, Narrow, FreeChild
  PROVE  Narrow'
<1> DEFINE e == Top.env
           c == children[e][Top.next]
           g == [Top EXCEPT !.next = @ + 1]
           below == Append(Front(frames), g)
<1>1. ~Idle /\ UNCHANGED <<childCap, heapMapped, capVars>> /\ doomed' = doomed
  BY DEF FreeChild
<1>2. /\ c \in ToSet(children[e]) /\ c \in Envs /\ Alive(c) /\ parent[c] = e
      /\ g.env = e /\ g.next = Top.next + 1
      /\ Top.next \in 1 .. Len(children[e])
      /\ below \in Seq(Frame) /\ Len(below) = Depth
      /\ below[Depth] = g
      /\ \A i \in 1 .. Depth - 1 : below[i] = frames[i]
      /\ GoodBelow(below)
      /\ Enter(c, below)
  BY FreeChildFacts
<1>3. /\ Depth \in Nat \ {0} /\ DOMAIN frames = 1 .. Depth
      /\ Top = frames[Depth] /\ e \in Envs /\ Top.next \in Nat
  BY <1>1, TopFacts
<1> HIDE DEF c, g, below
<1>4. DOMAIN below = 1 .. Depth
  BY <1>2
<1>5. \A p \in Envs : /\ Len(children'[p]) <= Len(children[p])
                      /\ c \in ToSet(children[p]) => Len(children'[p]) = Len(children[p]) - 1
  BY <1>2, EnterFacts
<1>6. \A i \in 1 .. Depth : below[i].env = frames[i].env
  <2>1. ASSUME NEW i \in 1 .. Depth PROVE below[i].env = frames[i].env
    <3>1. CASE i = Depth
      BY <3>1, <1>2, <1>3
    <3>2. CASE i # Depth
      BY <3>2, <1>2, <1>3
    <3>3. QED
      BY <3>1, <3>2
  <2>2. QED
    BY <2>1
<1>7. /\ doomed \subseteq Envs
      /\ \A d \in doomed : Len(children[d]) <= 1 /\ ToSet(children[d]) \subseteq doomed
      /\ \A i \in 1 .. Depth : /\ frames[i].env \in doomed
                               /\ Len(children[frames[i].env]) + frames[i].next <= 2
  BY <1>3 DEF Structure, TypeOK, Narrow, DoomedNarrow
<1>8. e \in doomed /\ Len(children[e]) + Top.next <= 2
  BY <1>3, <1>7
<1>9. c \in doomed
  BY <1>2, <1>7, <1>8
<1>10. \A d \in Envs : Len(children[d]) \in Nat /\ Len(children'[d]) \in Nat
  BY <1>2, EnterFacts DEF Structure, TypeOK
<1>11. ASSUME NEW i \in 1 .. Depth
       PROVE  /\ below[i].env \in doomed
              /\ Len(children'[below[i].env]) + below[i].next <= 2
  <2>1. CASE i = Depth
    <3>1. Len(children'[e]) = Len(children[e]) - 1
      BY <1>2, <1>3, <1>5
    <3>2. Len(children'[e]) + g.next <= 2
      BY <3>1, <1>2, <1>3, <1>8, <1>10
    <3>3. QED
      BY <3>2, <2>1, <1>2, <1>8
  <2>2. CASE i # Depth
    <3>1. i \in 1 .. Depth - 1
      BY <2>2, <1>3
    <3>2. below[i] = frames[i]
      BY <3>1, <1>2
    <3>3. frames[i].env \in Envs /\ frames[i].next \in Nat
      <4>1. \A k \in 1 .. Depth : frames[k] \in Frame
        BY <1>1, TopFacts
      <4>2. QED
        BY <4>1 DEF Frame
    <3>4. /\ Len(children'[frames[i].env]) <= Len(children[frames[i].env])
          /\ Len(children[frames[i].env]) + frames[i].next <= 2
      BY <3>3, <1>5, <1>7
    <3>5. Len(children'[frames[i].env]) + frames[i].next <= 2
      BY <3>3, <3>4, <1>10
    <3>6. QED
      BY <3>2, <3>5, <1>7
  <2>3. QED
    BY <2>1, <2>2
<1>12. \A d \in Envs : frames = <<[env |-> d, next |-> 0]>> => d = c
  <2>1. ASSUME NEW d \in Envs, frames = <<[env |-> d, next |-> 0]>> PROVE FALSE
    <3>1. Depth = 1 /\ frames[1] = [env |-> d, next |-> 0]
      BY <2>1 DEF Depth
    <3>2. Top.next = 0
      BY <3>1, <1>3
    <3>3. QED
      BY <3>2, <1>2, <1>3, <1>10
  <2>2. QED
    BY <2>1
<1>13. ASSUME NEW S \in SUBSET Envs, HasChildren(S), c \in S,
              \A i \in DOMAIN below : below[i].env \in S
       PROVE  \A d \in doomed : heapMapped[d] => d \in S
  <2>1. \A i \in DOMAIN frames : frames[i].env \in S
    BY <1>13, <1>3, <1>4, <1>6
  <2>2. QED
    BY <2>1, <1>13 DEF Narrow, RestIsBelow
<1>14. LinksListed /\ NoEscalation
  BY DEF Narrow
<1>15. QED
  BY <1>1, <1>2, <1>4, <1>7, <1>9, <1>11, <1>12, <1>13, <1>14, EnterNarrow

\* Where FreeFinish stands no child is left, and the array it clears is empty.
LEMMA FreeFinishFacts ==
  ASSUME Structure, Narrow, FreeFinish
  PROVE  LET e == Top.env
         IN  /\ e \in Envs /\ children[e] = <<>> /\ children' = children
             /\ \A c \in Envs : parent[c] # e
             /\ \A c \in Envs : frames # <<[env |-> c, next |-> 0]>>
<1> DEFINE e == Top.env
<1>1. ~Idle /\ Top.next > Len(children[e]) /\ children' = [children EXCEPT ![e] = <<>>]
  BY DEF FreeFinish, LoopOver
<1>2. /\ Depth \in Nat \ {0} /\ DOMAIN frames = 1 .. Depth
      /\ Top = frames[Depth] /\ e \in Envs /\ Top.next \in Nat
  BY <1>1, TopFacts
<1>3. children \in [Envs -> Seq(Envs)] /\ children[e] \in Seq(Envs) /\ Len(children[e]) \in Nat
  BY <1>2 DEF Structure, TypeOK
<1>4. Len(children[e]) + Top.next <= 2
  BY <1>2 DEF Narrow, DoomedNarrow
<1>5. Len(children[e]) = 0
  BY <1>1, <1>2, <1>3, <1>4
<1>6. children[e] = <<>> /\ ToSet(children[e]) = {}
  BY <1>3, <1>5, EmptyArray
<1>7. children' = children
  BY <1>1, <1>2, <1>3, <1>6
<1>8. \A c \in Envs : frames # <<[env |-> c, next |-> 0]>>
  <2>1. ASSUME NEW c \in Envs, frames = <<[env |-> c, next |-> 0]>> PROVE FALSE
    <3>1. Depth = 1 /\ frames[1] = [env |-> c, next |-> 0]
      BY <2>1 DEF Depth
    <3>2. Top.next = 0
      BY <3>1, <1>2
    <3>3. QED
      BY <3>2, <1>1, <1>3
  <2>2. QED
    BY <2>1
<1>9. \A c \in Envs : parent[c] # e
  BY <1>2, <1>6, <1>8 DEF Narrow, LinksListed
<1>10. QED
  BY <1>2, <1>6, <1>7, <1>8, <1>9

\* So does the end of a frame, which takes its environment away.
LEMMA FreeFinishNarrow ==
  ASSUME Structure, Narrow, FreeFinish
  PROVE  Narrow'
<1> DEFINE e == Top.env
<1>1. /\ ~Idle
      /\ state' = [state EXCEPT ![e] = "uninit"]
      /\ heapMapped' = [heapMapped EXCEPT ![e] = FALSE]
      /\ frames' = Front(frames)
      /\ doomed' = IF Len(frames) = 1 THEN {} ELSE doomed
      /\ caps' = [caps EXCEPT ![e] = {}]
      /\ granted' = [granted EXCEPT ![e] = Nothing]
      /\ memoryLimit' = [memoryLimit EXCEPT ![e] = 0]
      /\ parent' = parent
  BY DEF FreeFinish
<1>2. /\ Depth \in Nat \ {0} /\ DOMAIN frames = 1 .. Depth
      /\ Top = frames[Depth] /\ e \in Envs
      /\ Front(frames) \in Seq(Frame) /\ Len(Front(frames)) = Depth - 1
      /\ \A i \in 1 .. Depth - 1 : Front(frames)[i] = frames[i]
  BY <1>1, TopFacts
<1>3. /\ children[e] = <<>> /\ children' = children
      /\ \A c \in Envs : parent[c] # e
      /\ \A c \in Envs : frames # <<[env |-> c, next |-> 0]>>
  BY FreeFinishFacts
<1> HIDE DEF e
<1>4. /\ DOMAIN frames' = 1 .. Depth - 1
      /\ \A i \in 1 .. Depth - 1 : frames'[i] = frames[i]
  BY <1>1, <1>2
<1>5. \A d \in Envs : d # e =>
        /\ state'[d] = state[d] /\ heapMapped'[d] = heapMapped[d] /\ caps'[d] = caps[d]
        /\ granted'[d] = granted[d] /\ memoryLimit'[d] = memoryLimit[d]
  BY <1>1 DEF Structure, TypeOK
<1>6. state'[e] = "uninit"
  BY <1>1, <1>2 DEF Structure, TypeOK
<1>7. ~heapMapped'[e]
  BY <1>1, <1>2 DEF Structure, TypeOK
<1>8. LinksListed'
  <2>1. ASSUME NEW c \in Envs, parent[c] # NULL
        PROVE  state'[parent[c]] # "uninit" /\ c \in ToSet(children[parent[c]])
    <3>1. parent[c] \in Envs /\ parent[c] # e
      BY <2>1, <1>3 DEF Structure, TypeOK
    <3>2. state[parent[c]] # "uninit" /\ c \in ToSet(children[parent[c]])
      BY <2>1, <1>3 DEF Narrow, LinksListed
    <3>3. QED
      BY <3>1, <3>2, <1>5
  <2>2. QED
    BY <2>1, <1>1, <1>3 DEF LinksListed
<1>9. ASSUME Depth = 1 PROVE DoomedNarrow' /\ RestIsBelow'
  <2>1. doomed' = {} /\ DOMAIN frames' = {}
    BY <1>1, <1>4, <1>9 DEF Depth
  <2>2. QED
    BY <2>1 DEF DoomedNarrow, RestIsBelow
<1>10. ASSUME Depth # 1 PROVE DoomedNarrow' /\ RestIsBelow'
  <2>1. doomed' = doomed /\ 1 \in DOMAIN frames'
    BY <1>1, <1>2, <1>4, <1>10 DEF Depth
  <2>2. DoomedNarrow'
    <3>1. \A i \in DOMAIN frames' : i \in DOMAIN frames /\ frames'[i] = frames[i]
      BY <1>2, <1>4
    <3>2. QED
      BY <3>1, <2>1, <1>3 DEF Narrow, DoomedNarrow
  <2>3. ASSUME NEW S \in SUBSET Envs, HasChildren(S)',
               \A i \in DOMAIN frames' : frames'[i].env \in S,
               NEW d \in doomed, heapMapped'[d]
        PROVE  d \in S
    <3>1. HasChildren(S \cup {e})
      BY <2>3, <1>3 DEF HasChildren, ToSet
    <3>2. \A i \in 1 .. Depth : frames[i].env \in S \cup {e}
      <4>1. ASSUME NEW i \in 1 .. Depth PROVE frames[i].env \in S \cup {e}
        <5>1. CASE i = Depth
          BY <5>1, <1>2 DEF e
        <5>2. CASE i # Depth
          <6>1. i \in 1 .. Depth - 1
            BY <5>2, <1>2
          <6>2. QED
            BY <6>1, <2>3, <1>4
        <5>3. QED
          BY <5>1, <5>2
      <4>2. QED
        BY <4>1
    <3>3. d \in Envs /\ d # e /\ heapMapped[d]
      <4>1. d \in Envs
        BY DEF Structure, TypeOK
      <4>2. d # e
        BY <2>3, <1>7
      <4>3. heapMapped'[d] = heapMapped[d]
        BY <4>1, <4>2, <1>5
      <4>4. QED
        BY <4>1, <4>2, <4>3, <2>3
    <3>4. S \cup {e} \in SUBSET Envs
      BY <1>2
    <3>5. d \in S \cup {e}
      BY <3>1, <3>2, <3>3, <3>4, <1>2 DEF Narrow, RestIsBelow
    <3>6. QED
      BY <3>3, <3>5
  <2>4. ~Idle'
    BY <2>1 DEF Idle
  <2>5. QED
    BY <2>1, <2>2, <2>3, <2>4 DEF RestIsBelow
<1>11. NoEscalation'
  <2>1. ASSUME NEW c \in Envs, state'[c] = "init"
        PROVE  /\ caps'[c] \subseteq granted'[c].caps \cup granted'[c].added
               /\ AsTight(memoryLimit'[c], granted'[c].limit)
               /\ parent'[c] # NULL =>
                    /\ granted'[c].caps \subseteq
                         granted'[parent'[c]].caps \cup granted'[parent'[c]].added
                    /\ AsTight(granted'[c].limit, granted'[parent'[c]].limit)
    <3>1. c # e /\ Alive(c)
      BY <2>1, <1>5, <1>6 DEF Alive
    <3>2. parent[c] # NULL => parent[c] \in Envs /\ parent[c] # e
      BY <1>3 DEF Structure, TypeOK
    <3>3. /\ caps[c] \subseteq granted[c].caps \cup granted[c].added
          /\ AsTight(memoryLimit[c], granted[c].limit)
          /\ parent[c] # NULL =>
               /\ granted[c].caps \subseteq
                         granted[parent[c]].caps \cup granted[parent[c]].added
               /\ AsTight(granted[c].limit, granted[parent[c]].limit)
      BY <3>1 DEF Narrow, NoEscalation, EverGiven
    <3>4. QED
      BY <3>1, <3>2, <3>3, <1>1, <1>5
  <2>2. QED
    BY <2>1 DEF NoEscalation, EverGiven, Alive
<1>12. QED
  BY <1>8, <1>9, <1>10, <1>11 DEF Narrow

\* The rights of an environment that starts are those it was given.
LEMMA StartedRights ==
  ASSUME Structure, Narrow, NEW c \in Envs, state[c] = "uninit",
         NEW cs \in SUBSET Caps, NEW limit \in Limits, InitEnvWithSize(c, cs, limit),
         \A d \in Envs : d # c => parent'[d] = parent[d],
         parent'[c] # NULL =>
           /\ parent'[c] \in Envs /\ parent'[c] # c
           /\ cs \subseteq granted[parent'[c]].caps \cup granted[parent'[c]].added
           /\ AsTight(limit, granted[parent'[c]].limit)
  PROVE  NoEscalation'
<1>1. \A d \in Envs : d # c =>
        /\ state'[d] = state[d] /\ caps'[d] = caps[d]
        /\ granted'[d] = granted[d] /\ memoryLimit'[d] = memoryLimit[d]
  BY DEF Structure, TypeOK, InitEnvWithSize
<1>2. /\ caps'[c] = cs /\ memoryLimit'[c] = limit
      /\ granted'[c] = [caps |-> cs, limit |-> limit, added |-> {}]
  BY DEF Structure, TypeOK, InitEnvWithSize
<1>3. AsTight(limit, limit)
  <2>1. limit \in Nat
    OBVIOUS
  <2>2. QED
    BY <2>1 DEF AsTight
<1>4. ASSUME NEW d \in Envs, state'[d] = "init"
      PROVE  /\ caps'[d] \subseteq granted'[d].caps \cup granted'[d].added
             /\ AsTight(memoryLimit'[d], granted'[d].limit)
             /\ parent'[d] # NULL =>
                  /\ granted'[d].caps \subseteq
                         granted'[parent'[d]].caps \cup granted'[parent'[d]].added
                  /\ AsTight(granted'[d].limit, granted'[parent'[d]].limit)
  <2>1. CASE d = c
    <3>1. granted'[c].caps = cs /\ granted'[c].limit = limit /\ granted'[c].added = {}
      BY <1>2
    <3>2. parent'[c] # NULL => granted'[parent'[c]] = granted[parent'[c]]
      BY <1>1
    <3>3. QED
      BY <2>1, <3>1, <3>2, <1>2, <1>3
  <2>2. CASE d # c
    <3>1. Alive(d) /\ parent'[d] = parent[d]
      BY <2>2, <1>1, <1>4 DEF Alive
    <3>2. parent[d] # NULL => parent[d] \in Envs /\ parent[d] # c
      BY DEF Structure, TypeOK, Narrow, LinksListed
    <3>3. /\ caps[d] \subseteq granted[d].caps \cup granted[d].added
          /\ AsTight(memoryLimit[d], granted[d].limit)
          /\ parent[d] # NULL =>
               /\ granted[d].caps \subseteq
                         granted[parent[d]].caps \cup granted[parent[d]].added
               /\ AsTight(granted[d].limit, granted[parent[d]].limit)
      BY <3>1 DEF Narrow, NoEscalation, EverGiven
    <3>4. QED
      BY <2>2, <3>1, <3>2, <3>3, <1>1
  <2>3. QED
    BY <2>1, <2>2
<1>5. QED
  BY <1>4 DEF NoEscalation, EverGiven, Alive

\* A root has what it was given, and no parent.
LEMMA InitEnvNarrow ==
  ASSUME Structure, Narrow, NEW e \in Envs, NEW size, InitEnv(e, size)
  PROVE  Narrow'
<1>1. /\ frames = <<>> /\ state[e] = "uninit" /\ InitEnvWithSize(e, Caps, 0)
      /\ UNCHANGED <<parent, children, frames, doomed>>
  BY DEF InitEnv, Idle, familyVars
<1>2. \A d \in Envs : state'[d] = IF d = e THEN "init" ELSE state[d]
  BY <1>1, InitEnvTypes DEF Structure
<1>3. LinksListed'
  <2>1. \A c \in Envs : parent[c] # NULL => parent[c] \in Envs
    BY DEF Structure, TypeOK
  <2>2. QED
    BY <2>1, <1>1, <1>2 DEF Narrow, LinksListed
<1>4. DoomedNarrow' /\ RestIsBelow'
  <2>1. doomed' = {} /\ DOMAIN frames' = {}
    BY <1>1 DEF Narrow, RestIsBelow, Idle
  <2>2. QED
    BY <2>1 DEF DoomedNarrow, RestIsBelow
<1>5. parent'[e] = NULL
  BY <1>1, FreshFacts
<1>6. NoEscalation'
  BY <1>1, <1>5, StartedRights
<1>7. QED
  BY <1>3, <1>4, <1>6 DEF Narrow

\* A child gets no more than its parent has, which is no more than it was given.
LEMMA DerivedRights ==
  ASSUME Structure, Narrow, NEW p \in Envs, Alive(p), NEW cs
  PROVE  /\ Derive(caps[p], cs) \in SUBSET Caps /\ memoryLimit[p] \in Limits
         /\ Derive(caps[p], cs) \subseteq granted[p].caps \cup granted[p].added
         /\ AsTight(memoryLimit[p], granted[p].limit)
  BY DEF Structure, TypeOK, Narrow, NoEscalation, EverGiven, Derive

\* A child has no more than its parent.
LEMMA CreateChildEnvNarrow ==
  ASSUME Structure, Narrow, NEW p \in Envs, NEW c \in Envs, NEW cs, NEW size,
         CreateChildEnv(p, c, cs, size)
  PROVE  Narrow'
<1>1. /\ frames = <<>> /\ Alive(p) /\ state[c] = "uninit" /\ c # p
      /\ InitEnvWithSize(c, Derive(caps[p], cs), memoryLimit[p])
      /\ parent' = [parent EXCEPT ![c] = p]
      /\ children' = [children EXCEPT ![p] = Append(@, c)]
      /\ UNCHANGED <<frames, doomed>>
  BY DEF CreateChildEnv, CanCreate, Idle
<1>2. /\ Derive(caps[p], cs) \in SUBSET Caps /\ memoryLimit[p] \in Limits
      /\ Derive(caps[p], cs) \subseteq granted[p].caps \cup granted[p].added
      /\ AsTight(memoryLimit[p], granted[p].limit)
  BY <1>1, DerivedRights
<1>3. \A d \in Envs : state'[d] = IF d = c THEN "init" ELSE state[d]
  BY <1>1, <1>2, InitEnvTypes DEF Structure
<1>4. \A d \in Envs : parent'[d] = IF d = c THEN p ELSE parent[d]
  BY <1>1 DEF Structure, TypeOK
<1>5. \A d \in Envs : ToSet(children'[d]) = IF d = p THEN ToSet(children[p]) \cup {c}
                                            ELSE ToSet(children[d])
  <2>1. children[p] \in Seq(Envs) /\ children \in [Envs -> Seq(Envs)]
    BY DEF Structure, TypeOK
  <2>2. ToSet(Append(children[p], c)) = ToSet(children[p]) \cup {c}
    BY <2>1, AppendFacts
  <2>3. \A d \in Envs : children'[d] = IF d = p THEN Append(children[p], c) ELSE children[d]
    BY <2>1, <1>1
  <2>4. QED
    BY <2>2, <2>3
<1>6. LinksListed'
  <2>1. ASSUME NEW d \in Envs, parent'[d] # NULL
        PROVE  state'[parent'[d]] # "uninit" /\ d \in ToSet(children'[parent'[d]])
    <3>1. CASE d = c
      BY <3>1, <1>1, <1>3, <1>4, <1>5 DEF Alive
    <3>2. CASE d # c
      <4>1. parent'[d] = parent[d] /\ parent[d] \in Envs
        BY <2>1, <3>2, <1>4 DEF Structure, TypeOK
      <4>2. state[parent[d]] # "uninit" /\ d \in ToSet(children[parent[d]])
        BY <2>1, <4>1, <1>1 DEF Narrow, LinksListed
      <4>3. QED
        BY <4>1, <4>2, <1>3, <1>5
    <3>3. QED
      BY <3>1, <3>2
  <2>2. QED
    BY <2>1 DEF LinksListed
<1>7. DoomedNarrow' /\ RestIsBelow'
  <2>1. doomed' = {} /\ DOMAIN frames' = {}
    BY <1>1 DEF Narrow, RestIsBelow, Idle
  <2>2. QED
    BY <2>1 DEF DoomedNarrow, RestIsBelow
<1>8. parent'[c] = p /\ \A d \in Envs : d # c => parent'[d] = parent[d]
  BY <1>4
<1>9. NoEscalation'
  BY <1>1, <1>2, <1>8, StartedRights
<1>10. QED
  BY <1>6, <1>7, <1>9 DEF Narrow

\* A child whose creation fails leaves nothing that has more.
LEMMA CreateChildUndoneNarrow ==
  ASSUME Structure, Narrow, NEW p \in Envs, NEW c \in Envs, NEW cs, NEW size,
         CreateChildUndone(p, c, cs, size)
  PROVE  Narrow'
<1> DEFINE f == [env |-> c, next |-> 0]
<1>1. /\ frames = <<>> /\ Alive(p) /\ state[c] = "uninit" /\ c # p
      /\ InitEnvWithSize(c, Derive(caps[p], cs), memoryLimit[p])
      /\ parent' = [parent EXCEPT ![c] = p]
      /\ frames' = <<f>> /\ doomed' = {c}
      /\ children' = children
  BY DEF CreateChildUndone, CanCreate, Idle
<1>2. f.env = c /\ f.next = 0
  OBVIOUS
<1>3. frames' # <<>> /\ DOMAIN frames' = {1} /\ frames'[1] = f
  BY <1>1
<1>4. /\ Derive(caps[p], cs) \in SUBSET Caps /\ memoryLimit[p] \in Limits
      /\ Derive(caps[p], cs) \subseteq granted[p].caps \cup granted[p].added
      /\ AsTight(memoryLimit[p], granted[p].limit)
  BY <1>1, DerivedRights
<1>5. \A d \in Envs : state'[d] = IF d = c THEN "init" ELSE state[d]
  BY <1>1, <1>4, InitEnvTypes DEF Structure
<1>6. \A d \in Envs : parent'[d] = IF d = c THEN p ELSE parent[d]
  BY <1>1 DEF Structure, TypeOK
<1>7. LinksListed'
  <2>1. ASSUME NEW d \in Envs, parent'[d] # NULL
        PROVE  /\ state'[parent'[d]] # "uninit"
               /\ d \in ToSet(children'[parent'[d]]) \/ frames' = <<[env |-> d, next |-> 0]>>
    <3>1. CASE d = c
      BY <3>1, <1>1, <1>5, <1>6 DEF Alive
    <3>2. CASE d # c
      <4>1. parent'[d] = parent[d] /\ parent[d] \in Envs
        BY <2>1, <3>2, <1>6 DEF Structure, TypeOK
      <4>2. state[parent[d]] # "uninit" /\ d \in ToSet(children[parent[d]])
        BY <2>1, <4>1, <1>1 DEF Narrow, LinksListed
      <4>3. QED
        BY <4>1, <4>2, <1>1, <1>5
    <3>3. QED
      BY <3>1, <3>2
  <2>2. QED
    BY <2>1 DEF LinksListed
<1>8. children[c] = <<>>
  BY <1>1, FreshFacts
<1> HIDE DEF f
<1>9. DoomedNarrow'
  <2>1. Len(children'[c]) = 0 /\ ToSet(children'[c]) = {}
    BY <1>1, <1>8 DEF ToSet
  <2>2. QED
    BY <2>1, <1>1, <1>2, <1>3 DEF DoomedNarrow
<1>10. RestIsBelow'
  BY <1>1, <1>2, <1>3 DEF RestIsBelow, Idle
<1>11. parent'[c] = p /\ \A d \in Envs : d # c => parent'[d] = parent[d]
  BY <1>6
<1>12. NoEscalation'
  BY <1>1, <1>4, <1>11, StartedRights
<1>13. QED
  BY <1>7, <1>9, <1>10, <1>12 DEF Narrow

\* Rights that only shrink escalate nowhere.
LEMMA RightsNarrow ==
  ASSUME Structure, Narrow, UNCHANGED <<state, familyVars, heapMapped, granted, frames, doomed>>,
         \A d \in Envs : caps'[d] \subseteq caps[d],
         \A d \in Envs : Alive(d) => AsTight(memoryLimit'[d], granted[d].limit)
  PROVE  Narrow'
<1>1. LinksListed' /\ DoomedNarrow' /\ RestIsBelow'
  BY DEF Narrow, LinksListed, DoomedNarrow, RestIsBelow, Idle, HasChildren, familyVars
<1>2. NoEscalation'
  BY DEF Narrow, NoEscalation, EverGiven, Alive, familyVars
<1>3. QED
  BY <1>1, <1>2 DEF Narrow

\* What the host adds it is known to have added, to the environment and to what it
\* derives from then on.
LEMMA GrantNarrow ==
  ASSUME Structure, Narrow, NEW e \in Envs, NEW cs \in SUBSET Caps, GrantCapabilities(e, cs)
  PROVE  Narrow'
<1>1. UNCHANGED <<state, parent, children, childCap, heapMapped, frames, doomed>>
  BY DEF GrantCapabilities, familyVars
<1>2. LinksListed' /\ DoomedNarrow' /\ RestIsBelow'
  BY <1>1 DEF Narrow, LinksListed, DoomedNarrow, RestIsBelow, Idle, HasChildren
<1>3. \A d \in Envs : /\ EverGiven(d) \subseteq EverGiven(d)'
                      /\ granted'[d].caps = granted[d].caps
                      /\ granted'[d].limit = granted[d].limit
                      /\ memoryLimit'[d] = memoryLimit[d]
  BY GrantTypes DEF EverGiven
<1>4. ASSUME NEW d \in Envs, caps[d] \subseteq EverGiven(d)
      PROVE  caps'[d] \subseteq EverGiven(d)'
  <2>1. EverGiven(d) \subseteq EverGiven(d)'
    BY <1>3
  <2>2. CASE d = e
    <3>1. caps'[d] = caps[d] \cup cs /\ cs \subseteq EverGiven(d)'
      BY <2>2, GrantRecorded
    <3>2. QED
      BY <1>4, <2>1, <3>1
  <2>3. CASE d # e
    <3>1. caps'[d] = caps[d]
      BY <2>3 DEF GrantCapabilities, Structure, TypeOK
    <3>2. QED
      BY <1>4, <2>1, <3>1
  <2>4. QED
    BY <2>2, <2>3
<1>5. ASSUME NEW d \in Envs, state'[d] = "init"
      PROVE  /\ caps'[d] \subseteq EverGiven(d)'
             /\ AsTight(memoryLimit'[d], granted'[d].limit)
             /\ parent'[d] # NULL =>
                  /\ granted'[d].caps \subseteq EverGiven(parent[d])'
                  /\ AsTight(granted'[d].limit, granted'[parent[d]].limit)
  <2>1. Alive(d) /\ parent' = parent /\ (parent[d] # NULL => parent[d] \in Envs)
    BY <1>1, <1>5 DEF Alive, Structure, TypeOK
  <2>2. /\ caps[d] \subseteq EverGiven(d)
        /\ AsTight(memoryLimit[d], granted[d].limit)
        /\ parent[d] # NULL =>
             /\ granted[d].caps \subseteq EverGiven(parent[d])
             /\ AsTight(granted[d].limit, granted[parent[d]].limit)
    BY <2>1 DEF Narrow, NoEscalation
  <2>3. QED
    BY <2>1, <2>2, <1>3, <1>4
<1>6. NoEscalation'
  BY <1>1, <1>5 DEF NoEscalation, Alive, EverGiven
<1>7. QED
  BY <1>2, <1>6 DEF Narrow

\* A limit is only ever made tighter.
LEMMA SetLimitTightens ==
  ASSUME NEW current \in Limits, NEW limit \in Limits, NEW other \in Limits,
         AsTight(current, other)
  PROVE  AsTight(SetLimit(current, limit), other)
<1>1. current \in Nat /\ limit \in Nat /\ other \in Nat
  OBVIOUS
<1>2. QED
  BY <1>1 DEF SetLimit, AsTight

\* Without environments nothing is wide.
LEMMA InitNarrow == Init => Narrow
<1> SUFFICES ASSUME Init PROVE Narrow
  OBVIOUS
<1>1. LinksListed /\ NoEscalation
  BY DEF Init, LinksListed, NoEscalation, EverGiven, Alive
<1>2. doomed = {} /\ DOMAIN frames = {}
  BY DEF Init
<1>3. QED
  BY <1>1, <1>2 DEF Narrow, DoomedNarrow, RestIsBelow

\* Every step keeps the rights narrow.
LEMMA NextNarrow ==
  ASSUME NarrowFrees, Structure, Narrow, [Next]_vars
  PROVE  Narrow'
<1>1. \A d \in Envs : Alive(d) => AsTight(memoryLimit[d], granted[d].limit)
  BY DEF Narrow, NoEscalation, EverGiven
<1>2. ASSUME UNCHANGED vars PROVE Narrow'
  BY <1>1, <1>2, RightsNarrow DEF vars, capVars
<1>3. CASE FreeUndoneChild
  BY <1>3, FreeUndoneChildNarrow
<1>4. CASE FreeChild
  BY <1>4, FreeChildNarrow
<1>5. CASE FreeFinish
  BY <1>5, FreeFinishNarrow
<1>6. ASSUME NEW e \in Envs, FreeEnv(e) PROVE Narrow'
  BY <1>6, FreeEnvNarrow
<1>7. ASSUME NEW e \in Envs, NEW size \in HeapSizes, InitEnv(e, size) \/ InitEnvError(e, size)
      PROVE  Narrow'
  BY <1>2, <1>7, InitEnvNarrow DEF InitEnvError, RaiseError
<1>8. ASSUME NEW e \in Envs, NEW cs \in SUBSET Caps, GrantCapabilities(e, cs)
       PROVE  Narrow'
  BY <1>8, GrantNarrow
<1>9. ASSUME NEW e \in Envs, NEW cs \in SUBSET Caps, RevokeCapabilities(e, cs)
      PROVE  Narrow'
  <2>1. \A d \in Envs : caps'[d] \subseteq caps[d]
    BY <1>9 DEF RevokeCapabilities, Structure, TypeOK
  <2>2. QED
    BY <1>1, <1>9, <2>1, RightsNarrow DEF RevokeCapabilities
<1>10. ASSUME NEW e \in Envs, NEW limit \in Limits, CapabilityContextSetLimits(e, limit)
      PROVE  Narrow'
  <2>1. /\ memoryLimit' = [memoryLimit EXCEPT ![e] = SetLimit(@, limit)]
        /\ Alive(e) /\ caps' = caps /\ memoryLimit \in [Envs -> Limits]
        /\ granted[e].limit \in Limits
    BY <1>10 DEF CapabilityContextSetLimits, Structure, TypeOK
  <2>2. AsTight(SetLimit(memoryLimit[e], limit), granted[e].limit)
    BY <1>1, <2>1, SetLimitTightens
  <2>3. \A d \in Envs : Alive(d) => AsTight(memoryLimit'[d], granted[d].limit)
    BY <1>1, <2>1, <2>2
  <2>4. QED
    BY <1>10, <2>1, <2>3, RightsNarrow DEF CapabilityContextSetLimits
<1>11. ASSUME NEW p \in Envs, NEW c \in Envs, NEW size \in HeapSizes,
              CreateChildError(p, c, size)
       PROVE  Narrow'
  BY <1>2, <1>11 DEF CreateChildError, RaiseError
<1>12. ASSUME NEW p \in Envs, NEW c \in Envs, NEW cs \in SUBSET Caps, NEW size \in HeapSizes,
              CreateChildEnv(p, c, cs, size) \/ CreateChildUndone(p, c, cs, size)
       PROVE  Narrow'
  BY <1>12, CreateChildEnvNarrow, CreateChildUndoneNarrow
<1>13. QED
  BY <1>2, <1>3, <1>4, <1>5, <1>6, <1>7, <1>8, <1>9, <1>10, <1>11, <1>12
  DEF Next, FreeStep

\* As long as the host frees no parent of two, families and rights are in order in
\* every reachable state, and a call has before it what it must still free.
THEOREM NarrowHolds ==
  ASSUME NarrowFrees
  PROVE  Spec => []Narrow
<1>1. Structure /\ Narrow /\ [Next]_vars => Narrow'
  BY NextNarrow
<1>2. QED
  BY <1>1, InitNarrow, StructureHolds, PTL DEF Spec

\* Between calls parent links and children arrays agree.
THEOREM FamiliesAreConsistent ==
  ASSUME NarrowFrees
  PROVE  Spec => []FamilyConsistent
<1>1. ASSUME Structure, Narrow PROVE FamilyConsistent
  <2>1. SUFFICES ASSUME frames = <<>> PROVE FamilyConsistent
    BY DEF FamilyConsistent, Idle
  <2>2. ASSUME NEW c \in Envs, parent[c] # NULL
        PROVE  Alive(c) /\ Alive(parent[c]) /\ c \in ToSet(children[parent[c]])
    <3>1. parent[c] \in Envs /\ Alive(c)
      BY <1>1, <2>2 DEF Structure, TypeOK, LinksLive
    <3>2. state[parent[c]] # "uninit" /\ c \in ToSet(children[parent[c]])
      BY <1>1, <2>1, <2>2 DEF Narrow, LinksListed
    <3>3. QED
      BY <1>1, <2>1, <3>1, <3>2, IdleFacts DEF Alive
  <2>3. ASSUME NEW p \in Envs, NEW i \in DOMAIN children[p], NEW j \in DOMAIN children[p]
        PROVE  parent[children[p][i]] = p /\ (children[p][i] = children[p][j] => i = j)
    <3>1. children[p][i] \in ToSet(children[p])
      BY DEF ToSet
    <3>2. QED
      BY <1>1, <3>1 DEF Structure, ListsSound, Distinct
  <2>4. QED
    BY <2>2, <2>3 DEF FamilyConsistent
<1>2. QED
  BY <1>1, StructureHolds, NarrowHolds, PTL

\* No environment ever holds more than it started with and the host granted it, nor
\* starts with more than its parent was ever given.
THEOREM RightsNeverEscalate ==
  ASSUME NarrowFrees
  PROVE  Spec => []NoEscalation
<1>1. Narrow => NoEscalation
  BY DEF Narrow
<1>2. QED
  BY <1>1, NarrowHolds, PTL

\* The step that ends the host's call leaves nothing of what it had to free.
LEMMA LastStepFrees ==
  ASSUME Structure, Narrow, [Next]_vars, ~Idle, frames' = <<>>
  PROVE  \A d \in doomed : ~heapMapped'[d]
<1>1. CASE FreeFinish
  <2> DEFINE e == Top.env
  <2>1. frames' = Front(frames) /\ heapMapped' = [heapMapped EXCEPT ![e] = FALSE]
    BY <1>1 DEF FreeFinish
  <2>2. /\ Depth \in Nat \ {0} /\ DOMAIN frames = 1 .. Depth
        /\ Top = frames[Depth] /\ e \in Envs
        /\ Front(frames) \in Seq(Frame) /\ Len(Front(frames)) = Depth - 1
    BY TopFacts
  <2>3. Depth = 1
    BY <2>1, <2>2
  <2>4. HasChildren({e})
    <3>1. children[e] = <<>>
      BY <1>1, FreeFinishFacts
    <3>2. ToSet(children[e]) = {}
      BY <3>1 DEF ToSet
    <3>3. QED
      BY <3>2 DEF HasChildren
  <2>5. \A i \in DOMAIN frames : frames[i].env \in {e}
    BY <2>2, <2>3
  <2>6. \A d \in doomed : heapMapped[d] => d \in {e}
    BY <2>2, <2>4, <2>5 DEF Narrow, RestIsBelow
  <2> HIDE DEF e
  <2>7. ASSUME NEW d \in doomed PROVE ~heapMapped'[d]
    <3>1. d \in Envs /\ heapMapped \in [Envs -> BOOLEAN]
      BY DEF Structure, TypeOK
    <3>2. CASE d = e
      BY <3>1, <3>2, <2>1
    <3>3. CASE d # e
      <4>1. ~heapMapped[d]
        BY <3>3, <2>6
      <4>2. heapMapped'[d] = heapMapped[d]
        BY <3>1, <3>3, <2>1
      <4>3. QED
        BY <4>1, <4>2
    <3>4. QED
      BY <3>2, <3>3
  <2>8. QED
    BY <2>7
<1>2. CASE FreeUndoneChild
  <2>1. /\ Top = frames[Depth] /\ Depth \in DOMAIN frames /\ Top.env \in Envs
    BY TopFacts
  <2>2. Alive(Top.env)
    BY <1>2, <2>1 DEF FreeUndoneChild, Structure, StackSound
  <2>3. frames' = Append(Front(frames), [env |-> Top.env, next |-> 1])
    BY <1>2, <2>2 DEF FreeUndoneChild, Enter, AlreadyFree, Alive
  <2>4. Front(frames) \in Seq(Frame) /\ [env |-> Top.env, next |-> 1] \in Frame
    BY <2>1, TopFacts DEF Frame
  <2>5. QED
    BY <2>3, <2>4
<1>3. CASE FreeChild
  <2> DEFINE c == children[Top.env][Top.next]
             below == Append(Front(frames), [Top EXCEPT !.next = @ + 1])
  <2>1. c \in Envs /\ Alive(c) /\ below \in Seq(Frame) /\ Enter(c, below)
    BY <1>3, FreeChildFacts
  <2> HIDE DEF c, below
  <2>2. frames' = Append(below, [env |-> c, next |-> 1]) /\ [env |-> c, next |-> 1] \in Frame
    BY <2>1 DEF Enter, AlreadyFree, Alive, Frame
  <2>3. QED
    BY <2>1, <2>2
<1>4. ASSUME NEW e \in Envs, NEW size \in HeapSizes, InitEnv(e, size) PROVE FALSE
  BY <1>4 DEF InitEnv
<1>5. ASSUME UNCHANGED frames PROVE FALSE
  BY <1>5 DEF Idle
<1>6. ASSUME NEW e \in Envs, FreeEnv(e) PROVE FALSE
  BY <1>6 DEF FreeEnv
<1>7. ASSUME NEW e \in Envs, NEW size \in HeapSizes, InitEnvError(e, size) PROVE FALSE
  BY <1>7 DEF InitEnvError
<1>8. ASSUME NEW e \in Envs, NEW cs \in SUBSET Caps,
             GrantCapabilities(e, cs) \/ RevokeCapabilities(e, cs)
      PROVE  FALSE
  BY <1>8 DEF GrantCapabilities, RevokeCapabilities
<1>9. ASSUME NEW e \in Envs, NEW limit \in Limits, CapabilityContextSetLimits(e, limit)
      PROVE  FALSE
  BY <1>9 DEF CapabilityContextSetLimits
<1>10. ASSUME NEW p \in Envs, NEW c \in Envs, NEW size \in HeapSizes,
              CreateChildError(p, c, size)
       PROVE  FALSE
  BY <1>10 DEF CreateChildError, CanCreate
<1>11. ASSUME NEW p \in Envs, NEW c \in Envs, NEW cs \in SUBSET Caps, NEW size \in HeapSizes,
              CreateChildEnv(p, c, cs, size) \/ CreateChildUndone(p, c, cs, size)
       PROVE  FALSE
  BY <1>11 DEF CreateChildEnv, CreateChildUndone, CanCreate
<1>12. QED
  BY <1>1, <1>2, <1>3, <1>4, <1>5, <1>6, <1>7, <1>8, <1>9, <1>10, <1>11
     DEF Next, FreeStep, vars

\* When the host's call of piFreeEnv returns, everything below its argument is free.
THEOREM FreeEnvCompletes ==
  ASSUME NarrowFrees
  PROVE  Spec => FreeEnvIsComplete
<1>1. Structure /\ Narrow /\ [Next]_vars
        => [~Idle /\ frames' = <<>> => \A e \in doomed : ~heapMapped'[e]]_vars
  BY LastStepFrees
<1>2. QED
  BY <1>1, StructureHolds, NarrowHolds, PTL DEF Spec, FreeEnvIsComplete

===============================================================================
