------------------------------- MODULE IoProofs -------------------------------
(***************************************************************************)
(* Proofs about Io, for both builds and every number of files, streams,    *)
(* texts, line sizes and handles, and every bound.                         *)
(***************************************************************************)
EXTENDS Io, DataLemmas

USE IoAssumption

-------------------------------------------------------------------------------
(* The inductive invariant.                                                   *)

OpenStreams == {s \in Streams : IsOpen(s)}

\* An open file has one stream, and a file an error left open has none.
Apart ==
  /\ \A s, t \in Streams : IsOpen(s) /\ IsOpen(t) /\ stream[s].path = stream[t].path => s = t
  /\ \A s \in Streams : IsOpen(s) => stream[s].path \notin lost

\* The call in progress has its stream open.
CallOpen == call # NULL => IsOpen(call.stream)

Accounted ==
  /\ IsFiniteSet(OpenStreams) /\ IsFiniteSet(lost)
  /\ HandlesAccounted

\* Bytes are held back behind those that were not, at the end when appending, and by
\* stdio alone; and where the mark of stdio stands, all of the file is before them.
HeldSound ==
  \A s \in Streams : IsOpen(s) =>
    /\ Len(stream[s].unwritten) <= stream[s].pos
    /\ ~Posix => stream[s].unwritten = <<>>
    /\ stream[s].append /\ stream[s].unwritten # <<>> => stream[s].pos = Len(View(s))
    /\ Posix /\ stream[s].eof =>
         stream[s].pos - Len(stream[s].unwritten) >= Len(content[stream[s].path])

\* What the steps of a call have done so far.
CallSound ==
  call # NULL =>
    LET s == call.stream
    IN  /\ call.name = "line" => call.start <= stream[s].pos
        /\ call.name = "read" /\ call.step # "close" =>
             /\ stream[s].pos = 0 /\ ~stream[s].eof
             /\ call.step # "size" => call.size = Len(View(s))
        /\ call.name = "write" /\ call.step = "data" =>
             /\ View(s) = <<>> /\ stream[s].pos = 0
             /\ stream[s].unwritten = <<>> /\ ~stream[s].append

IInv == TypeOK /\ Apart /\ CallOpen /\ Accounted /\ HeldSound /\ CallSound /\ CallsExact

\* The part of the invariant that says nothing of the call in progress.
Core ==
  /\ io \in Builds
  /\ kind \in [Paths -> {"none", "file", "dir"}] /\ content \in [Paths -> Seq(Bytes)]
  /\ stream \in [Streams -> Handle \cup {NULL}]
  /\ handles \in Nat /\ lost \subseteq Paths
  /\ Apart /\ Accounted /\ HeldSound

CallTyped == call \in {NULL} \cup Line \cup EntireFileRead \cup EntireFileWrite

\* The inductive invariant, part by part.
LEMMA IInvParts == IInv <=> Core /\ CallTyped /\ CallOpen /\ CallSound /\ CallsExact
  BY DEF IInv, Core, TypeOK, CallTyped

-------------------------------------------------------------------------------
(* The file as a stream sees it.                                              *)

\* The larger of two numbers.
LEMMA Max2 ==
  ASSUME NEW m \in Nat, NEW n \in Nat
  PROVE  Max({m, n}) = IF m >= n THEN m ELSE n
  BY DEF Max

\* The smaller of two numbers.
LEMMA Min2 ==
  ASSUME NEW m \in Nat, NEW n \in Nat
  PROVE  Min({m, n}) = IF m <= n THEN m ELSE n
  BY DEF Min

\* What is laid over a text at n is there, and the text around it is as it was.
LEMMA OverlayFacts ==
  ASSUME NEW old \in Seq(Bytes), NEW n \in Nat, NEW data \in Seq(Bytes)
  PROVE  LET t == Overlay(old, n, data)
         IN  /\ t \in Seq(Bytes)
             /\ data = <<>> => t = old
             /\ data # <<>> =>
                  /\ Len(t) = IF Len(old) >= n + Len(data) THEN Len(old) ELSE n + Len(data)
                  /\ \A i \in 1 .. Len(t) :
                       t[i] = IF i \in n + 1 .. n + Len(data) THEN data[i - n]
                              ELSE IF i <= Len(old) THEN old[i] ELSE Gap
<1> DEFINE k == Max({Len(old), n + Len(data)})
           byte(i) == IF i \in n + 1 .. n + Len(data) THEN data[i - n]
                      ELSE IF i \in DOMAIN old THEN old[i] ELSE Gap
           t == Overlay(old, n, data)
<1>1. CASE data = <<>>
  BY <1>1 DEF Overlay
<1>2. CASE data # <<>>
  <2>1. t = [i \in 1 .. k |-> byte(i)]
    BY <1>2 DEF Overlay
  <2>2. /\ Len(old) \in Nat /\ Len(data) \in Nat
        /\ DOMAIN old = 1 .. Len(old) /\ DOMAIN data = 1 .. Len(data)
    OBVIOUS
  <2>3. k = (IF Len(old) >= n + Len(data) THEN Len(old) ELSE n + Len(data)) /\ k \in Nat
    BY <2>2, Max2
  <2>4. \A i \in 1 .. k : byte(i) \in Bytes
    <3>1. ASSUME NEW i \in 1 .. k PROVE byte(i) \in Bytes
      <4>1. CASE i \in n + 1 .. n + Len(data)
        <5>1. i - n \in 1 .. Len(data)
          BY <4>1, <2>2
        <5>2. data[i - n] \in Bytes
          BY <5>1
        <5>3. QED
          BY <4>1, <5>2
      <4>2. CASE i \notin n + 1 .. n + Len(data)
        <5>1. Gap \in Bytes
          BY DEF Bytes
        <5>2. i \in DOMAIN old => old[i] \in Bytes
          OBVIOUS
        <5>3. QED
          BY <4>2, <5>1, <5>2
      <4>3. QED
        BY <4>1, <4>2
    <3>2. QED
      BY <3>1
  <2>5. \A i \in 1 .. k :
          byte(i) = IF i \in n + 1 .. n + Len(data) THEN data[i - n]
                    ELSE IF i <= Len(old) THEN old[i] ELSE Gap
    BY <2>2, <2>3
  <2> HIDE DEF k, byte, t
  <2>6. t \in Seq(Bytes) /\ Len(t) = k /\ \A i \in 1 .. k : t[i] = byte(i)
    BY <2>1, <2>3, <2>4
  <2>7. QED
    BY <1>2, <2>3, <2>5, <2>6 DEF t
<1>3. QED
  BY <1>1, <1>2

\* No bytes are a text.
LEMMA NoBytes == \E empty \in Seq(Bytes) : empty = <<>>
<1>1. <<>> \in Seq(Bytes)
  OBVIOUS
<1>2. QED
  BY <1>1, Zenon

\* What is held back, and data behind it.
LEMMA HeldFacts ==
  ASSUME NEW held \in Seq(Bytes), NEW data \in Seq(Bytes)
  PROVE  /\ held \o data \in Seq(Bytes) /\ Len(held \o data) = Len(held) + Len(data)
         /\ Len(held) \in Nat /\ Len(data) \in Nat
         /\ data = <<>> <=> Len(data) = 0
         /\ held \o data = <<>> <=> Len(held \o data) = 0
         /\ data = <<>> => held \o data = held
         /\ held = <<>> => held \o data = data
  OBVIOUS

\* The view of an open stream is a text that reaches as far as what it holds back.
LEMMA ViewFacts ==
  ASSUME Core, NEW s \in Streams, IsOpen(s)
  PROVE  LET f == stream[s]
             n == f.pos - Len(f.unwritten)
         IN  /\ f \in Handle /\ f.path \in Paths /\ f.pos \in Nat /\ f.unwritten \in Seq(Bytes)
             /\ f.read \in BOOLEAN /\ f.write \in BOOLEAN /\ f.append \in BOOLEAN
             /\ f.eof \in BOOLEAN /\ f.flags \in SUBSET Flags
             /\ n \in Nat /\ content[f.path] \in Seq(Bytes)
             /\ View(s) = Overlay(content[f.path], n, f.unwritten)
             /\ View(s) \in Seq(Bytes)
             /\ f.unwritten = <<>> => View(s) = content[f.path]
             /\ Len(content[f.path]) <= Len(View(s))
             /\ f.unwritten # <<>> => f.pos <= Len(View(s))
             /\ Posix /\ f.eof => n >= Len(content[f.path]) /\ f.pos >= Len(View(s))
<1> DEFINE f == stream[s]
           n == f.pos - Len(f.unwritten)
<1>1. f \in Handle
  BY DEF Core, IsOpen
<1>2. /\ f.path \in Paths /\ f.pos \in Nat /\ f.unwritten \in Seq(Bytes)
      /\ f.read \in BOOLEAN /\ f.write \in BOOLEAN /\ f.append \in BOOLEAN
      /\ f.eof \in BOOLEAN /\ f.flags \in SUBSET Flags
  BY <1>1 DEF Handle
<1>3. content[f.path] \in Seq(Bytes)
  BY <1>2 DEF Core
<1>4. Len(f.unwritten) <= f.pos /\ Len(f.unwritten) \in Nat
  BY <1>2 DEF Core, HeldSound
<1>5. n \in Nat /\ n + Len(f.unwritten) = f.pos
  BY <1>2, <1>4
<1>6. View(s) = Overlay(content[f.path], n, f.unwritten)
  BY DEF View
<1> DEFINE c == content[f.path]
           u == f.unwritten
<1>7. c \in Seq(Bytes) /\ u \in Seq(Bytes) /\ View(s) = Overlay(c, n, u)
  BY <1>2, <1>3, <1>6
<1>8. n + Len(u) = f.pos /\ Len(c) \in Nat
  BY <1>5, <1>7
<1> HIDE DEF c, u, n, f
<1>9. /\ View(s) \in Seq(Bytes)
      /\ u = <<>> => View(s) = c
      /\ u # <<>> => Len(View(s)) = IF Len(c) >= n + Len(u) THEN Len(c) ELSE n + Len(u)
  BY <1>5, <1>7, OverlayFacts
<1>10. Len(c) <= Len(View(s)) /\ (u # <<>> => f.pos <= Len(View(s)))
  BY <1>2, <1>5, <1>7, <1>8, <1>9
<1>12. Posix /\ f.eof => n >= Len(c)
  BY DEF Core, HeldSound, f, n, c
<1>13. Posix /\ f.eof => f.pos >= Len(View(s))
  <2>1. Len(u) \in Nat
    BY <1>7
  <2>2. CASE u = <<>>
    BY <2>1, <2>2, <1>2, <1>5, <1>8, <1>9, <1>12
  <2>3. CASE u # <<>>
    BY <2>1, <2>3, <1>2, <1>5, <1>8, <1>9, <1>12
  <2>4. QED
    BY <2>2, <2>3
<1>11. QED
  BY <1>1, <1>2, <1>3, <1>5, <1>6, <1>9, <1>10, <1>12, <1>13 DEF f, n, c, u

-------------------------------------------------------------------------------
(* What the handlers do keeps the core.                                       *)

\* What none of these variables changes is kept.
LEMMA CoreStutters ==
  ASSUME Core, UNCHANGED <<io, kind, content, stream, handles, lost>>
  PROVE  /\ Core'
         /\ \A t \in Streams : (IsOpen(t)' <=> IsOpen(t)) /\ View(t)' = View(t)
<1>1. \A t \in Streams : (IsOpen(t)' <=> IsOpen(t)) /\ View(t)' = View(t)
  BY DEF IsOpen, View
<1>2. Core'
  BY DEF Core, Apart, Accounted, HandlesAccounted, OpenStreams, HeldSound, IsOpen, View, Posix
<1>3. QED
  BY <1>1, <1>2

\* The stream is left as f, and its file with the bytes c.
Moves(s, f, c) ==
  /\ stream' = [stream EXCEPT ![s] = f]
  /\ content' = [content EXCEPT ![f.path] = c]
  /\ UNCHANGED <<io, kind, handles, lost>>

\* What a handle left as f has to meet where the stream sees v and the disk has c.
Sound(f, v, c) ==
  /\ Len(f.unwritten) <= f.pos
  /\ ~Posix => f.unwritten = <<>>
  /\ f.append /\ f.unwritten # <<>> => f.pos = Len(v)
  /\ Posix /\ f.eof => f.pos - Len(f.unwritten) >= Len(c)

\* A handler that moves one stream and rewrites its file keeps the core, and changes
\* what no other stream sees.
LEMMA StreamStep ==
  ASSUME Core, NEW s \in Streams, IsOpen(s),
         NEW f \in Handle, f.path = stream[s].path, NEW c \in Seq(Bytes),
         Moves(s, f, c),
         NEW v, v = Overlay(c, f.pos - Len(f.unwritten), f.unwritten), Sound(f, v, c)
  PROVE  /\ Core'
         /\ stream'[s] = f /\ View(s)' = v
         /\ \A t \in Streams : IsOpen(t)' <=> IsOpen(t)
<1> USE DEF Moves, Sound
<1>1. f # NULL
  OBVIOUS
<1>2. \A t \in Streams : stream'[t] = IF t = s THEN f ELSE stream[t]
  BY DEF Core
<1>3. \A t \in Streams : IsOpen(t)' <=> IsOpen(t)
  BY <1>1, <1>2 DEF IsOpen
<1>4. f.path \in Paths
  BY DEF Handle
<1>5. content'[f.path] = c /\ content' \in [Paths -> Seq(Bytes)]
      /\ \A p \in Paths : p # f.path => content'[p] = content[p]
  BY <1>4 DEF Core
<1>6. View(s)' = v
  BY <1>2, <1>5 DEF View
<1>7. \A t \in Streams : t # s /\ IsOpen(t) =>
        /\ stream'[t] = stream[t] /\ stream[t].path \in Paths /\ stream[t].path # f.path
        /\ View(t)' = View(t)
  <2>1. ASSUME NEW t \in Streams, t # s, IsOpen(t)
        PROVE  /\ stream'[t] = stream[t] /\ stream[t].path \in Paths
               /\ stream[t].path # f.path
    BY <2>1, <1>2, ViewFacts DEF Core, Apart
  <2>2. ASSUME NEW t \in Streams, t # s, IsOpen(t) PROVE View(t)' = View(t)
    BY <2>1, <2>2, <1>5 DEF View
  <2>3. QED
    BY <2>1, <2>2
<1>8. stream' \in [Streams -> Handle \cup {NULL}]
  BY DEF Core
<1>9. Apart'
  <2>1. \A t \in Streams : IsOpen(t)' => stream'[t].path = stream[t].path
    BY <1>2, <1>3
  <2>2. QED
    BY <2>1, <1>3 DEF Core, Apart
<1>10. Accounted'
  <2>1. OpenStreams' = OpenStreams
    BY <1>3 DEF OpenStreams
  <2>2. {t \in Streams : IsOpen(t)}' = {t \in Streams : IsOpen(t)}
    BY <1>3
  <2>3. QED
    BY <2>1, <2>2 DEF Core, Accounted, HandlesAccounted
<1>11. HeldSound'
  <2>1. ASSUME NEW t \in Streams, IsOpen(t)'
        PROVE  /\ Len(stream'[t].unwritten) <= stream'[t].pos
               /\ ~Posix' => stream'[t].unwritten = <<>>
               /\ stream'[t].append /\ stream'[t].unwritten # <<>>
                    => stream'[t].pos = Len(View(t)')
               /\ Posix' /\ stream'[t].eof =>
                    stream'[t].pos - Len(stream'[t].unwritten)
                      >= Len(content'[stream'[t].path])
    <3>1. Posix' <=> Posix
      BY DEF Posix
    <3>2. CASE t = s
      BY <3>1, <3>2, <1>2, <1>5, <1>6
    <3>3. CASE t # s
      <4>1. /\ IsOpen(t) /\ stream'[t] = stream[t] /\ View(t)' = View(t)
            /\ content'[stream[t].path] = content[stream[t].path]
        BY <2>1, <3>3, <1>3, <1>5, <1>7
      <4>2. QED
        BY <3>1, <4>1 DEF Core, HeldSound
    <3>4. QED
      BY <3>2, <3>3
  <2>2. QED
    BY <2>1 DEF HeldSound
<1>12. QED
  BY <1>2, <1>3, <1>5, <1>6, <1>8, <1>9, <1>10, <1>11 DEF Core

\* Storing changes nothing a stream sees.
LEMMA StoreFacts ==
  ASSUME Core, NEW s \in Streams, IsOpen(s),
         NEW f \in Handle, f.path = stream[s].path,
         Posix /\ f.eof => f.pos >= Len(View(s)),
         Store(s, f), UNCHANGED <<io, handles, lost>>
  PROVE  /\ Core'
         /\ stream'[s].pos = f.pos /\ stream'[s].eof = f.eof
         /\ View(s)' = View(s)
         /\ \A t \in Streams : IsOpen(t)' <=> IsOpen(t)
<1> DEFINE g == [f EXCEPT !.unwritten = <<>>]
<1>1. <<>> \in Seq(Bytes) /\ Len(<<>>) = 0
  OBVIOUS
<1>2. /\ g \in Handle /\ g.path = f.path /\ g.pos = f.pos /\ g.eof = f.eof
      /\ g.append = f.append /\ g.unwritten = <<>>
  BY <1>1 DEF Handle
<1>3. Moves(s, g, View(s))
  BY <1>2 DEF Store, Moves
<1> HIDE DEF g
<1>4. View(s) \in Seq(Bytes)
  BY ViewFacts
<1>5. f.pos \in Nat
  BY DEF Handle
<1>6. View(s) = Overlay(View(s), g.pos - Len(g.unwritten), g.unwritten)
  BY <1>2 DEF Overlay
<1>7. Sound(g, View(s), View(s))
  BY <1>1, <1>2, <1>4, <1>5 DEF Sound
<1>8. Core' /\ stream'[s] = g /\ View(s)' = View(s) /\ \A t \in Streams : IsOpen(t)' <=> IsOpen(t)
  BY <1>2, <1>3, <1>4, <1>6, <1>7, StreamStep
<1>9. QED
  BY <1>2, <1>8

\* A part of a text.
LEMMA PartFacts ==
  ASSUME NEW v \in Seq(Bytes), NEW m \in Nat, NEW k \in Nat, k <= Len(v)
  PROVE  LET part == SubSeq(v, m + 1, k)
         IN  /\ part \in Seq(Bytes)
             /\ Len(part) = IF m <= k THEN k - m ELSE 0
             /\ \A i \in 1 .. Len(part) : part[i] = v[m + i]
<1>1. CASE m <= k
  <2>1. SubSeq(v, m + 1, k) \in Seq(Bytes) /\ Len(SubSeq(v, m + 1, k)) = k - m
    BY <1>1
  <2>2. \A i \in 1 .. k - m : SubSeq(v, m + 1, k)[i] = v[m + i]
    BY <1>1
  <2>3. QED
    BY <1>1, <2>1, <2>2
<1>2. CASE m > k
  <2>1. SubSeq(v, m + 1, k) = <<>>
    BY <1>2
  <2>2. QED
    BY <1>2, <2>1
<1>3. QED
  BY <1>1, <1>2

\* What a read of n bytes delivers: what is left of the text, n bytes at most.
LEMMA GotFacts ==
  ASSUME Core, NEW s \in Streams, IsOpen(s), NEW n \in Nat
  PROVE  LET v == View(s)
             pos == stream[s].pos
         IN  /\ Got(s, n) \in Seq(Bytes)
             /\ Len(Got(s, n)) = IF pos >= Len(v) THEN 0
                                 ELSE IF pos + n <= Len(v) THEN n ELSE Len(v) - pos
             /\ \A i \in 1 .. Len(Got(s, n)) : Got(s, n)[i] = v[pos + i]
<1> DEFINE v == View(s)
           pos == stream[s].pos
           k == Min({pos + n, Len(v)})
<1>1. v \in Seq(Bytes) /\ pos \in Nat /\ Len(v) \in Nat
  BY ViewFacts
<1>2. Got(s, n) = SubSeq(v, pos + 1, k)
  BY DEF Got
<1> HIDE DEF v, pos
<1>3. pos + n \in Nat
  BY <1>1
<1>4. k = IF pos + n <= Len(v) THEN pos + n ELSE Len(v)
  BY <1>1, <1>3, Min2
<1> HIDE DEF k
<1>5. k \in Nat /\ k <= Len(v)
  BY <1>1, <1>4
<1>6. /\ Got(s, n) \in Seq(Bytes)
      /\ Len(Got(s, n)) = IF pos <= k THEN k - pos ELSE 0
      /\ \A i \in 1 .. Len(Got(s, n)) : Got(s, n)[i] = v[pos + i]
  <2> DEFINE part == SubSeq(v, pos + 1, k)
  <2>1. /\ part \in Seq(Bytes)
        /\ Len(part) = IF pos <= k THEN k - pos ELSE 0
        /\ \A i \in 1 .. Len(part) : part[i] = v[pos + i]
    BY <1>1, <1>5, PartFacts
  <2>2. Got(s, n) = part
    BY <1>2
  <2> HIDE DEF part
  <2>3. QED
    BY <2>1, <2>2
<1>7. Len(Got(s, n)) = IF pos >= Len(v) THEN 0
                       ELSE IF pos + n <= Len(v) THEN n ELSE Len(v) - pos
  BY <1>1, <1>4, <1>6
<1>8. QED
  BY <1>6, <1>7 DEF v, pos

\* A read moves over what it delivers, and marks the end only where the text ends.
LEMMA ReadsFacts ==
  ASSUME Core, NEW s \in Streams, IsOpen(s), NEW n \in Nat, Reads(s, n)
  PROVE  /\ Core'
         /\ stream'[s].pos = stream[s].pos + Len(Got(s, n))
         /\ View(s)' = View(s)
         /\ \A t \in Streams : IsOpen(t)' <=> IsOpen(t)
<1> DEFINE got == Len(Got(s, n))
           f == stream[s]
           pos == f.pos + got
           eof == f.eof \/ got < n
           g == [f EXCEPT !.pos = pos, !.eof = eof]
           h == [f EXCEPT !.pos = pos]
<1>1. /\ f \in Handle /\ f.path \in Paths /\ f.pos \in Nat /\ f.unwritten \in Seq(Bytes)
      /\ f.eof \in BOOLEAN /\ content[f.path] \in Seq(Bytes)
      /\ View(s) \in Seq(Bytes) /\ Len(View(s)) \in Nat
      /\ f.unwritten = <<>> => View(s) = content[f.path]
  BY ViewFacts
<1>2. /\ got \in Nat
      /\ got = IF f.pos >= Len(View(s)) THEN 0
               ELSE IF f.pos + n <= Len(View(s)) THEN n ELSE Len(View(s)) - f.pos
  BY GotFacts
<1>3. Posix /\ f.eof => f.pos >= Len(View(s))
  BY ViewFacts
<1> HIDE DEF got
<1>4. CASE Posix
  <2>1. Store(s, g) /\ UNCHANGED <<io, handles, lost>>
    BY <1>4 DEF Reads, PosixFileRead, got
  <2>2. pos \in Nat /\ eof \in BOOLEAN
    BY <1>1, <1>2
  <2> HIDE DEF f, pos, eof
  <2>3. g \in Handle /\ g.path = f.path /\ g.pos = pos /\ g.eof = eof
    BY <1>1, <2>2 DEF Handle
  <2> HIDE DEF g
  <2> USE DEF f, pos, eof
  <2>4. Posix /\ g.eof => g.pos >= Len(View(s))
    <3>1. CASE f.eof
      BY <3>1, <1>1, <1>2, <1>3, <2>3
    <3>2. CASE got < n
      BY <3>2, <1>1, <1>2, <2>3
    <3>3. QED
      BY <3>1, <3>2, <2>3
  <2>5. QED
    BY <2>1, <2>3, <2>4, StoreFacts DEF got
<1>5. CASE ~Posix
  <2>1. /\ stream' = [stream EXCEPT ![s].pos = @ + got]
        /\ content' = content /\ kind' = kind /\ UNCHANGED <<io, handles, lost>>
    BY <1>5 DEF Reads, WindowsFileRead, fileVars, got
  <2>2. stream' = [stream EXCEPT ![s] = h]
    BY <2>1
  <2>3. pos \in Nat
    BY <1>1, <1>2
  <2>4. f.unwritten = <<>>
    BY <1>5 DEF Core, HeldSound
  <2> HIDE DEF f, pos
  <2>5. h \in Handle /\ h.path = f.path /\ h.pos = pos /\ h.unwritten = <<>>
    BY <1>1, <2>3, <2>4 DEF Handle
  <2> HIDE DEF h
  <2>6. Moves(s, h, content[f.path])
    BY <2>1, <2>2, <2>5, <1>1 DEF Core, Moves
  <2>7. View(s) = Overlay(content[f.path], h.pos - Len(h.unwritten), h.unwritten)
    BY <2>4, <2>5, <1>1 DEF Overlay
  <2>8. Sound(h, View(s), content[f.path])
    BY <1>5, <2>3, <2>5 DEF Sound
  <2> USE DEF f, pos
  <2>9. Core' /\ stream'[s] = h /\ View(s)' = View(s)
        /\ \A t \in Streams : IsOpen(t)' <=> IsOpen(t)
    BY <1>1, <2>5, <2>6, <2>7, <2>8, StreamStep
  <2>10. QED
    BY <2>5, <2>9 DEF got
<1>6. QED
  BY <1>4, <1>5

\* A seek takes the mark away with it.
LEMMA SeeksFacts ==
  ASSUME Core, NEW s \in Streams, IsOpen(s), NEW n \in Nat,
         IF Posix THEN PosixFileSeek(s, n) ELSE WindowsFileSeek(s, n),
         UNCHANGED <<io, handles, lost>>
  PROVE  /\ Core'
         /\ stream'[s].pos = n /\ (Posix => ~stream'[s].eof)
         /\ View(s)' = View(s)
         /\ \A t \in Streams : IsOpen(t)' <=> IsOpen(t)
<1> DEFINE f == stream[s]
           g == [f EXCEPT !.pos = n, !.eof = FALSE]
           h == [f EXCEPT !.pos = n]
<1>1. /\ f \in Handle /\ f.path \in Paths /\ f.pos \in Nat /\ f.unwritten \in Seq(Bytes)
      /\ content[f.path] \in Seq(Bytes)
      /\ f.unwritten = <<>> => View(s) = content[f.path]
  BY ViewFacts
<1>2. CASE Posix
  <2>1. Store(s, g)
    BY <1>2 DEF PosixFileSeek
  <2> HIDE DEF f
  <2>2. g \in Handle /\ g.path = f.path /\ g.pos = n /\ g.eof = FALSE
    BY <1>1 DEF Handle
  <2> USE DEF f
  <2> HIDE DEF g
  <2>3. QED
    BY <2>1, <2>2, StoreFacts
<1>3. CASE ~Posix
  <2>1. /\ stream' = [stream EXCEPT ![s].pos = n]
        /\ content' = content /\ kind' = kind
    BY <1>3 DEF WindowsFileSeek, fileVars
  <2>2. stream' = [stream EXCEPT ![s] = h]
    BY <2>1
  <2>3. f.unwritten = <<>>
    BY <1>3 DEF Core, HeldSound
  <2> HIDE DEF f
  <2>4. h \in Handle /\ h.path = f.path /\ h.pos = n /\ h.unwritten = <<>>
    BY <1>1, <2>3 DEF Handle
  <2> HIDE DEF h
  <2>5. Moves(s, h, content[f.path])
    BY <2>1, <2>2, <2>4, <1>1 DEF Core, Moves
  <2>6. View(s) = Overlay(content[f.path], h.pos - Len(h.unwritten), h.unwritten)
    BY <2>3, <2>4, <1>1 DEF Overlay
  <2>7. Sound(h, View(s), content[f.path])
    BY <1>3, <2>4 DEF Sound
  <2> USE DEF f
  <2>8. Core' /\ stream'[s] = h /\ View(s)' = View(s)
        /\ \A t \in Streams : IsOpen(t)' <=> IsOpen(t)
    BY <1>1, <2>4, <2>5, <2>6, <2>7, StreamStep
  <2>9. QED
    BY <1>3, <2>4, <2>8
<1>4. QED
  BY <1>2, <1>3

\* Written to an empty file from its first byte on, a text is the file.
LEMMA OverlayFresh ==
  ASSUME NEW old \in Seq(Bytes), NEW n \in Nat, NEW data \in Seq(Bytes)
  PROVE  old = <<>> /\ n = 0 => Overlay(old, n, data) = data
<1> DEFINE t == Overlay(old, n, data)
<1>1. data # <<>> =>
        /\ t \in Seq(Bytes)
        /\ Len(t) = IF Len(old) >= n + Len(data) THEN Len(old) ELSE n + Len(data)
        /\ \A i \in 1 .. Len(t) :
             t[i] = IF i \in n + 1 .. n + Len(data) THEN data[i - n]
                    ELSE IF i <= Len(old) THEN old[i] ELSE Gap
  BY OverlayFacts
<1>2. data = <<>> => t = old
  BY DEF Overlay
<1> HIDE DEF t
<1>3. ASSUME Len(old) = 0, n = 0, data # <<>> PROVE t = data
  <2>1. Len(t) = Len(data) /\ \A i \in 1 .. Len(t) : t[i] = data[i]
    BY <1>1, <1>3
  <2>2. QED
    BY <1>1, <1>3, <2>1
<1>4. old = <<>> => Len(old) = 0
  OBVIOUS
<1>5. old = <<>> /\ n = 0 => t = data
  BY <1>2, <1>3, <1>4
<1>6. QED
  BY <1>5 DEF t

\* A write lays its bytes where the stream is, or behind the file; written to an
\* empty file they are the file.
LEMMA WritesFacts ==
  ASSUME Core, NEW s \in Streams, IsOpen(s), NEW data \in Seq(Bytes), Writes(s, data)
  PROVE  /\ Core'
         /\ \A t \in Streams : IsOpen(t)' <=> IsOpen(t)
         /\ View(s) = <<>> /\ stream[s].pos = 0 /\ stream[s].unwritten = <<>> /\ ~stream[s].append
              => View(s)' = data
<1> DEFINE f == stream[s]
           c == content[f.path]
           u == f.unwritten
           v == View(s)
<1>1. /\ f \in Handle /\ f.path \in Paths /\ f.pos \in Nat /\ u \in Seq(Bytes)
      /\ f.append \in BOOLEAN /\ f.eof \in BOOLEAN
      /\ c \in Seq(Bytes) /\ v \in Seq(Bytes)
      /\ v = Overlay(c, f.pos - Len(u), u)
      /\ u = <<>> => v = c
      /\ Len(c) <= Len(v)
  BY ViewFacts
<1>2. /\ Len(u) <= f.pos
      /\ ~Posix => u = <<>>
      /\ f.append /\ u # <<>> => f.pos = Len(v)
      /\ Posix /\ f.eof => f.pos - Len(u) >= Len(c)
  BY DEF Core, HeldSound
<1>3. /\ Len(u) \in Nat /\ Len(c) \in Nat /\ Len(v) \in Nat /\ Len(data) \in Nat
      /\ u = <<>> <=> Len(u) = 0
      /\ v = <<>> <=> Len(v) = 0
      /\ data = <<>> <=> Len(data) = 0
  BY <1>1
<1>4. CASE Posix
  <2> DEFINE n == IF f.append THEN Len(v) ELSE f.pos
             pos == n + Len(data)
             held == u \o data
             g == [f EXCEPT !.pos = pos, !.unwritten = held]
             w == Overlay(c, n - Len(u), held)
  <2>1. /\ stream' = [stream EXCEPT ![s] = g]
        /\ content' = content /\ kind' = kind /\ UNCHANGED <<io, handles, lost>>
    BY <1>4 DEF Writes, PosixFileWrite, WritesAt, fileVars
  <2>2. held \in Seq(Bytes) /\ Len(held) = Len(u) + Len(data) /\ (u = <<>> => held = data)
        /\ (data = <<>> => held = u)
    BY <1>1, HeldFacts
  <2> HIDE DEF v, f, u, c, held
  <2>3. n \in Nat /\ pos \in Nat /\ Len(u) <= n
    BY <1>1, <1>2, <1>3
  <2> HIDE DEF n
  <2>4. /\ g \in Handle /\ g.path = f.path /\ g.pos = pos /\ g.eof = f.eof
        /\ g.append = f.append /\ g.unwritten = held
    <3> HIDE DEF pos
    <3>1. QED
      BY <1>1, <2>2, <2>3 DEF Handle
  <2>5. Overlay(c, n - Len(u), u) = v
    <3>1. CASE u = <<>>
      BY <3>1, <1>1 DEF Overlay
    <3>2. CASE u # <<>>
      BY <3>2, <1>1, <1>2 DEF n
    <3>3. QED
      BY <3>1, <3>2
  <2>6. n - Len(u) \in Nat /\ n - Len(u) + Len(u) + Len(data) = pos
    BY <1>3, <2>3
  <2>7. Len(w) = IF data = <<>> THEN Len(v) ELSE IF Len(c) >= pos THEN Len(c) ELSE pos
    <3> DEFINE m == n - Len(u)
    <3>1. m \in Nat /\ c \in Seq(Bytes) /\ held \in Seq(Bytes)
      BY <1>1, <2>2, <2>6
    <3>2. m + Len(held) = pos /\ (data # <<>> => held # <<>>)
      BY <1>3, <2>2, <2>6
    <3> HIDE DEF m, pos
    <3>3. held # <<>> =>
            Len(Overlay(c, m, held)) =
              IF Len(c) >= m + Len(held) THEN Len(c) ELSE m + Len(held)
      BY <3>1, OverlayFacts
    <3>4. data # <<>> => Len(Overlay(c, m, held)) = IF Len(c) >= pos THEN Len(c) ELSE pos
      BY <3>2, <3>3
    <3>5. data = <<>> => Overlay(c, m, held) = v
      BY <2>2, <2>5 DEF m
    <3>6. w = Overlay(c, m, held)
      BY DEF m, w
    <3> HIDE DEF w
    <3>7. QED
      BY <3>4, <3>5, <3>6
  <2>8. pos - Len(g.unwritten) = n - Len(u) /\ Len(g.unwritten) <= pos
    BY <1>3, <2>2, <2>3, <2>4
  <2>9. f.append => pos = Len(w)
    BY <1>1, <1>3, <2>3, <2>7 DEF n
  <2>10. f.eof => n - Len(u) >= Len(c)
    <3>1. CASE f.append /\ u = <<>>
      BY <3>1, <1>1, <1>3 DEF n
    <3>2. CASE f.append /\ u # <<>>
      BY <3>2, <1>1, <1>2, <1>3, <1>4 DEF n
    <3>3. CASE ~f.append
      BY <3>3, <1>1, <1>2, <1>3, <1>4 DEF n
    <3>4. QED
      BY <3>1, <3>2, <3>3
  <2> HIDE DEF pos, g
  <2>11. Sound(g, w, c)
    BY <1>4, <2>4, <2>8, <2>9, <2>10 DEF Sound
  <2>12. Moves(s, g, c)
    BY <1>1, <2>1, <2>4 DEF Core, Moves, c
  <2>13. w = Overlay(c, g.pos - Len(g.unwritten), g.unwritten)
    BY <2>4, <2>8
  <2>14. g.path = stream[s].path
    BY <2>4 DEF f
  <2> HIDE DEF w
  <2>15. Core' /\ View(s)' = w /\ \A t \in Streams : IsOpen(t)' <=> IsOpen(t)
    BY <1>1, <2>4, <2>11, <2>12, <2>13, <2>14, StreamStep
  <2>16. ASSUME v = <<>>, f.pos = 0, u = <<>>, ~f.append PROVE w = data
    <3> DEFINE m == n - Len(u)
    <3>1. c = <<>> /\ m = 0 /\ held = data
      BY <2>16, <1>1, <1>3, <2>2 DEF n
    <3>2. w = Overlay(c, m, held)
      BY DEF w
    <3>3. m \in Nat
      BY <3>1
    <3> HIDE DEF m
    <3>4. c = <<>> /\ m = 0 => Overlay(c, m, data) = data
      BY <1>1, <3>3, OverlayFresh
    <3>5. QED
      BY <3>1, <3>2, <3>4
  <2>17. QED
    BY <2>15, <2>16 DEF v, f, u
<1>5. CASE ~Posix
  <2> DEFINE pos == f.pos + Len(data)
             g == [f EXCEPT !.pos = pos]
             w == Overlay(c, f.pos, data)
  <2>1. /\ stream' = [stream EXCEPT ![s] = g]
        /\ content' = [content EXCEPT ![f.path] = w]
        /\ kind' = kind /\ UNCHANGED <<io, handles, lost>>
    BY <1>5 DEF Writes, WindowsFileWrite
  <2>2. u = <<>>
    BY <1>2, <1>5
  <2>3. w \in Seq(Bytes)
    BY <1>1, OverlayFacts
  <2>4. pos \in Nat
    BY <1>1, <1>3
  <2>5. stream[s].path = f.path
    OBVIOUS
  <2>6. f.unwritten = <<>>
    BY <2>2
  <2>7. ASSUME v = <<>>, f.pos = 0 PROVE w = data
    <3>1. c = <<>>
      BY <2>7, <2>2, <1>1
    <3> HIDE DEF c, f
    <3>2. c = <<>> /\ f.pos = 0 => w = data
      BY <1>1, OverlayFresh
    <3>3. QED
      BY <3>1, <2>7, <3>2
  <2> HIDE DEF f, pos, w, u, v, c
  <2>8. g \in Handle /\ g.path = f.path /\ g.pos = pos /\ g.unwritten = <<>>
    BY <1>1, <2>4, <2>6 DEF Handle
  <2> HIDE DEF g
  <2>9. Moves(s, g, w)
    BY <2>1, <2>8 DEF Moves
  <2>10. w = Overlay(w, g.pos - Len(g.unwritten), g.unwritten)
    BY <2>8 DEF Overlay
  <2>11. Sound(g, w, w)
    BY <1>5, <2>4, <2>8 DEF Sound
  <2>12. g.path = stream[s].path
    BY <2>5, <2>8
  <2>13. Core' /\ View(s)' = w /\ \A t \in Streams : IsOpen(t)' <=> IsOpen(t)
    BY <2>3, <2>8, <2>9, <2>10, <2>11, <2>12, StreamStep
  <2>14. QED
    BY <2>7, <2>13 DEF v, f
<1>6. QED
  BY <1>4, <1>5

\* What s holds, data behind it, and the place where it is to go.
LEMMA HeldPlace ==
  ASSUME Core, NEW s \in Streams, IsOpen(s), NEW data \in Seq(Bytes)
  PROVE  /\ Held(s, data) \in Seq(Bytes)
         /\ Len(stream[s].unwritten) \in Nat /\ Len(data) \in Nat
         /\ Len(Held(s, data)) = Len(stream[s].unwritten) + Len(data)
         /\ HeldFrom(s) \in Nat /\ WritesAt(s) \in Nat
         /\ HeldFrom(s) + Len(stream[s].unwritten) = WritesAt(s)
         /\ View(s) = Overlay(content[stream[s].path], HeldFrom(s), stream[s].unwritten)
         /\ Posix /\ stream[s].eof => HeldFrom(s) >= Len(content[stream[s].path])
<1> DEFINE f == stream[s]
           u == f.unwritten
           c == content[f.path]
           v == View(s)
           a == WritesAt(s)
           n == HeldFrom(s)
<1>1. /\ f.pos \in Nat /\ u \in Seq(Bytes) /\ f.append \in BOOLEAN
      /\ c \in Seq(Bytes) /\ v \in Seq(Bytes)
      /\ f.pos - Len(u) \in Nat /\ v = Overlay(c, f.pos - Len(u), u)
      /\ u = <<>> => v = c
      /\ Posix /\ f.eof => f.pos - Len(u) >= Len(c)
  BY ViewFacts
<1>2. f.append /\ u # <<>> => f.pos = Len(v)
  BY DEF Core, HeldSound
<1>3. /\ Len(u) \in Nat /\ Len(c) \in Nat /\ Len(v) \in Nat
      /\ u = <<>> <=> Len(u) = 0
  BY <1>1
<1>4. a = (IF f.append THEN Len(v) ELSE f.pos) /\ n = a - Len(u)
  BY DEF WritesAt, HeldFrom
<1>5. /\ Held(s, data) \in Seq(Bytes) /\ Len(Held(s, data)) = Len(u) + Len(data)
      /\ Len(data) \in Nat
  BY <1>1, HeldFacts DEF Held
<1> HIDE DEF a, n, f, u, c, v
<1>6. n = f.pos - Len(u) \/ (u = <<>> /\ n = Len(v) /\ a = Len(v) /\ v = c)
  BY <1>1, <1>2, <1>3, <1>4
<1>7. n \in Nat /\ a \in Nat /\ n + Len(u) = a
  BY <1>1, <1>3, <1>4, <1>6
<1>8. v = Overlay(c, n, u)
  <2>1. CASE u = <<>>
    BY <2>1, <1>1 DEF Overlay
  <2>2. CASE u # <<>>
    BY <2>2, <1>1, <1>6
  <2>3. QED
    BY <2>1, <2>2
<1>9. Posix /\ f.eof => n >= Len(c)
  BY <1>1, <1>3, <1>6
<1>10. QED
  BY <1>3, <1>5, <1>7, <1>8, <1>9 DEF n, a, f, u, c, v

\* What has been stored of it lies where it was to go.
LEMMA ReachedFacts ==
  ASSUME Core, NEW s \in Streams, IsOpen(s), NEW data \in Seq(Bytes),
         NEW k \in 0 .. Len(Held(s, data))
  PROVE  /\ Reached(s, data, k) \in Seq(Bytes)
         /\ Len(Reached(s, data, k)) =
              IF k = 0 \/ Len(content[stream[s].path]) >= HeldFrom(s) + k
                THEN Len(content[stream[s].path]) ELSE HeldFrom(s) + k
<1> DEFINE c == content[stream[s].path]
           h == Held(s, data)
           n == HeldFrom(s)
           part == SubSeq(h, 1, k)
<1>1. h \in Seq(Bytes) /\ n \in Nat /\ c \in Seq(Bytes)
  BY HeldPlace, ViewFacts
<1>2. Reached(s, data, k) = Overlay(c, n, part)
  BY DEF Reached
<1>3. k \in 0 .. Len(h)
  OBVIOUS
<1> HIDE DEF c, h, n
<1>4. part \in Seq(Bytes) /\ Len(part) = k /\ (k = 0 => part = <<>>)
  BY <1>1, <1>3
<1>5. k > 0 => part # <<>>
  <2>1. Len(h) \in Nat /\ k \in Nat
    BY <1>1, <1>3
  <2> HIDE DEF part
  <2>2. QED
    BY <1>4, <2>1
<1> HIDE DEF part
<1>6. LET y == Overlay(c, n, part)
      IN  /\ y \in Seq(Bytes)
          /\ part = <<>> => y = c
          /\ part # <<>> => Len(y) = IF Len(c) >= n + Len(part) THEN Len(c) ELSE n + Len(part)
  BY <1>1, <1>4, OverlayFacts
<1> DEFINE y == Overlay(c, n, part)
<1>7. /\ y \in Seq(Bytes)
      /\ k = 0 => y = c
      /\ k # 0 => Len(y) = IF Len(c) >= n + k THEN Len(c) ELSE n + k
  BY <1>1, <1>3, <1>4, <1>5, <1>6
<1> HIDE DEF y
<1>8. Len(y) = IF k = 0 \/ Len(c) >= n + k THEN Len(c) ELSE n + k
  BY <1>7
<1>9. QED
  BY <1>2, <1>7, <1>8 DEF c, n, y

\* How a stream and its file are left by a full disk.
LEMMA DiskFullMoves ==
  ASSUME Core, NEW s \in Streams, IsOpen(s), NEW data \in Seq(Bytes), DiskFull(s, data)
  PROVE  \E k \in 0 .. Len(Held(s, data)), f \in Handle :
           /\ k < Len(Held(s, data))
           /\ f.path = stream[s].path /\ f.flags = stream[s].flags
           /\ f.append = stream[s].append /\ f.eof = stream[s].eof
           /\ f.pos = HeldFrom(s) + k /\ f.unwritten = <<>>
           /\ Posix /\ Moves(s, f, Reached(s, data, k))
<1> DEFINE f == stream[s]
           m == Len(Held(s, data))
           n == HeldFrom(s)
<1>1. /\ f \in Handle /\ f.path \in Paths /\ f.unwritten \in Seq(Bytes)
      /\ f.read \in BOOLEAN /\ f.write \in BOOLEAN /\ f.append \in BOOLEAN
      /\ f.eof \in BOOLEAN /\ f.flags \in SUBSET Flags
  BY ViewFacts
<1>2. m \in Nat /\ n \in Nat
  BY HeldPlace
<1>3. PICK k \in 0 .. m - 1 :
        /\ content' = [content EXCEPT ![f.path] = Reached(s, data, k)]
        /\ stream' = [stream EXCEPT ![s] = [@ EXCEPT !.pos = n + k, !.unwritten = <<>>]]
  BY DEF DiskFull
<1>4. Posix /\ UNCHANGED <<io, kind, handles, lost>>
  BY DEF DiskFull
<1> HIDE DEF m, n
<1>5. k \in 0 .. m /\ k < m
  BY <1>2, <1>3
<1> DEFINE pos == n + k
           g == [f EXCEPT !.pos = pos, !.unwritten = <<>>]
<1>6. pos \in Nat
  BY <1>2, <1>5
<1>7. <<>> \in Seq(Bytes)
  OBVIOUS
<1>8. stream' = [stream EXCEPT ![s] = g]
  BY <1>3
<1> HIDE DEF f, pos
<1>9. /\ g \in Handle /\ g.path = f.path /\ g.flags = f.flags /\ g.append = f.append
      /\ g.eof = f.eof /\ g.pos = pos /\ g.unwritten = <<>>
  BY <1>1, <1>6, <1>7 DEF Handle
<1> HIDE DEF g
<1>10. Moves(s, g, Reached(s, data, k))
  BY <1>3, <1>4, <1>8, <1>9 DEF Moves
<1>11. QED
  BY <1>4, <1>5, <1>9, <1>10 DEF f, m, n, pos

\* A full disk keeps the core.
LEMMA DiskFullFacts ==
  ASSUME Core, NEW s \in Streams, IsOpen(s), NEW data \in Seq(Bytes), DiskFull(s, data)
  PROVE  Core' /\ \A t \in Streams : IsOpen(t)' <=> IsOpen(t)
<1>1. PICK k \in 0 .. Len(Held(s, data)), f \in Handle :
        /\ f.path = stream[s].path /\ f.eof = stream[s].eof
        /\ f.pos = HeldFrom(s) + k /\ f.unwritten = <<>>
        /\ Posix /\ Moves(s, f, Reached(s, data, k))
  BY DiskFullMoves
<1> DEFINE n == HeldFrom(s)
           c == content[stream[s].path]
           d == Reached(s, data, k)
<1>2. /\ d \in Seq(Bytes)
      /\ Len(d) = IF k = 0 \/ Len(c) >= n + k THEN Len(c) ELSE n + k
  BY ReachedFacts
<1>3. /\ n \in Nat /\ Len(c) \in Nat /\ Len(Held(s, data)) \in Nat
      /\ Posix /\ stream[s].eof => n >= Len(c)
  BY HeldPlace, ViewFacts
<1>4. k \in Nat
  BY <1>3
<1>5. f.pos \in Nat /\ f.pos = n + k /\ Len(f.unwritten) = 0
  BY <1>1 DEF Handle
<1> HIDE DEF n, c, d
<1>6. d = Overlay(d, f.pos - Len(f.unwritten), f.unwritten)
  BY <1>1 DEF Overlay
<1>7. Sound(f, d, d)
  BY <1>1, <1>2, <1>3, <1>4, <1>5 DEF Sound
<1>8. Moves(s, f, d)
  BY <1>1 DEF d
<1>9. QED
  BY <1>1, <1>2, <1>6, <1>7, <1>8, StreamStep

\* Asking for the size leaves the stream where it was.
LEMMA SizesFacts ==
  ASSUME Core, NEW s \in Streams, IsOpen(s), Sizes(s)
  PROVE  /\ Core'
         /\ stream'[s].pos = stream[s].pos /\ (~stream[s].eof => ~stream'[s].eof)
         /\ View(s)' = View(s)
         /\ \A t \in Streams : IsOpen(t)' <=> IsOpen(t)
<1>1. CASE Posix
  <2>1. stream[s].pos \in Nat
    BY ViewFacts
  <2>2. PosixFileSeek(s, stream[s].pos) /\ UNCHANGED <<io, handles, lost>>
    BY <1>1 DEF Sizes, PosixFileSize, FileTell
  <2>3. IF Posix THEN PosixFileSeek(s, stream[s].pos) ELSE WindowsFileSeek(s, stream[s].pos)
    BY <1>1, <2>2
  <2>4. QED
    BY <1>1, <2>1, <2>2, <2>3, SeeksFacts
<1>2. CASE ~Posix
  <2>1. UNCHANGED <<io, kind, content, stream, handles, lost>>
    BY <1>2 DEF Sizes, fileVars
  <2>2. QED
    BY <2>1, CoreStutters
<1>3. QED
  BY <1>1, <1>2

-------------------------------------------------------------------------------
(* Opening, closing and the file system keep the core.                        *)

\* Files that no stream has open may change.
LEMMA FilesChange ==
  ASSUME Core, UNCHANGED <<io, stream>>,
         \A t \in Streams : IsOpen(t) => content'[stream[t].path] = content[stream[t].path]
  PROVE  /\ HeldSound' /\ OpenStreams' = OpenStreams
         /\ \A t \in Streams : (IsOpen(t)' <=> IsOpen(t)) /\ (IsOpen(t) => View(t)' = View(t))
<1>1. \A t \in Streams : (IsOpen(t)' <=> IsOpen(t)) /\ (IsOpen(t) => View(t)' = View(t))
  BY DEF IsOpen, View
<1>2. OpenStreams' = OpenStreams
  BY <1>1 DEF OpenStreams
<1>3. HeldSound'
  <2>1. ASSUME NEW t \in Streams, IsOpen(t)'
        PROVE  /\ Len(stream'[t].unwritten) <= stream'[t].pos
               /\ ~Posix' => stream'[t].unwritten = <<>>
               /\ stream'[t].append /\ stream'[t].unwritten # <<>>
                    => stream'[t].pos = Len(View(t)')
               /\ Posix' /\ stream'[t].eof =>
                    stream'[t].pos - Len(stream'[t].unwritten)
                      >= Len(content'[stream'[t].path])
    <3>1. (Posix' <=> Posix) /\ stream'[t] = stream[t]
      BY DEF Posix
    <3>2. /\ IsOpen(t) /\ View(t)' = View(t)
          /\ content'[stream[t].path] = content[stream[t].path]
      BY <2>1, <1>1
    <3>3. QED
      BY <3>1, <3>2 DEF Core, HeldSound
  <2>2. QED
    BY <2>1 DEF HeldSound
<1>4. QED
  BY <1>1, <1>2, <1>3

\* One stream opens or closes, and its file alone changes: the others see what they saw.
LEMMA OthersKept ==
  ASSUME Core, NEW s \in Streams, NEW p \in Paths, io' = io,
         \A t \in Streams : t # s /\ IsOpen(t) => stream[t].path # p,
         \A t \in Streams : t # s => stream'[t] = stream[t],
         \A q \in Paths : q # p => content'[q] = content[q],
         IsOpen(s)' => stream'[s].unwritten = <<>> /\ ~stream'[s].eof /\ stream'[s].pos \in Nat
  PROVE  /\ HeldSound'
         /\ \A t \in Streams : t # s => (IsOpen(t)' <=> IsOpen(t))
<1>1. \A t \in Streams : t # s => (IsOpen(t)' <=> IsOpen(t))
  BY DEF IsOpen
<1>2. ASSUME NEW t \in Streams, IsOpen(t)'
      PROVE  /\ Len(stream'[t].unwritten) <= stream'[t].pos
             /\ ~Posix' => stream'[t].unwritten = <<>>
             /\ stream'[t].append /\ stream'[t].unwritten # <<>>
                  => stream'[t].pos = Len(View(t)')
             /\ Posix' /\ stream'[t].eof =>
                  stream'[t].pos - Len(stream'[t].unwritten)
                    >= Len(content'[stream'[t].path])
  <2>1. CASE t = s
    BY <1>2, <2>1
  <2>2. CASE t # s
    <3>1. IsOpen(t) /\ stream'[t] = stream[t] /\ stream[t].path # p
      BY <1>1, <1>2, <2>2
    <3>2. stream[t].path \in Paths
      BY <3>1, ViewFacts
    <3>3. View(t)' = View(t) /\ content'[stream[t].path] = content[stream[t].path]
      BY <3>1, <3>2 DEF View
    <3>4. Posix' <=> Posix
      BY DEF Posix
    <3>5. QED
      BY <3>1, <3>3, <3>4 DEF Core, HeldSound
  <2>3. QED
    BY <2>1, <2>2
<1>3. HeldSound'
  BY <1>2 DEF HeldSound
<1>4. QED
  BY <1>1, <1>3

\* What an open leaves: one stream and one handle more, over a file the stream starts in.
LEMMA OpensFacts ==
  ASSUME Core, NEW s \in Streams, NEW p \in Paths, NEW flags \in SUBSET Flags,
         Opens(s, p, flags)
  PROVE  /\ Core'
         /\ IsOpen(s)' /\ ~stream'[s].eof /\ stream'[s].unwritten = <<>>
         /\ flags = {"READ"} => stream'[s].pos = 0
         /\ flags = {"WRITE", "CREATE", "TRUNCATE"} =>
              stream'[s].pos = 0 /\ ~stream'[s].append /\ View(s)' = <<>>
<1> DEFINE m == Mode(flags)
           text == OpenedText(p, m)
           pos == IF m.atEnd THEN Len(text) ELSE 0
           h == [path |-> p, read |-> m.read, write |-> m.write, append |-> m.append,
                 flags |-> flags, pos |-> pos, eof |-> FALSE, unwritten |-> <<>>]
<1>1. /\ ~IsOpen(s) /\ Unused(p)
      /\ kind' = [kind EXCEPT ![p] = "file"] /\ content' = [content EXCEPT ![p] = text]
      /\ stream' = [stream EXCEPT ![s] = h]
      /\ handles' = handles + 1 /\ UNCHANGED <<io, lost>>
  BY DEF Opens, OpenFile
<1>2. /\ m.read \in BOOLEAN /\ m.write \in BOOLEAN /\ m.append \in BOOLEAN
      /\ m.atEnd \in BOOLEAN
  <2>1. CASE Posix
    <3>1. m = Fopen(PosixOpenMode(flags))
      BY <2>1 DEF Mode, PosixFileOpen
    <3>2. m \in [read : BOOLEAN, write : BOOLEAN, append : BOOLEAN, atEnd : BOOLEAN,
                 create : BOOLEAN, truncate : BOOLEAN]
      BY <3>1 DEF Fopen
    <3> HIDE DEF m
    <3>3. QED
      BY <3>2
  <2>2. CASE ~Posix
    <3>1. m = WindowsFileOpen(flags)
      BY <2>2 DEF Mode
    <3>2. m \in [read : BOOLEAN, write : BOOLEAN, append : BOOLEAN, atEnd : BOOLEAN,
                 create : BOOLEAN, truncate : BOOLEAN]
      BY <3>1 DEF WindowsFileOpen
    <3> HIDE DEF m
    <3>3. QED
      BY <3>2
  <2>3. QED
    BY <2>1, <2>2
<1>3. flags = {"READ"} => ~m.atEnd
  BY DEF Mode, PosixFileOpen, WindowsFileOpen, Fopen, PosixOpenMode
<1>4. flags = {"WRITE", "CREATE", "TRUNCATE"} => ~m.atEnd /\ ~m.append /\ m.truncate
  BY DEF Mode, PosixFileOpen, WindowsFileOpen, Fopen, PosixOpenMode,
         WindowsCreationDisposition
<1>5. text \in Seq(Bytes) /\ (m.truncate => text = <<>>)
  <2>1. content[p] \in Seq(Bytes) /\ <<>> \in Seq(Bytes)
    BY DEF Core
  <2>2. QED
    BY <2>1 DEF OpenedText
<1> HIDE DEF m, text
<1>6. pos \in Nat
  BY <1>2, <1>5
<1> HIDE DEF pos
<1>7. h \in Handle
  BY <1>2, <1>6 DEF Handle
<1>8. h.path = p /\ h.pos = pos /\ ~h.eof /\ h.unwritten = <<>> /\ h.append = m.append
  OBVIOUS
<1> HIDE DEF h
<1>9. stream'[s] = h /\ h # NULL /\ \A t \in Streams : t # s => stream'[t] = stream[t]
  BY <1>1, <1>7 DEF Core
<1>10. content'[p] = text /\ \A q \in Paths : q # p => content'[q] = content[q]
  BY <1>1 DEF Core
<1>11. \A t \in Streams : IsOpen(t) => stream[t].path # p
  BY <1>1 DEF Unused
<1>12. HeldSound' /\ \A t \in Streams : t # s => (IsOpen(t)' <=> IsOpen(t))
  BY <1>1, <1>6, <1>8, <1>9, <1>10, <1>11, OthersKept
<1>13. IsOpen(s)'
  BY <1>9 DEF IsOpen
<1>14. Apart'
  <2>1. p \notin lost
    BY <1>1 DEF Unused
  <2>2. \A t \in Streams : IsOpen(t)' =>
          IF t = s THEN stream'[t].path = p ELSE IsOpen(t) /\ stream'[t].path = stream[t].path
    BY <1>8, <1>9, <1>12
  <2>3. QED
    BY <1>1, <1>11, <2>1, <2>2 DEF Core, Apart
<1>15. Accounted'
  <2>1. OpenStreams' = OpenStreams \cup {s} /\ s \notin OpenStreams
    BY <1>1, <1>12, <1>13 DEF OpenStreams
  <2>2. /\ IsFiniteSet(OpenStreams) /\ IsFiniteSet(lost)
        /\ handles = Cardinality(OpenStreams) + Cardinality(lost)
    BY DEF Core, Accounted, HandlesAccounted, OpenStreams
  <2>3. IsFiniteSet(OpenStreams') /\ Cardinality(OpenStreams') = Cardinality(OpenStreams) + 1
    BY <2>1, <2>2, FS_AddElement
  <2>4. Cardinality(OpenStreams) \in Nat /\ Cardinality(lost) \in Nat
    BY <2>2, FS_CardinalityType
  <2>5. handles' = Cardinality(OpenStreams') + Cardinality(lost)
    BY <1>1, <2>2, <2>3, <2>4
  <2>6. QED
    BY <1>1, <2>2, <2>3, <2>5 DEF Accounted, HandlesAccounted, OpenStreams
<1>16. Core'
  <2>1. io' \in Builds /\ kind' \in [Paths -> {"none", "file", "dir"}]
    BY <1>1 DEF Core
  <2>2. content' \in [Paths -> Seq(Bytes)]
    BY <1>1, <1>5 DEF Core
  <2>3. stream' \in [Streams -> Handle \cup {NULL}]
    BY <1>1, <1>7 DEF Core
  <2>4. handles' \in Nat /\ lost' \subseteq Paths
    BY <1>1 DEF Core
  <2>5. QED
    BY <1>12, <1>14, <1>15, <2>1, <2>2, <2>3, <2>4 DEF Core
<1>17. m.truncate => View(s)' = <<>>
  BY <1>5, <1>8, <1>9, <1>10 DEF View, Overlay
<1>18. ~m.atEnd => pos = 0
  BY DEF pos
<1>19. QED
  BY <1>3, <1>4, <1>8, <1>9, <1>13, <1>16, <1>17, <1>18

\* A stream goes: its handle with it, or, by an error, with nobody to close it.
LEMMA DropsFacts ==
  ASSUME Core, NEW s \in Streams, IsOpen(s), NEW c \in Seq(Bytes),
         stream' = [stream EXCEPT ![s] = NULL],
         content' = [content EXCEPT ![stream[s].path] = c],
         UNCHANGED <<io, kind>>,
         \/ handles' = handles - 1 /\ lost' = lost
         \/ handles' = handles /\ lost' = lost \cup {stream[s].path}
  PROVE  Core'
<1> DEFINE p == stream[s].path
<1>1. p \in Paths
  BY ViewFacts
<1>2. stream'[s] = NULL /\ \A t \in Streams : t # s => stream'[t] = stream[t]
  BY DEF Core
<1>3. \A q \in Paths : q # p => content'[q] = content[q]
  BY DEF Core
<1>4. ~IsOpen(s)'
  BY <1>2 DEF IsOpen
<1>5. p \notin lost /\ \A t \in Streams : t # s /\ IsOpen(t) => stream[t].path # p
  BY DEF Core, Apart
<1> HIDE DEF p
<1>6. HeldSound' /\ \A t \in Streams : t # s => (IsOpen(t)' <=> IsOpen(t))
  BY <1>1, <1>2, <1>3, <1>4, <1>5, OthersKept
<1>7. lost' = lost \/ lost' = lost \cup {p}
  BY DEF p
<1>8. Apart'
  <2>1. \A t \in Streams : IsOpen(t)' =>
          t # s /\ IsOpen(t) /\ stream'[t].path = stream[t].path /\ stream[t].path # p
    BY <1>2, <1>4, <1>5, <1>6
  <2>2. QED
    BY <1>7, <2>1 DEF Core, Apart
<1>9. Accounted' /\ handles' \in Nat
  <2>1. OpenStreams' = OpenStreams \ {s} /\ s \in OpenStreams
    BY <1>4, <1>6 DEF OpenStreams
  <2>2. /\ IsFiniteSet(OpenStreams) /\ IsFiniteSet(lost)
        /\ handles = Cardinality(OpenStreams) + Cardinality(lost)
    BY DEF Core, Accounted, HandlesAccounted, OpenStreams
  <2>3. IsFiniteSet(OpenStreams') /\ Cardinality(OpenStreams') = Cardinality(OpenStreams) - 1
    BY <2>1, <2>2, FS_RemoveElement
  <2>4. IsFiniteSet(lost \cup {p}) /\ Cardinality(lost \cup {p}) = Cardinality(lost) + 1
    BY <1>5, <2>2, FS_AddElement
  <2>5. /\ Cardinality(OpenStreams) \in Nat /\ Cardinality(OpenStreams') \in Nat
        /\ Cardinality(lost) \in Nat
    BY <2>2, <2>3, FS_CardinalityType
  <2>6. \/ handles' = handles - 1 /\ lost' = lost
        \/ handles' = handles /\ lost' = lost \cup {p}
    BY DEF p
  <2>7. IsFiniteSet(lost') /\ handles' = Cardinality(OpenStreams') + Cardinality(lost')
    <3>1. CASE handles' = handles - 1 /\ lost' = lost
      BY <3>1, <2>2, <2>3, <2>5
    <3>2. CASE handles' = handles /\ lost' = lost \cup {p}
      BY <3>2, <2>2, <2>3, <2>4, <2>5
    <3>3. QED
      BY <2>6, <3>1, <3>2
  <2>8. handles' \in Nat
    <3>1. CASE handles' = handles - 1 /\ lost' = lost
      BY <3>1, <2>5, <2>7
    <3>2. CASE handles' = handles /\ lost' = lost \cup {p}
      BY <3>2 DEF Core
    <3>3. QED
      BY <2>6, <3>1, <3>2
  <2>9. QED
    BY <2>3, <2>7, <2>8 DEF Accounted, HandlesAccounted, OpenStreams
<1>10. io' \in Builds /\ kind' \in [Paths -> {"none", "file", "dir"}]
  BY DEF Core
<1>11. content' \in [Paths -> Seq(Bytes)]
  BY DEF Core
<1>12. stream' \in [Streams -> Handle \cup {NULL}]
  BY DEF Core
<1>13. lost' \subseteq Paths
  BY <1>1, <1>7 DEF Core
<1>14. QED
  BY <1>6, <1>8, <1>9, <1>10, <1>11, <1>12, <1>13 DEF Core

\* What a close leaves.
LEMMA ClosesFacts ==
  ASSUME Core, NEW s \in Streams, IsOpen(s), Closes(s)
  PROVE  Core'
<1>1. PICK c \in IF Posix THEN PosixFileClose(s) ELSE WindowsFileClose(s) :
        content' = [content EXCEPT ![stream[s].path] = c]
  BY DEF Closes
<1>2. View(s) \in Seq(Bytes) /\ content[stream[s].path] \in Seq(Bytes)
  BY ViewFacts
<1>3. c \in Seq(Bytes)
  <2>1. PICK empty \in Seq(Bytes) : empty = <<>>
    BY NoBytes
  <2>2. Len(Held(s, empty)) \in Nat
    BY HeldPlace
  <2>3. \A k \in 0 .. Len(Held(s, empty)) - 1 : Reached(s, empty, k) \in Seq(Bytes)
    BY <2>2, ReachedFacts
  <2>4. \/ c \in {View(s), content[stream[s].path]}
        \/ \E k \in 0 .. Len(Held(s, empty)) - 1 : c = Reached(s, empty, k)
    BY <1>1, <2>1 DEF PosixFileClose, WindowsFileClose
  <2>5. QED
    BY <1>2, <2>3, <2>4
<1>4. /\ stream' = [stream EXCEPT ![s] = NULL]
      /\ handles' = handles - 1 /\ lost' = lost /\ UNCHANGED <<io, kind>>
  BY DEF Closes
<1>5. QED
  BY <1>1, <1>3, <1>4, DropsFacts

\* What a jump out of an allocation leaves of the file that was open.
LEMMA LosesFacts ==
  ASSUME Core, NEW s \in Streams, IsOpen(s),
         stream' = [stream EXCEPT ![s] = NULL],
         lost' = lost \cup {stream[s].path},
         UNCHANGED <<io, kind, content, handles>>
  PROVE  Core'
<1>1. stream[s].path \in Paths /\ content[stream[s].path] \in Seq(Bytes)
  BY ViewFacts
<1>2. content' = [content EXCEPT ![stream[s].path] = content[stream[s].path]]
  BY <1>1 DEF Core
<1>3. QED
  BY <1>1, <1>2, DropsFacts

\* What an open leaves that finds no memory for the stream.
LEMMA OpenFailsFacts ==
  ASSUME Core, NEW p \in Paths, NEW flags \in SUBSET Flags, OpenFails(p, flags)
  PROVE  Core'
<1> DEFINE text == OpenedText(p, Mode(flags))
<1>1. /\ Unused(p)
      /\ kind' = [kind EXCEPT ![p] = "file"] /\ content' = [content EXCEPT ![p] = text]
      /\ UNCHANGED <<io, stream>>
      /\ \/ handles' = handles /\ lost' = lost
         \/ handles' = handles + 1 /\ lost' = lost \cup {p}
  BY DEF OpenFails, OpenFile
<1>2. text \in Seq(Bytes)
  <2>1. content[p] \in Seq(Bytes) /\ <<>> \in Seq(Bytes)
    BY DEF Core
  <2> HIDE DEF Core
  <2>2. QED
    BY <2>1 DEF OpenedText
<1> HIDE DEF text
<1>3. p \notin lost /\ \A t \in Streams : IsOpen(t) => stream[t].path # p
  BY <1>1 DEF Unused
<1>4. \A t \in Streams : IsOpen(t) => content'[stream[t].path] = content[stream[t].path]
  BY <1>1, <1>3, ViewFacts DEF Core
<1>5. /\ HeldSound' /\ OpenStreams' = OpenStreams
      /\ \A t \in Streams : (IsOpen(t)' <=> IsOpen(t))
  BY <1>1, <1>4, FilesChange
<1>6. Apart'
  BY <1>1, <1>3, <1>5 DEF Core, Apart
<1>7. Accounted' /\ handles' \in Nat
  <2>1. /\ IsFiniteSet(OpenStreams) /\ IsFiniteSet(lost)
        /\ handles = Cardinality(OpenStreams) + Cardinality(lost)
    BY DEF Core, Accounted, HandlesAccounted, OpenStreams
  <2>2. IsFiniteSet(lost \cup {p}) /\ Cardinality(lost \cup {p}) = Cardinality(lost) + 1
    BY <1>3, <2>1, FS_AddElement
  <2>3. Cardinality(OpenStreams) \in Nat /\ Cardinality(lost) \in Nat
    BY <2>1, FS_CardinalityType
  <2>4. IsFiniteSet(lost') /\ handles' = Cardinality(OpenStreams) + Cardinality(lost')
    <3>1. CASE handles' = handles /\ lost' = lost
      BY <3>1, <2>1
    <3>2. CASE handles' = handles + 1 /\ lost' = lost \cup {p}
      BY <3>2, <2>1, <2>2, <2>3
    <3>3. QED
      BY <1>1, <3>1, <3>2
  <2>5. handles \in Nat
    BY DEF Core
  <2>6. handles' \in Nat
    BY <1>1, <2>5
  <2>7. IsFiniteSet(OpenStreams')
    BY <1>5, <2>1
  <2>8. QED
    BY <1>5, <2>4, <2>6, <2>7 DEF Accounted, HandlesAccounted, OpenStreams
<1>8. io' \in Builds /\ kind' \in [Paths -> {"none", "file", "dir"}]
  BY <1>1 DEF Core
<1>9. content' \in [Paths -> Seq(Bytes)]
  BY <1>1, <1>2 DEF Core
<1>10. stream' \in [Streams -> Handle \cup {NULL}] /\ lost' \subseteq Paths
  BY <1>1 DEF Core
<1>11. QED
  BY <1>5, <1>6, <1>7, <1>8, <1>9, <1>10 DEF Core

\* What the file system changes no stream has open.
LEMMA ChangesFacts ==
  ASSUME Core, Changes,
         kind' \in [Paths -> {"none", "file", "dir"}], content' \in [Paths -> Seq(Bytes)],
         \A t \in Streams : IsOpen(t) => content'[stream[t].path] = content[stream[t].path]
  PROVE  Core'
<1>1. UNCHANGED <<io, stream, handles, lost>>
  BY DEF Changes
<1>2. /\ HeldSound' /\ OpenStreams' = OpenStreams
      /\ \A t \in Streams : (IsOpen(t)' <=> IsOpen(t))
  BY <1>1, FilesChange
<1>3. Apart'
  BY <1>1, <1>2 DEF Core, Apart
<1>4. Accounted'
  BY <1>1, <1>2 DEF Core, Accounted, HandlesAccounted, OpenStreams
<1>5. QED
  BY <1>1, <1>2, <1>3, <1>4 DEF Core

\* Making and deleting files and directories, and renaming them.
LEMMA FsFacts ==
  ASSUME Core, NEW p \in Paths, NEW q \in Paths,
         FsDelete(p) \/ FsMkdir(p) \/ FsRmdir(p) \/ FsRename(p, q)
  PROVE  Core'
<1>1. <<>> \in Seq(Bytes) /\ content[p] \in Seq(Bytes) /\ kind[p] \in {"none", "file", "dir"}
  BY DEF Core
<1>2. kind \in [Paths -> {"none", "file", "dir"}] /\ content \in [Paths -> Seq(Bytes)]
  BY DEF Core
<1>3. \A t \in Streams : IsOpen(t) => stream[t].path \in Paths
  BY ViewFacts
<1>4. ASSUME FsDelete(p) \/ FsMkdir(p) \/ FsRmdir(p) PROVE Core'
  <2>1. PICK k \in {"none", "file", "dir"} : Changes /\ Unused(p) /\ Becomes(p, k)
    BY <1>4 DEF FsDelete, FsMkdir, FsRmdir
  <2>2. kind' \in [Paths -> {"none", "file", "dir"}] /\ content' \in [Paths -> Seq(Bytes)]
    BY <1>1, <1>2, <2>1 DEF Becomes
  <2>3. \A t \in Streams : IsOpen(t) => content'[stream[t].path] = content[stream[t].path]
    BY <1>2, <1>3, <2>1 DEF Becomes, Unused
  <2>4. QED
    BY <2>1, <2>2, <2>3, ChangesFacts
<1>5. ASSUME FsRename(p, q) PROVE Core'
  <2>1. /\ Changes /\ Unused(p) /\ Unused(q)
        /\ kind' = [kind EXCEPT ![q] = kind[p], ![p] = "none"]
        /\ content' = [content EXCEPT ![q] = content[p], ![p] = <<>>]
    BY <1>5 DEF FsRename
  <2>2. kind' \in [Paths -> {"none", "file", "dir"}] /\ content' \in [Paths -> Seq(Bytes)]
    BY <1>1, <1>2, <2>1
  <2>3. \A t \in Streams : IsOpen(t) => content'[stream[t].path] = content[stream[t].path]
    BY <1>2, <1>3, <2>1 DEF Unused
  <2>4. QED
    BY <2>1, <2>2, <2>3, ChangesFacts
<1>6. QED
  BY <1>4, <1>5

-------------------------------------------------------------------------------
(* The steps of the calls.                                                    *)

\* Between calls the core is all there is to keep.
LEMMA BetweenCalls ==
  ASSUME Core', call' = NULL
  PROVE  IInv'
<1>1. CallTyped' /\ CallOpen' /\ CallSound' /\ CallsExact'
  BY DEF CallTyped, CallOpen, CallSound, CallsExact, LineExact, EntireExact, Idle, Doing
<1>2. QED
  BY <1>1 DEF IInv, Core, TypeOK, CallTyped

\* What the invariant says of a call, by the name of the call.
LEMMA CallFacts ==
  ASSUME IInv, call # NULL
  PROVE  /\ Core /\ call.stream \in Streams /\ IsOpen(call.stream)
         /\ call.name = "line" => call \in Line
         /\ call.name = "read" => call \in EntireFileRead
         /\ call.name = "write" => call \in EntireFileWrite
<1>1. Core /\ CallTyped /\ CallOpen
  BY IInvParts
<1>2. call \in Line \cup EntireFileRead \cup EntireFileWrite
  BY <1>1 DEF CallTyped
<1>3. /\ call \in Line => call.name = "line"
      /\ call \in EntireFileRead => call.name = "read"
      /\ call \in EntireFileWrite => call.name = "write"
  BY DEF Line, EntireFileRead, EntireFileWrite
<1>4. call.stream \in Streams
  BY <1>2 DEF Line, EntireFileRead, EntireFileWrite
<1>5. QED
  BY <1>1, <1>2, <1>3, <1>4 DEF CallOpen

\* A byte behind a text.
LEMMA ByteAdded ==
  ASSUME NEW a \in Seq(Bytes), NEW byte \in Seq(Bytes), Len(byte) = 1
  PROVE  /\ a \o byte \in Seq(Bytes) /\ Len(a \o byte) = Len(a) + 1
         /\ \A i \in 1 .. Len(a) : (a \o byte)[i] = a[i]
         /\ (a \o byte)[Len(a) + 1] = byte[1]
<1> DEFINE n == Len(a)
           t == a \o byte
<1>1. n \in Nat
  OBVIOUS
<1>2. t \in Seq(Bytes) /\ Len(t) = n + Len(byte)
  BY HeldFacts
<1>3. \A i \in 1 .. n : t[i] = a[i]
  OBVIOUS
<1>4. \A j \in 1 .. Len(byte) : t[n + j] = byte[j]
  <2>1. a \in Seq(Bytes) /\ byte \in Seq(Bytes)
    OBVIOUS
  <2>2. \A j \in 1 .. Len(byte) : (a \o byte)[Len(a) + j] = byte[j]
    BY ONLY <2>1
  <2>3. QED
    BY <2>2
<1> HIDE DEF n, t
<1>5. t[n + 1] = byte[1]
  BY <1>4
<1>6. QED
  BY <1>2, <1>3, <1>5 DEF n, t

\* The bytes of v behind the first m, to the k-th.
IsPart(a, v, m, k) ==
  a \in Seq(Bytes) /\ Len(a) = k - m /\ \A i \in 1 .. k - m : a[i] = v[m + i]

\* SubSeq cuts such a part out of a sequence of bytes.
LEMMA PartOf ==
  ASSUME NEW v \in Seq(Bytes), NEW m \in Nat, NEW k \in Nat, m <= k, k <= Len(v)
  PROVE  IsPart(SubSeq(v, m + 1, k), v, m, k)
<1>1. /\ SubSeq(v, m + 1, k) \in Seq(Bytes) /\ Len(SubSeq(v, m + 1, k)) = k - m
      /\ \A i \in 1 .. k - m : SubSeq(v, m + 1, k)[i] = v[m + i]
  BY PartFacts
<1>2. QED
  BY <1>1 DEF IsPart

\* A sequence with the same bytes is that part.
LEMMA PartIs ==
  ASSUME NEW v \in Seq(Bytes), NEW m \in Nat, NEW k \in Nat, m <= k, k <= Len(v),
         NEW a, IsPart(a, v, m, k)
  PROVE  a = SubSeq(v, m + 1, k)
<1> DEFINE b == SubSeq(v, m + 1, k)
<1>1. b \in Seq(Bytes) /\ Len(b) = k - m /\ \A i \in 1 .. k - m : b[i] = v[m + i]
  BY PartOf DEF IsPart
<1>2. a \in Seq(Bytes) /\ Len(a) = k - m /\ \A i \in 1 .. k - m : a[i] = v[m + i]
  BY DEF IsPart
<1> HIDE DEF b
<1>3. a = b
  BY <1>1, <1>2
<1>4. QED
  BY <1>3 DEF b

\* The bytes delivered so far, and the next, are the bytes from the first to the next.
LEMMA NextByte ==
  ASSUME NEW v \in Seq(Bytes), NEW m \in Nat, NEW k \in Nat, m <= k, NEW a, IsPart(a, v, m, k),
         NEW byte \in Seq(Bytes), Len(byte) = 1, byte[1] = v[k + 1]
  PROVE  IsPart(a \o byte, v, m, k + 1)
<1> DEFINE t == a \o byte
<1>1. a \in Seq(Bytes) /\ Len(a) = k - m /\ \A i \in 1 .. k - m : a[i] = v[m + i]
  BY DEF IsPart
<1>2. /\ t \in Seq(Bytes) /\ Len(t) = Len(a) + 1
      /\ \A i \in 1 .. Len(a) : t[i] = a[i]
      /\ t[Len(a) + 1] = byte[1]
  BY <1>1, ByteAdded
<1> HIDE DEF t
<1>3. ASSUME NEW i \in 1 .. k + 1 - m PROVE t[i] = v[m + i]
  <2>1. CASE i = k + 1 - m
    <3>1. i = Len(a) + 1 /\ m + i = k + 1
      BY <2>1, <1>1
    <3>2. t[i] = v[k + 1]
      BY <3>1, <1>2
    <3>3. QED
      BY <3>1, <3>2
  <2>2. CASE i # k + 1 - m
    BY <2>2, <1>1, <1>2
  <2>3. QED
    BY <2>1, <2>2
<1>4. IsPart(t, v, m, k + 1)
  BY <1>1, <1>2, <1>3 DEF IsPart
<1>5. QED
  BY <1>4 DEF t

\* What the invariant asks of a line that is being read.
LEMMA LineGoesOn ==
  ASSUME Core', NEW s \in Streams, IsOpen(s)', NEW c \in Line, c.stream = s, call' = c,
         c.start <= stream'[s].pos,
         c.buf = SubSeq(View(s)', c.start + 1, stream'[s].pos),
         Len(c.buf) < c.size,
         \A i \in 1 .. Len(c.buf) - 1 : c.buf[i] # Newline
  PROVE  IInv'
<1>1. c.name = "line"
  BY DEF Line
<1>2. View(call.stream)' = View(s)'
  BY DEF View
<1>3. CallTyped'
  BY DEF CallTyped
<1>4. CallOpen'
  BY DEF CallOpen, IsOpen
<1>5. CallSound'
  BY <1>1 DEF CallSound
<1>6. LineExact'
  BY <1>2 DEF LineExact
<1>7. EntireExact'
  BY <1>1 DEF EntireExact, Doing, Idle
<1>8. QED
  BY <1>3, <1>4, <1>5, <1>6, <1>7 DEF IInv, Core, TypeOK, CallTyped, CallsExact

\* What it asks of a file that is being read whole.
LEMMA ReadGoesOn ==
  ASSUME Core', NEW s \in Streams, IsOpen(s)', NEW c \in EntireFileRead, c.stream = s, call' = c,
         c.step # "close" => stream'[s].pos = 0 /\ ~stream'[s].eof,
         c.step \in {"alloc", "data"} => c.size = Len(View(s)'),
         c.step = "close" =>
           \/ c.buf = View(s)'
           \/ c.buf = NULL /\ View(s)' = <<>> /\ ~Posix'
  PROVE  IInv'
<1>1. c.name = "read" /\ c.step \in {"size", "alloc", "data", "close"}
  BY DEF EntireFileRead
<1>2. View(call.stream)' = View(s)'
  BY DEF View
<1>3. CallTyped'
  BY DEF CallTyped
<1>4. CallOpen'
  BY DEF CallOpen, IsOpen
<1>5. CallSound'
  <2>1. c.step # "close" /\ c.step # "size" => c.size = Len(View(s)')
    BY <1>1
  <2>2. c.name # "line" /\ c.name # "write"
    BY <1>1
  <2>3. /\ c.step # "close" =>
             /\ stream'[s].pos = 0 /\ ~stream'[s].eof
             /\ c.step # "size" => c.size = Len(View(call.stream)')
    BY <1>2, <2>1
  <2>4. QED
    BY <2>2, <2>3 DEF CallSound
<1>6. LineExact'
  BY <1>1 DEF LineExact, Doing
<1>7. EntireExact'
  BY <1>1, <1>2 DEF EntireExact
<1>8. QED
  BY <1>3, <1>4, <1>5, <1>6, <1>7 DEF IInv, Core, TypeOK, CallTyped, CallsExact

\* What it asks of a file that is being written whole.
LEMMA WriteGoesOn ==
  ASSUME Core', NEW s \in Streams, IsOpen(s)', NEW c \in EntireFileWrite, c.stream = s, call' = c,
         c.step = "data" =>
           /\ View(s)' = <<>> /\ stream'[s].pos = 0
           /\ stream'[s].unwritten = <<>> /\ ~stream'[s].append,
         c.step = "close" => c.failed \/ View(s)' = c.data
  PROVE  IInv'
<1>1. c.name = "write" /\ c.step \in {"data", "close"}
  BY DEF EntireFileWrite
<1>2. View(call.stream)' = View(s)'
  BY DEF View
<1>3. CallTyped'
  BY DEF CallTyped
<1>4. CallOpen'
  BY DEF CallOpen, IsOpen
<1>5. CallSound'
  BY <1>1, <1>2 DEF CallSound
<1>6. LineExact'
  BY <1>1 DEF LineExact, Doing
<1>7. EntireExact'
  BY <1>1, <1>2 DEF EntireExact
<1>8. QED
  BY <1>3, <1>4, <1>5, <1>6, <1>7 DEF IInv, Core, TypeOK, CallTyped, CallsExact

\* A line is begun.
LEMMA ReadLineStep ==
  ASSUME IInv, NEW s \in Streams, NEW size \in LineSizes, ReadLine(s, size)
  PROVE  IInv'
<1>1. PICK c : c = [name |-> "line", stream |-> s, size |-> size,
                    start |-> stream[s].pos, buf |-> <<>>]
  OBVIOUS
<1>2. /\ Core /\ IsOpen(s) /\ call' = c
      /\ UNCHANGED <<io, kind, content, stream, handles, lost>>
  BY <1>1, IInvParts DEF ReadLine, fileVars
<1>3. Core' /\ IsOpen(s)' /\ View(s)' = View(s)
  BY <1>2, CoreStutters
<1>4. stream[s].pos \in Nat /\ View(s) \in Seq(Bytes)
  BY <1>2, ViewFacts
<1>5. size \in Nat \ {0} /\ <<>> \in Seq(Bytes)
  OBVIOUS
<1>6. /\ c \in Line /\ c.stream = s /\ c.size = size /\ c.start = stream[s].pos
      /\ c.buf = <<>>
  BY <1>1, <1>4, <1>5 DEF Line
<1>7. SubSeq(View(s), stream[s].pos + 1, stream[s].pos) = <<>>
  BY <1>4
<1>8. stream'[s].pos = stream[s].pos
  BY <1>2
<1>9. c.buf = SubSeq(View(s)', c.start + 1, stream'[s].pos)
  BY <1>3, <1>6, <1>7, <1>8
<1>10. Len(c.buf) < c.size /\ c.start <= stream'[s].pos
  BY <1>4, <1>5, <1>6, <1>8
<1>11. \A i \in 1 .. Len(c.buf) - 1 : c.buf[i] # Newline
  BY <1>6
<1>12. QED
  BY <1>2, <1>3, <1>6, <1>9, <1>10, <1>11, LineGoesOn

\* A byte of a line is read.
LEMMA LineByteStep ==
  ASSUME IInv, LineByte
  PROVE  IInv'
<1>1. call # NULL /\ call.name = "line" /\ ~LineIsFull(call.buf, call.size)
  BY DEF LineByte, Doing
<1>2. Core /\ call.stream \in Streams /\ IsOpen(call.stream) /\ call \in Line
  BY <1>1, CallFacts
<1>0. PICK s \in Streams : s = call.stream
  BY <1>2
<1> DEFINE got == Got(s, 1)
           v == View(s)
           k == stream[s].pos
<1>3. /\ Core' /\ stream'[s].pos = k + Len(got) /\ View(s)' = v /\ IsOpen(s)'
  <2>1. Core /\ IsOpen(s) /\ Reads(s, 1)
    BY <1>0, <1>2 DEF LineByte
  <2>2. 1 \in Nat
    OBVIOUS
  <2>3. QED
    BY <2>1, <2>2, ReadsFacts
<1>4. /\ v \in Seq(Bytes) /\ k \in Nat
  BY <1>0, <1>2, ViewFacts
<1>5. /\ got \in Seq(Bytes)
      /\ Len(got) = IF k >= Len(v) THEN 0 ELSE IF k + 1 <= Len(v) THEN 1 ELSE Len(v) - k
      /\ \A i \in 1 .. Len(got) : got[i] = v[k + i]
  <2> DEFINE one == 1
  <2>1. one \in Nat
    OBVIOUS
  <2> HIDE DEF one
  <2>2. /\ Got(s, one) \in Seq(Bytes)
        /\ Len(Got(s, one)) = IF k >= Len(v) THEN 0
                              ELSE IF k + one <= Len(v) THEN one ELSE Len(v) - k
        /\ \A i \in 1 .. Len(Got(s, one)) : Got(s, one)[i] = v[k + i]
    BY <1>0, <1>2, <2>1, GotFacts
  <2>3. QED
    BY <2>2 DEF one
<1>6. /\ call.stream \in Streams /\ call.size \in Nat \ {0} /\ call.start \in Nat
      /\ call.buf \in Seq(Bytes)
  BY <1>2 DEF Line
<1>7. /\ call.start <= k
      /\ call.buf = SubSeq(v, call.start + 1, k)
      /\ Len(call.buf) < call.size
      /\ \A i \in 1 .. Len(call.buf) - 1 : call.buf[i] # Newline
  BY <1>0, <1>1 DEF IInv, CallSound, CallsExact, LineExact, Doing
<1>8. CASE got = <<>>
  <2>1. call' = NULL
    BY <1>0, <1>8 DEF LineByte, ReadStops
  <2>2. QED
    BY <1>3, <2>1, BetweenCalls
<1>9. CASE got # <<>>
  <2>0. PICK c : c = [call EXCEPT !.buf = @ \o got]
    OBVIOUS
  <2>1. call' = c
    BY <1>0, <1>9, <2>0 DEF LineByte, ReadStops
  <2> HIDE DEF got, v, k
  <2>2. Len(got) = 1 /\ k + 1 <= Len(v)
    <3>1. Len(got) # 0 /\ Len(v) \in Nat
      BY <1>4, <1>5, <1>9
    <3>2. QED
      BY <1>4, <1>5, <3>1
  <2>3. got[1] = v[k + 1]
    <3>1. 1 \in 1 .. Len(got)
      BY <2>2
    <3>2. \A i \in 1 .. Len(got) : got[i] = v[k + i]
      BY <1>5
    <3>3. QED
      BY <3>1, <3>2
  <2> DEFINE buf == call.buf
             start == call.start
             more == buf \o got
  <2>4. /\ start \in Nat /\ start <= k /\ buf \in Seq(Bytes)
        /\ buf = SubSeq(v, start + 1, k)
    BY <1>6, <1>7
  <2> HIDE DEF start
  <2>5. /\ more = SubSeq(v, start + 1, k + 1)
        /\ more \in Seq(Bytes) /\ Len(more) = Len(buf) + 1
        /\ \A i \in 1 .. Len(buf) : more[i] = buf[i]
    <3> DEFINE n == k + 1
    <3>1. /\ v \in Seq(Bytes) /\ start \in Nat /\ k \in Nat /\ start <= k
          /\ k <= Len(v) /\ got \in Seq(Bytes) /\ Len(got) = 1 /\ got[1] = v[n]
      BY <1>4, <1>5, <2>2, <2>3, <2>4
    <3>2. n \in Nat /\ start <= n /\ n <= Len(v)
      BY <3>1, <2>2
    <3> HIDE DEF buf, more
    <3>3. IsPart(buf, v, start, k)
      BY <2>4, <3>1, PartOf
    <3>4. IsPart(buf \o got, v, start, k + 1)
      BY <3>1, <3>3, NextByte
    <3> HIDE DEF n
    <3>5. IsPart(buf \o got, v, start, n)
      BY <3>4 DEF n
    <3>6. buf \o got = SubSeq(v, start + 1, n)
      BY <3>1, <3>2, <3>5, PartIs
    <3>7. /\ buf \o got \in Seq(Bytes) /\ Len(buf \o got) = Len(buf) + 1
          /\ \A i \in 1 .. Len(buf) : (buf \o got)[i] = buf[i]
      BY <2>4, <3>1, ByteAdded
    <3>8. QED
      BY <3>6, <3>7 DEF more, n
  <2> HIDE DEF more
  <2>6. /\ c \in Line /\ c.stream = s /\ c.size = call.size /\ c.start = start
        /\ c.buf = more
    <3>1. c = [call EXCEPT !.buf = more]
      BY <2>0 DEF more
    <3>2. QED
      BY <1>0, <1>2, <2>5, <3>1 DEF Line, start
  <2>7. buf \in Seq(Bytes) /\ Len(buf) \in Nat /\ Len(buf) < call.size /\ Len(buf) # call.size - 1
        /\ (buf # <<>> => Last(buf) # Newline)
    <3>1. ~(Len(buf) = call.size - 1 \/ (buf # <<>> /\ Last(buf) = Newline))
      BY <1>1 DEF LineIsFull
    <3>2. buf \in Seq(Bytes) /\ Len(buf) < call.size
      BY <1>6, <1>7
    <3> HIDE DEF buf
    <3>3. Len(buf) \in Nat
      BY <3>2
    <3>4. QED
      BY <3>1, <3>2, <3>3
  <2>8. Len(more) < c.size
    BY <1>6, <2>5, <2>6, <2>7
  <2>9. \A i \in 1 .. Len(buf) - 1 : buf[i] # Newline
    BY <1>7
  <2> HIDE DEF buf
  <2>10. \A i \in 1 .. Len(more) - 1 : more[i] # Newline
    <3>1. ASSUME NEW i \in 1 .. Len(more) - 1 PROVE more[i] # Newline
      <4>1. i \in 1 .. Len(buf) /\ more[i] = buf[i]
        BY <2>5, <2>7
      <4>2. CASE i = Len(buf)
        <5>1. buf # <<>> /\ Last(buf) = buf[i]
          BY <4>1, <4>2, <2>7 DEF Last
        <5>2. QED
          BY <4>1, <5>1, <2>7
      <4>3. CASE i # Len(buf)
        <5>1. i \in 1 .. Len(buf) - 1
          BY <4>1, <4>3, <2>7
        <5>2. QED
          BY <4>1, <5>1, <2>9
      <4>4. QED
        BY <4>2, <4>3
    <3>2. QED
      BY <3>1
  <2>11. stream'[s].pos = k + 1 /\ View(s)' = v
    BY <1>3, <2>2
  <2>12. c.start <= stream'[s].pos
    BY <1>4, <2>4, <2>6, <2>11
  <2>13. c.buf = SubSeq(View(s)', c.start + 1, stream'[s].pos)
    BY <2>5, <2>6, <2>11
  <2>14. \A i \in 1 .. Len(c.buf) - 1 : c.buf[i] # Newline
    BY <2>6, <2>10
  <2>15. Len(c.buf) < c.size
    BY <2>6, <2>8
  <2>16. QED
    BY <1>3, <2>1, <2>6, <2>12, <2>13, <2>14, <2>15, LineGoesOn
<1>10. QED
  BY <1>8, <1>9

\* A full disk stops it.
LEMMA LineByteFailsStep ==
  ASSUME IInv, LineByteFails
  PROVE  IInv'
<1>1. call # NULL /\ call' = NULL
  BY DEF LineByteFails, Doing
<1>2. Core /\ call.stream \in Streams /\ IsOpen(call.stream)
  BY <1>1, CallFacts
<1>3. PICK s \in Streams : s = call.stream
  BY <1>2
<1>4. PICK data \in Seq(Bytes) : data = <<>>
  BY NoBytes
<1>5. Core'
  <2>1. DiskFull(s, data)
    BY <1>3, <1>4 DEF LineByteFails
  <2>2. QED
    BY <1>2, <1>3, <2>1, DiskFullFacts
<1>6. QED
  BY <1>1, <1>5, BetweenCalls

\* A file is opened to be read whole.
LEMMA ReadEntireStep ==
  ASSUME IInv, NEW s \in Streams, NEW p \in Paths, ReadEntireFile(s, p)
  PROVE  IInv'
<1>1. PICK c : c = [name |-> "read", step |-> "size", stream |-> s, size |-> 0, buf |-> NULL]
  OBVIOUS
<1>2. PICK flags : flags = {"READ"}
  OBVIOUS
<1>3. Core /\ Opens(s, p, flags) /\ flags \in SUBSET Flags /\ call' = c
  BY <1>1, <1>2, IInvParts DEF ReadEntireFile, Flags
<1>4. Core' /\ IsOpen(s)' /\ ~stream'[s].eof /\ stream'[s].pos = 0
  BY <1>2, <1>3, OpensFacts
<1>5. c \in EntireFileRead /\ c.stream = s /\ c.step = "size"
  BY <1>1 DEF EntireFileRead
<1>6. QED
  BY <1>3, <1>4, <1>5, ReadGoesOn

\* Its size is asked for, memory is there for it, and it is read.
LEMMA EntireReadStep ==
  ASSUME IInv, EntireSize \/ EntireAlloc \/ EntireRead
  PROVE  IInv'
<1>1. call # NULL /\ call.name = "read"
  BY DEF EntireSize, EntireAlloc, EntireRead, At, Doing
<1>2. Core /\ call.stream \in Streams /\ IsOpen(call.stream) /\ call \in EntireFileRead
  BY <1>1, CallFacts
<1>3. PICK s \in Streams : s = call.stream
  BY <1>2
<1>4. IsOpen(s) /\ View(s) \in Seq(Bytes) /\ Len(View(s)) \in Nat
  BY <1>2, <1>3, ViewFacts
<1>5. /\ call.step # "close" => stream[s].pos = 0 /\ ~stream[s].eof
      /\ call.step \in {"alloc", "data"} => call.size = Len(View(s))
  BY <1>1, <1>3 DEF IInv, CallSound
<1>6. ASSUME EntireSize PROVE IInv'
  <2>1. PICK c : c = [call EXCEPT !.step = "alloc", !.size = Len(View(s))]
    OBVIOUS
  <2>2. Sizes(s) /\ call.step = "size" /\ call' = c
    BY <1>3, <1>6, <2>1 DEF EntireSize, At
  <2>3. /\ Core' /\ stream'[s].pos = stream[s].pos /\ (~stream[s].eof => ~stream'[s].eof)
        /\ View(s)' = View(s) /\ IsOpen(s)'
    BY <1>2, <1>4, <2>2, SizesFacts
  <2>4. c \in EntireFileRead /\ c.stream = s /\ c.step = "alloc" /\ c.size = Len(View(s))
    BY <1>2, <1>3, <1>4, <2>1 DEF EntireFileRead
  <2>5. stream'[s].pos = 0 /\ ~stream'[s].eof
    BY <1>5, <2>2, <2>3
  <2>6. c.size = Len(View(s)')
    BY <2>3, <2>4
  <2>7. QED
    BY <2>2, <2>3, <2>4, <2>5, <2>6, ReadGoesOn
<1>7. ASSUME EntireAlloc PROVE IInv'
  <2>1. PICK c : c = [call EXCEPT !.step = "data"]
    OBVIOUS
  <2>2. /\ call.step = "alloc" /\ call' = c
        /\ UNCHANGED <<io, kind, content, stream, handles, lost>>
    BY <1>7, <2>1 DEF EntireAlloc, At, fileVars
  <2>3. Core' /\ View(s)' = View(s) /\ IsOpen(s)'
    BY <1>2, <1>4, <2>2, CoreStutters
  <2>4. c \in EntireFileRead /\ c.stream = s /\ c.step = "data" /\ c.size = call.size
    BY <1>2, <1>3, <2>1 DEF EntireFileRead
  <2>5. stream'[s].pos = 0 /\ ~stream'[s].eof
    BY <1>5, <2>2
  <2>6. c.size = Len(View(s)')
    BY <1>5, <2>2, <2>3, <2>4
  <2>7. QED
    BY <2>2, <2>3, <2>4, <2>5, <2>6, ReadGoesOn
<1>8. ASSUME EntireRead PROVE IInv'
  <2>1. PICK n \in Nat : n = call.size
    BY <1>2 DEF EntireFileRead
  <2> DEFINE got == Got(s, n)
             v == View(s)
             answer == IF MeetsEnd(s, n) THEN NULL ELSE got
  <2>2. PICK c : c = [call EXCEPT !.step = "close", !.buf = answer]
    OBVIOUS
  <2>3. Reads(s, n) /\ call.step = "data" /\ call' = c
    BY <1>3, <1>8, <2>1, <2>2 DEF EntireRead, At
  <2>4. Core' /\ View(s)' = v /\ IsOpen(s)'
    BY <1>2, <1>4, <2>3, ReadsFacts
  <2>5. /\ got \in Seq(Bytes)
        /\ Len(got) = IF stream[s].pos >= Len(v) THEN 0
                      ELSE IF stream[s].pos + n <= Len(v) THEN n ELSE Len(v) - stream[s].pos
        /\ \A i \in 1 .. Len(got) : got[i] = v[stream[s].pos + i]
    BY <1>2, <1>4, GotFacts
  <2>6. stream[s].pos = 0 /\ ~stream[s].eof /\ n = Len(v)
    BY <1>5, <2>1, <2>3
  <2>7. c \in EntireFileRead /\ c.stream = s /\ c.step = "close" /\ c.buf = answer
    <3>1. answer \in Seq(Bytes) \cup {NULL}
      BY <2>5
    <3> HIDE DEF answer
    <3>2. QED
      BY <1>2, <1>3, <2>2, <3>1 DEF EntireFileRead
  <2>8. answer = got \/ (answer = NULL /\ got = <<>> /\ (Posix => n > 0))
    BY <2>6 DEF MeetsEnd
  <2>9. v \in Seq(Bytes) /\ Len(v) \in Nat
    BY <1>4
  <2> HIDE DEF got, v, answer
  <2>10. Len(got) = Len(v)
    BY <2>5, <2>6, <2>9
  <2>11. \A i \in 1 .. Len(got) : got[i] = v[i]
    <3>1. ASSUME NEW i \in 1 .. Len(got) PROVE got[i] = v[i]
      <4>1. got[i] = v[stream[s].pos + i] /\ i \in Nat
        BY <2>5, <2>10, <2>9
      <4>2. stream[s].pos + i = i
        BY <2>6, <4>1
      <4>3. QED
        BY <4>1, <4>2
    <3>2. QED
      BY <3>1
  <2>12. got = v
    BY <2>5, <2>9, <2>10, <2>11
  <2>13. Posix' <=> Posix
    BY <2>3 DEF Reads, Posix
  <2>14. got = <<>> => Len(got) = 0
    OBVIOUS
  <2>15. \/ c.buf = View(s)'
         \/ c.buf = NULL /\ View(s)' = <<>> /\ ~Posix'
    BY <2>4, <2>6, <2>7, <2>8, <2>10, <2>12, <2>13, <2>14
  <2>16. QED
    BY <2>3, <2>4, <2>7, <2>15, ReadGoesOn
<1>9. QED
  BY <1>6, <1>7, <1>8

\* It has no size, or there is no memory for it.
LEMMA EntireUndoneStep ==
  ASSUME IInv, EntireSizeFails \/ EntireAllocFails
  PROVE  IInv'
<1>1. call # NULL /\ call' = NULL
  BY DEF EntireSizeFails, EntireAllocFails, At, Doing
<1>2. Core /\ call.stream \in Streams /\ IsOpen(call.stream)
  BY <1>1, CallFacts
<1>3. PICK s \in Streams : s = call.stream
  BY <1>2
<1>4. \/ Closes(s)
      \/ /\ stream' = [stream EXCEPT ![s] = NULL]
         /\ lost' = lost \cup {stream[s].path}
         /\ UNCHANGED <<io, kind, content, handles>>
  BY <1>3 DEF EntireSizeFails, EntireAllocFails, EntireUndone, fileVars
<1>5. Core'
  BY <1>2, <1>3, <1>4, ClosesFacts, LosesFacts
<1>6. QED
  BY <1>1, <1>5, BetweenCalls

\* A file is opened to be written whole.
LEMMA WriteEntireStep ==
  ASSUME IInv, NEW s \in Streams, NEW p \in Paths, NEW data \in Texts,
         WriteEntireFile(s, p, data)
  PROVE  IInv'
<1>1. PICK c : c = [name |-> "write", step |-> "data", stream |-> s, data |-> data,
                    failed |-> FALSE]
  OBVIOUS
<1>2. PICK flags : flags = {"WRITE", "CREATE", "TRUNCATE"}
  OBVIOUS
<1>3. Core /\ Opens(s, p, flags) /\ flags \in SUBSET Flags /\ call' = c
  BY <1>1, <1>2, IInvParts DEF WriteEntireFile, Flags
<1>4. /\ Core' /\ IsOpen(s)' /\ stream'[s].unwritten = <<>>
      /\ stream'[s].pos = 0 /\ ~stream'[s].append /\ View(s)' = <<>>
  BY <1>2, <1>3, OpensFacts
<1>5. data \in Seq(Bytes)
  OBVIOUS
<1>6. c \in EntireFileWrite /\ c.stream = s /\ c.step = "data"
  BY <1>1, <1>5 DEF EntireFileWrite
<1>7. QED
  BY <1>3, <1>4, <1>6, WriteGoesOn

\* It is written, or the disk is full.
LEMMA EntireWriteStep ==
  ASSUME IInv, EntireWrite \/ EntireWriteFails
  PROVE  IInv'
<1>1. call # NULL /\ call.name = "write" /\ call.step = "data"
  BY DEF EntireWrite, EntireWriteFails, At, Doing
<1>2. Core /\ call.stream \in Streams /\ IsOpen(call.stream) /\ call \in EntireFileWrite
  BY <1>1, CallFacts
<1>3. PICK s \in Streams : s = call.stream
  BY <1>2
<1>4. /\ View(s) = <<>> /\ stream[s].pos = 0
      /\ stream[s].unwritten = <<>> /\ ~stream[s].append
  BY <1>1, <1>3 DEF IInv, CallSound
<1>5. ASSUME EntireWrite PROVE IInv'
  <2>1. PICK c : c = [call EXCEPT !.step = "close"]
    OBVIOUS
  <2>2. PICK data \in Seq(Bytes) : data = call.data
    BY <1>2 DEF EntireFileWrite
  <2>3. Writes(s, data) /\ call' = c
    BY <1>3, <1>5, <2>1, <2>2 DEF EntireWrite
  <2>4. Core' /\ IsOpen(s)' /\ View(s)' = data
    BY <1>2, <1>3, <1>4, <2>3, WritesFacts
  <2>5. c \in EntireFileWrite /\ c.stream = s /\ c.step = "close" /\ c.data = data
    BY <1>2, <1>3, <2>1, <2>2 DEF EntireFileWrite
  <2>6. QED
    BY <2>3, <2>4, <2>5, WriteGoesOn
<1>6. ASSUME EntireWriteFails PROVE IInv'
  <2>1. PICK c : c = [call EXCEPT !.step = "close", !.failed = TRUE]
    OBVIOUS
  <2>2. /\ call' = c
        /\ \/ UNCHANGED <<io, kind, content, stream, handles, lost>>
           \/ DiskFull(s, call.data)
    BY <1>3, <1>6, <2>1 DEF EntireWriteFails, PosixFileWriteFails, fileVars
  <2>7. PICK data \in Seq(Bytes) : data = call.data
    BY <1>2 DEF EntireFileWrite
  <2>3. Core' /\ IsOpen(s)'
    <3>1. CASE UNCHANGED <<io, kind, content, stream, handles, lost>>
      BY <1>2, <1>3, <3>1, CoreStutters
    <3>2. CASE DiskFull(s, call.data)
      <4>1. DiskFull(s, data)
        BY <2>7, <3>2
      <4>2. QED
        BY <1>2, <1>3, <4>1, DiskFullFacts
    <3>3. QED
      BY <2>2, <3>1, <3>2
  <2>4. c \in EntireFileWrite /\ c.stream = s /\ c.step = "close"
    BY <1>2, <1>3, <2>1 DEF EntireFileWrite
  <2>5. c.failed
    BY <1>2, <2>1 DEF EntireFileWrite
  <2>6. QED
    BY <2>2, <2>3, <2>4, <2>5, WriteGoesOn
<1>7. QED
  BY <1>5, <1>6

\* It is closed.
LEMMA EntireCloseStep ==
  ASSUME IInv, EntireClose
  PROVE  IInv'
<1>1. call # NULL /\ call' = NULL
  BY DEF EntireClose, At, Doing
<1>2. Core /\ call.stream \in Streams /\ IsOpen(call.stream)
  BY <1>1, CallFacts
<1>3. PICK s \in Streams : s = call.stream
  BY <1>2
<1>4. Closes(s)
  BY <1>3 DEF EntireClose
<1>5. Core'
  BY <1>2, <1>3, <1>4, ClosesFacts
<1>6. QED
  BY <1>1, <1>5, BetweenCalls

-------------------------------------------------------------------------------
(* The invariant holds, and with it what the runs check.                      *)

\* The system starts with no file and no stream.
LEMMA InitIInv == Init => IInv
<1> SUFFICES ASSUME Init PROVE IInv
  OBVIOUS
<1>1. <<>> \in Seq(Bytes)
  OBVIOUS
<1>2. \A s \in Streams : ~IsOpen(s)
  BY DEF Init, IsOpen
<1>3. TypeOK
  BY <1>1 DEF Init, TypeOK
<1>4. Apart /\ HeldSound /\ CallOpen /\ CallSound
  BY <1>2 DEF Apart, HeldSound, CallOpen, CallSound, Init
<1>5. Accounted
  <2>1. OpenStreams = {} /\ lost = {} /\ handles = 0
    BY <1>2 DEF OpenStreams, Init
  <2>2. IsFiniteSet({}) /\ Cardinality({}) = 0
    BY FS_EmptySet
  <2>3. IsFiniteSet(OpenStreams) /\ IsFiniteSet(lost)
    BY <2>1, <2>2
  <2>4. Cardinality(OpenStreams) = 0 /\ Cardinality(lost) = 0
    BY <2>1, <2>2
  <2>5. handles = Cardinality(OpenStreams) + Cardinality(lost)
    BY <2>1, <2>4
  <2>6. QED
    BY <2>3, <2>5 DEF Accounted, HandlesAccounted, OpenStreams
<1>6. CallsExact
  BY DEF Init, CallsExact, LineExact, EntireExact, Doing, Idle
<1>7. QED
  BY <1>3, <1>4, <1>5, <1>6 DEF IInv

\* What the host does on its streams and files between calls.
LEMMA HostStep ==
  ASSUME IInv, Idle, UNCHANGED call,
         \/ \E s \in Streams, p \in Paths, flags \in FlagSets : FileOpen(s, p, flags)
         \/ \E p \in Paths, flags \in FlagSets : FileOpenFails(p, flags)
         \/ \E s \in Streams : FileClose(s) \/ PosixFileFlush(s) \/ FileSize(s) \/ FileStoreFails(s)
         \/ \E s \in Streams, n \in 1 .. MaxSize : FileRead(s, n)
         \/ \E s \in Streams, data \in Texts :
              FileWrite(s, data) \/ FileWriteFails(s, data) \/ Printf(s, data)
         \/ \E s \in Streams, origin \in {"SET", "CUR", "END"}, offset \in Offsets :
              FileSeek(s, origin, offset)
         \/ \E p \in Paths : FsDelete(p) \/ FsMkdir(p) \/ FsRmdir(p)
         \/ \E p, q \in Paths : FsRename(p, q)
  PROVE  IInv'
<1> USE IInvParts
<1>1. ASSUME NEW s \in Streams, NEW p \in Paths, NEW flags \in FlagSets, FileOpen(s, p, flags)
      PROVE  Core'
  BY <1>1, OpensFacts DEF FileOpen
<1>2. ASSUME NEW p \in Paths, NEW flags \in FlagSets, FileOpenFails(p, flags)
      PROVE  Core'
  BY <1>2, OpenFailsFacts DEF FileOpenFails
<1>3. ASSUME NEW s \in Streams, FileClose(s)
      PROVE  Core'
  BY <1>3, ClosesFacts DEF FileClose
<1>4. ASSUME NEW s \in Streams, PosixFileFlush(s)
      PROVE  Core'
  <2>1. Core /\ Posix /\ IsOpen(s) /\ Store(s, stream[s]) /\ UNCHANGED <<io, handles, lost>>
    BY <1>4 DEF PosixFileFlush
  <2>2. stream[s] \in Handle /\ (stream[s].eof => stream[s].pos >= Len(View(s)))
    BY <2>1, ViewFacts
  <2>3. QED
    BY <2>1, <2>2, StoreFacts
<1>5. ASSUME NEW s \in Streams, FileSize(s)
      PROVE  Core'
  BY <1>5, SizesFacts DEF FileSize
<1>6. ASSUME NEW s \in Streams, NEW n \in 1 .. MaxSize, FileRead(s, n)
      PROVE  Core'
  <2>1. n \in Nat
    OBVIOUS
  <2>2. QED
    BY <1>6, <2>1, ReadsFacts DEF FileRead
<1>7. ASSUME NEW s \in Streams, NEW data \in Seq(Bytes), FileWrite(s, data)
      PROVE  Core'
  BY <1>7, WritesFacts DEF FileWrite
<1>8. ASSUME NEW s \in Streams, NEW data \in Texts, Printf(s, data)
      PROVE  Core'
  <2>1. PICK k : k = Min({Len(data), BufferSize - 1})
    OBVIOUS
  <2>2. Len(data) \in Nat /\ BufferSize - 1 \in Nat /\ data \in Seq(Bytes)
    OBVIOUS
  <2>3. k \in Nat /\ k <= Len(data)
    BY <2>1, <2>2, Min2
  <2>4. SubSeq(data, 1, k) \in Seq(Bytes)
    BY <2>2, <2>3
  <2>5. FileWrite(s, SubSeq(data, 1, k))
    BY <1>8, <2>1 DEF Printf
  <2>6. QED
    BY <1>7, <2>4, <2>5
<1>9. ASSUME NEW s \in Streams, NEW origin \in {"SET", "CUR", "END"}, NEW offset \in Offsets,
             FileSeek(s, origin, offset)
      PROVE  Core'
  <2>1. PICK n : n = SeekBase(s, origin) + offset
    OBVIOUS
  <2>2. IsOpen(s) /\ Seeks(s, n)
    BY <1>9, <2>1 DEF FileSeek
  <2>3. /\ n \in Nat
        /\ IF Posix THEN PosixFileSeek(s, n) ELSE WindowsFileSeek(s, n)
        /\ UNCHANGED <<io, handles, lost>>
    BY <2>2 DEF Seeks
  <2>4. QED
    BY <2>2, <2>3, SeeksFacts
<1>10. ASSUME NEW p \in Paths, FsDelete(p) \/ FsMkdir(p) \/ FsRmdir(p)
       PROVE  Core'
  BY <1>10, FsFacts
<1>11. ASSUME NEW p \in Paths, NEW q \in Paths, FsRename(p, q)
       PROVE  Core'
  BY <1>11, FsFacts
<1>12. Texts \subseteq Seq(Bytes)
  OBVIOUS
<1>16. ASSUME NEW s \in Streams, NEW data \in Texts, FileWriteFails(s, data)
       PROVE  Core'
  <2>1. IsOpen(s) /\ DiskFull(s, data) /\ data \in Seq(Bytes)
    BY <1>16 DEF FileWriteFails, PosixFileWriteFails
  <2>2. QED
    BY <2>1, DiskFullFacts
<1>17. ASSUME NEW s \in Streams, FileStoreFails(s)
       PROVE  Core'
  <2>1. PICK data \in Seq(Bytes) : data = <<>>
    BY NoBytes
  <2>2. IsOpen(s) /\ DiskFull(s, data)
    BY <1>17, <2>1 DEF FileStoreFails
  <2>3. QED
    BY <2>2, DiskFullFacts
<1>13. Core'
  BY <1>1, <1>2, <1>3, <1>4, <1>5, <1>6, <1>7, <1>8, <1>9, <1>10, <1>11, <1>12, <1>16, <1>17
<1>14. call' = NULL
  BY DEF Idle
<1>15. QED
  BY <1>13, <1>14, BetweenCalls

\* Every step keeps the invariant.
LEMMA NextIInv == IInv /\ [Next]_vars => IInv'
<1> SUFFICES ASSUME IInv, [Next]_vars PROVE IInv'
  OBVIOUS
<1>1. CASE UNCHANGED vars
  <2>1. UNCHANGED <<io, kind, content, stream, handles, lost, call>>
    BY <1>1 DEF vars, fileVars
  <2>2. Core'
    BY <2>1, IInvParts, CoreStutters
  <2>3. CallTyped' /\ CallOpen' /\ CallSound' /\ CallsExact'
    BY <2>1, IInvParts DEF CallTyped, CallOpen, CallSound, CallsExact, LineExact, EntireExact,
                           IsOpen, View, Posix, Idle, Doing
  <2>4. QED
    BY <2>2, <2>3 DEF IInv, Core, TypeOK, CallTyped
<1>2. ASSUME NEW s \in Streams, NEW size \in LineSizes, ReadLine(s, size) PROVE IInv'
  BY <1>2, ReadLineStep
<1>3. CASE LineByte
  BY <1>3, LineByteStep
<1>13. CASE LineByteFails
  BY <1>13, LineByteFailsStep
<1>4. CASE LineReturn
  <2>1. call' = NULL /\ UNCHANGED <<io, kind, content, stream, handles, lost>>
    BY <1>4 DEF LineReturn, fileVars
  <2>2. QED
    BY <2>1, IInvParts, CoreStutters, BetweenCalls
<1>5. ASSUME NEW s \in Streams, NEW p \in Paths, ReadEntireFile(s, p) PROVE IInv'
  BY <1>5, ReadEntireStep
<1>6. CASE EntireSize \/ EntireAlloc \/ EntireRead
  BY <1>6, EntireReadStep
<1>7. CASE EntireSizeFails \/ EntireAllocFails
  BY <1>7, EntireUndoneStep
<1>8. ASSUME NEW s \in Streams, NEW p \in Paths, NEW data \in Texts, WriteEntireFile(s, p, data)
      PROVE  IInv'
  BY <1>8, WriteEntireStep
<1>9. CASE EntireWrite \/ EntireWriteFails
  BY <1>9, EntireWriteStep
<1>10. CASE EntireClose
  BY <1>10, EntireCloseStep
<1>11. CASE
         \/ \E s \in Streams, p \in Paths, flags \in FlagSets : FileOpen(s, p, flags)
         \/ \E p \in Paths, flags \in FlagSets : FileOpenFails(p, flags)
         \/ \E s \in Streams : FileClose(s) \/ PosixFileFlush(s) \/ FileSize(s) \/ FileStoreFails(s)
         \/ \E s \in Streams, n \in 1 .. MaxSize : FileRead(s, n)
         \/ \E s \in Streams, data \in Texts :
              FileWrite(s, data) \/ FileWriteFails(s, data) \/ Printf(s, data)
         \/ \E s \in Streams, origin \in {"SET", "CUR", "END"}, offset \in Offsets :
              FileSeek(s, origin, offset)
         \/ \E p \in Paths : FsDelete(p) \/ FsMkdir(p) \/ FsRmdir(p)
         \/ \E p, q \in Paths : FsRename(p, q)
  <2>1. Idle /\ UNCHANGED call
    BY <1>11 DEF FileOpen, FileOpenFails, OpenFails, FileClose, PosixFileFlush, FileSize,
                 FileRead, FileWrite, FileWriteFails, FileStoreFails, Printf, FileSeek, FsDelete, FsMkdir, FsRmdir, FsRename,
                 Changes
  <2>2. QED
    BY <1>11, <2>1, HostStep
<1>12. QED
  BY <1>1, <1>2, <1>3, <1>4, <1>5, <1>6, <1>7, <1>8, <1>9, <1>10, <1>11,
     <1>13
  DEF Next, CallStep

\* The inductive invariant holds in every state of every build.
THEOREM IInvHolds == Spec => []IInv
  BY InitIInv, NextIInv, PTL DEF Spec

\* The types of the files, the handles and the call in progress.
THEOREM TypesHold == Spec => []TypeOK
<1>1. IInv => TypeOK
  BY DEF IInv
<1>2. QED
  BY <1>1, IInvHolds, PTL

\* The files the process holds are those that have a stream and those an error left
\* open: no return of any call, early or late, forgets to close.
THEOREM HandlesAreAccounted == Spec => []HandlesAccounted
<1>1. IInv => HandlesAccounted
  BY DEF IInv, Accounted
<1>2. QED
  BY <1>1, IInvHolds, PTL

\* Lines, files read whole and files written whole are what the handlers delivered.
THEOREM CallsAreExact == Spec => []CallsExact
<1>1. IInv => CallsExact
  BY DEF IInv
<1>2. QED
  BY <1>1, IInvHolds, PTL

\* A stream that says it is at its end has no byte left to read, in either build.
THEOREM EofIsTheEnd == Spec => []EofMeansEnd
<1>1. IInv => EofMeansEnd
  BY IInvParts, ViewFacts DEF EofMeansEnd, FileEof, PosixFileEof, WindowsFileEof, FileTell
<1>2. QED
  BY <1>1, IInvHolds, PTL

-------------------------------------------------------------------------------
(* The refinement of Files.                                                   *)

\* What Files tells of a stream and a file: each open file is a file, and appends by
\* the flags it was opened with; and nothing is larger than the model lets it be.
Told ==
  /\ \A s \in Streams : IsOpen(s) =>
       /\ kind[stream[s].path] = "file"
       /\ stream[s].append <=> (Posix /\ "APPEND" \in stream[s].flags)
       /\ stream[s].pos <= MaxSize /\ Len(View(s)) <= MaxSize
  /\ \A p \in lost : kind[p] = "file"
  /\ \A p \in Paths : Len(content[p]) <= MaxSize

\* A file that is written whole is given one of the texts of the host.
CallTold == Doing("write") /\ call.step = "data" => call.data \in Texts

RefInv == IInv /\ Told /\ CallTold

\* Text, path by path.
TextSound ==
  /\ Text = [p \in Paths |-> Text[p]]
  /\ \A p \in Paths : kind[p] # "file" => Text[p] = NULL
  /\ \A p \in Paths :
       kind[p] = "file" /\ (\A s \in Streams : IsOpen(s) => stream[s].path # p)
         => Text[p] = content[p]
  /\ \A s \in Streams : IsOpen(s) => Text[stream[s].path] = View(s)

\* A file that is open has the text its one stream sees, any other what is on the disk.
LEMMA TextFacts == Core /\ Told => TextSound
<1> SUFFICES ASSUME Core, Told PROVE TextSound
  OBVIOUS
<1>1. \A p \in Paths : kind[p] # "file" => Text[p] = NULL
  BY DEF Text, FsIsFile
<1>2. ASSUME NEW p \in Paths, kind[p] = "file",
             \A s \in Streams : IsOpen(s) => stream[s].path # p
      PROVE  Text[p] = content[p]
  BY <1>2 DEF Text, FsIsFile, Unused
<1>3. ASSUME NEW s \in Streams, IsOpen(s) PROVE Text[stream[s].path] = View(s)
  <2> DEFINE p == stream[s].path
             q == CHOOSE t \in Streams : IsOpen(t) /\ stream[t].path = p
  <2>1. p \in Paths /\ kind[p] = "file" /\ p \notin lost
    BY <1>3, ViewFacts DEF Told, Core, Apart
  <2>2. q \in Streams /\ IsOpen(q) /\ stream[q].path = p
    BY <1>3
  <2>3. q = s
    BY <1>3, <2>2 DEF Core, Apart
  <2>4. ~Unused(p)
    BY <1>3 DEF Unused
  <2>5. Text[p] = View(q)
    BY <2>1, <2>4 DEF Text, FsIsFile
  <2>6. QED
    BY <2>3, <2>5
<1>4. Text = [p \in Paths |-> Text[p]]
  BY DEF Text
<1>5. QED
  BY <1>1, <1>2, <1>3, <1>4 DEF TextSound

\* The same in the next state.
LEMMA TextFactsNext ==
  ASSUME Core', Told'
  PROVE  TextSound'
<1>1. Core /\ Told => TextSound
  BY TextFacts
<1>2. (Core /\ Told => TextSound)'
  BY TextFacts, PTL
<1>3. QED
  BY <1>2

\* Stream s and its file alone change, and the stream stays open.
Turns(s) ==
  /\ UNCHANGED <<io, kind, lost>>
  /\ stream' \in [Streams -> Handle \cup {NULL}] /\ content' \in [Paths -> Seq(Bytes)]
  /\ \A t \in Streams : t # s => stream'[t] = stream[t]
  /\ \A q \in Paths : q # stream[s].path => content'[q] = content[q]
  /\ IsOpen(s)' /\ stream'[s].path = stream[s].path
  /\ stream'[s].flags = stream[s].flags /\ stream'[s].append = stream[s].append

\* What Files sees of a stream that turns: its file's text, what is stored of it, and
\* the position.
Seen(s, n, v, c) ==
  /\ Text' = [Text EXCEPT ![stream[s].path] = v]
  /\ Stored' = [Stored EXCEPT ![stream[s].path] = c]
  /\ Places' = [Places EXCEPT ![s].pos = n]

LEMMA TurnsFacts ==
  ASSUME Core, Core', Told, NEW s \in Streams, IsOpen(s), Turns(s),
         stream'[s].pos <= MaxSize, Len(View(s)') <= MaxSize,
         Len(content'[stream[s].path]) <= MaxSize
  PROVE  /\ Told'
         /\ Seen(s, stream'[s].pos, View(s)', content'[stream[s].path])
<1> DEFINE p == stream[s].path
<1>1. p \in Paths /\ kind[p] = "file" /\ p \notin lost
  BY ViewFacts DEF Told, Core, Apart
<1>2. \A t \in Streams : t # s =>
        /\ IsOpen(t)' <=> IsOpen(t)
        /\ IsOpen(t) => /\ stream'[t] = stream[t] /\ stream[t].path \in Paths
                        /\ stream[t].path # p /\ View(t)' = View(t)
  <2>1. ASSUME NEW t \in Streams, t # s PROVE IsOpen(t)' <=> IsOpen(t)
    BY <2>1 DEF Turns, IsOpen
  <2>2. ASSUME NEW t \in Streams, t # s, IsOpen(t)
        PROVE  /\ stream'[t] = stream[t] /\ stream[t].path \in Paths
               /\ stream[t].path # p
    BY <2>2, ViewFacts DEF Turns, Core, Apart
  <2>3. ASSUME NEW t \in Streams, t # s, IsOpen(t) PROVE View(t)' = View(t)
    BY <2>2, <2>3 DEF View, Turns
  <2>4. QED
    BY <2>1, <2>2, <2>3
<1>3. \A t \in Streams : IsOpen(t)' <=> IsOpen(t)
  BY <1>2 DEF Turns
<1>4. kind' = kind /\ lost' = lost /\ (Posix' <=> Posix)
  BY DEF Turns, Posix
<1>5. Told'
  <2>1. ASSUME NEW t \in Streams, IsOpen(t)'
        PROVE  /\ kind'[stream'[t].path] = "file"
               /\ stream'[t].append <=> (Posix' /\ "APPEND" \in stream'[t].flags)
               /\ stream'[t].pos <= MaxSize /\ Len(View(t)') <= MaxSize
    <3>1. CASE t = s
      BY <3>1, <1>1, <1>4 DEF Told, Turns
    <3>2. CASE t # s
      <4>1. IsOpen(t) /\ stream'[t] = stream[t] /\ View(t)' = View(t)
        BY <2>1, <3>2, <1>2
      <4>2. QED
        BY <4>1, <1>4 DEF Told
    <3>3. QED
      BY <3>1, <3>2
  <2>2. ASSUME NEW q \in Paths PROVE Len(content'[q]) <= MaxSize
    <3>1. CASE q = p
      BY <3>1
    <3>2. CASE q # p
      BY <3>2 DEF Told, Turns
    <3>3. QED
      BY <3>1, <3>2
  <2>3. \A q \in lost' : kind'[q] = "file"
    BY <1>4 DEF Told
  <2>4. QED
    BY <2>1, <2>2, <2>3 DEF Told
<1>6. TextSound /\ TextSound'
  BY <1>5, TextFacts, TextFactsNext
<1>7. \A q \in Paths : Text'[q] = IF q = p THEN View(s)' ELSE Text[q]
  <2>1. Text'[p] = View(s)'
    BY <1>6 DEF TextSound, Turns
  <2>2. ASSUME NEW q \in Paths, q # p PROVE Text'[q] = Text[q]
    <3>1. CASE kind[q] # "file"
      BY <3>1, <1>4, <1>6 DEF TextSound
    <3>2. CASE kind[q] = "file" /\ \A t \in Streams : IsOpen(t) => stream[t].path # q
      <4>1. \A t \in Streams : IsOpen(t)' => stream'[t].path # q
        BY <2>2, <3>2, <1>2, <1>3 DEF Turns
      <4>2. Text'[q] = content'[q] /\ Text[q] = content[q]
        BY <3>2, <4>1, <1>4, <1>6 DEF TextSound
      <4>3. QED
        BY <2>2, <4>2 DEF Turns
    <3>3. ASSUME NEW t \in Streams, IsOpen(t), stream[t].path = q PROVE Text'[q] = Text[q]
      <4>1. t # s /\ IsOpen(t)' /\ stream'[t] = stream[t] /\ View(t)' = View(t)
        BY <2>2, <3>3, <1>2
      <4>2. Text'[stream'[t].path] = View(t)' /\ Text[stream[t].path] = View(t)
        BY <3>3, <4>1, <1>6 DEF TextSound
      <4>3. QED
        BY <3>3, <4>1, <4>2
    <3>4. QED
      BY <3>1, <3>2, <3>3
  <2>3. QED
    BY <2>1, <2>2
<1>8. Text' = [Text EXCEPT ![p] = View(s)']
  <2>1. Text = [q \in Paths |-> Text[q]] /\ Text' = [q \in Paths |-> Text'[q]]
    BY <1>6 DEF TextSound
  <2>2. QED
    BY <1>7, <2>1
<1>9. Stored' = [Stored EXCEPT ![p] = content'[p]]
  BY <1>1, <1>4 DEF Stored, FsIsFile, Turns
<1>10. Places' = [Places EXCEPT ![s].pos = stream'[s].pos]
  <2>1. \A t \in Streams : t # s => Position(t)' = Position(t)
    BY <1>2, <1>4 DEF Position
  <2>2. Position(s)' = [Position(s) EXCEPT !.pos = stream'[s].pos]
    BY <1>3, <1>4 DEF Position, Turns
  <2>3. QED
    BY <2>1, <2>2 DEF Places
<1>11. QED
  BY <1>5, <1>8, <1>9, <1>10 DEF Seen

\* The handle of a stream that turns, and the bytes its file is left with.
LEMMA TurnsIf ==
  ASSUME Core, NEW s \in Streams, IsOpen(s),
         NEW f \in Handle, f.path = stream[s].path, f.flags = stream[s].flags,
         f.append = stream[s].append, NEW c \in Seq(Bytes), Moves(s, f, c)
  PROVE  Turns(s) /\ stream'[s] = f /\ content'[stream[s].path] = c
<1>1. stream[s].path \in Paths
  BY ViewFacts
<1>2. stream'[s] = f /\ \A t \in Streams : t # s => stream'[t] = stream[t]
  BY DEF Moves, Core
<1>3. content'[stream[s].path] = c /\ \A q \in Paths : q # stream[s].path => content'[q] = content[q]
  BY <1>1 DEF Moves, Core
<1>4. stream' \in [Streams -> Handle \cup {NULL}] /\ content' \in [Paths -> Seq(Bytes)]
  BY DEF Moves, Core
<1>5. f # NULL
  OBVIOUS
<1>6. QED
  BY <1>2, <1>3, <1>4, <1>5 DEF Turns, IsOpen, Moves

\* The same of a stream that stores what it holds.
LEMMA StoreTurns ==
  ASSUME Core, NEW s \in Streams, IsOpen(s),
         NEW f \in Handle, f.path = stream[s].path, f.flags = stream[s].flags,
         f.append = stream[s].append, Store(s, f), UNCHANGED <<io, handles, lost>>
  PROVE  Turns(s) /\ content'[stream[s].path] = View(s)
<1> DEFINE g == [f EXCEPT !.unwritten = <<>>]
<1>1. <<>> \in Seq(Bytes)
  OBVIOUS
<1>2. /\ g \in Handle /\ g.path = f.path /\ g.flags = f.flags /\ g.append = f.append
  BY <1>1 DEF Handle
<1>3. Moves(s, g, View(s))
  BY <1>2 DEF Store, Moves
<1> HIDE DEF g
<1>4. View(s) \in Seq(Bytes)
  BY ViewFacts
<1>5. QED
  BY <1>2, <1>3, <1>4, TurnsIf

\* A stream that turns with its text and what is stored of it as a read, a seek or a
\* flush leaves them.
Stays(s) ==
  /\ Turns(s) /\ View(s)' = View(s)
  /\ content'[stream[s].path] \in {content[stream[s].path], View(s)}

\* The place of an open stream.
LEMMA PlaceFacts ==
  ASSUME Core, NEW s \in Streams, IsOpen(s)
  PROVE  /\ Places[s] # NULL /\ Places[s] \in Place
         /\ Places[s].path = stream[s].path /\ Places[s].pos = stream[s].pos
         /\ Places[s].appends <=> (Posix /\ "APPEND" \in stream[s].flags)
<1>1. stream[s].path \in Paths /\ stream[s].pos \in Nat
  BY ViewFacts
<1>2. Places[s] = [path |-> stream[s].path, pos |-> stream[s].pos,
                   appends |-> Posix /\ "APPEND" \in stream[s].flags]
  BY DEF Places, Position
<1>3. Places[s] \in Place
  <2>1. (Posix /\ "APPEND" \in stream[s].flags) \in BOOLEAN
    OBVIOUS
  <2>2. QED
    BY <1>1, <1>2, <2>1 DEF Place
<1>4. Places[s] # NULL
  BY <1>3
<1>5. /\ Places[s].path = stream[s].path /\ Places[s].pos = stream[s].pos
      /\ Places[s].appends = (Posix /\ "APPEND" \in stream[s].flags)
  BY ONLY <1>2
<1>6. QED
  BY ONLY <1>3, <1>4, <1>5

\* It is a move of Files.
LEMMA StaysMoves ==
  ASSUME Core, Core', Told, NEW s \in Streams, IsOpen(s), Stays(s), stream'[s].pos <= MaxSize
  PROVE  Told' /\ Abstract!Next
<1> DEFINE p == stream[s].path
           n == stream'[s].pos
<1>1. Len(View(s)') <= MaxSize
  BY DEF Stays, Told
<1>2. p \in Paths
  BY ViewFacts
<1>3. Len(content'[p]) <= MaxSize
  <2>1. Len(content[p]) <= MaxSize
    BY <1>2 DEF Told
  <2>2. QED
    BY <1>1, <2>1 DEF Stays
<1>4. Told' /\ Seen(s, n, View(s)', content'[p])
  BY <1>1, <1>3, TurnsFacts DEF Stays
<1>5. Text[p] = View(s)
  BY TextFacts DEF TextSound
<1>6. Text' = Text
  <2>1. Text' = [Text EXCEPT ![p] = Text[p]]
    BY <1>4, <1>5 DEF Seen, Stays
  <2>2. Text = [q \in Paths |-> Text[q]]
    BY TextFacts DEF TextSound
  <2>3. QED
    BY <2>1, <2>2
<1>7. Stored' \in {Stored, [Stored EXCEPT ![p] = Text'[p]]}
  <2>1. kind[p] = "file"
    BY DEF Told
  <2>2. Stored[p] = content[p]
    BY <1>2, <2>1 DEF Stored, FsIsFile
  <2>3. Stored' = [Stored EXCEPT ![p] = content'[p]]
    BY <1>4 DEF Seen
  <2>4. CASE content'[p] = content[p]
    <3>1. Stored' = Stored
      BY <2>2, <2>3, <2>4 DEF Stored
    <3>2. QED
      BY <3>1
  <2>5. CASE content'[p] = View(s)
    BY <2>3, <2>5, <1>5, <1>6
  <2>6. QED
    BY <2>4, <2>5 DEF Stays
<1>8. n \in 0 .. MaxSize
  <2>1. stream'[s] \in Handle
    BY DEF Stays, Turns, IsOpen
  <2>2. n \in Nat
    BY <2>1 DEF Handle
  <2>3. QED
    BY <2>2
<1>9. Places' = [Places EXCEPT ![s].pos = n]
  BY <1>4 DEF Seen
<1>10. Places[s] # NULL /\ Places[s].path = p
  BY PlaceFacts
<1> HIDE DEF n
<1>11. Abstract!Move(s, n)
  BY <1>6, <1>7, <1>9, <1>10 DEF Abstract!Move, Abstract!MayStore
<1>12. QED
  BY <1>4, <1>8, <1>11 DEF Abstract!Next

\* A read.
LEMMA ReadsStays ==
  ASSUME Core, Told, NEW s \in Streams, IsOpen(s), NEW n \in Nat, Reads(s, n)
  PROVE  Stays(s) /\ stream'[s].pos <= MaxSize
<1> DEFINE f == stream[s]
           got == Len(Got(s, n))
           pos == f.pos + got
           eof == f.eof \/ got < n
           g == [f EXCEPT !.pos = pos, !.eof = eof]
           h == [f EXCEPT !.pos = pos]
<1>1. /\ f \in Handle /\ f.pos \in Nat /\ f.eof \in BOOLEAN /\ f.path \in Paths
      /\ content[f.path] \in Seq(Bytes) /\ View(s) \in Seq(Bytes)
  BY ViewFacts
<1>2. /\ got \in Nat
      /\ got = IF f.pos >= Len(View(s)) THEN 0
               ELSE IF f.pos + n <= Len(View(s)) THEN n ELSE Len(View(s)) - f.pos
  BY GotFacts
<1>3. View(s)' = View(s) /\ stream'[s].pos = pos
  BY ReadsFacts
<1>4. f.pos <= MaxSize /\ Len(View(s)) <= MaxSize
  BY DEF Told
<1>5. pos <= MaxSize /\ pos \in Nat
  <2> HIDE DEF got, f
  <2>1. Len(View(s)) \in Nat
    BY <1>1
  <2>2. QED
    BY <1>1, <1>2, <1>4, <2>1
<1>6. CASE Posix
  <2>1. Store(s, g) /\ UNCHANGED <<io, handles, lost>>
    BY <1>6 DEF Reads, PosixFileRead
  <2>2. eof \in BOOLEAN
    BY <1>1, <1>2
  <2> HIDE DEF f, pos, eof
  <2>3. g \in Handle /\ g.path = f.path /\ g.flags = f.flags /\ g.append = f.append
    BY <1>1, <1>5, <2>2 DEF Handle
  <2> HIDE DEF g
  <2> USE DEF f
  <2>4. Turns(s) /\ content'[stream[s].path] = View(s)
    BY <2>1, <2>3, StoreTurns
  <2>5. QED
    BY <1>3, <1>5, <2>4 DEF Stays
<1>7. CASE ~Posix
  <2>1. /\ stream' = [stream EXCEPT ![s] = h]
        /\ content' = content /\ kind' = kind /\ UNCHANGED <<io, handles, lost>>
    BY <1>7 DEF Reads, WindowsFileRead, fileVars
  <2> HIDE DEF f, pos
  <2>2. h \in Handle /\ h.path = f.path /\ h.flags = f.flags /\ h.append = f.append
    BY <1>1, <1>5 DEF Handle
  <2> HIDE DEF h
  <2>3. Moves(s, h, content[f.path])
    BY <2>1, <2>2, <1>1 DEF Core, Moves
  <2> USE DEF f
  <2>4. Turns(s) /\ content'[stream[s].path] = content[stream[s].path]
    BY <1>1, <2>2, <2>3, TurnsIf
  <2>5. QED
    BY <1>3, <1>5, <2>4 DEF Stays
<1>8. QED
  BY <1>6, <1>7

\* A seek.
LEMMA SeeksStays ==
  ASSUME Core, NEW s \in Streams, IsOpen(s), NEW n \in Nat, n <= MaxSize,
         IF Posix THEN PosixFileSeek(s, n) ELSE WindowsFileSeek(s, n),
         UNCHANGED <<io, handles, lost>>
  PROVE  Stays(s) /\ stream'[s].pos <= MaxSize
<1> DEFINE f == stream[s]
           g == [f EXCEPT !.pos = n, !.eof = FALSE]
           h == [f EXCEPT !.pos = n]
<1>1. f \in Handle /\ f.path \in Paths /\ content[f.path] \in Seq(Bytes)
  BY ViewFacts
<1>2. View(s)' = View(s) /\ stream'[s].pos = n
  BY SeeksFacts
<1>3. CASE Posix
  <2>1. Store(s, g)
    BY <1>3 DEF PosixFileSeek
  <2> HIDE DEF f
  <2>2. g \in Handle /\ g.path = f.path /\ g.flags = f.flags /\ g.append = f.append
    BY <1>1 DEF Handle
  <2> HIDE DEF g
  <2> USE DEF f
  <2>3. Turns(s) /\ content'[stream[s].path] = View(s)
    BY <2>1, <2>2, StoreTurns
  <2>4. QED
    BY <1>2, <2>3 DEF Stays
<1>4. CASE ~Posix
  <2>1. /\ stream' = [stream EXCEPT ![s] = h]
        /\ content' = content /\ kind' = kind
    BY <1>4 DEF WindowsFileSeek, fileVars
  <2> HIDE DEF f
  <2>2. h \in Handle /\ h.path = f.path /\ h.flags = f.flags /\ h.append = f.append
    BY <1>1 DEF Handle
  <2> HIDE DEF h
  <2>3. Moves(s, h, content[f.path])
    BY <2>1, <2>2, <1>1 DEF Core, Moves
  <2> USE DEF f
  <2>4. Turns(s) /\ content'[stream[s].path] = content[stream[s].path]
    BY <1>1, <2>2, <2>3, TurnsIf
  <2>5. QED
    BY <1>2, <2>4 DEF Stays
<1>5. QED
  BY <1>3, <1>4

\* Asking for the size.
LEMMA SizesStays ==
  ASSUME Core, Told, NEW s \in Streams, IsOpen(s), Sizes(s)
  PROVE  Stays(s) /\ stream'[s].pos <= MaxSize
<1>1. /\ stream[s].pos \in Nat /\ stream[s].path \in Paths /\ stream[s].pos <= MaxSize
      /\ stream[s] \in Handle /\ content[stream[s].path] \in Seq(Bytes)
  BY ViewFacts DEF Told
<1>2. CASE Posix
  <2>1. PosixFileSeek(s, stream[s].pos) /\ UNCHANGED <<io, handles, lost>>
    BY <1>2 DEF Sizes, PosixFileSize, FileTell
  <2>2. IF Posix THEN PosixFileSeek(s, stream[s].pos) ELSE WindowsFileSeek(s, stream[s].pos)
    BY <1>2, <2>1
  <2>3. QED
    BY <1>1, <2>1, <2>2, SeeksStays
<1>3. CASE ~Posix
  <2>1. UNCHANGED <<io, kind, content, stream, handles, lost>>
    BY <1>3 DEF Sizes, fileVars
  <2>2. View(s)' = View(s)
    BY <2>1 DEF View
  <2>3. Turns(s)
    BY <2>1 DEF Turns, Core, IsOpen
  <2>4. QED
    BY <1>1, <2>1, <2>2, <2>3 DEF Stays
<1>4. QED
  BY <1>2, <1>3

\* A flush.
LEMMA FlushStays ==
  ASSUME Core, Told, NEW s \in Streams, PosixFileFlush(s)
  PROVE  Core' /\ IsOpen(s) /\ Stays(s) /\ stream'[s].pos <= MaxSize
<1>1. Posix /\ IsOpen(s) /\ Store(s, stream[s]) /\ UNCHANGED <<io, handles, lost>>
  BY DEF PosixFileFlush
<1>2. stream[s] \in Handle /\ (stream[s].eof => stream[s].pos >= Len(View(s)))
  BY <1>1, ViewFacts
<1>3. Core' /\ stream'[s].pos = stream[s].pos /\ View(s)' = View(s)
  BY <1>1, <1>2, StoreFacts
<1>4. Turns(s) /\ content'[stream[s].path] = View(s)
  BY <1>1, <1>2, StoreTurns
<1>5. QED
  BY <1>1, <1>3, <1>4 DEF Stays, Told

\* A text with data over or behind it.
IsLaid(t, old, n, data) ==
  /\ t \in Seq(Bytes)
  /\ Len(t) = IF Len(old) >= n + Len(data) THEN Len(old) ELSE n + Len(data)
  /\ \A i \in 1 .. Len(t) :
       t[i] = IF i \in n + 1 .. n + Len(data) THEN data[i - n]
              ELSE IF i <= Len(old) THEN old[i] ELSE Gap

LEMMA OverlayLays ==
  ASSUME NEW old \in Seq(Bytes), NEW n \in Nat, NEW data \in Seq(Bytes)
  PROVE  data # <<>> => IsLaid(Overlay(old, n, data), old, n, data)
<1> DEFINE t == Overlay(old, n, data)
<1>1. /\ t \in Seq(Bytes)
      /\ data # <<>> =>
           /\ Len(t) = IF Len(old) >= n + Len(data) THEN Len(old) ELSE n + Len(data)
           /\ \A i \in 1 .. Len(t) :
                t[i] = IF i \in n + 1 .. n + Len(data) THEN data[i - n]
                       ELSE IF i <= Len(old) THEN old[i] ELSE Gap
  BY OverlayFacts
<1> HIDE DEF t
<1>2. data # <<>> => IsLaid(t, old, n, data)
  BY <1>1 DEF IsLaid
<1>3. QED
  BY <1>2 DEF t

\* Texts of the same length and the same bytes are the same.
LEMMA SameTexts ==
  ASSUME NEW x \in Seq(Bytes), NEW y \in Seq(Bytes), Len(x) = Len(y),
         \A i \in 1 .. Len(x) : x[i] = y[i]
  PROVE  x = y
  OBVIOUS

\* Data laid behind what is already held back, or laid over the text they make.
LEMMA OverlayTwice ==
  ASSUME NEW c \in Seq(Bytes), NEW m \in Nat, NEW u \in Seq(Bytes), NEW data \in Seq(Bytes)
  PROVE  Overlay(c, m, u \o data) = Overlay(Overlay(c, m, u), m + Len(u), data)
<1> DEFINE v == Overlay(c, m, u)
           held == u \o data
           w == Overlay(c, m, held)
           n == m + Len(u)
           x == Overlay(v, n, data)
<1>1. /\ held \in Seq(Bytes) /\ Len(held) = Len(u) + Len(data)
      /\ Len(u) \in Nat /\ Len(data) \in Nat /\ Len(c) \in Nat
      /\ data = <<>> <=> Len(data) = 0
      /\ u = <<>> <=> Len(u) = 0
      /\ held = <<>> <=> Len(held) = 0
  BY HeldFacts
<1>2. n \in Nat /\ v \in Seq(Bytes)
  BY <1>1, OverlayFacts
<1>3. Len(v) \in Nat
  BY <1>2
<1>4. CASE data = <<>>
  <2>1. held = u
    BY <1>4, HeldFacts
  <2>2. x = v
    BY <1>4 DEF Overlay
  <2>3. QED
    BY <2>1, <2>2
<1>5. CASE u = <<>>
  <2>1. held = data /\ v = c /\ n = m
    BY <1>1, <1>5, HeldFacts DEF Overlay
  <2>2. QED
    BY <2>1
<1>6. CASE data # <<>> /\ u # <<>>
  <2>1. \A i \in 1 .. Len(u) : held[i] = u[i]
    OBVIOUS
  <2>2. \A i \in 1 .. Len(data) : held[Len(u) + i] = data[i]
    OBVIOUS
  <2> HIDE DEF held, n
  <2>3. held # <<>> /\ n = m + Len(u)
    BY <1>1, <1>6 DEF n
  <2>4. IsLaid(w, c, m, held)
    BY <1>1, <2>3, OverlayLays
  <2>5. IsLaid(v, c, m, u) /\ IsLaid(x, v, n, data)
    <3>1. IsLaid(v, c, m, u)
      BY <1>6, OverlayLays
    <3> HIDE DEF v
    <3>2. QED
      BY <1>2, <1>6, <3>1, OverlayLays
  <2> HIDE DEF w, x, v
  <2>6. Len(x) = Len(w) /\ Len(w) \in Nat
    <3>1. /\ Len(w) = IF Len(c) >= m + Len(held) THEN Len(c) ELSE m + Len(held)
          /\ Len(v) = IF Len(c) >= m + Len(u) THEN Len(c) ELSE m + Len(u)
          /\ Len(x) = IF Len(v) >= n + Len(data) THEN Len(v) ELSE n + Len(data)
      BY <2>4, <2>5 DEF IsLaid
    <3>2. m \in Nat
      OBVIOUS
    <3>3. QED
      BY ONLY <3>1, <3>2, <1>1, <1>2, <1>3, <2>3
  <2>7. ASSUME NEW i \in 1 .. Len(w) PROVE w[i] = x[i]
    <3>1. CASE i \in m + 1 .. n
      <4>1. i - m \in 1 .. Len(u) /\ i \in m + 1 .. m + Len(held)
        BY <1>1, <2>3, <3>1
      <4>2. w[i] = held[i - m]
        BY <2>4, <4>1 DEF IsLaid
      <4>3. i \in 1 .. Len(v) /\ i \in m + 1 .. m + Len(u)
        BY <1>1, <1>3, <2>3, <2>5, <3>1 DEF IsLaid
      <4>4. v[i] = u[i - m]
        BY <2>5, <4>3 DEF IsLaid
      <4>5. i \in 1 .. Len(x) /\ i \notin n + 1 .. n + Len(data) /\ i <= Len(v)
        BY <1>1, <1>2, <2>6, <3>1, <4>3
      <4>6. x[i] = v[i]
        BY <2>5, <4>5 DEF IsLaid
      <4>7. QED
        BY <2>1, <4>1, <4>2, <4>4, <4>6
    <3>2. CASE i \in n + 1 .. n + Len(data)
      <4>1. i - n \in 1 .. Len(data) /\ Len(u) + (i - n) = i - m
        BY <1>1, <1>2, <2>3, <3>2
      <4>2. held[i - m] = data[i - n]
        BY <2>2, <4>1
      <4>3. i \in m + 1 .. m + Len(held)
        BY <1>1, <2>3, <3>2
      <4>4. w[i] = held[i - m]
        BY <2>4, <4>3 DEF IsLaid
      <4>5. i \in 1 .. Len(x)
        BY <2>6
      <4>6. x[i] = data[i - n]
        BY <2>5, <4>5, <3>2 DEF IsLaid
      <4>7. QED
        BY <4>2, <4>4, <4>6
    <3>3. CASE i \notin m + 1 .. n + Len(data)
      <4>1. i \notin m + 1 .. m + Len(held)
        BY <1>1, <2>3, <3>3
      <4>2. w[i] = IF i <= Len(c) THEN c[i] ELSE Gap
        BY <2>4, <4>1 DEF IsLaid
      <4>3. i \in 1 .. Len(x) /\ i \notin n + 1 .. n + Len(data)
        BY <1>1, <2>3, <2>6, <3>3
      <4>4. x[i] = IF i <= Len(v) THEN v[i] ELSE Gap
        BY <2>5, <4>3 DEF IsLaid
      <4>5. ASSUME i <= Len(v) PROVE v[i] = IF i <= Len(c) THEN c[i] ELSE Gap
        <5>1. i \in 1 .. Len(v) /\ i \notin m + 1 .. m + Len(u)
          BY <1>1, <1>3, <2>3, <3>3, <4>5
        <5>2. QED
          BY <2>5, <5>1 DEF IsLaid
      <4>6. i <= Len(c) => i <= Len(v)
        BY <1>1, <1>2, <1>3, <2>3, <2>5 DEF IsLaid
      <4>7. QED
        BY <4>2, <4>4, <4>5, <4>6
    <3>4. QED
      BY <1>1, <1>2, <2>3, <3>1, <3>2, <3>3
  <2>8. x \in Seq(Bytes) /\ w \in Seq(Bytes) /\ \A i \in 1 .. Len(x) : x[i] = w[i]
    BY <2>4, <2>5, <2>6, <2>7 DEF IsLaid
  <2>9. x = w
    BY <2>6, <2>8, SameTexts
  <2>10. QED
    BY <2>9 DEF w, x, v, n, held
<1>7. QED
  BY <1>4, <1>5, <1>6

\* A write lays its bytes over what the stream sees, or behind it; they are on the disk,
\* or nothing of it is.
LEMMA WritesTurns ==
  ASSUME Core, Core', Told, NEW s \in Streams, IsOpen(s), NEW data \in Seq(Bytes),
         Writes(s, data)
  PROVE  /\ Turns(s)
         /\ WritesAt(s) \in Nat /\ WritesAt(s) + Len(data) <= MaxSize
         /\ stream'[s].pos = WritesAt(s) + Len(data)
         /\ View(s)' = Overlay(View(s), WritesAt(s), data)
         /\ content'[stream[s].path] \in {content[stream[s].path], View(s)'}
<1> DEFINE f == stream[s]
           c == content[f.path]
           u == f.unwritten
           v == View(s)
           n == WritesAt(s)
           pos == n + Len(data)
<1>1. /\ f \in Handle /\ f.path \in Paths /\ f.pos \in Nat /\ u \in Seq(Bytes)
      /\ f.append \in BOOLEAN
      /\ c \in Seq(Bytes) /\ v \in Seq(Bytes)
      /\ v = Overlay(c, f.pos - Len(u), u)
      /\ u = <<>> => v = c
      /\ Len(c) <= Len(v)
  BY ViewFacts
<1>2. /\ Len(u) <= f.pos
      /\ ~Posix => u = <<>>
      /\ f.append /\ u # <<>> => f.pos = Len(v)
      /\ ~Posix => ~f.append
  BY DEF Core, HeldSound, Told
<1>3. /\ Len(u) \in Nat /\ Len(c) \in Nat /\ Len(v) \in Nat /\ Len(data) \in Nat
      /\ u = <<>> <=> Len(u) = 0
  BY <1>1
<1>4. n = IF f.append THEN Len(v) ELSE f.pos
  BY DEF WritesAt
<1> HIDE DEF n
<1>5. n \in Nat /\ pos \in Nat /\ Len(u) <= n
  <2> HIDE DEF f, u, v, c
  <2>1. QED
    BY <1>1, <1>2, <1>3, <1>4
<1>6. CASE Posix
  <2> DEFINE held == u \o data
             g == [f EXCEPT !.pos = pos, !.unwritten = held]
             m == n - Len(u)
  <2>1. /\ stream' = [stream EXCEPT ![s] = g]
        /\ content' = content /\ kind' = kind /\ UNCHANGED <<io, handles, lost>>
        /\ pos <= MaxSize
    BY <1>6 DEF Writes, PosixFileWrite, fileVars, n
  <2>2. held \in Seq(Bytes) /\ Len(held) = Len(u) + Len(data)
    BY <1>1, HeldFacts
  <2>3. m \in Nat /\ m + Len(u) = n
    BY <1>3, <1>5
  <2>4. Overlay(c, m, u) = v
    <3>1. CASE u = <<>>
      BY <3>1, <1>1 DEF Overlay
    <3>2. CASE u # <<>>
      <4>1. n = f.pos
        BY <3>2, <1>2, <1>4
      <4>2. QED
        BY <4>1, <1>1
    <3>3. QED
      BY <3>1, <3>2
  <2> HIDE DEF m, f, u, v, c, held
  <2>5. Overlay(c, m, held) = Overlay(v, n, data)
    <3>1. Overlay(c, m, u \o data) = Overlay(Overlay(c, m, u), m + Len(u), data)
      BY <1>1, <2>3, OverlayTwice
    <3>2. QED
      BY ONLY <3>1, <2>3, <2>4 DEF held
  <2> HIDE DEF pos
  <2>6. /\ g \in Handle /\ g.path = f.path /\ g.pos = pos /\ g.flags = f.flags
        /\ g.append = f.append /\ g.unwritten = held
    BY <1>1, <1>5, <2>2 DEF Handle
  <2> HIDE DEF g
  <2>7. Moves(s, g, c)
    BY <1>1, <2>1, <2>6 DEF Core, Moves, c
  <2>8. Turns(s) /\ stream'[s] = g /\ content'[stream[s].path] = c
    BY <1>1, <2>6, <2>7, TurnsIf DEF f
  <2>9. pos - Len(held) = m
    BY <1>3, <1>5, <2>2 DEF pos, m
  <2>10. View(s)' = Overlay(c, pos - Len(held), held)
    BY <2>6, <2>8 DEF View, f
  <2>11. View(s)' = Overlay(v, n, data)
    BY <2>5, <2>9, <2>10
  <2>12. QED
    BY <1>5, <2>1, <2>6, <2>8, <2>11 DEF v, n, f, c, pos
<1>7. CASE ~Posix
  <2> DEFINE g == [f EXCEPT !.pos = pos]
             w == Overlay(c, n, data)
  <2>1. n = f.pos
    BY <1>2, <1>4, <1>7
  <2>2. /\ stream' = [stream EXCEPT ![s] = g]
        /\ content' = [content EXCEPT ![f.path] = w]
        /\ kind' = kind /\ UNCHANGED <<io, handles, lost>>
        /\ pos <= MaxSize
    BY <1>7, <2>1 DEF Writes, WindowsFileWrite
  <2>3. u = <<>> /\ v = c
    BY <1>1, <1>2, <1>7
  <2>4. w \in Seq(Bytes)
    BY <1>1, <1>5, OverlayFacts
  <2>5. f.unwritten = u
    OBVIOUS
  <2> HIDE DEF f, u, v, c, w, pos
  <2>6. /\ g \in Handle /\ g.path = f.path /\ g.pos = pos /\ g.flags = f.flags
        /\ g.append = f.append /\ g.unwritten = u
    BY <1>1, <1>5, <2>5 DEF Handle
  <2> HIDE DEF g
  <2>7. Moves(s, g, w)
    BY <2>2, <2>6 DEF Moves
  <2>8. Turns(s) /\ stream'[s] = g /\ content'[stream[s].path] = w
    BY <1>1, <2>4, <2>6, <2>7, TurnsIf DEF f
  <2>9. View(s)' = w
    BY <2>3, <2>6, <2>8 DEF View, Overlay, f
  <2>10. w = Overlay(v, n, data)
    BY <2>3 DEF w
  <2>11. QED
    BY <1>5, <2>2, <2>6, <2>8, <2>9, <2>10 DEF v, n, f, pos
<1>8. QED
  BY <1>6, <1>7

\* Files lays texts over texts as the model does.
LEMMA OverlayIsFiles == \A t, k, d : Abstract!Overlay(t, k, d) = Overlay(t, k, d)
  BY DEF Abstract!Overlay, Overlay, Abstract!Max, Max

\* Files and the model write in the same place.
LEMMA WritesAtIsFiles ==
  ASSUME Core, Told, NEW s \in Streams, IsOpen(s)
  PROVE  /\ Places[s] # NULL /\ Places[s].path = stream[s].path
         /\ Text[stream[s].path] = View(s)
         /\ Abstract!WritesAt(s) = WritesAt(s)
<1>1. Text[stream[s].path] = View(s)
  BY TextFacts DEF TextSound
<1>2. /\ Places[s] # NULL /\ Places[s].path = stream[s].path /\ Places[s].pos = stream[s].pos
      /\ Places[s].appends <=> (Posix /\ "APPEND" \in stream[s].flags)
  BY PlaceFacts
<1>3. stream[s].append <=> (Posix /\ "APPEND" \in stream[s].flags)
  BY DEF Told
<1>4. QED
  BY <1>1, <1>2, <1>3 DEF WritesAt, Abstract!WritesAt

\* It is a write of Files.
LEMMA WritesWrites ==
  ASSUME Core, Core', Told, NEW s \in Streams, IsOpen(s), NEW data \in Seq(Bytes),
         data \in UNION {Prefixes(t) : t \in Texts}, Writes(s, data)
  PROVE  Told' /\ Abstract!Next
<1> DEFINE p == stream[s].path
           n == WritesAt(s)
           v == View(s)
           w == View(s)'
<1>1. /\ Turns(s) /\ n \in Nat /\ n + Len(data) <= MaxSize
      /\ stream'[s].pos = n + Len(data)
      /\ w = Overlay(v, n, data)
      /\ content'[p] \in {content[p], w}
  BY WritesTurns
<1>2. /\ p \in Paths /\ v \in Seq(Bytes) /\ Len(data) \in Nat /\ Len(v) \in Nat
      /\ kind[p] = "file" /\ Len(v) <= MaxSize /\ Len(content[p]) <= MaxSize
  BY ViewFacts DEF Told
<1>3. Len(w) <= MaxSize
  <2> HIDE DEF n, v, w
  <2>1. /\ data = <<>> => Overlay(v, n, data) = v
        /\ data # <<>> => Len(Overlay(v, n, data)) =
                            IF Len(v) >= n + Len(data) THEN Len(v) ELSE n + Len(data)
    BY <1>1, <1>2, OverlayFacts
  <2>2. QED
    BY <1>1, <1>2, <2>1
<1>4. Len(content'[p]) <= MaxSize
  BY <1>1, <1>2, <1>3
<1>5. Told' /\ Seen(s, n + Len(data), w, content'[p])
  <2>1. Told' /\ Seen(s, stream'[s].pos, View(s)', content'[stream[s].path])
    BY <1>1, <1>3, <1>4, TurnsFacts
  <2>2. QED
    BY <1>1, <2>1
<1>6. Text[p] = v
  BY TextFacts DEF TextSound
<1>7. Text' = [Text EXCEPT ![p] = w] /\ Text'[p] = w
  <2>1. Text' = [Text EXCEPT ![p] = w]
    BY <1>5 DEF Seen
  <2>2. Text = [q \in Paths |-> Text[q]]
    BY TextFacts DEF TextSound
  <2>3. QED
    BY <1>2, <2>1, <2>2
<1>8. Stored' \in {Stored, [Stored EXCEPT ![p] = Text'[p]]}
  <2>1. Stored[p] = content[p]
    BY <1>2 DEF Stored, FsIsFile
  <2>2. Stored' = [Stored EXCEPT ![p] = content'[p]]
    BY <1>5 DEF Seen
  <2>3. CASE content'[p] = content[p]
    <3>1. Stored' = Stored
      BY <2>1, <2>2, <2>3 DEF Stored
    <3>2. QED
      BY <3>1
  <2>4. CASE content'[p] = w
    BY <2>2, <2>4, <1>7
  <2>5. QED
    BY <2>3, <2>4, <1>1
<1>9. Places[s] # NULL /\ Places[s].path = p /\ n = Abstract!WritesAt(s)
  BY WritesAtIsFiles
<1>10. w = Abstract!Overlay(Text[p], n, data)
  BY <1>1, <1>6, OverlayIsFiles
<1>11. Places' = [Places EXCEPT ![s].pos = n + Len(data)]
  BY <1>5 DEF Seen
<1>12. Text' = [Text EXCEPT ![p] = Abstract!Overlay(Text[p], n, data)]
  BY <1>7, <1>10
<1> HIDE DEF n, w, v, p
<1>13. Abstract!Write(s, data)
  BY <1>8, <1>9, <1>11, <1>12 DEF Abstract!Write, Abstract!MayStore
<1>14. data \in UNION {Abstract!Prefixes(t) : t \in Texts}
  BY DEF Abstract!Prefixes, Prefixes
<1>15. QED
  BY <1>5, <1>13, <1>14 DEF Abstract!Next

\* The first bytes of some data laid over a text are what the first bytes of the two
\* together, laid over it, make of it.
LEMMA OverlayFirst ==
  ASSUME NEW c \in Seq(Bytes), NEW n \in Nat, NEW h \in Seq(Bytes),
         NEW k \in 0 .. Len(h), k > 0
  PROVE  /\ n + k \in 0 .. Len(Overlay(c, n, h))
         /\ Overlay(c, n, SubSeq(h, 1, k))
              = Overlay(c, 0, SubSeq(Overlay(c, n, h), 1, n + k))
<1> DEFINE v == Overlay(c, n, h)
           part == SubSeq(h, 1, k)
           m == n + k
           first == SubSeq(v, 1, m)
           x == Overlay(c, n, part)
           y == Overlay(c, 0, first)
<1>1. Len(h) \in Nat /\ Len(c) \in Nat /\ k \in Nat /\ k <= Len(h) /\ m \in Nat /\ m > 0
  OBVIOUS
<1>2. h # <<>>
  BY <1>1
<1>3. IsLaid(v, c, n, h) /\ v \in Seq(Bytes)
  BY <1>2, OverlayLays, OverlayFacts
<1>4. /\ part \in Seq(Bytes) /\ Len(part) = k
      /\ \A i \in 1 .. k : part[i] = h[i]
  BY <1>1
<1>5. Len(v) = IF Len(c) >= n + Len(h) THEN Len(c) ELSE n + Len(h)
  BY <1>3 DEF IsLaid
<1> HIDE DEF v, part
<1>6. m <= Len(v) /\ Len(v) \in Nat
  BY <1>1, <1>5
<1> HIDE DEF m
<1>7. /\ first \in Seq(Bytes) /\ Len(first) = m
      /\ \A i \in 1 .. m : first[i] = v[i]
  BY <1>1, <1>3, <1>6
<1> HIDE DEF first
<1>8. part # <<>> /\ first # <<>>
  BY <1>1, <1>4, <1>7
<1>9. IsLaid(x, c, n, part)
  BY <1>4, <1>8, OverlayLays
<1>10. PICK o \in Nat : o = 0
  OBVIOUS
<1>11. IsLaid(Overlay(c, o, first), c, o, first)
  BY <1>7, <1>8, OverlayLays
<1>12. IsLaid(y, c, o, first)
  BY <1>10, <1>11
<1> HIDE DEF x, y
<1>13. Len(x) = Len(y) /\ Len(x) \in Nat /\ x \in Seq(Bytes) /\ y \in Seq(Bytes)
  <2>1. /\ Len(x) = IF Len(c) >= n + Len(part) THEN Len(c) ELSE n + Len(part)
        /\ Len(y) = IF Len(c) >= o + Len(first) THEN Len(c) ELSE o + Len(first)
        /\ x \in Seq(Bytes) /\ y \in Seq(Bytes)
    BY <1>9, <1>12 DEF IsLaid
  <2>2. n + Len(part) = m /\ o + Len(first) = m
    BY <1>1, <1>4, <1>7, <1>10 DEF m
  <2>3. QED
    BY <2>1, <2>2
<1>14. ASSUME NEW i \in 1 .. Len(x) PROVE x[i] = y[i]
  <2>1. x[i] = IF i \in n + 1 .. n + k THEN part[i - n]
               ELSE IF i <= Len(c) THEN c[i] ELSE Gap
    BY <1>4, <1>9 DEF IsLaid
  <2>2. y[i] = IF i \in 1 .. m THEN first[i] ELSE IF i <= Len(c) THEN c[i] ELSE Gap
    <3>1. i \in 1 .. Len(y)
      BY <1>13
    <3>2. y[i] = IF i \in o + 1 .. o + Len(first) THEN first[i - o]
                 ELSE IF i <= Len(c) THEN c[i] ELSE Gap
      BY <1>12, <3>1 DEF IsLaid
    <3>3. o + 1 = 1 /\ o + Len(first) = m /\ i - o = i
      BY <1>1, <1>7, <1>10, <1>13
    <3>4. QED
      BY <3>2, <3>3
  <2>3. i \in 1 .. m => first[i] = v[i] /\ i \in 1 .. Len(v)
    BY <1>1, <1>6, <1>7
  <2>4. i \in 1 .. Len(v) =>
          v[i] = IF i \in n + 1 .. n + Len(h) THEN h[i - n]
                 ELSE IF i <= Len(c) THEN c[i] ELSE Gap
    BY <1>3 DEF IsLaid
  <2>5. CASE i \in n + 1 .. n + k
    <3>1. i \in 1 .. m /\ i \in n + 1 .. n + Len(h) /\ i - n \in 1 .. k
      BY <2>5, <1>1, <1>13 DEF m
    <3>2. part[i - n] = h[i - n]
      BY <3>1, <1>4
    <3>3. QED
      BY <3>1, <3>2, <2>1, <2>2, <2>3, <2>4, <2>5
  <2>6. CASE i \notin n + 1 .. n + k /\ i \in 1 .. m
    <3>1. i \notin n + 1 .. n + Len(h)
      BY <2>6, <1>1 DEF m
    <3>2. QED
      BY <3>1, <2>1, <2>2, <2>3, <2>4, <2>6
  <2>7. CASE i \notin n + 1 .. n + k /\ i \notin 1 .. m
    BY <2>1, <2>2, <2>7
  <2>8. QED
    BY <2>5, <2>6, <2>7
<1>15. x = y
  BY <1>13, <1>14, SameTexts
<1>16. m \in 0 .. Len(v)
  BY <1>1, <1>6
<1>17. QED
  BY <1>15, <1>16 DEF x, y, v, part, first, m

\* What has been stored of what s holds, and of data behind it, is what the first bytes
\* of the file as s sees it, data laid into it, make of the file.
LEMMA ReachedFirst ==
  ASSUME Core, NEW s \in Streams, IsOpen(s), NEW data \in Seq(Bytes),
         NEW k \in 0 .. Len(Held(s, data))
  PROVE  \E n \in 0 .. Len(Overlay(View(s), WritesAt(s), data)) :
           Reached(s, data, k)
             = Overlay(content[stream[s].path], 0,
                       SubSeq(Overlay(View(s), WritesAt(s), data), 1, n))
<1> DEFINE u == stream[s].unwritten
           c == content[stream[s].path]
           h == Held(s, data)
           n == HeldFrom(s)
           v == View(s)
           new == Overlay(v, WritesAt(s), data)
<1>1. /\ u \in Seq(Bytes) /\ c \in Seq(Bytes) /\ v \in Seq(Bytes)
  BY ViewFacts
<1>2. /\ n \in Nat /\ WritesAt(s) \in Nat /\ n + Len(u) = WritesAt(s)
      /\ v = Overlay(c, n, u) /\ h \in Seq(Bytes)
  BY HeldPlace
<1>3. h = u \o data /\ Reached(s, data, k) = Overlay(c, n, SubSeq(h, 1, k))
  BY DEF Held, Reached
<1>4. k \in 0 .. Len(h)
  OBVIOUS
<1>5. new = Overlay(c, n, h)
  <2> HIDE DEF u, c, n, h
  <2>1. Overlay(c, n, u \o data) = Overlay(Overlay(c, n, u), n + Len(u), data)
    BY <1>1, <1>2, OverlayTwice
  <2>2. QED
    BY <2>1, <1>2, <1>3
<1>6. new \in Seq(Bytes)
  BY <1>1, <1>2, OverlayFacts
<1> HIDE DEF u, c, n, h, new, v
<1>7. PICK r : r = Reached(s, data, k)
  OBVIOUS
<1>8. \E m \in 0 .. Len(new) : r = Overlay(c, 0, SubSeq(new, 1, m))
  <2>1. CASE k = 0
    <3>1. SubSeq(h, 1, k) = <<>> /\ SubSeq(new, 1, 0) = <<>>
      BY <2>1, <1>2, <1>6
    <3>2. r = c
      BY <1>3, <1>7, <3>1 DEF Overlay
    <3>3. Overlay(c, 0, SubSeq(new, 1, 0)) = c
      BY <3>1 DEF Overlay
    <3>4. 0 \in 0 .. Len(new)
      BY <1>6
    <3>5. QED
      BY <3>2, <3>3, <3>4
  <2>2. CASE k > 0
    <3>1. /\ n + k \in 0 .. Len(Overlay(c, n, h))
          /\ Overlay(c, n, SubSeq(h, 1, k)) = Overlay(c, 0, SubSeq(Overlay(c, n, h), 1, n + k))
      BY <1>1, <1>2, <1>4, <2>2, OverlayFirst
    <3>2. n + k \in 0 .. Len(new) /\ r = Overlay(c, 0, SubSeq(new, 1, n + k))
      BY <3>1, <1>3, <1>5, <1>7
    <3>3. QED
      BY <3>2
  <2>3. QED
    BY <1>2, <1>4, <2>1, <2>2
<1>9. QED
  BY <1>7, <1>8 DEF c, new, v

\* So is what a close leaves.
LEMMA CloseFirst ==
  ASSUME Core, NEW s \in Streams, IsOpen(s),
         NEW c \in (IF Posix THEN PosixFileClose(s) ELSE WindowsFileClose(s))
                  \cup {content[stream[s].path]}
  PROVE  \E n \in 0 .. Len(View(s)) :
           c = Overlay(content[stream[s].path], 0, SubSeq(View(s), 1, n))
<1>1. PICK empty \in Seq(Bytes) : empty = <<>>
  BY NoBytes
<1> DEFINE u == stream[s].unwritten
           old == content[stream[s].path]
           h == Held(s, empty)
           n == HeldFrom(s)
<1>2. /\ u \in Seq(Bytes) /\ old \in Seq(Bytes) /\ View(s) \in Seq(Bytes)
  BY ViewFacts
<1>3. h = u /\ h \in Seq(Bytes) /\ Len(h) \in Nat /\ View(s) = Overlay(old, n, u)
  <2>1. h = u
    BY <1>1, <1>2 DEF Held
  <2>2. QED
    BY <1>2, <2>1, HeldPlace
<1>4. Overlay(View(s), WritesAt(s), empty) = View(s)
  BY <1>1 DEF Overlay
<1>5. ASSUME NEW k \in 0 .. Len(h)
      PROVE  \E m \in 0 .. Len(View(s)) :
               Reached(s, empty, k) = Overlay(old, 0, SubSeq(View(s), 1, m))
  <2>1. \E m \in 0 .. Len(Overlay(View(s), WritesAt(s), empty)) :
          Reached(s, empty, k)
            = Overlay(old, 0, SubSeq(Overlay(View(s), WritesAt(s), empty), 1, m))
    BY ReachedFirst
  <2>2. QED
    BY <2>1, <1>4
<1>6. \A k : Reached(s, empty, k) = Overlay(old, n, SubSeq(h, 1, k))
  BY DEF Reached
<1>7. \/ c = View(s) \/ c = old
      \/ \E k \in 0 .. Len(h) - 1 : c = Reached(s, empty, k)
  BY <1>1 DEF PosixFileClose, WindowsFileClose
<1> HIDE DEF old, u, h, n
<1>8. Reached(s, empty, 0) = old
  <2>1. SubSeq(h, 1, 0) = <<>>
    BY <1>3
  <2>2. QED
    BY <1>6, <2>1 DEF Overlay
<1>9. Reached(s, empty, Len(h)) = View(s)
  <2>1. SubSeq(h, 1, Len(h)) = h
    BY <1>3
  <2>2. QED
    BY <1>3, <1>6, <2>1
<1>10. 0 \in 0 .. Len(h) /\ Len(h) \in 0 .. Len(h)
       /\ \A k \in 0 .. Len(h) - 1 : k \in 0 .. Len(h)
  BY <1>3
<1>11. \E k \in 0 .. Len(h) : c = Reached(s, empty, k)
  BY <1>7, <1>8, <1>9, <1>10
<1>12. QED
  BY <1>5, <1>11 DEF old, h

\* Nothing it leaves is larger than the file its stream sees.
LEMMA FirstIsSmall ==
  ASSUME NEW c \in Seq(Bytes), NEW v \in Seq(Bytes), NEW n \in 0 .. Len(v),
         Len(c) <= MaxSize, Len(v) <= MaxSize
  PROVE  /\ Overlay(c, 0, SubSeq(v, 1, n)) \in Seq(Bytes)
         /\ Len(Overlay(c, 0, SubSeq(v, 1, n))) <= MaxSize
<1> DEFINE first == SubSeq(v, 1, n)
<1>1. first \in Seq(Bytes) /\ Len(first) = n /\ n \in Nat /\ n <= MaxSize
  OBVIOUS
<1>2. PICK o \in Nat : o = 0
  OBVIOUS
<1> HIDE DEF first
<1>3. LET y == Overlay(c, o, first)
      IN  /\ y \in Seq(Bytes)
          /\ first = <<>> => y = c
          /\ first # <<>> => Len(y) = IF Len(c) >= o + Len(first) THEN Len(c) ELSE o + Len(first)
  BY <1>1, OverlayFacts
<1>4. Len(c) \in Nat /\ o + Len(first) = n
  BY <1>1, <1>2
<1> DEFINE y == Overlay(c, o, first)
<1>5. /\ y \in Seq(Bytes)
      /\ first = <<>> => y = c
      /\ first # <<>> => Len(y) = IF Len(c) >= n THEN Len(c) ELSE n
  BY <1>3, <1>4
<1> HIDE DEF y
<1>6. Len(y) <= MaxSize
  BY <1>1, <1>4, <1>5
<1>7. y = Overlay(c, 0, first)
  BY <1>2 DEF y
<1>8. QED
  BY <1>5, <1>6, <1>7 DEF first

\* A file that keeps its kind, its bytes and its stream is as it was.
LEMMA OtherFiles ==
  ASSUME Core, Core', Told, Told', NEW q \in Paths, io' = io,
         kind'[q] = kind[q], content'[q] = content[q],
         \A t \in Streams :
           (IsOpen(t) /\ stream[t].path = q) \/ (IsOpen(t)' /\ stream'[t].path = q)
             => stream'[t] = stream[t]
  PROVE  Text'[q] = Text[q] /\ Stored'[q] = Stored[q]
<1>1. TextSound /\ TextSound'
  BY TextFacts, TextFactsNext
<1>2. Stored'[q] = Stored[q]
  BY DEF Stored, FsIsFile
<1>3. CASE kind[q] # "file"
  BY <1>1, <1>3, <1>2 DEF TextSound
<1>4. ASSUME kind[q] = "file", NEW t \in Streams, IsOpen(t), stream[t].path = q
      PROVE  Text'[q] = Text[q]
  <2>1. stream'[t] = stream[t]
    BY <1>4
  <2>2. IsOpen(t)' /\ View(t)' = View(t)
    BY <1>4, <2>1 DEF IsOpen, View
  <2>3. Text'[stream'[t].path] = View(t)' /\ Text[stream[t].path] = View(t)
    BY <1>1, <1>4, <2>2 DEF TextSound
  <2>4. QED
    BY <1>4, <2>1, <2>2, <2>3
<1>5. ASSUME kind[q] = "file", \A t \in Streams : IsOpen(t) => stream[t].path # q
      PROVE  Text'[q] = Text[q]
  <2>1. \A t \in Streams : IsOpen(t)' => stream'[t].path # q
    BY <1>5 DEF IsOpen
  <2>2. Text'[q] = content'[q] /\ Text[q] = content[q]
    BY <1>1, <1>5, <2>1 DEF TextSound
  <2>3. QED
    BY <2>2
<1>6. QED
  BY <1>2, <1>3, <1>4, <1>5

\* Files whose text and disk are known path by path.
LEMMA FilesBecome ==
  ASSUME Core, Core', Told, Told', NEW p \in Paths, NEW b,
         \A q \in Paths : q # p => Text'[q] = Text[q] /\ Stored'[q] = Stored[q],
         Text'[p] = b, Stored'[p] = b
  PROVE  Abstract!Becomes(p, b)
<1>1. Text = [q \in Paths |-> Text[q]] /\ Text' = [q \in Paths |-> Text'[q]]
  BY TextFacts, TextFactsNext DEF TextSound
<1>2. Stored = [q \in Paths |-> Stored[q]] /\ Stored' = [q \in Paths |-> Stored'[q]]
  BY DEF Stored
<1>3. Text' = [Text EXCEPT ![p] = b]
  BY <1>1
<1>4. Stored' = [Stored EXCEPT ![p] = b]
  BY <1>2
<1>5. QED
  BY <1>3, <1>4 DEF Abstract!Becomes

\* No stream of Files has an unused file open.
LEMMA FreeFacts ==
  ASSUME Core, NEW p \in Paths, \A t \in Streams : IsOpen(t) => stream[t].path # p
  PROVE  Abstract!Free(p)
<1>1. ASSUME NEW t \in Streams, Places[t] # NULL PROVE Places[t].path # p
  <2>1. IsOpen(t)
    BY <1>1 DEF Places, Position
  <2>2. QED
    BY <2>1, PlaceFacts
<1>2. QED
  BY <1>1 DEF Abstract!Free

\* A stream goes, with what it holds or without some of it: a close of Files.
LEMMA DropsCloses ==
  ASSUME Core, Core', Told, NEW s \in Streams, IsOpen(s),
         NEW k \in 0 .. Len(View(s)),
         NEW c, c = Overlay(content[stream[s].path], 0, SubSeq(View(s), 1, k)),
         stream' = [stream EXCEPT ![s] = NULL],
         content' = [content EXCEPT ![stream[s].path] = c],
         UNCHANGED <<io, kind>>,
         lost' \subseteq lost \cup {stream[s].path}
  PROVE  Told' /\ Abstract!Next
<1> DEFINE p == stream[s].path
<1>1. p \in Paths /\ kind[p] = "file" /\ p \notin lost /\ c \in Seq(Bytes) /\ Len(c) <= MaxSize
  <2>1. /\ p \in Paths /\ kind[p] = "file" /\ p \notin lost
        /\ content[p] \in Seq(Bytes) /\ View(s) \in Seq(Bytes)
        /\ Len(content[p]) <= MaxSize /\ Len(View(s)) <= MaxSize
    BY ViewFacts DEF Told, Core, Apart
  <2>2. c \in Seq(Bytes) /\ Len(c) <= MaxSize
    BY <2>1, FirstIsSmall
  <2>3. QED
    BY <2>1, <2>2
<1>2. /\ stream'[s] = NULL /\ ~IsOpen(s)'
      /\ \A t \in Streams : t # s => stream'[t] = stream[t]
  BY DEF Core, IsOpen
<1>3. content'[p] = c /\ \A q \in Paths : q # p => content'[q] = content[q]
  BY <1>1 DEF Core
<1>4. \A t \in Streams : t # s /\ IsOpen(t) => stream[t].path # p /\ stream[t].path \in Paths
  BY ViewFacts DEF Core, Apart
<1> HIDE DEF p
<1>5. Told'
  <2>1. ASSUME NEW t \in Streams, IsOpen(t)'
        PROVE  /\ kind'[stream'[t].path] = "file"
               /\ stream'[t].append <=> (Posix' /\ "APPEND" \in stream'[t].flags)
               /\ stream'[t].pos <= MaxSize /\ Len(View(t)') <= MaxSize
    <3>1. t # s /\ stream'[t] = stream[t]
      BY <2>1, <1>2
    <3>2. IsOpen(t) /\ stream[t].path # p /\ stream[t].path \in Paths
      BY <2>1, <3>1, <1>4 DEF IsOpen
    <3>3. View(t)' = View(t)
      BY <3>1, <3>2, <1>3 DEF View
    <3>4. Posix' <=> Posix
      BY DEF Posix
    <3>5. QED
      BY <3>1, <3>2, <3>3, <3>4 DEF Told
  <2>2. \A q \in Paths : Len(content'[q]) <= MaxSize
    BY <1>1, <1>3 DEF Told
  <2>3. \A q \in lost' : kind'[q] = "file"
    BY <1>1 DEF Told, p
  <2>4. QED
    BY <2>1, <2>2, <2>3 DEF Told
<1>6. \A q \in Paths : q # p => Text'[q] = Text[q] /\ Stored'[q] = Stored[q]
  <2>1. ASSUME NEW q \in Paths, q # p
        PROVE  Text'[q] = Text[q] /\ Stored'[q] = Stored[q]
    <3>1. \A t \in Streams :
            (IsOpen(t) /\ stream[t].path = q) \/ (IsOpen(t)' /\ stream'[t].path = q)
              => stream'[t] = stream[t]
      BY <2>1, <1>2 DEF p
    <3>2. content'[q] = content[q] /\ kind'[q] = kind[q]
      BY <2>1, <1>3
    <3>3. QED
      BY <1>5, <3>1, <3>2, OtherFiles
  <2>2. QED
    BY <2>1
<1>7. Text'[p] = c /\ Stored'[p] = c
  <2>1. \A t \in Streams : IsOpen(t)' => stream'[t].path # p
    BY <1>2, <1>4 DEF IsOpen
  <2>2. Text'[p] = content'[p]
    BY <1>1, <1>5, <2>1, TextFactsNext DEF TextSound
  <2>3. Stored'[p] = content'[p]
    BY <1>1 DEF Stored, FsIsFile
  <2>4. QED
    BY <1>3, <2>2, <2>3
<1>8. Abstract!Becomes(p, c)
  BY <1>1, <1>5, <1>6, <1>7, FilesBecome
<1>9. Text[p] = View(s) /\ Stored[p] = content[p]
  <2>1. Text[p] = View(s)
    BY TextFacts DEF TextSound, p
  <2>2. Stored[p] = content[p]
    BY <1>1 DEF Stored, FsIsFile
  <2>3. QED
    BY <2>1, <2>2
<1>10. c = Abstract!Overlay(Stored[p], 0, SubSeq(Text[p], 1, k)) /\ k \in 0 .. Len(Text[p])
  BY <1>9, OverlayIsFiles DEF p
<1>11. Places' = [Places EXCEPT ![s] = NULL]
  <2>1. \A t \in Streams : t # s => Position(t)' = Position(t)
    BY <1>2 DEF Position, IsOpen, Posix
  <2>2. Position(s)' = NULL
    BY <1>2 DEF Position
  <2>3. QED
    BY <2>1, <2>2 DEF Places
<1>12. Places[s] # NULL /\ Places[s].path = p
  BY PlaceFacts DEF p
<1>13. Abstract!Close(s)
  BY <1>8, <1>10, <1>11, <1>12 DEF Abstract!Close, Abstract!StoreFirst
<1>14. QED
  BY <1>5, <1>13 DEF Abstract!Next

\* A close, and what a jump out of an allocation leaves open.
LEMMA ClosesCloses ==
  ASSUME Core, Core', Told, NEW s \in Streams, IsOpen(s), Closes(s)
  PROVE  Told' /\ Abstract!Next
<1>1. PICK c \in IF Posix THEN PosixFileClose(s) ELSE WindowsFileClose(s) :
        content' = [content EXCEPT ![stream[s].path] = c]
  BY DEF Closes
<1>2. PICK k \in 0 .. Len(View(s)) :
        c = Overlay(content[stream[s].path], 0, SubSeq(View(s), 1, k))
  BY <1>1, CloseFirst
<1>3. stream' = [stream EXCEPT ![s] = NULL] /\ lost' = lost /\ UNCHANGED <<io, kind>>
  BY DEF Closes
<1>4. lost' \subseteq lost \cup {stream[s].path}
  BY <1>3
<1>5. QED
  BY <1>1, <1>2, <1>3, <1>4, DropsCloses

LEMMA LosesCloses ==
  ASSUME Core, Core', Told, NEW s \in Streams, IsOpen(s),
         stream' = [stream EXCEPT ![s] = NULL],
         lost' = lost \cup {stream[s].path},
         UNCHANGED <<io, kind, content>>
  PROVE  Told' /\ Abstract!Next
<1>1. stream[s].path \in Paths
  BY ViewFacts
<1>2. content' = [content EXCEPT ![stream[s].path] = content[stream[s].path]]
  BY <1>1 DEF Core
<1>3. PICK k \in 0 .. Len(View(s)) :
        content[stream[s].path] = Overlay(content[stream[s].path], 0, SubSeq(View(s), 1, k))
  BY CloseFirst
<1>4. PICK c : c = content[stream[s].path]
  OBVIOUS
<1>5. /\ content' = [content EXCEPT ![stream[s].path] = c]
      /\ c = Overlay(content[stream[s].path], 0, SubSeq(View(s), 1, k))
  BY <1>2, <1>3, <1>4
<1>6. QED
  BY <1>5, DropsCloses

\* A full disk is a failure of Files.
LEMMA DiskFullFails ==
  ASSUME Core, Core', Told, NEW s \in Streams, IsOpen(s), NEW data \in Texts \cup {<<>>},
         data # <<>> => WritesAt(s) + Len(data) <= MaxSize, DiskFull(s, data)
  PROVE  Told' /\ Abstract!Next
<1> DEFINE p == stream[s].path
           v == View(s)
           new == Overlay(v, WritesAt(s), data)
           n == HeldFrom(s)
<1>1. data \in Seq(Bytes) /\ Len(data) \in Nat
  <2>1. data \in Seq(Bytes)
    BY NoBytes
  <2>2. QED
    BY <2>1
<1>2. PICK k \in 0 .. Len(Held(s, data)), f \in Handle :
        /\ k < Len(Held(s, data))
        /\ f.path = p /\ f.flags = stream[s].flags /\ f.append = stream[s].append
        /\ f.pos = n + k /\ f.unwritten = <<>>
        /\ Posix /\ Moves(s, f, Reached(s, data, k))
  BY <1>1, DiskFullMoves
<1>3. PICK m \in 0 .. Len(new) : Reached(s, data, k) = Overlay(content[p], 0, SubSeq(new, 1, m))
  BY <1>1, ReachedFirst
<1> DEFINE c == Reached(s, data, k)
<1>4. /\ p \in Paths /\ kind[p] = "file" /\ content[p] \in Seq(Bytes)
      /\ v \in Seq(Bytes) /\ stream[s].append \in BOOLEAN
      /\ Len(content[p]) <= MaxSize /\ Len(v) <= MaxSize /\ stream[s].pos <= MaxSize
      /\ stream[s].pos \in Nat
  BY ViewFacts DEF Told
<1>5. /\ n \in Nat /\ WritesAt(s) \in Nat
      /\ Len(stream[s].unwritten) \in Nat /\ n + Len(stream[s].unwritten) = WritesAt(s)
      /\ Len(Held(s, data)) = Len(stream[s].unwritten) + Len(data)
  BY <1>1, HeldPlace
<1>6. WritesAt(s) + Len(data) <= MaxSize
  <2>1. WritesAt(s) <= MaxSize
    BY <1>4 DEF WritesAt
  <2>2. data = <<>> => Len(data) = 0
    OBVIOUS
  <2> HIDE DEF v
  <2>3. QED
    BY <2>1, <2>2, <1>5
<1>7. new \in Seq(Bytes) /\ Len(new) <= MaxSize
  <2> DEFINE a == WritesAt(s)
  <2> HIDE DEF v, a
  <2>1. LET t == Overlay(v, a, data)
        IN  /\ t \in Seq(Bytes)
            /\ data = <<>> => t = v
            /\ data # <<>> => Len(t) = IF Len(v) >= a + Len(data) THEN Len(v) ELSE a + Len(data)
    BY <1>1, <1>4, <1>5, OverlayFacts DEF a
  <2>2. a + Len(data) <= MaxSize /\ new = Overlay(v, a, data)
    BY <1>6 DEF a
  <2> HIDE DEF new
  <2>3. QED
    BY <2>1, <2>2, <1>4
<1>8. c \in Seq(Bytes) /\ Len(c) <= MaxSize
  <2> HIDE DEF new, c
  <2>1. c = Overlay(content[p], 0, SubSeq(new, 1, m))
    BY <1>3 DEF c
  <2>2. QED
    BY <2>1, <1>4, <1>7, FirstIsSmall
<1>9. n + k \in 0 .. MaxSize
  <2>1. k < Len(Held(s, data)) /\ k \in 0 .. Len(Held(s, data))
    BY <1>2
  <2>2. PICK l \in Nat : l = Len(Held(s, data))
    BY <1>1, <1>5
  <2>3. PICK j \in Nat : j = k /\ j < l
    BY <2>1, <2>2
  <2>4. PICK a \in Nat : a = n
    BY <1>5
  <2>5. a + l = WritesAt(s) + Len(data)
    <3>1. PICK e \in Nat, d \in Nat : e = Len(stream[s].unwritten) /\ d = Len(data)
      BY <1>1, <1>5
    <3>2. l = e + d /\ WritesAt(s) = a + e
      BY <1>5, <2>2, <2>4, <3>1
    <3>3. a + (e + d) = (a + e) + d
      OBVIOUS
    <3> HIDE DEF n
    <3>4. QED
      BY <3>1, <3>2, <3>3, Zenon
  <2>6. a + j < a + l /\ a + l <= MaxSize
    BY <1>6, <2>3, <2>5
  <2> HIDE DEF n
  <2>7. QED
    BY <2>3, <2>4, <2>6
<1> HIDE DEF c, new, n
<1>10. Turns(s) /\ stream'[s] = f /\ content'[p] = c
  BY <1>2, <1>8, TurnsIf DEF c
<1>11. View(s)' = c
  BY <1>2, <1>10 DEF View, Overlay
<1>12. Told' /\ Seen(s, n + k, c, c)
  <2>1. stream'[s].pos = n + k /\ stream'[s].pos <= MaxSize
    BY <1>2, <1>9, <1>10
  <2>2. Told' /\ Seen(s, stream'[s].pos, View(s)', content'[p])
    BY <1>8, <1>10, <1>11, <2>1, TurnsFacts
  <2>3. QED
    BY <1>10, <1>11, <2>1, <2>2
<1>13. Abstract!Becomes(p, c)
  BY <1>12 DEF Seen, Abstract!Becomes
<1>14. /\ Places[s] # NULL /\ Places[s].path = p /\ Text[p] = v
       /\ Abstract!WritesAt(s) = WritesAt(s)
  BY WritesAtIsFiles
<1>15. Stored[p] = content[p]
  BY <1>4 DEF Stored, FsIsFile
<1>16. new = Abstract!Overlay(Text[p], Abstract!WritesAt(s), data)
  BY <1>14, OverlayIsFiles DEF new
<1>17. c = Abstract!Overlay(Stored[p], 0, SubSeq(new, 1, m))
  BY <1>3, <1>15, OverlayIsFiles DEF c
<1>18. Abstract!StoreFirst(p, new)
  BY <1>13, <1>17 DEF Abstract!StoreFirst
<1>19. Places' = [Places EXCEPT ![s].pos = n + k]
  BY <1>12 DEF Seen
<1> HIDE DEF p, v
<1>20. Abstract!Fail(s, data)
  BY <1>9, <1>14, <1>16, <1>18, <1>19 DEF Abstract!Fail
<1>21. QED
  BY <1>12, <1>20 DEF Abstract!Next

\* What a file is opened with is what it has, or nothing.
LEMMA OpenedFacts ==
  ASSUME Core, Told, NEW p \in Paths, kind[p] # "dir", NEW m
  PROVE  /\ OpenedText(p, m) \in Seq(Bytes) /\ Len(OpenedText(p, m)) <= MaxSize
         /\ OpenedText(p, m) = <<>>
              \/ (kind[p] = "file" /\ OpenedText(p, m) = content[p])
<1>1. content[p] \in Seq(Bytes) /\ kind[p] \in {"none", "file", "dir"}
  BY DEF Core
<1>2. <<>> \in Seq(Bytes) /\ Len(<<>>) <= MaxSize
  OBVIOUS
<1>3. Len(content[p]) <= MaxSize
  BY DEF Told
<1>4. OpenedText(p, m) = <<>> \/ (kind[p] = "file" /\ OpenedText(p, m) = content[p])
  BY <1>1 DEF OpenedText
<1>5. QED
  BY <1>1, <1>2, <1>3, <1>4

\* Appending is asked for by the flags, and done by stdio alone.
LEMMA ModeAppends ==
  ASSUME NEW flags \in SUBSET Flags
  PROVE  Mode(flags).append <=> (Posix /\ "APPEND" \in flags)
<1>1. CASE Posix
  <2>1. Mode(flags).append = (PosixOpenMode(flags) \in {"a", "a+"})
    BY <1>1 DEF Mode, PosixFileOpen, Fopen
  <2>2. PosixOpenMode(flags) \in {"a", "a+"} <=> "APPEND" \in flags
    BY DEF PosixOpenMode
  <2>3. QED
    BY <1>1, <2>1, <2>2
<1>2. CASE ~Posix
  BY <1>2 DEF Mode, WindowsFileOpen
<1>3. QED
  BY <1>1, <1>2

\* An open of Files, of a file that is kept, emptied or made.
LEMMA OpensOpens ==
  ASSUME Core, Core', Told, NEW s \in Streams, NEW p \in Paths, NEW flags \in SUBSET Flags,
         Opens(s, p, flags)
  PROVE  Told' /\ Abstract!Next
<1> DEFINE m == Mode(flags)
           text == OpenedText(p, m)
           pos == IF m.atEnd THEN Len(text) ELSE 0
           h == [path |-> p, read |-> m.read, write |-> m.write, append |-> m.append,
                 flags |-> flags, pos |-> pos, eof |-> FALSE, unwritten |-> <<>>]
           appends == Posix /\ "APPEND" \in flags
<1>1. /\ ~IsOpen(s) /\ Unused(p) /\ kind[p] # "dir"
      /\ kind' = [kind EXCEPT ![p] = "file"] /\ content' = [content EXCEPT ![p] = text]
      /\ stream' = [stream EXCEPT ![s] = h]
      /\ UNCHANGED <<io, lost>>
  BY DEF Opens, OpenFile
<1>2. /\ text \in Seq(Bytes) /\ Len(text) <= MaxSize
      /\ text = <<>> \/ (kind[p] = "file" /\ text = content[p])
  BY <1>1, OpenedFacts
<1>3. m.append <=> appends
  BY ModeAppends
<1> HIDE DEF m, text
<1>4. pos \in {0, Len(text)} /\ pos \in Nat /\ pos <= MaxSize
  BY <1>2
<1> HIDE DEF pos
<1>5. h.path = p /\ h.pos = pos /\ h.flags = flags /\ h.append = m.append /\ h.unwritten = <<>>
  OBVIOUS
<1> HIDE DEF h
<1>6. IsOpen(s)' /\ stream'[s] = h /\ \A t \in Streams : t # s => stream'[t] = stream[t]
  <2>1. stream'[s] = h /\ \A t \in Streams : t # s => stream'[t] = stream[t]
    BY <1>1 DEF Core
  <2>2. IsOpen(s)'
    BY OpensFacts
  <2>3. QED
    BY <2>1, <2>2
<1>7. /\ content'[p] = text /\ kind'[p] = "file"
      /\ \A q \in Paths : q # p => content'[q] = content[q] /\ kind'[q] = kind[q]
  BY <1>1 DEF Core
<1>8. p \notin lost /\ \A t \in Streams : IsOpen(t) => stream[t].path # p
  BY <1>1 DEF Unused
<1>9. View(s)' = text
  BY <1>5, <1>6, <1>7 DEF View, Overlay
<1>10. Posix' <=> Posix
  BY <1>1 DEF Posix
<1>11. Told'
  <2>1. ASSUME NEW t \in Streams, IsOpen(t)'
        PROVE  /\ kind'[stream'[t].path] = "file"
               /\ stream'[t].append <=> (Posix' /\ "APPEND" \in stream'[t].flags)
               /\ stream'[t].pos <= MaxSize /\ Len(View(t)') <= MaxSize
    <3>1. CASE t = s
      BY <3>1, <1>2, <1>3, <1>4, <1>5, <1>6, <1>7, <1>9, <1>10
    <3>2. CASE t # s
      <4>1. stream'[t] = stream[t] /\ IsOpen(t)
        BY <2>1, <3>2, <1>6 DEF IsOpen
      <4>2. stream[t].path # p /\ stream[t].path \in Paths
        BY <4>1, <1>8, ViewFacts
      <4>3. View(t)' = View(t)
        BY <4>1, <4>2, <1>7 DEF View
      <4>4. QED
        BY <4>1, <4>2, <4>3, <1>7, <1>10 DEF Told
    <3>3. QED
      BY <3>1, <3>2
  <2>2. \A q \in Paths : Len(content'[q]) <= MaxSize
    BY <1>2, <1>7 DEF Told
  <2>3. \A q \in lost' : kind'[q] = "file"
    BY <1>1, <1>7, <1>8 DEF Told, Core
  <2>4. QED
    BY <2>1, <2>2, <2>3 DEF Told
<1>12. \A q \in Paths : q # p => Text'[q] = Text[q] /\ Stored'[q] = Stored[q]
  <2>1. ASSUME NEW q \in Paths, q # p
        PROVE  Text'[q] = Text[q] /\ Stored'[q] = Stored[q]
    <3>1. \A t \in Streams :
            (IsOpen(t) /\ stream[t].path = q) \/ (IsOpen(t)' /\ stream'[t].path = q)
              => stream'[t] = stream[t]
      BY <2>1, <1>1, <1>5, <1>6
    <3>2. content'[q] = content[q] /\ kind'[q] = kind[q]
      BY <2>1, <1>7
    <3>3. QED
      BY <1>1, <1>11, <3>1, <3>2, OtherFiles
  <2>2. QED
    BY <2>1
<1>13. Text'[p] = text /\ Stored'[p] = text
  <2>1. Text'[stream'[s].path] = View(s)'
    BY <1>6, <1>11, TextFactsNext DEF TextSound
  <2>2. Stored'[p] = text
    BY <1>7 DEF Stored, FsIsFile
  <2>3. QED
    BY <1>5, <1>6, <1>9, <2>1, <2>2
<1>14. Abstract!Becomes(p, text)
  BY <1>11, <1>12, <1>13, FilesBecome
<1>15. text \in {Text[p], <<>>} \ {NULL}
  <2>1. text # NULL
    BY <1>2
  <2>2. kind[p] = "file" => Text[p] = content[p]
    BY <1>8, TextFacts DEF TextSound
  <2>3. QED
    BY <1>2, <2>1, <2>2
<1>16. Abstract!Free(p)
  BY <1>8, FreeFacts
<1>17. Places[s] = NULL
  BY <1>1 DEF Places, Position
<1>18. Places' = [Places EXCEPT ![s] = [path |-> p, pos |-> pos, appends |-> appends]]
  <2>1. \A t \in Streams : t # s => Position(t)' = Position(t)
    BY <1>6, <1>10 DEF Position, IsOpen
  <2>2. Position(s)' = [path |-> p, pos |-> pos, appends |-> appends]
    BY <1>5, <1>6, <1>10 DEF Position
  <2>3. QED
    BY <2>1, <2>2 DEF Places
<1> HIDE DEF appends
<1>19. Abstract!Open(s, p, appends)
  BY <1>4, <1>14, <1>15, <1>16, <1>17, <1>18 DEF Abstract!Open
<1>20. appends \in BOOLEAN
  BY DEF appends
<1>21. QED
  BY <1>11, <1>19, <1>20 DEF Abstract!Next

\* Files alone change, and none that a stream has open.
LEMMA FilesTold ==
  ASSUME Core, Told, UNCHANGED <<io, stream>>, NEW ps \in SUBSET Paths,
         content' \in [Paths -> Seq(Bytes)],
         \A p \in ps : \A t \in Streams : IsOpen(t) => stream[t].path # p,
         \A q \in Paths \ ps : kind'[q] = kind[q] /\ content'[q] = content[q],
         \A q \in ps : Len(content'[q]) <= MaxSize,
         \A q \in lost' : kind'[q] = "file"
  PROVE  Told' /\ Places' = Places
<1>1. \A t \in Streams : IsOpen(t) => stream[t].path \in Paths \ ps
  BY ViewFacts
<1>2. ASSUME NEW t \in Streams, IsOpen(t)'
      PROVE  /\ kind'[stream'[t].path] = "file"
             /\ stream'[t].append <=> (Posix' /\ "APPEND" \in stream'[t].flags)
             /\ stream'[t].pos <= MaxSize /\ Len(View(t)') <= MaxSize
  <2>1. stream'[t] = stream[t] /\ IsOpen(t) /\ (Posix' <=> Posix)
    BY <1>2 DEF IsOpen, Posix
  <2>2. stream[t].path \in Paths \ ps
    BY <1>1, <2>1
  <2>3. View(t)' = View(t)
    BY <2>1, <2>2 DEF View
  <2>4. QED
    BY <2>1, <2>2, <2>3 DEF Told
<1>3. \A q \in Paths : Len(content'[q]) <= MaxSize
  BY DEF Told
<1>4. Told'
  BY <1>2, <1>3 DEF Told
<1>5. Places' = Places
  BY DEF Places, Position, IsOpen, Posix
<1>6. QED
  BY <1>4, <1>5

\* A file that is opened for nothing is touched, or left as it is.
LEMMA OpenFailsTouches ==
  ASSUME Core, Core', Told, NEW p \in Paths, NEW flags \in SUBSET Flags, OpenFails(p, flags)
  PROVE  Told' /\ (Abstract!Next \/ UNCHANGED <<Text, Stored, Places>>)
<1> DEFINE text == OpenedText(p, Mode(flags))
<1>1. /\ Unused(p) /\ kind[p] # "dir"
      /\ kind' = [kind EXCEPT ![p] = "file"] /\ content' = [content EXCEPT ![p] = text]
      /\ UNCHANGED <<io, stream>> /\ lost' \subseteq lost \cup {p}
  BY DEF OpenFails, OpenFile
<1>2. /\ text \in Seq(Bytes) /\ Len(text) <= MaxSize
      /\ text = <<>> \/ (kind[p] = "file" /\ text = content[p])
  BY <1>1, OpenedFacts
<1> HIDE DEF text
<1>3. /\ content'[p] = text /\ kind'[p] = "file"
      /\ \A q \in Paths : q # p => content'[q] = content[q] /\ kind'[q] = kind[q]
  BY <1>1 DEF Core
<1>4. p \notin lost /\ \A t \in Streams : IsOpen(t) => stream[t].path # p
  BY <1>1 DEF Unused
<1>5. \A q \in lost' : kind'[q] = "file"
  BY <1>1, <1>3, <1>4 DEF Told, Core
<1>6. Told' /\ Places' = Places
  <2>1. \A q \in Paths \ {p} : kind'[q] = kind[q] /\ content'[q] = content[q]
    BY <1>3
  <2>2. /\ \A q \in {p} : Len(content'[q]) <= MaxSize
        /\ \A q \in {p} : \A t \in Streams : IsOpen(t) => stream[t].path # q
    BY <1>2, <1>3, <1>4
  <2>3. {p} \in SUBSET Paths /\ content' \in [Paths -> Seq(Bytes)]
    BY DEF Core
  <2>4. QED
    BY <1>1, <1>5, <2>1, <2>2, <2>3, FilesTold
<1>7. \A q \in Paths : q # p => Text'[q] = Text[q] /\ Stored'[q] = Stored[q]
  <2>1. ASSUME NEW q \in Paths, q # p
        PROVE  Text'[q] = Text[q] /\ Stored'[q] = Stored[q]
    <3>1. \A t \in Streams :
            (IsOpen(t) /\ stream[t].path = q) \/ (IsOpen(t)' /\ stream'[t].path = q)
              => stream'[t] = stream[t]
      BY <1>1
    <3>2. content'[q] = content[q] /\ kind'[q] = kind[q]
      BY <2>1, <1>3
    <3>3. QED
      BY <1>1, <1>6, <3>1, <3>2, OtherFiles
  <2>2. QED
    BY <2>1
<1>8. Text'[p] = text /\ Stored'[p] = text
  <2>1. \A t \in Streams : IsOpen(t)' => stream'[t].path # p
    BY <1>1, <1>4 DEF IsOpen
  <2>2. Text'[p] = content'[p]
    BY <1>3, <1>6, <2>1, TextFactsNext DEF TextSound
  <2>3. Stored'[p] = content'[p]
    BY <1>3 DEF Stored, FsIsFile
  <2>4. QED
    BY <1>3, <2>2, <2>3
<1>9. Abstract!Becomes(p, text)
  BY <1>6, <1>7, <1>8, FilesBecome
<1>10. CASE text = <<>>
  <2>1. Abstract!Free(p)
    BY <1>4, FreeFacts
  <2>2. Abstract!Touch(p)
    BY <1>6, <1>9, <1>10, <2>1 DEF Abstract!Touch
  <2>3. QED
    BY <1>6, <2>2 DEF Abstract!Next
<1>11. CASE kind[p] = "file" /\ text = content[p]
  <2>1. Text[p] = text
    BY <1>4, <1>11, TextFacts DEF TextSound
  <2>2. Stored[p] = text
    BY <1>11 DEF Stored, FsIsFile
  <2>3. /\ Text = [q \in Paths |-> Text[q]] /\ Text' = [q \in Paths |-> Text'[q]]
        /\ Stored = [q \in Paths |-> Stored[q]] /\ Stored' = [q \in Paths |-> Stored'[q]]
    BY <1>6, TextFacts, TextFactsNext DEF TextSound, Stored
  <2>4. Text' = Text /\ Stored' = Stored
    BY <1>7, <1>8, <2>1, <2>2, <2>3
  <2>5. QED
    BY <1>6, <2>4
<1>12. QED
  BY <1>2, <1>10, <1>11

\* What Files sees of a file that no stream has open.
Bare(p) == IF kind[p] = "file" THEN content[p] ELSE NULL

\* The file system changes some files that the host does not use.
LEMMA FsTold ==
  ASSUME Core, Core', Told, Changes, NEW ps \in SUBSET Paths, \A p \in ps : Unused(p),
         \A q \in Paths \ ps : kind'[q] = kind[q] /\ content'[q] = content[q],
         \A q \in ps : Len(content'[q]) <= MaxSize
  PROVE  /\ Told' /\ Places' = Places
         /\ \A q \in Paths \ ps : Text'[q] = Text[q] /\ Stored'[q] = Stored[q]
         /\ \A q \in ps : /\ Text[q] = Bare(q) /\ Stored[q] = Bare(q)
                          /\ Text'[q] = Bare(q)' /\ Stored'[q] = Bare(q)'
                          /\ Abstract!Free(q)
<1>1. UNCHANGED <<io, stream, lost>>
  BY DEF Changes
<1>2. \A q \in ps : q \notin lost /\ \A t \in Streams : IsOpen(t) => stream[t].path # q
  BY DEF Unused
<1>3. \A q \in lost' : kind'[q] = "file"
  BY <1>1, <1>2 DEF Told, Core
<1>4. content' \in [Paths -> Seq(Bytes)]
  BY DEF Core
<1>5. Told' /\ Places' = Places
  BY <1>1, <1>2, <1>3, <1>4, FilesTold
<1>6. ASSUME NEW q \in Paths \ ps PROVE Text'[q] = Text[q] /\ Stored'[q] = Stored[q]
  <2>1. \A t \in Streams :
          (IsOpen(t) /\ stream[t].path = q) \/ (IsOpen(t)' /\ stream'[t].path = q)
            => stream'[t] = stream[t]
    BY <1>1
  <2>2. QED
    BY <1>1, <1>5, <2>1, OtherFiles
<1>7. ASSUME NEW q \in ps
      PROVE  /\ Text[q] = Bare(q) /\ Stored[q] = Bare(q)
             /\ Text'[q] = Bare(q)' /\ Stored'[q] = Bare(q)'
             /\ Abstract!Free(q)
  <2>1. q \in Paths
    OBVIOUS
  <2>2. \A t \in Streams : IsOpen(t)' => stream'[t].path # q
    BY <1>1, <1>2 DEF IsOpen
  <2>3. Text[q] = Bare(q)
    BY <1>2, <2>1, TextFacts DEF TextSound, Bare
  <2>4. Text'[q] = Bare(q)'
    BY <1>5, <2>1, <2>2, TextFactsNext DEF TextSound, Bare
  <2>5. Stored[q] = Bare(q) /\ Stored'[q] = Bare(q)'
    BY <2>1 DEF Stored, FsIsFile, Bare
  <2>6. Abstract!Free(q)
    BY <1>2, <2>1, FreeFacts
  <2>7. QED
    BY <2>3, <2>4, <2>5, <2>6
<1>8. QED
  BY <1>5, <1>6, <1>7

\* Texts and disk, path by path.
LEMMA FilesStay ==
  ASSUME Core, Core', Told, Told',
         \A q \in Paths : Text'[q] = Text[q] /\ Stored'[q] = Stored[q]
  PROVE  UNCHANGED <<Text, Stored>>
<1>1. /\ Text = [q \in Paths |-> Text[q]] /\ Text' = [q \in Paths |-> Text'[q]]
      /\ Stored = [q \in Paths |-> Stored[q]] /\ Stored' = [q \in Paths |-> Stored'[q]]
  BY TextFacts, TextFactsNext DEF TextSound, Stored
<1>2. QED
  BY <1>1

\* Deleting a file is a delete of Files; directories are nothing to it.
LEMMA FsOne ==
  ASSUME Core, Core', Told, NEW p \in Paths, FsDelete(p) \/ FsMkdir(p) \/ FsRmdir(p)
  PROVE  Told' /\ (Abstract!Next \/ UNCHANGED <<Text, Stored, Places>>)
<1>1. PICK k \in {"none", "dir"} :
        /\ Changes /\ Unused(p) /\ Becomes(p, k)
        /\ FsIsFile(p) => FsDelete(p)
  BY DEF FsDelete, FsMkdir, FsRmdir, FsIsFile, FsIsDir, FsExists
<1>2. kind'[p] = k /\ content'[p] = <<>>
      /\ \A q \in Paths \ {p} : kind'[q] = kind[q] /\ content'[q] = content[q]
  BY <1>1 DEF Becomes, Core
<1>3. /\ Told' /\ Places' = Places
      /\ \A q \in Paths \ {p} : Text'[q] = Text[q] /\ Stored'[q] = Stored[q]
      /\ \A q \in {p} : /\ Text[q] = Bare(q) /\ Stored[q] = Bare(q)
                        /\ Text'[q] = Bare(q)' /\ Stored'[q] = Bare(q)'
                        /\ Abstract!Free(q)
  <2>1. {p} \in SUBSET Paths /\ \A q \in {p} : Unused(q)
    BY <1>1
  <2>2. \A q \in {p} : Len(content'[q]) <= MaxSize
    BY <1>2
  <2>3. QED
    BY <1>1, <1>2, <2>1, <2>2, FsTold
<1>4. /\ Text[p] = Bare(p) /\ Stored[p] = Bare(p)
      /\ Text'[p] = NULL /\ Stored'[p] = NULL /\ Abstract!Free(p)
  BY <1>2, <1>3 DEF Bare
<1>5. CASE kind[p] = "file"
  <2>1. Bare(p) = content[p] /\ content[p] # NULL
    BY <1>5 DEF Bare, Core
  <2>2. Abstract!Becomes(p, NULL)
    BY <1>3, <1>4, FilesBecome
  <2>3. Abstract!Delete(p)
    BY <1>3, <1>4, <2>1, <2>2 DEF Abstract!Delete
  <2>4. QED
    BY <1>3, <2>3 DEF Abstract!Next
<1>6. CASE kind[p] # "file"
  <2>1. \A q \in Paths : Text'[q] = Text[q] /\ Stored'[q] = Stored[q]
    BY <1>3, <1>4, <1>6 DEF Bare
  <2>2. UNCHANGED <<Text, Stored>>
    BY <1>3, <2>1, FilesStay
  <2>3. QED
    BY <1>3, <2>2
<1>7. QED
  BY <1>5, <1>6

\* Renaming a file is a rename of Files, over what is there or not.
LEMMA FsTwo ==
  ASSUME Core, Core', Told, NEW p \in Paths, NEW q \in Paths, FsRename(p, q)
  PROVE  Told' /\ (Abstract!Next \/ UNCHANGED <<Text, Stored, Places>>)
<1>1. /\ Changes /\ p # q /\ Unused(p) /\ Unused(q)
      /\ kind' = [kind EXCEPT ![q] = kind[p], ![p] = "none"]
      /\ content' = [content EXCEPT ![q] = content[p], ![p] = <<>>]
      /\ kind[p] # "none" /\ (kind[q] # "none" => kind[p] = kind[q])
  BY DEF FsRename, PosixFsRename, WindowsFsRename, FsExists
<1>2. /\ kind'[p] = "none" /\ content'[p] = <<>> /\ kind'[q] = kind[p] /\ content'[q] = content[p]
      /\ \A r \in Paths \ {p, q} : kind'[r] = kind[r] /\ content'[r] = content[r]
  BY <1>1 DEF Core
<1>3. /\ Told' /\ Places' = Places
      /\ \A r \in Paths \ {p, q} : Text'[r] = Text[r] /\ Stored'[r] = Stored[r]
      /\ \A r \in {p, q} : /\ Text[r] = Bare(r) /\ Stored[r] = Bare(r)
                           /\ Text'[r] = Bare(r)' /\ Stored'[r] = Bare(r)'
                           /\ Abstract!Free(r)
  <2>1. {p, q} \in SUBSET Paths /\ \A r \in {p, q} : Unused(r)
    BY <1>1
  <2>2. \A r \in {p, q} : Len(content'[r]) <= MaxSize
    BY <1>2 DEF Told
  <2>3. QED
    BY <1>1, <1>2, <2>1, <2>2, FsTold
<1>4. /\ Text'[p] = NULL /\ Stored'[p] = NULL
      /\ Text'[q] = Bare(p) /\ Stored'[q] = Bare(p)
      /\ Text[p] = Bare(p) /\ Stored[p] = Bare(p)
      /\ Text[q] = Bare(q) /\ Stored[q] = Bare(q)
      /\ Abstract!Free(p) /\ Abstract!Free(q)
  BY <1>2, <1>3 DEF Bare
<1>5. CASE kind[p] = "file"
  <2>1. Bare(p) = content[p] /\ content[p] # NULL
    BY <1>5 DEF Bare, Core
  <2>2. /\ Text = [r \in Paths |-> Text[r]] /\ Text' = [r \in Paths |-> Text'[r]]
        /\ Stored = [r \in Paths |-> Stored[r]] /\ Stored' = [r \in Paths |-> Stored'[r]]
    BY <1>3, TextFacts, TextFactsNext DEF TextSound, Stored
  <2>3. Text' = [Text EXCEPT ![q] = Text[p], ![p] = NULL]
    BY <1>1, <1>3, <1>4, <2>2
  <2>4. Stored' = [Stored EXCEPT ![q] = Text[p], ![p] = NULL]
    BY <1>1, <1>3, <1>4, <2>2
  <2>5. Abstract!Rename(p, q)
    BY <1>3, <1>4, <2>1, <2>3, <2>4 DEF Abstract!Rename
  <2>6. QED
    BY <1>1, <1>3, <2>5 DEF Abstract!Next
<1>6. CASE kind[p] # "file"
  <2>1. kind[q] # "file"
    BY <1>1, <1>6
  <2>2. \A r \in Paths : Text'[r] = Text[r] /\ Stored'[r] = Stored[r]
    BY <1>3, <1>4, <1>6, <2>1 DEF Bare
  <2>3. UNCHANGED <<Text, Stored>>
    BY <1>3, <2>2, FilesStay
  <2>4. QED
    BY <1>3, <2>3
<1>7. QED
  BY <1>5, <1>6

\* A step that leaves files and streams alone is none of Files.
LEMMA NothingTold ==
  ASSUME Told, UNCHANGED <<io, kind, content, stream, lost>>
  PROVE  Told' /\ UNCHANGED <<Text, Stored, Places>>
<1>1. Told'
  BY DEF Told, IsOpen, View, Posix
<1>2. UNCHANGED <<Text, Stored, Places>>
  BY DEF Text, Stored, Places, Position, IsOpen, View, Posix, Unused, FsIsFile
<1>3. QED
  BY <1>1, <1>2

-------------------------------------------------------------------------------
\* Every step of the streams is a step of Files or none, whatever the call.
ToFiles == Told' /\ (Abstract!Next \/ UNCHANGED <<Text, Stored, Places>>)

\* What s holds meets a full disk.
LEMMA StoreFailsTold ==
  ASSUME Core, Core', Told, NEW s \in Streams, IsOpen(s), DiskFull(s, <<>>)
  PROVE  ToFiles
<1>1. PICK data \in Texts \cup {<<>>} : data = <<>>
  OBVIOUS
<1>2. DiskFull(s, data)
  BY <1>1
<1>3. Told' /\ Abstract!Next
  BY <1>1, <1>2, DiskFullFails
<1>4. QED
  BY <1>3 DEF ToFiles

\* What the host does between calls.
LEMMA HostTold ==
  ASSUME Core, Core', Told,
         \/ \E s \in Streams, p \in Paths, flags \in FlagSets : FileOpen(s, p, flags)
         \/ \E p \in Paths, flags \in FlagSets : FileOpenFails(p, flags)
         \/ \E s \in Streams : FileClose(s) \/ PosixFileFlush(s) \/ FileSize(s) \/ FileStoreFails(s)
         \/ \E s \in Streams, n \in 1 .. MaxSize : FileRead(s, n)
         \/ \E s \in Streams, data \in Texts :
              FileWrite(s, data) \/ FileWriteFails(s, data) \/ Printf(s, data)
         \/ \E s \in Streams, origin \in {"SET", "CUR", "END"}, offset \in Offsets :
              FileSeek(s, origin, offset)
         \/ \E p \in Paths : FsDelete(p) \/ FsMkdir(p) \/ FsRmdir(p)
         \/ \E p, q \in Paths : FsRename(p, q)
  PROVE  ToFiles
<1> USE DEF ToFiles
<1>1. ASSUME NEW s \in Streams, NEW p \in Paths, NEW flags \in FlagSets, FileOpen(s, p, flags)
      PROVE  ToFiles
  BY <1>1, OpensOpens DEF FileOpen
<1>2. ASSUME NEW p \in Paths, NEW flags \in FlagSets, FileOpenFails(p, flags)
      PROVE  ToFiles
  BY <1>2, OpenFailsTouches DEF FileOpenFails
<1>3. ASSUME NEW s \in Streams, FileClose(s)
      PROVE  ToFiles
  BY <1>3, ClosesCloses DEF FileClose
<1>4. ASSUME NEW s \in Streams, PosixFileFlush(s)
      PROVE  ToFiles
  BY <1>4, FlushStays, StaysMoves
<1>5. ASSUME NEW s \in Streams, FileSize(s)
      PROVE  ToFiles
  BY <1>5, SizesStays, StaysMoves DEF FileSize
<1>6. ASSUME NEW s \in Streams, NEW n \in 1 .. MaxSize, FileRead(s, n)
      PROVE  ToFiles
  <2>1. n \in Nat
    OBVIOUS
  <2>2. QED
    BY <1>6, <2>1, ReadsStays, StaysMoves DEF FileRead
<1>7. ASSUME NEW s \in Streams, NEW data \in Texts, FileWrite(s, data)
      PROVE  ToFiles
  <2>1. data \in Seq(Bytes) /\ Len(data) \in Nat /\ SubSeq(data, 1, Len(data)) = data
    OBVIOUS
  <2>2. data \in Prefixes(data)
    <3>1. Len(data) \in 0 .. Len(data)
      BY <2>1
    <3>2. \E k \in 0 .. Len(data) : data = SubSeq(data, 1, k)
      BY <2>1, <3>1
    <3>3. QED
      BY <3>2 DEF Prefixes
  <2>3. data \in UNION {Prefixes(t) : t \in Texts}
    BY <2>2
  <2>4. QED
    BY <1>7, <2>1, <2>3, WritesWrites DEF FileWrite
<1>8. ASSUME NEW s \in Streams, NEW data \in Texts, Printf(s, data)
      PROVE  ToFiles
  <2>1. PICK k : k = Min({Len(data), BufferSize - 1})
    OBVIOUS
  <2>2. Len(data) \in Nat /\ BufferSize - 1 \in Nat /\ data \in Seq(Bytes)
    OBVIOUS
  <2>3. k \in Nat /\ k <= Len(data)
    BY <2>1, <2>2, Min2
  <2>4. PICK d : d = SubSeq(data, 1, k)
    OBVIOUS
  <2>5. d \in Seq(Bytes) /\ d \in Prefixes(data)
    BY <2>2, <2>3, <2>4 DEF Prefixes
  <2>6. d \in UNION {Prefixes(t) : t \in Texts}
    BY <2>5
  <2>7. FileWrite(s, d)
    BY <1>8, <2>1, <2>4 DEF Printf
  <2>8. QED
    BY <2>5, <2>6, <2>7, WritesWrites DEF FileWrite
<1>9. ASSUME NEW s \in Streams, NEW origin \in {"SET", "CUR", "END"}, NEW offset \in Offsets,
             FileSeek(s, origin, offset)
      PROVE  ToFiles
  <2>1. PICK n : n = SeekBase(s, origin) + offset
    OBVIOUS
  <2>2. IsOpen(s) /\ Seeks(s, n)
    BY <1>9, <2>1 DEF FileSeek
  <2>3. /\ n \in Nat /\ n <= MaxSize
        /\ IF Posix THEN PosixFileSeek(s, n) ELSE WindowsFileSeek(s, n)
        /\ UNCHANGED <<io, handles, lost>>
    BY <2>2 DEF Seeks
  <2>4. QED
    BY <2>2, <2>3, SeeksStays, StaysMoves
<1>10. ASSUME NEW p \in Paths, FsDelete(p) \/ FsMkdir(p) \/ FsRmdir(p)
       PROVE  ToFiles
  BY <1>10, FsOne
<1>11. ASSUME NEW p \in Paths, NEW q \in Paths, FsRename(p, q)
       PROVE  ToFiles
  BY <1>11, FsTwo
<1>12. ASSUME NEW s \in Streams, NEW data \in Texts, FileWriteFails(s, data)
       PROVE  ToFiles
  <2>1. IsOpen(s) /\ WritesAt(s) + Len(data) <= MaxSize /\ DiskFull(s, data)
    BY <1>12 DEF FileWriteFails, PosixFileWriteFails
  <2>2. QED
    BY <2>1, DiskFullFails
<1>13. ASSUME NEW s \in Streams, FileStoreFails(s)
       PROVE  ToFiles
  BY <1>13, StoreFailsTold DEF FileStoreFails
<1> HIDE DEF ToFiles
<1>14. QED
  BY <1>1, <1>2, <1>3, <1>4, <1>5, <1>6, <1>7, <1>8, <1>9, <1>10, <1>11, <1>12, <1>13

\* What the calls over handlers do, a step at a time.
LEMMA CallStepsTold ==
  ASSUME IInv, Core', Told, CallTold,
         \/ \E s \in Streams, size \in LineSizes : ReadLine(s, size)
         \/ \E s \in Streams, p \in Paths : ReadEntireFile(s, p)
         \/ \E s \in Streams, p \in Paths, data \in Texts : WriteEntireFile(s, p, data)
         \/ CallStep
  PROVE  ToFiles
<1> USE DEF ToFiles
<1>1. Core
  BY IInvParts
<1>2. ASSUME NEW s \in Streams, NEW size \in LineSizes, ReadLine(s, size) PROVE ToFiles
  BY <1>2, NothingTold DEF ReadLine, fileVars
<1>3. ASSUME NEW s \in Streams, NEW p \in Paths, ReadEntireFile(s, p) PROVE ToFiles
  <2>1. {"READ"} \in SUBSET Flags /\ Opens(s, p, {"READ"})
    BY <1>3 DEF ReadEntireFile, Flags
  <2>2. QED
    BY <1>1, <2>1, OpensOpens
<1>4. ASSUME NEW s \in Streams, NEW p \in Paths, NEW data \in Texts, WriteEntireFile(s, p, data)
      PROVE  ToFiles
  <2>1. /\ {"WRITE", "CREATE", "TRUNCATE"} \in SUBSET Flags
        /\ Opens(s, p, {"WRITE", "CREATE", "TRUNCATE"})
    BY <1>4 DEF WriteEntireFile, Flags
  <2>2. QED
    BY <1>1, <2>1, OpensOpens
<1> DEFINE s == call.stream
<1>5. call # NULL => s \in Streams /\ IsOpen(s)
  BY CallFacts
<1>6. CASE LineByte
  <2>1. call # NULL /\ Reads(s, 1)
    BY <1>6 DEF LineByte, Doing
  <2>2. PICK n \in Nat : n = 1
    OBVIOUS
  <2>3. Reads(s, n)
    BY <2>1, <2>2
  <2> HIDE DEF s
  <2>4. QED
    BY <1>1, <1>5, <2>1, <2>3, ReadsStays, StaysMoves
<1>7. CASE LineReturn
  BY <1>7, NothingTold DEF LineReturn, fileVars
<1>8. CASE EntireSize
  <2>1. call # NULL /\ Sizes(s)
    BY <1>8 DEF EntireSize, At, Doing
  <2> HIDE DEF s
  <2>2. QED
    BY <1>1, <1>5, <2>1, SizesStays, StaysMoves
<1>9. CASE EntireAlloc
  BY <1>9, NothingTold DEF EntireAlloc, fileVars
<1>10. CASE EntireSizeFails \/ EntireAllocFails
  <2>1. call # NULL
    BY <1>10 DEF EntireSizeFails, EntireAllocFails, At, Doing
  <2>2. \/ Closes(s)
        \/ /\ stream' = [stream EXCEPT ![s] = NULL]
           /\ lost' = lost \cup {stream[s].path}
           /\ UNCHANGED <<io, kind, content>>
    BY <1>10 DEF EntireSizeFails, EntireAllocFails, EntireUndone, fileVars
  <2> HIDE DEF s
  <2>3. QED
    BY <1>1, <1>5, <2>1, <2>2, ClosesCloses, LosesCloses
<1>11. CASE EntireRead
  <2>1. call # NULL /\ call.name = "read" /\ Reads(s, call.size)
    BY <1>11 DEF EntireRead, At, Doing
  <2>2. call.size \in Nat
    BY <2>1, CallFacts DEF EntireFileRead
  <2> HIDE DEF s
  <2>3. QED
    BY <1>1, <1>5, <2>1, <2>2, ReadsStays, StaysMoves
<1>12. CASE EntireWrite
  <2>1. call # NULL /\ Writes(s, call.data) /\ call.data \in Texts
    BY <1>12 DEF EntireWrite, At, Doing, CallTold
  <2>2. PICK d \in Texts : d = call.data
    BY <2>1
  <2>3. d \in Seq(Bytes) /\ Len(d) \in Nat /\ SubSeq(d, 1, Len(d)) = d
    OBVIOUS
  <2>4. d \in Prefixes(d)
    <3>1. Len(d) \in 0 .. Len(d)
      BY <2>3
    <3>2. \E k \in 0 .. Len(d) : d = SubSeq(d, 1, k)
      BY <2>3, <3>1
    <3>3. QED
      BY <3>2 DEF Prefixes
  <2>5. d \in UNION {Prefixes(t) : t \in Texts}
    BY <2>4
  <2> HIDE DEF s
  <2>6. Writes(s, d)
    BY <2>1, <2>2
  <2>7. QED
    BY <1>1, <1>5, <2>1, <2>3, <2>5, <2>6, WritesWrites
<1>13. CASE EntireWriteFails
  <2>1. call # NULL /\ call.data \in Texts
    BY <1>13 DEF EntireWriteFails, At, Doing, CallTold
  <2>2. PICK d \in Texts : d = call.data
    BY <2>1
  <2>3. CASE Posix
    <3>1. WritesAt(s) + Len(d) <= MaxSize /\ DiskFull(s, d)
      BY <1>13, <2>2, <2>3 DEF EntireWriteFails, PosixFileWriteFails
    <3> HIDE DEF s
    <3>2. QED
      BY <1>1, <1>5, <2>1, <3>1, DiskFullFails
  <2>4. CASE ~Posix
    BY <1>13, <2>4, NothingTold DEF EntireWriteFails, fileVars
  <2>5. QED
    BY <2>3, <2>4
<1>16. CASE LineByteFails
  <2>1. call # NULL /\ DiskFull(s, <<>>)
    BY <1>16 DEF LineByteFails, Doing
  <2> HIDE DEF s
  <2>2. QED
    BY <1>1, <1>5, <2>1, StoreFailsTold
<1>14. CASE EntireClose
  <2>1. call # NULL /\ Closes(s)
    BY <1>14 DEF EntireClose, At, Doing
  <2> HIDE DEF s
  <2>2. QED
    BY <1>1, <1>5, <2>1, ClosesCloses
<1> HIDE DEF ToFiles, s
<1>15. QED
  BY <1>2, <1>3, <1>4, <1>6, <1>7, <1>8, <1>9, <1>10, <1>11, <1>12, <1>13, <1>14,
     <1>16
  DEF CallStep

\* What a whole file is to be written with stays one of the host's texts.
LEMMA CallToldKept == IInv /\ CallTold /\ [Next]_vars => CallTold'
<1> SUFFICES ASSUME IInv, CallTold, [Next]_vars, Doing("write")', call'.step = "data"
             PROVE  call'.data \in Texts
  BY DEF CallTold
<1>1. call' # NULL /\ call'.name = "write"
  BY DEF Doing
<1>2. CASE call' = call
  BY <1>1, <1>2 DEF CallTold, Doing
<1>3. ASSUME NEW s \in Streams, NEW p \in Paths, NEW data \in Texts, WriteEntireFile(s, p, data)
      PROVE  call'.data \in Texts
  BY <1>3 DEF WriteEntireFile
<1>4. ~(\E s \in Streams, size \in LineSizes : ReadLine(s, size))
  BY <1>1 DEF ReadLine
<1>5. ~(\E s \in Streams, p \in Paths : ReadEntireFile(s, p))
  BY <1>1 DEF ReadEntireFile
<1>6. /\ ~LineByte /\ ~LineByteFails /\ ~LineReturn
      /\ ~EntireSize /\ ~EntireSizeFails /\ ~EntireAlloc /\ ~EntireAllocFails /\ ~EntireRead
  <2>1. call # NULL /\ call.name = "line" => call \in Line
    BY CallFacts
  <2>2. call # NULL /\ call.name = "read" => call \in EntireFileRead
    BY CallFacts
  <2>3. ~LineByte
    BY <1>1, <2>1 DEF LineByte, Doing, Line
  <2>4. ~EntireSize /\ ~EntireAlloc /\ ~EntireRead
    BY <1>1, <2>2 DEF EntireSize, EntireAlloc, EntireRead, At, Doing, EntireFileRead
  <2>5. ~LineByteFails /\ ~LineReturn /\ ~EntireSizeFails /\ ~EntireAllocFails
    BY <1>1 DEF LineByteFails, LineReturn, EntireSizeFails, EntireAllocFails
  <2>6. QED
    BY <2>3, <2>4, <2>5
<1>7. ~EntireWrite /\ ~EntireWriteFails /\ ~EntireClose
  <2>1. call # NULL /\ call.name = "write" => call \in EntireFileWrite
    BY CallFacts
  <2>2. ASSUME EntireWrite \/ EntireWriteFails PROVE FALSE
    <3>1. call \in EntireFileWrite
      BY <2>1, <2>2 DEF EntireWrite, EntireWriteFails, At, Doing
    <3>2. call'.step = "close"
      BY <2>2, <3>1 DEF EntireWrite, EntireWriteFails, EntireFileWrite
    <3>3. QED
      BY <3>2
  <2>3. ~EntireClose
    BY <1>1 DEF EntireClose
  <2>4. QED
    BY <2>2, <2>3
<1>8. CASE \/ \E s \in Streams, p \in Paths, flags \in FlagSets : FileOpen(s, p, flags)
           \/ \E p \in Paths, flags \in FlagSets : FileOpenFails(p, flags)
           \/ \E s \in Streams : FileClose(s) \/ PosixFileFlush(s) \/ FileSize(s) \/ FileStoreFails(s)
           \/ \E s \in Streams, n \in 1 .. MaxSize : FileRead(s, n)
           \/ \E s \in Streams, data \in Texts :
                FileWrite(s, data) \/ FileWriteFails(s, data) \/ Printf(s, data)
           \/ \E s \in Streams, origin \in {"SET", "CUR", "END"}, offset \in Offsets :
                FileSeek(s, origin, offset)
           \/ \E p \in Paths : FsDelete(p) \/ FsMkdir(p) \/ FsRmdir(p)
           \/ \E p, q \in Paths : FsRename(p, q)
  <2>1. call' = call
    BY <1>8 DEF FileOpen, FileOpenFails, OpenFails, FileClose, PosixFileFlush, FileSize,
                FileRead, FileWrite, FileWriteFails, FileStoreFails, Printf, FileSeek, FsDelete, FsMkdir, FsRmdir, FsRename,
                Changes
  <2>2. QED
    BY <1>2, <2>1
<1>9. CASE UNCHANGED vars
  BY <1>2, <1>9 DEF vars
<1>10. QED
  BY <1>3, <1>4, <1>5, <1>6, <1>7, <1>8, <1>9 DEF Next, CallStep

\* Every step keeps the invariant, and is a step of Files or none.
LEMMA NextTold == RefInv /\ [Next]_vars => RefInv' /\ [Abstract!Next]_<<Text, Stored, Places>>
<1> SUFFICES ASSUME RefInv, [Next]_vars
             PROVE  RefInv' /\ [Abstract!Next]_<<Text, Stored, Places>>
  OBVIOUS
<1>1. IInv /\ Told /\ CallTold
  BY DEF RefInv
<1>2. IInv' /\ CallTold'
  BY <1>1, NextIInv, CallToldKept
<1>3. Core /\ Core'
  BY <1>1, <1>2 DEF IInv, TypeOK, Core
<1>4. ToFiles
  <2>1. CASE UNCHANGED vars
    <3>1. UNCHANGED <<io, kind, content, stream, lost>>
      BY <2>1 DEF vars, fileVars
    <3>2. QED
      BY <1>1, <3>1, NothingTold DEF ToFiles
  <2>2. CASE Next
    BY <1>1, <1>3, <2>2, HostTold, CallStepsTold DEF Next
  <2>3. QED
    BY <2>1, <2>2
<1>5. QED
  BY <1>1, <1>2, <1>4 DEF RefInv, ToFiles

\* At first there are no files.
LEMMA InitTold == Init => RefInv /\ Abstract!Init
<1> SUFFICES ASSUME Init PROVE RefInv /\ Abstract!Init
  OBVIOUS
<1>1. IInv
  BY InitIInv
<1>2. \A s \in Streams : ~IsOpen(s)
  BY DEF Init, IsOpen
<1>3. Told /\ CallTold
  <2>1. \A p \in Paths : Len(content[p]) <= MaxSize
    BY DEF Init
  <2>2. QED
    BY <1>2, <2>1 DEF Told, CallTold, Doing, Init
<1>4. Abstract!Init
  <2>1. Text = [p \in Paths |-> NULL] /\ Stored = [p \in Paths |-> NULL]
    BY DEF Text, Stored, FsIsFile, Init
  <2>2. Places = [s \in Streams |-> NULL]
    BY <1>2 DEF Places, Position
  <2>3. QED
    BY <2>1, <2>2 DEF Abstract!Init
<1>5. QED
  BY <1>1, <1>3, <1>4 DEF RefInv

\* Buffers, marks, modes, builds, failures and the calls over handlers implement files
\* with positions: whatever the host does, what its streams see and what the disk has
\* is what Files allows.
THEOREM IoImplementsFiles == Spec => ImplementsFiles
<1>1. Init => RefInv /\ Abstract!Init
  BY InitTold
<1>2. RefInv /\ [Next]_vars => RefInv' /\ [Abstract!Next]_<<Text, Stored, Places>>
  BY NextTold
<1>3. QED
  BY <1>1, <1>2, PTL DEF Spec, ImplementsFiles, Abstract!Spec

===============================================================================
