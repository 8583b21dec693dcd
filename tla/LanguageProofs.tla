----------------------------- MODULE LanguageProofs -----------------------------
(***************************************************************************)
(* Proofs about the two ends of the language: Lexer, for every text, every *)
(* size of a page and every set of characters, and Svm, for every set of   *)
(* instructions, width of an argument byte, word and first capacity, in a  *)
(* debug and in a release build.                                           *)
(***************************************************************************)
EXTENDS Lexer, Svm, DataLemmas

-------------------------------------------------------------------------------
(* The lexical analyser: the inductive invariant.                             *)

Position == [offset : Nat, line : Nat, column : Nat]
Stream == [kind : {"text", "file", "repl", "closed"}, buffer : Seq(Character),
           unread : Seq(Character), streamSize : Nat, delta : Nat,
           current : Position, forward : Position, stale : BOOLEAN]

StreamSound(s) ==
  /\ s \in Stream
  /\ s.current.offset <= s.forward.offset
  /\ s.forward.offset <= Len(s.buffer)
  /\ s.kind = "repl" => Len(s.buffer) = Page

\* The buffer of a file is a window on its text, and what is unread follows it.
ShowsFile(s, t) ==
  /\ s.streamSize = Len(t)
  /\ s.delta + Len(s.buffer) + Len(s.unread) = Len(t)
  /\ \A k \in 1 .. Len(s.buffer) : s.buffer[k] = t[s.delta + k]
  /\ \A k \in 1 .. Len(s.unread) : s.unread[k] = t[s.delta + Len(s.buffer) + k]

\* The buffer of an interactive stream starts with the line that t has from o on,
\* and a NUL.
ShowsLine(s, t, o) ==
  /\ o + s.forward.offset <= Len(t)
  /\ Len(t) - o < Page
  /\ \A k \in 1 .. Len(t) - o : s.buffer[k] = t[o + k] /\ t[o + k] # NUL
  /\ s.buffer[Len(t) - o + 1] = NUL

Shows(s, t, o) ==
  /\ s.kind # "closed"
  /\ s.kind = "file" => ShowsFile(s, t)
  /\ s.kind = "text" => s.buffer = t /\ o = 0
  /\ s.kind = "repl" => ShowsLine(s, t, o)

Base(s, o) == IF s.kind = "file" THEN s.delta ELSE o

NewlinesIn(t, n) == {k \in 1 .. n : t[k] = "\n"}

\* The line and the column are those of the place behind the first n of t.
ExactAt(pos, t, n) ==
  /\ pos.line = 1 + Cardinality(NewlinesIn(t, n))
  /\ \E bol \in NewlinesIn(t, n) \cup {0} :
       /\ \A k \in NewlinesIn(t, n) : k <= bol
       /\ pos.column = n - bol + 1

\* A position of a stream is where its offset is in the text.
Placed(pos, s, t, o) == ExactAt(pos, t, Base(s, o) + pos.offset)

IsDigits(lexeme, base) ==
  \/ /\ base = 10 /\ lexeme[1] \in Digit \ {"0"}
     /\ \A i \in 1 .. Len(lexeme) : lexeme[i] \in DigitOf[10]
  \/ /\ base \in {2, 8, 10, 16} /\ lexeme[1] = "0" /\ Len(lexeme) >= 2
     /\ RadixOf(lexeme[2]) = base
     /\ \A i \in 3 .. Len(lexeme) : lexeme[i] \in DigitOf[base]

Triples == {<<"<", "<", "=">>, <<">", ">", "=">>, <<".", ".", ".">>}
Comments == {<<"/", "/">>, <<"/", "*">>}

IsPunctuation(lexeme) ==
  \/ Len(lexeme) = 1
  \/ /\ Len(lexeme) = 2 /\ lexeme[1] \in DOMAIN Second /\ lexeme[2] \in Second[lexeme[1]]
     /\ lexeme \notin Comments
  \/ lexeme \in Triples

IsBlock(lexeme) == Len(lexeme) >= 2 /\ lexeme[1] = "/" /\ lexeme[2] = "*"

\* What is read of a lexeme, wherever the scanner stands.
Shape(m, base, n, lexeme, peek) ==
  /\ m = "zero" => lexeme = <<"0">>
  /\ m = "digits" =>
       /\ lexeme # <<>> /\ IsDigits(lexeme, base)
       /\ Len(lexeme) = 2 /\ lexeme[1] = "0" => peek \in DigitOf[base]
  /\ m = "ident" =>
       /\ lexeme # <<>> /\ lexeme[1] \in IdentStart
       /\ \A i \in 2 .. Len(lexeme) : lexeme[i] \in Ident
  /\ m = "punct" => IsPunctuation(lexeme)
  /\ m = "line" =>
       /\ Len(lexeme) >= 2 /\ lexeme[1] = "/" /\ lexeme[2] = "/"
       /\ \A i \in 1 .. Len(lexeme) : lexeme[i] # "\n"
  /\ m \in {"block", "star", "slash"} => IsBlock(lexeme) /\ n >= 1
  /\ m = "star" => Len(lexeme) >= 3 /\ Last(lexeme) = "*"
  /\ m = "slash" => Len(lexeme) >= 3

MadeSound ==
  made => /\ mode = "host"
          /\ token = MakeToken(token.code, source, token.radix)
          /\ Answered(token.code, token.radix, RawLexeme(source), Peek)

Modes == {"prompt", "host", "lost", "closed", "space", "zero", "digits", "ident", "punct",
          "line", "block", "star", "slash"}

StateType ==
  /\ mode \in Modes /\ radix \in {0, 2, 8, 10, 16} /\ counter \in Nat
  /\ made \in BOOLEAN /\ text \in Seq(Character) /\ origin \in 0 .. Len(text)
  /\ dropped \in BOOLEAN

\* The stream shows its text, and its positions are at their places: the end of the
\* lexeme always, its start from when a token is begun.
SourceInv ==
  /\ StreamSound(source)
  /\ mode # "closed" /\ ~source.stale => Shows(source, text, origin)
  /\ mode # "closed" /\ ~source.stale /\ ~dropped =>
       /\ Placed(source.forward, source, text, origin)
       /\ mode # "space" => Placed(source.current, source, text, origin)

LexemeInv == Shape(mode, radix, counter, RawLexeme(source), Peek)

LexerInv ==
  /\ StateType /\ SourceInv /\ LexemeInv /\ MadeSound
  /\ mode = "prompt" => text = <<>>

-------------------------------------------------------------------------------
(* Streams.                                                                   *)

\* A part of a sequence.
LEMMA PartFacts ==
  ASSUME NEW S, NEW t \in Seq(S), NEW a \in Nat, NEW b \in Nat, b <= Len(t), a <= b
  PROVE  /\ SubSeq(t, a + 1, b) \in Seq(S) /\ Len(SubSeq(t, a + 1, b)) = b - a
         /\ \A k \in 1 .. b - a : SubSeq(t, a + 1, b)[k] = t[a + k]
  OBVIOUS

\* A part that goes on by one.
LEMMA PartNext ==
  ASSUME NEW S, NEW t \in Seq(S), NEW a \in Nat, NEW b \in Nat, b + 1 <= Len(t), a <= b
  PROVE  SubSeq(t, a + 1, b + 1) = Append(SubSeq(t, a + 1, b), t[b + 1])
<1> DEFINE p == SubSeq(t, a + 1, b)
           q == SubSeq(t, a + 1, b + 1)
<1>1. /\ p \in Seq(S) /\ Len(p) = b - a /\ \A k \in 1 .. b - a : p[k] = t[a + k]
      /\ q \in Seq(S) /\ Len(q) = b + 1 - a /\ \A k \in 1 .. b + 1 - a : q[k] = t[a + k]
  OBVIOUS
<1>2. t[b + 1] \in S
  OBVIOUS
<1> HIDE DEF p, q
<1>3. /\ Append(p, t[b + 1]) \in Seq(S) /\ Len(Append(p, t[b + 1])) = b + 1 - a
      /\ \A k \in 1 .. b + 1 - a : Append(p, t[b + 1])[k] = t[a + k]
  BY <1>1, <1>2
<1>4. q = Append(p, t[b + 1])
  <2>1. PICK r \in Seq(S) : r = Append(p, t[b + 1])
    BY <1>3
  <2>2. Len(q) = Len(r) /\ \A k \in 1 .. Len(q) : q[k] = r[k]
    BY <1>1, <1>3, <2>1
  <2>3. \A x, y \in Seq(S) : Len(x) = Len(y) /\ (\A k \in 1 .. Len(x) : x[k] = y[k]) => x = y
    OBVIOUS
  <2>4. QED
    BY <1>1, <2>1, <2>2, <2>3, Zenon
<1>5. QED
  BY <1>4 DEF p, q

\* The lexeme of a stream, and its length.
LEMMA LexemeFacts ==
  ASSUME NEW s, StreamSound(s)
  PROVE  /\ RawLexeme(s) \in Seq(Character) /\ LexemeLength(s) \in Nat
         /\ Len(RawLexeme(s)) = LexemeLength(s) /\ LexemeLength(s) <= Len(s.buffer)
         /\ \A k \in 1 .. LexemeLength(s) : RawLexeme(s)[k] = s.buffer[s.current.offset + k]
<1>1. /\ s.buffer \in Seq(Character) /\ s.current.offset \in Nat /\ s.forward.offset \in Nat
      /\ s.current.offset <= s.forward.offset /\ s.forward.offset <= Len(s.buffer)
  BY DEF StreamSound, Stream, Position
<1>2. PICK t \in Seq(Character), a \in Nat, b \in Nat :
        t = s.buffer /\ a = s.current.offset /\ b = s.forward.offset
  BY <1>1
<1>3. a <= b /\ b <= Len(t)
  BY <1>1, <1>2
<1>4. /\ SubSeq(t, a + 1, b) \in Seq(Character) /\ Len(SubSeq(t, a + 1, b)) = b - a
      /\ \A k \in 1 .. b - a : SubSeq(t, a + 1, b)[k] = t[a + k]
  BY <1>3, PartFacts
<1>5. RawLexeme(s) = SubSeq(t, a + 1, b) /\ LexemeLength(s) = b - a
  BY <1>2 DEF RawLexeme, LexemeLength
<1>6. b - a \in Nat /\ b - a <= Len(t)
  BY <1>3
<1>7. QED
  BY <1>2, <1>4, <1>5, <1>6

\* What can be read is no end.
LEMMA ByteFacts ==
  ASSUME NEW s, StreamSound(s), ~AtBufferEnd(s)
  PROVE  /\ ByteAt(s) \in Character /\ s.forward.offset + 1 \in 1 .. Len(s.buffer)
         /\ ByteAt(s) # EOF
<1>1. /\ s.buffer \in Seq(Character) /\ s.forward.offset \in Nat
      /\ s.forward.offset <= Len(s.buffer)
  BY DEF StreamSound, Stream, Position
<1>2. s.forward.offset + 1 \in 1 .. Len(s.buffer)
  BY <1>1 DEF AtBufferEnd, BufferSize
<1>3. s.buffer[s.forward.offset + 1] \in Character
  BY <1>1, <1>2
<1>4. QED
  BY <1>2, <1>3, SourceAssumption DEF ByteAt

\* A step of the position: one on, except at a NUL.
LEMMA StepFacts ==
  ASSUME NEW pos \in Position, NEW c
  PROVE  /\ Step(pos, c) \in Position
         /\ Step(pos, c).offset = pos.offset + (IF c = NUL THEN 0 ELSE 1)
         /\ c = NUL => Step(pos, c) = pos
         /\ c = "\n" => Step(pos, c).line = pos.line + 1 /\ Step(pos, c).column = 1
         /\ c # "\n" /\ c # NUL => /\ Step(pos, c).line = pos.line
                                   /\ Step(pos, c).column = pos.column + 1
<1>0. "\n" # NUL
  BY DEF NUL
<1>1. CASE c = NUL
  BY <1>1, <1>0 DEF Step, Position
<1>2. CASE c = "\n"
  <2>1. Step(pos, c) = [offset |-> pos.offset + 1, line |-> pos.line + 1, column |-> 1]
    BY <1>0, <1>2 DEF Step
  <2>2. QED
    BY <2>1, <1>2, <1>0 DEF Position
<1>3. CASE c # NUL /\ c # "\n"
  <2>1. Step(pos, c) = [pos EXCEPT !.offset = @ + 1, !.column = @ + 1]
    BY <1>3 DEF Step
  <2>2. [pos EXCEPT !.offset = @ + 1, !.column = @ + 1]
          = [offset |-> pos.offset + 1, line |-> pos.line, column |-> pos.column + 1]
    <3> DEFINE p == [pos EXCEPT !.offset = @ + 1]
    <3>1. p = [offset |-> pos.offset + 1, line |-> pos.line, column |-> pos.column]
      BY DEF Position
    <3> HIDE DEF p
    <3>2. [p EXCEPT !.column = pos.column + 1]
            = [offset |-> pos.offset + 1, line |-> pos.line, column |-> pos.column + 1]
      BY <3>1
    <3>3. QED
      BY <3>2 DEF p
  <2>3. Step(pos, c) = [offset |-> pos.offset + 1, line |-> pos.line, column |-> pos.column + 1]
    BY <2>1, <2>2
  <2>4. QED
    BY <2>3, <1>3 DEF Position
<1>4. QED
  BY <1>1, <1>2, <1>3

\* Another position behind a stream.
Moved(s, pos) == [s EXCEPT !.forward = pos]

LEMMA MovedFacts ==
  ASSUME NEW s, StreamSound(s), NEW pos \in Position,
         s.current.offset <= pos.offset, pos.offset <= Len(s.buffer)
  PROVE  /\ StreamSound(Moved(s, pos)) /\ Moved(s, pos).forward = pos
         /\ Moved(s, pos).kind = s.kind /\ Moved(s, pos).buffer = s.buffer
         /\ Moved(s, pos).unread = s.unread /\ Moved(s, pos).streamSize = s.streamSize
         /\ Moved(s, pos).delta = s.delta /\ Moved(s, pos).current = s.current
         /\ Moved(s, pos).stale = s.stale
  BY DEF StreamSound, Stream, Moved

\* What a read of a byte leaves: the end, which is not passed, or one more
\* character of the lexeme.
Reads(s, c, next) ==
  \/ /\ c = EOF /\ RawLexeme(next) = RawLexeme(s) /\ SourcePeek(next) = EOF
  \/ /\ c \in Character \ {NUL} /\ RawLexeme(next) = Append(RawLexeme(s), c)

LEMMA ReadByteFacts ==
  ASSUME NEW s, StreamSound(s), ~AtBufferEnd(s)
  PROVE  /\ StreamSound(ReadByte(s).source)
         /\ ReadByte(s).source = Moved(s, Step(s.forward, ByteAt(s)))
         /\ ReadByte(s).c = SourcePeek(s)
         /\ Reads(s, ReadByte(s).c, ReadByte(s).source)
<1> DEFINE r == ReadByte(s).source
           pos == Step(s.forward, ByteAt(s))
<1>1. r = Moved(s, pos) /\ ReadByte(s).c = SourcePeek(s)
  BY DEF ReadByte, SourcePeek, Moved
<1>2. /\ s.forward \in Position /\ s.current.offset \in Nat /\ s.forward.offset \in Nat
      /\ s.current.offset <= s.forward.offset /\ s.buffer \in Seq(Character)
      /\ s.forward.offset + 1 <= Len(s.buffer)
  BY ByteFacts DEF StreamSound, Stream, Position
<1>3. /\ pos \in Position
      /\ pos.offset = s.forward.offset + (IF ByteAt(s) = NUL THEN 0 ELSE 1)
      /\ ByteAt(s) = NUL => pos = s.forward
  BY <1>2, StepFacts
<1>4. /\ StreamSound(r) /\ r.buffer = s.buffer /\ r.current = s.current /\ r.forward = pos
  BY <1>1, <1>2, <1>3, MovedFacts
<1>5. CASE ByteAt(s) = NUL
  <2>1. RawLexeme(r) = RawLexeme(s)
    BY <1>3, <1>4, <1>5 DEF RawLexeme
  <2>2. SourcePeek(r) = EOF /\ ReadByte(s).c = EOF
    BY <1>1, <1>3, <1>4, <1>5 DEF SourcePeek, ByteAt
  <2>3. QED
    BY <2>1, <2>2, <1>1, <1>4 DEF Reads
<1>6. CASE ByteAt(s) # NUL
  <2>1. ReadByte(s).c = ByteAt(s) /\ ByteAt(s) \in Character \ {NUL}
    BY <1>1, <1>6, ByteFacts DEF SourcePeek
  <2>2. SubSeq(s.buffer, s.current.offset + 1, s.forward.offset + 1)
          = Append(SubSeq(s.buffer, s.current.offset + 1, s.forward.offset),
                   s.buffer[s.forward.offset + 1])
    BY <1>2, PartNext
  <2>3. RawLexeme(r) = Append(RawLexeme(s), ByteAt(s))
    BY <2>2, <1>3, <1>4, <1>6 DEF RawLexeme, ByteAt
  <2>4. QED
    BY <2>1, <2>3, <1>1, <1>4 DEF Reads
<1>7. QED
  BY <1>5, <1>6

\* Three parts in a row.
LEMMA JoinFacts ==
  ASSUME NEW S, NEW p \in Seq(S), NEW q \in Seq(S), NEW r \in Seq(S)
  PROVE  /\ p \o q \o r \in Seq(S) /\ Len(p \o q \o r) = Len(p) + Len(q) + Len(r)
         /\ \A k \in 1 .. Len(p) : (p \o q \o r)[k] = p[k]
         /\ \A k \in 1 .. Len(q) : (p \o q \o r)[Len(p) + k] = q[k]
<1>0. p \o q \in Seq(S) /\ Len(p \o q) = Len(p) + Len(q)
  OBVIOUS
<1>1. PICK pq \in Seq(S) : pq = p \o q /\ Len(pq) = Len(p) + Len(q)
  BY <1>0
<1>2. /\ \A k \in 1 .. Len(p) : pq[k] = p[k]
      /\ \A k \in 1 .. Len(q) : pq[Len(p) + k] = q[k]
  BY <1>1
<1>3. /\ pq \o r \in Seq(S) /\ Len(pq \o r) = Len(pq) + Len(r)
      /\ \A k \in 1 .. Len(pq) : (pq \o r)[k] = pq[k]
  OBVIOUS
<1>4. \A k \in 1 .. Len(q) : Len(p) + k \in 1 .. Len(pq)
  BY <1>1
<1>5. \A k \in 1 .. Len(p) : k \in 1 .. Len(pq)
  BY <1>1
<1>6. pq \o r = p \o q \o r
  BY <1>1
<1>7. QED
  BY <1>1, <1>2, <1>3, <1>4, <1>5, <1>6

\* A refill keeps the lexeme and the size of the buffer, and makes room behind it.
LEMMA RefillFacts ==
  ASSUME NEW s, StreamSound(s), NeedsRefill(s), Room(s) # 0
  PROVE  \E got \in Nat :
           /\ got <= Len(s.unread) /\ got <= Room(s)
           /\ Refill(s).stale = (s.stale \/ got < Room(s))
           /\ StreamSound(Refill(s)) /\ ~AtBufferEnd(Refill(s))
           /\ Refill(s).kind = s.kind /\ Refill(s).streamSize = s.streamSize
           /\ Refill(s).delta = s.delta + s.current.offset
           /\ Refill(s).current = [s.current EXCEPT !.offset = 0]
           /\ Refill(s).forward = [s.forward EXCEPT !.offset = LexemeLength(s)]
           /\ Len(Refill(s).buffer) = Len(s.buffer)
           /\ Refill(s).unread = SubSeq(s.unread, got + 1, Len(s.unread))
           /\ \A k \in 1 .. LexemeLength(s) : Refill(s).buffer[k] = s.buffer[s.current.offset + k]
           /\ \A k \in 1 .. got : Refill(s).buffer[LexemeLength(s) + k] = s.unread[k]
           /\ RawLexeme(Refill(s)) = RawLexeme(s)
<1> DEFINE got == IF Len(s.unread) < Room(s) THEN Len(s.unread) ELSE Room(s)
           kept == LexemeLength(s)
           lexeme == RawLexeme(s)
           read == SubSeq(s.unread, 1, got)
           left == SubSeq(s.buffer, kept + got + 1, BufferSize(s))
           rest == SubSeq(s.unread, got + 1, Len(s.unread))
           buffer == lexeme \o read \o left
           r == Refill(s)
<1>1. /\ s \in Stream /\ s.buffer \in Seq(Character) /\ s.unread \in Seq(Character)
      /\ s.current \in Position /\ s.forward \in Position /\ s.delta \in Nat
      /\ s.current.offset \in Nat /\ s.forward.offset \in Nat /\ s.stale \in BOOLEAN
      /\ Len(s.buffer) \in Nat /\ Len(s.unread) \in Nat
      /\ s.kind = "file"
  BY DEF StreamSound, Stream, Position, NeedsRefill
<1>2. /\ lexeme \in Seq(Character) /\ kept \in Nat /\ Len(lexeme) = kept /\ kept <= Len(s.buffer)
      /\ \A k \in 1 .. kept : lexeme[k] = s.buffer[s.current.offset + k]
  BY LexemeFacts
<1>3. Room(s) = Len(s.buffer) - kept /\ Room(s) \in Nat /\ Room(s) > 0 /\ BufferSize(s) = Len(s.buffer)
  BY <1>1, <1>2 DEF Room, BufferSize
<1>4. got \in Nat /\ got <= Len(s.unread) /\ got <= Room(s)
  BY <1>1, <1>3
<1>5. r = [s EXCEPT !.buffer = buffer, !.unread = rest, !.delta = s.delta + s.current.offset,
                    !.current.offset = 0, !.forward.offset = kept,
                    !.stale = s.stale \/ got < Room(s)]
  BY DEF Refill
<1> HIDE DEF got, kept, lexeme, r
<1>6. /\ read \in Seq(Character) /\ Len(read) = got /\ \A k \in 1 .. got : read[k] = s.unread[k]
  BY <1>1, <1>4
<1>7. /\ left \in Seq(Character) /\ Len(left) = Len(s.buffer) - (kept + got)
  <2>1. kept + got \in Nat /\ kept + got <= Len(s.buffer)
    BY <1>1, <1>2, <1>3, <1>4
  <2>2. QED
    BY <2>1, <1>1, <1>3, PartFacts
<1>8. rest \in Seq(Character)
  BY <1>1, <1>4
<1> HIDE DEF read, left, rest
<1>9. /\ buffer \in Seq(Character) /\ Len(buffer) = Len(s.buffer)
      /\ \A k \in 1 .. kept : buffer[k] = lexeme[k]
      /\ \A k \in 1 .. got : buffer[kept + k] = read[k]
  <2>1. /\ buffer \in Seq(Character) /\ Len(buffer) = Len(lexeme) + Len(read) + Len(left)
        /\ \A k \in 1 .. Len(lexeme) : buffer[k] = lexeme[k]
        /\ \A k \in 1 .. Len(read) : buffer[Len(lexeme) + k] = read[k]
    <3>1. lexeme \in Seq(Character) /\ read \in Seq(Character) /\ left \in Seq(Character)
      BY <1>2, <1>6, <1>7
    <3>2. PICK p \in Seq(Character), q \in Seq(Character), t \in Seq(Character) :
            p = lexeme /\ q = read /\ t = left
      BY <3>1
    <3>3. /\ p \o q \o t \in Seq(Character) /\ Len(p \o q \o t) = Len(p) + Len(q) + Len(t)
          /\ \A k \in 1 .. Len(p) : (p \o q \o t)[k] = p[k]
          /\ \A k \in 1 .. Len(q) : (p \o q \o t)[Len(p) + k] = q[k]
      BY JoinFacts
    <3>4. QED
      BY <3>2, <3>3
  <2> HIDE DEF buffer
  <2>2. Len(s.buffer) = kept + got + Len(left)
    <3>1. kept \in Nat /\ got \in Nat /\ Len(s.buffer) \in Nat
      BY <1>1, <1>2, <1>4
    <3>2. Len(left) = Len(s.buffer) - (kept + got)
      BY <1>7
    <3>3. PICK n \in Nat : n = Len(s.buffer)
      BY <3>1
    <3>4. n = kept + got + (n - (kept + got))
      BY <3>1
    <3>5. QED
      BY <3>2, <3>3, <3>4
  <2>3. QED
    BY <2>1, <2>2, <1>2, <1>6
<1> HIDE DEF buffer
<1>10. /\ r \in Stream /\ r.buffer = buffer /\ r.unread = rest /\ r.delta = s.delta + s.current.offset
       /\ r.kind = s.kind /\ r.streamSize = s.streamSize
       /\ r.current = [s.current EXCEPT !.offset = 0]
       /\ r.forward = [s.forward EXCEPT !.offset = kept]
       /\ r.stale = (s.stale \/ got < Room(s))
  <2> DEFINE moved == [s EXCEPT !.buffer = buffer, !.unread = rest,
                                !.delta = s.delta + s.current.offset]
  <2>1. /\ moved \in Stream /\ moved.buffer = buffer /\ moved.unread = rest
        /\ moved.delta = s.delta + s.current.offset /\ moved.kind = s.kind
        /\ moved.streamSize = s.streamSize /\ moved.current = s.current
        /\ moved.forward = s.forward /\ moved.stale = s.stale
    <3>1. s.delta + s.current.offset \in Nat
      BY <1>1
    <3>2. moved \in Stream
      BY <1>1, <1>8, <1>9, <3>1 DEF Stream
    <3>3. moved.buffer = buffer /\ moved.unread = rest
      BY <1>1 DEF Stream
    <3>4. moved.delta = s.delta + s.current.offset /\ moved.kind = s.kind
      BY <1>1 DEF Stream
    <3>5. moved.streamSize = s.streamSize /\ moved.current = s.current
      BY <1>1 DEF Stream
    <3>6. moved.forward = s.forward /\ moved.stale = s.stale
      BY <1>1 DEF Stream
    <3>7. QED
      BY <3>2, <3>3, <3>4, <3>5, <3>6
  <2>2. r = [moved EXCEPT !.current.offset = 0, !.forward.offset = kept,
                          !.stale = s.stale \/ got < Room(s)]
    BY <1>5
  <2> HIDE DEF moved
  <2>3. [s.current EXCEPT !.offset = 0] \in Position
    BY <1>1 DEF Position
  <2>4. [s.forward EXCEPT !.offset = kept] \in Position
    BY <1>1, <1>2 DEF Position
  <2>5. r = [moved EXCEPT !.current = [s.current EXCEPT !.offset = 0],
                          !.forward = [s.forward EXCEPT !.offset = kept],
                          !.stale = s.stale \/ got < Room(s)]
    BY <2>1, <2>2 DEF Stream
  <2>6. QED
    BY <2>1, <2>3, <2>4, <2>5 DEF Stream
<1>11. r.current.offset = 0 /\ r.forward.offset = kept
  BY <1>10, <1>1 DEF Position
<1>12. StreamSound(r) /\ ~AtBufferEnd(r)
  BY <1>10, <1>11, <1>9, <1>2, <1>3, <1>1 DEF StreamSound, AtBufferEnd, BufferSize
<1>13. RawLexeme(r) = lexeme
  <2>1. /\ RawLexeme(r) \in Seq(Character) /\ Len(RawLexeme(r)) = kept
        /\ \A k \in 1 .. kept : RawLexeme(r)[k] = buffer[k]
    <3>1. LexemeLength(r) = kept
      BY <1>11, <1>2 DEF LexemeLength
    <3>2. \A k \in 1 .. kept : r.current.offset + k = k
      BY <1>2, <1>11
    <3>3. /\ RawLexeme(r) \in Seq(Character) /\ Len(RawLexeme(r)) = LexemeLength(r)
          /\ \A k \in 1 .. LexemeLength(r) : RawLexeme(r)[k] = r.buffer[r.current.offset + k]
      BY <1>12, LexemeFacts
    <3>4. QED
      BY <3>1, <3>2, <3>3, <1>10
  <2>2. QED
    BY <2>1, <1>2, <1>9
<1>14. \A k \in 1 .. kept : r.buffer[k] = s.buffer[s.current.offset + k]
  BY <1>2, <1>9, <1>10
<1>15. \A k \in 1 .. got : r.buffer[kept + k] = s.unread[k]
  BY <1>6, <1>9, <1>10
<1>16. /\ r.unread = SubSeq(s.unread, got + 1, Len(s.unread)) /\ Len(r.buffer) = Len(s.buffer)
  BY <1>9, <1>10 DEF rest
<1>17. QED
  BY <1>4, <1>10, <1>12, <1>13, <1>14, <1>15, <1>16 DEF r, kept, lexeme

\* What any read leaves.
LEMMA ReadFacts ==
  ASSUME NEW s, StreamSound(s), ~Overruns(s)
  PROVE  /\ StreamSound(SourceRead(s).source)
         /\ SourceRead(s).source.kind = s.kind
         /\ Reads(s, SourceRead(s).c, SourceRead(s).source)
         /\ SourcePeek(s) # EOF => SourceRead(s).c = SourcePeek(s)
<1>1. CASE ~AtBufferEnd(s)
  <2>1. SourceRead(s) = ReadByte(s)
    BY <1>1 DEF SourceRead, NeedsRefill
  <2>2. s.forward \in Position /\ Step(s.forward, ByteAt(s)) \in Position
    BY StepFacts DEF StreamSound, Stream
  <2>3. ReadByte(s).source.kind = s.kind
    BY <1>1, ReadByteFacts DEF Moved, StreamSound, Stream
  <2>4. QED
    BY <1>1, <2>1, <2>3, ReadByteFacts
<1>2. CASE NeedsRefill(s)
  <2>1. AtBufferEnd(s) /\ Room(s) # 0
    BY <1>2 DEF NeedsRefill, Overruns
  <2>2. SourceRead(s) = ReadByte(Refill(s)) /\ SourcePeek(s) = EOF
    BY <1>2, <2>1 DEF SourceRead, SourcePeek, NeedsRefill
  <2>3. /\ StreamSound(Refill(s)) /\ ~AtBufferEnd(Refill(s)) /\ Refill(s).kind = s.kind
        /\ RawLexeme(Refill(s)) = RawLexeme(s)
    BY <1>2, <2>1, RefillFacts
  <2>4. /\ StreamSound(ReadByte(Refill(s)).source)
        /\ Reads(Refill(s), ReadByte(Refill(s)).c, ReadByte(Refill(s)).source)
        /\ ReadByte(Refill(s)).source.kind = Refill(s).kind
    BY <2>3, ReadByteFacts DEF Moved, StreamSound, Stream
  <2>5. QED
    BY <2>2, <2>3, <2>4 DEF Reads
<1>3. CASE AtBufferEnd(s) /\ ~NeedsRefill(s)
  <2>1. SourceRead(s).c = EOF /\ SourceRead(s).source = s /\ SourcePeek(s) = EOF
    BY <1>3 DEF SourceRead, SourcePeek, NeedsRefill
  <2>2. QED
    BY <2>1 DEF Reads
<1>4. QED
  BY <1>1, <1>2, <1>3

\* What can be seen can be read, and is no end.
LEMMA PeekFacts ==
  ASSUME NEW s, StreamSound(s), SourcePeek(s) # EOF
  PROVE  /\ ~AtBufferEnd(s) /\ ~Overruns(s)
         /\ SourcePeek(s) \in Character \ {NUL} /\ SourcePeek(s) = ByteAt(s)
         /\ StreamSound(SourceRead(s).source)
         /\ SourceRead(s).source.kind = s.kind
         /\ RawLexeme(SourceRead(s).source) = Append(RawLexeme(s), SourcePeek(s))
<1>1. ~AtBufferEnd(s) /\ ByteAt(s) # NUL /\ SourcePeek(s) = ByteAt(s)
  BY DEF SourcePeek
<1>2. ~Overruns(s)
  BY <1>1 DEF Overruns, NeedsRefill
<1>3. QED
  BY <1>1, <1>2, ByteFacts, ReadFacts DEF Reads

-------------------------------------------------------------------------------
(* What a stream shows of its text.                                           *)

\* The fields of a sound stream.
LEMMA FieldFacts ==
  ASSUME NEW s, StreamSound(s)
  PROVE  /\ s.buffer \in Seq(Character) /\ s.unread \in Seq(Character)
         /\ s.current \in Position /\ s.forward \in Position /\ s.delta \in Nat
         /\ s.current.offset \in Nat /\ s.forward.offset \in Nat
         /\ s.current.offset <= s.forward.offset /\ s.forward.offset <= Len(s.buffer)
         /\ s.stale \in BOOLEAN /\ s.kind \in {"text", "file", "repl", "closed"}
         /\ LexemeLength(s) = s.forward.offset - s.current.offset
         /\ s.kind = "repl" => Len(s.buffer) = Page
  BY DEF StreamSound, Stream, Position, LexemeLength

\* How much of the buffer is text, and which.
LEMMA WindowFacts ==
  ASSUME NEW s, StreamSound(s), NEW t \in Seq(Character), NEW o \in Nat, Shows(s, t, o)
  PROVE  /\ Base(s, o) \in Nat
         /\ Base(s, o) + s.forward.offset <= Len(t)
         /\ \A k \in 1 .. Len(s.buffer) :
              Base(s, o) + k <= Len(t) => s.buffer[k] = t[Base(s, o) + k]
         /\ s.kind # "repl" => Base(s, o) + Len(s.buffer) <= Len(t)
         /\ s.kind = "text" => Base(s, o) + Len(s.buffer) = Len(t)
         /\ s.kind = "repl" =>
              /\ Len(t) - Base(s, o) + 1 \in 1 .. Len(s.buffer)
              /\ s.buffer[Len(t) - Base(s, o) + 1] = NUL
<1>1. CASE s.kind = "file"
  <2>1. Base(s, o) = s.delta /\ s.kind # "repl" /\ s.kind # "text"
    BY <1>1 DEF Base
  <2>2. /\ s.delta \in Nat /\ s.forward.offset \in Nat /\ Len(s.buffer) \in Nat
        /\ Len(s.unread) \in Nat /\ Len(t) \in Nat /\ s.forward.offset <= Len(s.buffer)
    BY FieldFacts
  <2>3. /\ s.delta + Len(s.buffer) + Len(s.unread) = Len(t)
        /\ \A k \in 1 .. Len(s.buffer) : s.buffer[k] = t[s.delta + k]
    BY <1>1 DEF Shows, ShowsFile
  <2>4. s.delta + Len(s.buffer) <= Len(t) /\ s.delta + s.forward.offset <= Len(t)
    BY <2>2, <2>3
  <2>5. QED
    BY <2>1, <2>2, <2>3, <2>4
<1>2. CASE s.kind = "text"
  BY <1>2, FieldFacts DEF Shows, Base
<1>3. CASE s.kind = "repl"
  <2>1. Base(s, o) = o /\ Len(s.buffer) = Page /\ ShowsLine(s, t, o)
    BY <1>3, FieldFacts DEF Shows, Base
  <2>2. \A k \in 1 .. Len(s.buffer) : o + k <= Len(t) => k \in 1 .. Len(t) - o
    BY FieldFacts
  <2>3. QED
    BY <1>3, <2>1, <2>2, FieldFacts, SourceAssumption DEF ShowsLine
<1>4. QED
  BY <1>1, <1>2, <1>3, FieldFacts DEF Shows

\* The character behind the first n of t, as far as a stream can see it.
Behind(s, t, o) ==
  LET k == Base(s, o) + s.forward.offset + 1
  IN  IF k > Len(t) \/ t[k] = NUL \/ (s.kind = "file" /\ k > s.delta + BufferSize(s))
      THEN EOF ELSE t[k]

LEMMA ShowsPeek ==
  ASSUME NEW s, StreamSound(s), NEW t \in Seq(Character), NEW o \in Nat, Shows(s, t, o)
  PROVE  /\ SourcePeek(s) = Behind(s, t, o)
         /\ SourcePeek(s) # EOF =>
              /\ Base(s, o) + s.forward.offset + 1 <= Len(t)
              /\ t[Base(s, o) + s.forward.offset + 1] = SourcePeek(s)
<1> DEFINE b == Base(s, o)
           n == s.forward.offset
<1>1. /\ b \in Nat /\ n \in Nat /\ Len(s.buffer) \in Nat /\ Len(t) \in Nat /\ n <= Len(s.buffer)
      /\ b + n <= Len(t)
      /\ \A k \in 1 .. Len(s.buffer) : b + k <= Len(t) => s.buffer[k] = t[b + k]
      /\ s.kind # "repl" => b + Len(s.buffer) <= Len(t)
      /\ s.kind = "text" => b + Len(s.buffer) = Len(t)
      /\ s.kind = "repl" => /\ Len(t) - b + 1 \in 1 .. Len(s.buffer)
                            /\ s.buffer[Len(t) - b + 1] = NUL
      /\ s.kind \in {"text", "file", "repl"}
  <2>1. /\ n \in Nat /\ Len(s.buffer) \in Nat /\ Len(t) \in Nat /\ n <= Len(s.buffer)
    BY FieldFacts
  <2>2. s.kind \in {"text", "file", "repl"}
    BY FieldFacts DEF Shows
  <2>3. QED
    BY <2>1, <2>2, WindowFacts
<1>2. s.kind = "file" => b = s.delta
  BY DEF Base
<1>3. \A k \in 1 .. Len(s.buffer) : k = n + 1 => b + k = b + n + 1
  BY <1>1
<1> HIDE DEF b, n
<1>4. CASE n >= Len(s.buffer)
  <2>1. SourcePeek(s) = EOF
    BY <1>4 DEF SourcePeek, AtBufferEnd, BufferSize, n
  <2>2. Behind(s, t, o) = EOF
    <3>1. CASE s.kind = "file"
      BY <3>1, <1>1, <1>2, <1>4 DEF Behind, BufferSize, b, n
    <3>2. CASE s.kind = "text"
      <4>1. b + n + 1 > Len(t)
        BY <3>2, <1>1, <1>4
      <4>2. QED
        BY <4>1 DEF Behind, b, n
    <3>3. CASE s.kind = "repl"
      <4>1. b + n + 1 > Len(t)
        BY <3>3, <1>1, <1>4
      <4>2. QED
        BY <4>1 DEF Behind, b, n
    <3>4. QED
      BY <3>1, <3>2, <3>3, <1>1
  <2>3. QED
    BY <2>1, <2>2
<1>5. CASE n < Len(s.buffer) /\ b + n + 1 <= Len(t)
  <2>1. s.buffer[n + 1] = t[b + n + 1] /\ n + 1 \in 1 .. Len(s.buffer)
    BY <1>1, <1>3, <1>5
  <2>2. SourcePeek(s) = IF t[b + n + 1] = NUL THEN EOF ELSE t[b + n + 1]
    BY <2>1, <1>1, <1>5 DEF SourcePeek, AtBufferEnd, BufferSize, ByteAt, n
  <2>3. ~(s.kind = "file" /\ b + n + 1 > s.delta + BufferSize(s))
    BY <1>1, <1>2, <1>5 DEF BufferSize
  <2>4. ~(b + n + 1 > Len(t))
    BY <1>1, <1>5
  <2>5. Behind(s, t, o) = IF t[b + n + 1] = NUL THEN EOF ELSE t[b + n + 1]
    BY <2>3, <2>4 DEF Behind, b, n
  <2>6. QED
    BY <2>2, <2>5, <1>5 DEF b, n
<1>6. CASE n < Len(s.buffer) /\ b + n + 1 > Len(t)
  <2>1. s.kind = "repl" /\ n + 1 = Len(t) - b + 1
    BY <1>1, <1>6
  <2>2. s.buffer[n + 1] = NUL
    BY <2>1, <1>1
  <2>3. SourcePeek(s) = EOF
    BY <2>2, <1>1, <1>6 DEF SourcePeek, AtBufferEnd, BufferSize, ByteAt, n
  <2>4. Behind(s, t, o) = EOF
    BY <1>6 DEF Behind, b, n
  <2>5. QED
    BY <2>3, <2>4
<1>7. QED
  BY <1>1, <1>4, <1>5, <1>6

\* The lexeme is what the text has at its place.
LEMMA ShowsLexeme ==
  ASSUME NEW s, StreamSound(s), NEW t \in Seq(Character), NEW o \in Nat, Shows(s, t, o)
  PROVE  /\ SubSeq(t, Base(s, o) + s.current.offset + 1, Base(s, o) + s.forward.offset)
              = RawLexeme(s)
         /\ SubSeq(t, Base(s, o) + s.current.offset + 1,
                   Base(s, o) + s.current.offset + LexemeLength(s)) = RawLexeme(s)
<1> DEFINE b == Base(s, o)
           p == b + s.current.offset
           q == b + s.forward.offset
<1>0. PICK c \in Nat, f \in Nat, l \in Nat, m \in Nat :
        /\ c = s.current.offset /\ f = s.forward.offset /\ l = LexemeLength(s)
        /\ m = Len(s.buffer) /\ c <= f /\ f <= m /\ l = f - c
  <2>1. /\ s.current.offset \in Nat /\ s.forward.offset \in Nat /\ LexemeLength(s) \in Nat
        /\ Len(s.buffer) \in Nat
    BY FieldFacts, LexemeFacts
  <2>2. QED
    BY <2>1, FieldFacts
<1>1. /\ b \in Nat /\ b + f <= Len(t)
      /\ \A k \in 1 .. m : b + k <= Len(t) => s.buffer[k] = t[b + k]
  BY <1>0, WindowFacts
<1>9. p = b + c /\ q = b + f
  BY <1>0
<1> HIDE DEF b, p, q
<1>8. c <= f /\ f <= m /\ l = f - c /\ b + f <= Len(t) /\ Len(t) \in Nat /\ b \in Nat
  BY <1>0, <1>1
<1>10. /\ p \in Nat /\ q \in Nat /\ p <= q /\ q <= Len(t) /\ q - p = l
  BY <1>8, <1>9
<1>2. /\ SubSeq(t, p + 1, q) \in Seq(Character) /\ Len(SubSeq(t, p + 1, q)) = l
      /\ \A k \in 1 .. l : SubSeq(t, p + 1, q)[k] = t[p + k]
  <2>1. /\ SubSeq(t, p + 1, q) \in Seq(Character) /\ Len(SubSeq(t, p + 1, q)) = q - p
        /\ \A k \in 1 .. q - p : SubSeq(t, p + 1, q)[k] = t[p + k]
    BY <1>10, PartFacts
  <2>2. QED
    BY <2>1, <1>10
<1>3. ASSUME NEW k \in 1 .. l PROVE s.buffer[c + k] = t[p + k]
  <2>1. c + k \in 1 .. m /\ b + (c + k) = p + k /\ b + (c + k) <= Len(t)
    BY <1>8, <1>9
  <2>2. QED
    BY <2>1, <1>1
<1>4. /\ RawLexeme(s) \in Seq(Character) /\ Len(RawLexeme(s)) = LexemeLength(s)
      /\ \A k \in 1 .. LexemeLength(s) : RawLexeme(s)[k] = s.buffer[s.current.offset + k]
  BY LexemeFacts
<1>5. SubSeq(t, p + 1, q) = RawLexeme(s)
  <2> DEFINE u == SubSeq(t, p + 1, q)
             v == RawLexeme(s)
  <2>1. u \in Seq(Character) /\ v \in Seq(Character) /\ Len(u) = Len(v) /\ Len(v) = LexemeLength(s)
    BY <1>0, <1>2, <1>4
  <2>2. \A k \in 1 .. LexemeLength(s) : u[k] = v[k]
    BY <1>0, <1>2, <1>3, <1>4
  <2> HIDE DEF u, v
  <2>3. u = v
    BY <2>1, <2>2
  <2>4. QED
    BY <2>3 DEF u, v
<1>6. p + LexemeLength(s) = q
  BY <1>0, <1>10
<1>7. QED
  BY <1>5, <1>6 DEF b, p, q

-------------------------------------------------------------------------------
(* Lines and columns.                                                         *)

LEMMA NewlinesFinite ==
  ASSUME NEW t, NEW n \in Nat
  PROVE  /\ IsFiniteSet(NewlinesIn(t, n)) /\ Cardinality(NewlinesIn(t, n)) \in Nat
         /\ NewlinesIn(t, n) \subseteq 1 .. n
<1>1. NewlinesIn(t, n) \subseteq 1 .. n
  BY DEF NewlinesIn
<1>2. IsFiniteSet(1 .. n)
  BY FS_Interval
<1>3. IsFiniteSet(NewlinesIn(t, n))
  BY <1>1, <1>2, FS_Subset
<1>4. QED
  BY <1>1, <1>3, FS_CardinalityType

\* A text starts in its first line and column.
LEMMA ExactStart == ASSUME NEW t PROVE ExactAt(StartPos, t, 0)
<1>1. NewlinesIn(t, 0) = {}
  BY DEF NewlinesIn
<1>2. Cardinality(NewlinesIn(t, 0)) = 0
  BY <1>1, FS_EmptySet
<1>3. QED
  BY <1>1, <1>2 DEF ExactAt, StartPos

\* One character further on.
LEMMA ExactNext ==
  ASSUME NEW pos \in Position, NEW t, NEW n \in Nat, ExactAt(pos, t, n), t[n + 1] # NUL
  PROVE  ExactAt(Step(pos, t[n + 1]), t, n + 1)
<1> DEFINE c == t[n + 1]
           before == NewlinesIn(t, n)
           after == NewlinesIn(t, n + 1)
<1>1. IsFiniteSet(before) /\ Cardinality(before) \in Nat /\ before \subseteq 1 .. n
  BY NewlinesFinite
<1>2. PICK bol \in before \cup {0} :
        (\A k \in before : k <= bol) /\ pos.column = n - bol + 1
  BY DEF ExactAt
<1>3. pos.line = 1 + Cardinality(before)
  BY DEF ExactAt
<1>4. bol \in Nat /\ pos.line \in Nat /\ pos.column \in Nat
  BY <1>1, <1>2 DEF Position
<1>5. CASE c = "\n"
  <2>1. after = before \cup {n + 1}
    BY <1>5 DEF NewlinesIn
  <2>2. n + 1 \notin before
    BY <1>1
  <2>3. Cardinality(after) = Cardinality(before) + 1
    BY <1>1, <2>1, <2>2, FS_AddElement
  <2>4. Step(pos, c).line = pos.line + 1 /\ Step(pos, c).column = 1
    BY <1>5, StepFacts
  <2>5. Step(pos, c).line = 1 + Cardinality(after)
    BY <1>1, <1>3, <2>3, <2>4
  <2>6. /\ n + 1 \in after \cup {0} /\ \A k \in after : k <= n + 1
        /\ Step(pos, c).column = (n + 1) - (n + 1) + 1
    BY <1>1, <2>1, <2>4
  <2>7. QED
    BY <2>5, <2>6 DEF ExactAt
<1>6. CASE c # "\n"
  <2>1. after = before
    BY <1>6 DEF NewlinesIn
  <2>2. Step(pos, c).line = pos.line /\ Step(pos, c).column = pos.column + 1
    BY <1>6, StepFacts
  <2>3. Step(pos, c).column = (n + 1) - bol + 1
    BY <1>2, <1>4, <2>2
  <2>4. QED
    BY <1>2, <1>3, <2>1, <2>2, <2>3 DEF ExactAt
<1>7. QED
  BY <1>5, <1>6

\* Only the characters before it place a position, and only its line and column.
LEMMA ExactSame ==
  ASSUME NEW pos, NEW qos, NEW t, NEW u, NEW n \in Nat, ExactAt(pos, t, n),
         \A k \in 1 .. n : u[k] = t[k], qos.line = pos.line, qos.column = pos.column
  PROVE  ExactAt(qos, u, n)
<1>1. NewlinesIn(u, n) = NewlinesIn(t, n)
  BY DEF NewlinesIn
<1>2. QED
  BY <1>1 DEF ExactAt

-------------------------------------------------------------------------------
(* Reading.                                                                   *)

\* Moving the forward position changes nothing that is shown.
LEMMA ShowsMoved ==
  ASSUME NEW s, StreamSound(s), NEW t, NEW o, Shows(s, t, o), NEW pos \in Position,
         s.current.offset <= pos.offset, pos.offset <= Len(s.buffer),
         s.kind = "repl" => o + pos.offset <= Len(t)
  PROVE  /\ Shows(Moved(s, pos), t, o) /\ Base(Moved(s, pos), o) = Base(s, o)
<1> DEFINE r == Moved(s, pos)
<1>1. /\ r.forward = pos /\ r.kind = s.kind /\ r.buffer = s.buffer /\ r.unread = s.unread
      /\ r.streamSize = s.streamSize /\ r.delta = s.delta
  BY MovedFacts
<1> HIDE DEF r
<1>2. Base(r, o) = Base(s, o)
  BY <1>1 DEF Base
<1>3. ShowsFile(s, t) => ShowsFile(r, t)
  BY <1>1 DEF ShowsFile
<1>4. s.kind = "repl" /\ ShowsLine(s, t, o) => ShowsLine(r, t, o)
  BY <1>1 DEF ShowsLine
<1>5. Shows(r, t, o)
  BY <1>1, <1>3, <1>4 DEF Shows
<1>6. QED
  BY <1>2, <1>5 DEF r

LEMMA ReadByteShows ==
  ASSUME NEW s, StreamSound(s), ~AtBufferEnd(s), NEW t \in Seq(Character), NEW o \in Nat,
         Shows(s, t, o)
  PROVE  /\ Shows(ReadByte(s).source, t, o)
         /\ ReadByte(s).source.stale = s.stale
         /\ Placed(s.forward, s, t, o) =>
              Placed(ReadByte(s).source.forward, ReadByte(s).source, t, o)
         /\ Placed(s.current, s, t, o) =>
              Placed(ReadByte(s).source.current, ReadByte(s).source, t, o)
<1> DEFINE r == ReadByte(s).source
           pos == Step(s.forward, ByteAt(s))
           n == Base(s, o) + s.forward.offset
<1>1. r = Moved(s, pos)
  BY ReadByteFacts
<1>2. /\ s.forward \in Position /\ s.current.offset \in Nat /\ s.forward.offset \in Nat
      /\ s.current.offset <= s.forward.offset /\ Len(s.buffer) \in Nat
      /\ s.forward.offset + 1 <= Len(s.buffer)
  BY FieldFacts, ByteFacts
<1>3. /\ pos \in Position /\ pos.offset = s.forward.offset + (IF ByteAt(s) = NUL THEN 0 ELSE 1)
      /\ ByteAt(s) = NUL => pos = s.forward
  BY <1>2, StepFacts
<1>4. ByteAt(s) # NUL => SourcePeek(s) # EOF /\ SourcePeek(s) = ByteAt(s)
  BY ByteFacts DEF SourcePeek
<1>5. ByteAt(s) # NUL => n + 1 <= Len(t) /\ t[n + 1] = ByteAt(s)
  BY <1>4, ShowsPeek
<1>6. Base(s, o) \in Nat /\ n \in Nat /\ n <= Len(t)
  BY <1>2, WindowFacts
<1> HIDE DEF pos, r
<1>7. s.current.offset <= pos.offset /\ pos.offset <= Len(s.buffer)
  BY <1>2, <1>3
<1>8. s.kind = "repl" => o + pos.offset <= Len(t)
  <2>1. s.kind = "repl" => Base(s, o) = o
    BY DEF Base
  <2>2. CASE ByteAt(s) = NUL
    BY <2>1, <2>2, <1>2, <1>3, <1>6
  <2>3. CASE ByteAt(s) # NUL
    BY <2>1, <2>3, <1>2, <1>3, <1>5, <1>6
  <2>4. QED
    BY <2>2, <2>3
<1>9. Shows(r, t, o) /\ Base(r, o) = Base(s, o)
  BY <1>1, <1>3, <1>7, <1>8, ShowsMoved
<1>10. r.forward = pos /\ r.current = s.current /\ r.stale = s.stale
  BY <1>1, <1>3, <1>7, MovedFacts
<1>11. ASSUME Placed(s.forward, s, t, o) PROVE Placed(r.forward, r, t, o)
  <2>1. ExactAt(s.forward, t, n)
    BY <1>11 DEF Placed
  <2>2. CASE ByteAt(s) = NUL
    <3>1. pos.offset = s.forward.offset /\ pos = s.forward
      BY <1>3, <2>2
    <3>2. QED
      BY <3>1, <2>1, <1>9, <1>10 DEF Placed
  <2>3. CASE ByteAt(s) # NUL
    <3>1. ExactAt(pos, t, n + 1)
      BY <2>1, <2>3, <1>2, <1>5, <1>6, ExactNext DEF pos
    <3>2. n + 1 = Base(s, o) + pos.offset
      BY <2>3, <1>2, <1>3, <1>6
    <3>3. QED
      BY <3>1, <3>2, <1>9, <1>10 DEF Placed
  <2>4. QED
    BY <2>2, <2>3
<1>12. Placed(s.current, s, t, o) => Placed(r.current, r, t, o)
  BY <1>9, <1>10 DEF Placed
<1>13. QED
  BY <1>9, <1>10, <1>11, <1>12 DEF r

\* A refill that fills the buffer moves the window and nothing in it.
LEMMA RefillShows ==
  ASSUME NEW s, StreamSound(s), NeedsRefill(s), Room(s) # 0,
         NEW t \in Seq(Character), NEW o \in Nat, Shows(s, t, o), ~Refill(s).stale
  PROVE  /\ Shows(Refill(s), t, o)
         /\ Placed(s.forward, s, t, o) => Placed(Refill(s).forward, Refill(s), t, o)
         /\ Placed(s.current, s, t, o) => Placed(Refill(s).current, Refill(s), t, o)
<1> DEFINE r == Refill(s)
<1>1. PICK got \in Nat :
        /\ got <= Len(s.unread) /\ got <= Room(s)
        /\ r.stale = (s.stale \/ got < Room(s))
        /\ r.kind = s.kind /\ r.streamSize = s.streamSize
        /\ r.delta = s.delta + s.current.offset
        /\ r.current = [s.current EXCEPT !.offset = 0]
        /\ r.forward = [s.forward EXCEPT !.offset = LexemeLength(s)]
        /\ Len(r.buffer) = Len(s.buffer)
        /\ r.unread = SubSeq(s.unread, got + 1, Len(s.unread))
        /\ \A k \in 1 .. LexemeLength(s) : r.buffer[k] = s.buffer[s.current.offset + k]
        /\ \A k \in 1 .. got : r.buffer[LexemeLength(s) + k] = s.unread[k]
  BY RefillFacts
<1>2. s.kind = "file" /\ AtBufferEnd(s)
  BY DEF NeedsRefill
<1> HIDE DEF r
<1>3. PICK c \in Nat, f \in Nat, d \in Nat, m \in Nat, w \in Nat :
        /\ c = s.current.offset /\ f = s.forward.offset /\ d = s.delta
        /\ m = Len(s.buffer) /\ w = Len(s.unread)
  <2>1. /\ s.current.offset \in Nat /\ s.forward.offset \in Nat /\ s.delta \in Nat
        /\ Len(s.buffer) \in Nat /\ Len(s.unread) \in Nat
    BY FieldFacts
  <2>2. QED
    BY <2>1
<1>4. c <= f /\ f = m /\ LexemeLength(s) = m - c /\ Room(s) = c
  <2>1. c <= f /\ f <= m /\ LexemeLength(s) = f - c
    BY <1>3, FieldFacts
  <2>2. f >= m
    BY <1>2, <1>3 DEF AtBufferEnd, BufferSize
  <2>3. Room(s) = m - LexemeLength(s)
    BY <1>3 DEF Room, BufferSize
  <2>4. f = m
    BY <2>1, <2>2
  <2>5. c <= m /\ LexemeLength(s) = m - c
    BY <2>1, <2>4
  <2>6. m - (m - c) = c
    OBVIOUS
  <2>7. QED
    BY <2>1, <2>3, <2>4, <2>5, <2>6
<1>5. got = c /\ c <= w /\ c <= m
  <2>1. got <= c /\ got <= w /\ ~(got < c)
    BY <1>1, <1>3, <1>4 DEF r
  <2>2. QED
    BY <2>1, <1>4
<1>6. /\ s.streamSize = Len(t) /\ d + m + w = Len(t)
      /\ \A k \in 1 .. m : s.buffer[k] = t[d + k]
      /\ \A k \in 1 .. w : s.unread[k] = t[d + m + k]
  BY <1>2, <1>3 DEF Shows, ShowsFile
<1>7. /\ r.delta = d + c /\ Len(r.buffer) = m /\ r.unread = SubSeq(s.unread, c + 1, w)
      /\ \A k \in 1 .. m - c : r.buffer[k] = s.buffer[c + k]
      /\ \A k \in 1 .. c : r.buffer[(m - c) + k] = s.unread[k]
  BY <1>1, <1>3, <1>4, <1>5
<1>8. ASSUME NEW k \in 1 .. m PROVE r.buffer[k] = t[(d + c) + k]
  <2>1. CASE k <= m - c
    <3>1. k \in 1 .. m - c /\ c + k \in 1 .. m /\ d + (c + k) = (d + c) + k
      BY <2>1, <1>5
    <3>2. QED
      BY <3>1, <1>6, <1>7
  <2>2. CASE k > m - c
    <3>1. PICK j \in 1 .. c : k = (m - c) + j
      <4>1. k - (m - c) \in 1 .. c /\ k = (m - c) + (k - (m - c))
        BY <2>2, <1>5
      <4>2. QED
        BY <4>1
    <3>2. j \in 1 .. w /\ d + m + j = (d + c) + k
      BY <3>1, <1>5
    <3>3. QED
      BY <3>1, <3>2, <1>6, <1>7
  <2>3. QED
    BY <2>1, <2>2
<1>9. /\ Len(r.unread) = w - c
      /\ \A k \in 1 .. w - c : r.unread[k] = s.unread[c + k]
  <2>1. PICK u \in Seq(Character) : u = s.unread /\ Len(u) = w
    BY <1>3, FieldFacts
  <2>2. Len(SubSeq(u, c + 1, w)) = w - c /\ \A k \in 1 .. w - c : SubSeq(u, c + 1, w)[k] = u[c + k]
    <3>1. w <= Len(u) /\ c <= w
      BY <2>1, <1>5
    <3>2. QED
      BY ONLY <3>1, PartFacts
  <2>3. QED
    BY <2>1, <2>2, <1>7
<1>10. ASSUME NEW k \in 1 .. w - c PROVE r.unread[k] = t[(d + c) + m + k]
  <2>1. c + k \in 1 .. w /\ d + m + (c + k) = (d + c) + m + k
    BY <1>5
  <2>2. QED
    BY <2>1, <1>6, <1>9
<1>11. (d + c) + m + (w - c) = Len(t)
  BY <1>5, <1>6
<1>12. ShowsFile(r, t)
  BY <1>1, <1>6, <1>7, <1>8, <1>9, <1>10, <1>11 DEF ShowsFile
<1>13. Shows(r, t, o)
  BY <1>1, <1>2, <1>12 DEF Shows
<1>14. Base(r, o) = d + c /\ Base(s, o) = d
  BY <1>1, <1>2, <1>3 DEF Base
<1>15. /\ r.current.offset = 0 /\ r.current.line = s.current.line
       /\ r.current.column = s.current.column
       /\ r.forward.offset = m - c /\ r.forward.line = s.forward.line
       /\ r.forward.column = s.forward.column
  <2>1. s.current \in Position /\ s.forward \in Position
    BY FieldFacts
  <2>2. r.current = [s.current EXCEPT !.offset = 0] /\ r.forward = [s.forward EXCEPT !.offset = m - c]
    BY <1>1, <1>4
  <2>3. QED
    BY <2>1, <2>2 DEF Position
<1>16. Placed(s.forward, s, t, o) => Placed(r.forward, r, t, o)
  <2>1. d + c + (m - c) = d + m /\ d + m \in Nat
    BY <1>4
  <2>2. Placed(s.forward, s, t, o) => ExactAt(s.forward, t, d + m)
    BY <1>3, <1>4, <1>14 DEF Placed
  <2>3. ExactAt(s.forward, t, d + m) => ExactAt(r.forward, t, d + m)
    BY <2>1, <1>15, ExactSame
  <2>4. QED
    BY <2>1, <2>2, <2>3, <1>14, <1>15 DEF Placed
<1>17. Placed(s.current, s, t, o) => Placed(r.current, r, t, o)
  <2>1. d + c + 0 = d + c /\ d + c \in Nat
    OBVIOUS
  <2>2. Placed(s.current, s, t, o) => ExactAt(s.current, t, d + c)
    BY <1>3, <1>14 DEF Placed
  <2>3. ExactAt(s.current, t, d + c) => ExactAt(r.current, t, d + c)
    BY <2>1, <1>15, ExactSame
  <2>4. QED
    BY <2>1, <2>2, <2>3, <1>14, <1>15 DEF Placed
<1>18. QED
  BY <1>13, <1>16, <1>17 DEF r

\* Whatever a read does, a stream that is not stale behind it was not before, shows
\* its text as before, and its positions stay where they are in it.
Keeps(s, r, t, o) ==
  ~r.stale =>
    /\ ~s.stale
    /\ Shows(s, t, o) =>
         /\ Shows(r, t, o)
         /\ Placed(s.forward, s, t, o) => Placed(r.forward, r, t, o)
         /\ Placed(s.current, s, t, o) => Placed(r.current, r, t, o)

LEMMA ReadKeeps ==
  ASSUME NEW s, StreamSound(s), ~Overruns(s), NEW t \in Seq(Character), NEW o \in Nat
  PROVE  Keeps(s, SourceRead(s).source, t, o)
<1> DEFINE r == SourceRead(s).source
<1>0. \A x : StreamSound(x) /\ ~AtBufferEnd(x) => Keeps(x, ReadByte(x).source, t, o)
  <2>1. SUFFICES ASSUME NEW x, StreamSound(x), ~AtBufferEnd(x), ~ReadByte(x).source.stale
                 PROVE  /\ ~x.stale
                        /\ Shows(x, t, o) =>
                             /\ Shows(ReadByte(x).source, t, o)
                             /\ Placed(x.forward, x, t, o) =>
                                  Placed(ReadByte(x).source.forward, ReadByte(x).source, t, o)
                             /\ Placed(x.current, x, t, o) =>
                                  Placed(ReadByte(x).source.current, ReadByte(x).source, t, o)
    BY DEF Keeps
  <2>2. ReadByte(x).source.stale = x.stale
    BY <2>1, FieldFacts, StepFacts DEF ReadByte, StreamSound, Stream
  <2>3. QED
    BY <2>1, <2>2, ReadByteShows
<1>1. CASE ~AtBufferEnd(s)
  <2>1. r = ReadByte(s).source
    BY <1>1 DEF SourceRead, NeedsRefill
  <2>2. QED
    BY <1>0, <1>1, <2>1
<1>2. CASE NeedsRefill(s)
  <2>1. AtBufferEnd(s) /\ Room(s) # 0
    BY <1>2 DEF NeedsRefill, Overruns
  <2>2. r = ReadByte(Refill(s)).source
    BY <1>2, <2>1 DEF SourceRead
  <2>3. /\ StreamSound(Refill(s)) /\ ~AtBufferEnd(Refill(s))
        /\ ~Refill(s).stale => ~s.stale
    BY <1>2, <2>1, RefillFacts
  <2>4. Keeps(Refill(s), r, t, o)
    BY <1>0, <2>2, <2>3
  <2>5. Keeps(s, Refill(s), t, o)
    BY <1>2, <2>1, <2>3, RefillShows DEF Keeps
  <2>6. QED
    BY <2>4, <2>5 DEF Keeps
<1>3. CASE AtBufferEnd(s) /\ ~NeedsRefill(s)
  <2>1. r = s
    BY <1>3 DEF SourceRead
  <2>2. QED
    BY <2>1 DEF Keeps
<1>4. QED
  BY <1>1, <1>2, <1>3

-------------------------------------------------------------------------------
(* Lexemes.                                                                   *)

\* Which characters start a punctuator, and which two and three of them are one.
LEMMA PunctuatorOne ==
  ASSUME NEW a
  PROVE  <<a>> \in PunctuatorTexts <=>
           a \in DOMAIN Second \cup {"(", ")", "[", "]", "{", "}", ",", "@"}
  BY DEF PunctuatorTexts, Second

LEMMA PunctuatorTwo ==
  ASSUME NEW a, NEW b
  PROVE  <<a, b>> \in PunctuatorTexts \cup Comments <=> a \in DOMAIN Second /\ b \in Second[a]
  BY DEF PunctuatorTexts, Second, Comments

LEMMA PunctuatorThree ==
  ASSUME NEW a, NEW b, NEW c
  PROVE  <<a, b, c>> \in PunctuatorTexts <=> <<a, b, c>> \in Triples
  BY DEF PunctuatorTexts, Triples

LEMMA PunctuatorLength ==
  ASSUME NEW x \in PunctuatorTexts
  PROVE  Len(x) \in 1 .. 3
<1>1. (\E a : x = <<a>>) \/ (\E a, b : x = <<a, b>>) \/ (\E a, b, c : x = <<a, b, c>>)
  BY Zenon DEF PunctuatorTexts
<1>2. \A a, b, c : Len(<<a>>) = 1 /\ Len(<<a, b>>) = 2 /\ Len(<<a, b, c>>) = 3
  OBVIOUS
<1>3. QED
  BY <1>1, <1>2

\* Short sequences are what they hold.
LEMMA TupleFacts ==
  ASSUME NEW S, NEW s \in Seq(S)
  PROVE  /\ Len(s) = 1 => s = <<s[1]>>
         /\ Len(s) = 2 => s = <<s[1], s[2]>>
         /\ Len(s) = 3 => s = <<s[1], s[2], s[3]>>
<1>1. Len(s) = 1 => s = <<s[1]>>
  OBVIOUS
<1>2. Len(s) = 2 => s = <<s[1], s[2]>>
  OBVIOUS
<1>3. Len(s) = 3 => s = <<s[1], s[2], s[3]>>
  OBVIOUS
<1>4. QED
  BY <1>1, <1>2, <1>3

LEMMA ShortFacts ==
  ASSUME NEW S, NEW s \in Seq(S), NEW c \in S
  PROVE  /\ Len(s) = 1 => s = <<s[1]>> /\ Append(s, c) = <<s[1], c>>
         /\ Len(s) = 2 => s = <<s[1], s[2]>> /\ Append(s, c) = <<s[1], s[2], c>>
         /\ Len(s) = 3 => s = <<s[1], s[2], s[3]>>
<1>1. PICK u \in Seq(S) :
        /\ u = Append(s, c) /\ Len(u) = Len(s) + 1 /\ u[Len(s) + 1] = c
        /\ \A i \in 1 .. Len(s) : u[i] = s[i]
  <2>1. /\ Append(s, c) \in Seq(S) /\ Len(Append(s, c)) = Len(s) + 1
        /\ \A i \in 1 .. Len(s) : Append(s, c)[i] = s[i]
        /\ Append(s, c)[Len(s) + 1] = c
    BY AppendAt
  <2>2. QED
    BY <2>1
<1>2. /\ Len(u) = 2 => u = <<u[1], u[2]>>
      /\ Len(u) = 3 => u = <<u[1], u[2], u[3]>>
  BY TupleFacts
<1>3. Len(s) = 1 => Len(u) = 2 /\ u[1] = s[1] /\ u[2] = c
  BY <1>1
<1>4. Len(s) = 2 => Len(u) = 3 /\ u[1] = s[1] /\ u[2] = s[2] /\ u[3] = c
  BY <1>1
<1>5. QED
  BY <1>1, <1>2, <1>3, <1>4, TupleFacts

\* A lexeme of one goes on.
LEMMA AfterOne ==
  ASSUME NEW S, NEW a \in S, NEW c \in S
  PROVE  Append(<<a>>, c) = <<a, c>>
<1>1. <<a>> \in Seq(S) /\ Len(<<a>>) = 1 /\ <<a>>[1] = a
  OBVIOUS
<1>2. PICK z \in Seq(S) : z = <<a>> /\ Len(z) = 1 /\ z[1] = a
  <2>1. \E z \in Seq(S) : z = <<a>> /\ Len(z) = 1 /\ z[1] = a
    BY <1>1, Zenon
  <2>2. QED
    BY <2>1
<1>3. /\ Append(z, c) \in Seq(S) /\ Len(Append(z, c)) = Len(z) + 1
      /\ \A i \in 1 .. Len(z) : Append(z, c)[i] = z[i]
      /\ Append(z, c)[Len(z) + 1] = c
  BY AppendAt
<1>4. Len(Append(z, c)) = 2 /\ Append(z, c)[1] = a /\ Append(z, c)[2] = c
  <2>1. Len(z) + 1 = 2 /\ 1 \in 1 .. Len(z) /\ z[1] = a
    BY <1>2
  <2>2. QED
    BY <1>3, <2>1, Zenon
<1>5. \A u \in Seq(S) : Len(u) = 2 => u = <<u[1], u[2]>>
  BY TupleFacts
<1>6. QED
  BY <1>2, <1>3, <1>4, <1>5, Zenon

\* A punctuator that goes on is one character longer, or a comment.
LEMMA ContinuesFacts ==
  ASSUME NEW lexeme \in Seq(Character), IsPunctuation(lexeme),
         NEW c \in Character, c \in Continues(lexeme)
  PROVE  \/ IsPunctuation(Append(lexeme, c)) /\ ~(lexeme = <<"/">> /\ c \in {"/", "*"})
         \/ lexeme = <<"/">> /\ c \in {"/", "*"} /\ Append(lexeme, c) = <<"/", c>>
<1>1. CASE Len(lexeme) = 1
  <2>1. lexeme = <<lexeme[1]>> /\ Append(lexeme, c) = <<lexeme[1], c>>
    BY <1>1, ShortFacts
  <2>2. lexeme[1] \in DOMAIN Second /\ c \in Second[lexeme[1]]
    <3>1. \A a, b : <<"<", "<">> # <<a>> /\ <<">", ">">> # <<a>> /\ <<".", ".">> # <<a>>
      OBVIOUS
    <3>2. QED
      BY <1>1, <2>1, <3>1 DEF Continues
  <2>3. CASE <<lexeme[1], c>> \in Comments
    BY <2>1, <2>3 DEF Comments
  <2>4. CASE <<lexeme[1], c>> \notin Comments
    BY <2>1, <2>2, <2>4 DEF IsPunctuation, Comments
  <2>5. QED
    BY <2>3, <2>4
<1>2. CASE Len(lexeme) = 2
  <2>1. lexeme = <<lexeme[1], lexeme[2]>> /\ Append(lexeme, c) = <<lexeme[1], lexeme[2], c>>
    BY <1>2, ShortFacts
  <2>2. Append(lexeme, c) \in Triples
    BY <1>2, <2>1 DEF Continues, Triples
  <2>3. QED
    BY <1>2, <2>1, <2>2 DEF IsPunctuation
<1>3. CASE lexeme \in Triples
  <2>1. \A a, b, d : <<"<", "<">> # <<a, b, d>> /\ <<">", ">">> # <<a, b, d>>
                     /\ <<".", ".">> # <<a, b, d>> /\ Len(<<a, b, d>>) # 1
    OBVIOUS
  <2>2. \E a, b, d : lexeme = <<a, b, d>>
    BY <1>3 DEF Triples
  <2>3. Continues(lexeme) = {}
    BY <2>1, <2>2 DEF Continues
  <2>4. QED
    BY <2>3
<1>4. QED
  BY <1>1, <1>2, <1>3 DEF IsPunctuation

\* A punctuator that does not go on has the code of its text, and is as long as it
\* can be.
LEMMA PunctuatorClassified ==
  ASSUME NEW S, NEW lexeme \in Seq(S), IsPunctuation(lexeme), NEW peek \in S,
         peek \notin Continues(lexeme)
  PROVE  Answered(PunctuatorCode(lexeme), 0, lexeme, peek)
<1> DEFINE class == PunctuatorCode(lexeme)
           whole == Append(lexeme, peek)
<1>1. ASSUME class \in PunctuatorTexts, lexeme = class,
             whole \notin PunctuatorTexts \cup Comments
      PROVE  Answered(class, 0, lexeme, peek)
  <2>1. class \notin {ENDOF, IDENT, KWORD_VAR, LITER_INT, COMMENT, INVAL}
    <3>1. \A a \in {"ENDOF", "IDENT", "KWORD_VAR", "LITER_INT", "COMMENT", "INVAL"} :
            a \notin DOMAIN Second \cup {"(", ")", "[", "]", "{", "}", ",", "@"}
      BY DEF Second
    <3>2. \A a \in {"ENDOF", "IDENT", "KWORD_VAR", "LITER_INT", "COMMENT", "INVAL"} :
            <<a>> \notin PunctuatorTexts
      BY <3>1, PunctuatorOne
    <3>3. QED
      BY <1>1, <3>2 DEF ENDOF, IDENT, KWORD_VAR, LITER_INT, COMMENT, INVAL
  <2>2. QED
    BY <1>1, <2>1 DEF Answered, Classified, Comments
<1>2. CASE Len(lexeme) = 1
  <2>1. lexeme = <<lexeme[1]>> /\ whole = <<lexeme[1], peek>>
    BY <1>2, ShortFacts
  <2>2. PICK a : a = lexeme[1]
    OBVIOUS
  <2>3. lexeme = <<a>> /\ whole = <<a, peek>> /\ Len(lexeme) = 1
    BY <1>2, <2>1, <2>2
  <2>4. a \in DOMAIN Second => peek \notin Second[a]
    BY <2>2, <2>3 DEF Continues
  <2>5. whole \notin PunctuatorTexts \cup Comments
    BY <2>3, <2>4, PunctuatorTwo
  <2>6. CASE a \in {"[", "{", "]", "}"}
    <3>1. CASE a \in {"[", "{"}
      <4>1. class = <<"(">> /\ lexeme \in {<<"[">>, <<"{">>}
        BY <2>3, <3>1 DEF PunctuatorCode
      <4>2. QED
        BY <4>1 DEF Answered, BracketConfused
    <3>2. CASE a \in {"]", "}"}
      <4>1. class = <<")">> /\ lexeme \in {<<"]">>, <<"}">>}
        BY <2>3, <3>2 DEF PunctuatorCode
      <4>2. QED
        BY <4>1 DEF Answered, BracketConfused
    <3>3. QED
      BY <2>6, <3>1, <3>2
  <2>7. CASE a \in DOMAIN Second \cup {"(", ")", ",", "@"}
    <3>1. a \notin {"[", "{", "]", "}"}
      BY <2>7 DEF Second
    <3>2. class = lexeme
      <4>1. lexeme \notin {<<"[">>, <<"{">>, <<"]">>, <<"}">>}
        BY <2>3, <3>1
      <4>2. lexeme[1] \in DOMAIN Second \cup {"(", ")", ",", "@"}
        BY <2>2, <2>7
      <4>3. QED
        BY <4>1, <4>2 DEF PunctuatorCode
    <3>3. QED
      BY <1>1, <2>3, <2>5, <2>7, <3>2, PunctuatorOne
  <2>8. CASE a \notin DOMAIN Second \cup {"(", ")", ",", "@"} \cup {"[", "{", "]", "}"}
    <3>1. class = INVAL
      <4>1. lexeme \notin {<<"[">>, <<"{">>, <<"]">>, <<"}">>}
        BY <2>3, <2>8
      <4>2. lexeme[1] \notin DOMAIN Second \cup {"(", ")", "[", "]", "{", "}", ",", "@"}
        BY <2>2, <2>8
      <4>3. QED
        BY <1>2, <4>1, <4>2 DEF PunctuatorCode
    <3>2. lexeme \notin PunctuatorTexts
      BY <2>3, <2>8, PunctuatorOne
    <3>3. INVAL \notin {ENDOF, IDENT, KWORD_VAR, LITER_INT, COMMENT}
      BY DEF ENDOF, IDENT, KWORD_VAR, LITER_INT, COMMENT, INVAL
    <3>4. QED
      BY <2>3, <3>1, <3>2, <3>3 DEF Answered, Classified
  <2>9. QED
    BY <2>6, <2>7, <2>8
<1>3. CASE Len(lexeme) = 2 /\ lexeme \in PunctuatorTexts
  <2>1. lexeme = <<lexeme[1], lexeme[2]>> /\ whole = <<lexeme[1], lexeme[2], peek>>
    BY <1>3, ShortFacts
  <2>2. class = lexeme
    <3>1. \A a, b, c : <<c>> # <<a, b>>
      OBVIOUS
    <3>2. Len(lexeme) # 1
      BY <1>3
    <3>3. QED
      BY <2>1, <3>1, <3>2 DEF PunctuatorCode
  <2>3. whole \notin Triples
    BY <1>3, <2>1 DEF Continues, Triples
  <2>4. whole \notin Comments
    BY <2>1 DEF Comments
  <2>5. QED
    BY <1>1, <1>3, <2>1, <2>2, <2>3, <2>4, PunctuatorThree
<1>4. CASE lexeme \in Triples
  <2>1. PICK a, b, c : lexeme = <<a, b, c>> /\ Len(lexeme) = 3
    BY <1>4 DEF Triples
  <2>2. class = lexeme
    <3>1. \A x, y, z, d : <<d>> # <<x, y, z>>
      OBVIOUS
    <3>2. QED
      BY <2>1, <3>1 DEF PunctuatorCode
  <2>3. lexeme \in PunctuatorTexts
    BY <1>4, <2>1, PunctuatorThree
  <2>4. Len(whole) = 4
    BY <2>1
  <2>5. Len(<<"/", "/">>) = 2 /\ Len(<<"/", "*">>) = 2
    OBVIOUS
  <2>6. whole \notin PunctuatorTexts \cup Comments
    <3>1. whole \notin PunctuatorTexts
      <4>1. 4 \notin 1 .. 3
        OBVIOUS
      <4>2. QED
        BY <2>4, <4>1, PunctuatorLength
    <3>2. whole \notin Comments
      <4> HIDE DEF whole
      <4>1. \A x \in Comments : Len(x) = 2
        BY <2>5 DEF Comments
      <4>2. 4 # 2
        OBVIOUS
      <4>3. QED
        BY ONLY <2>4, <4>1, <4>2, Zenon
    <3>3. QED
      BY <3>1, <3>2
  <2>7. QED
    BY <1>1, <2>2, <2>3, <2>6
<1>5. QED
  <2>1. ASSUME Len(lexeme) = 2, lexeme[1] \in DOMAIN Second, lexeme[2] \in Second[lexeme[1]],
               lexeme \notin Comments
        PROVE  lexeme \in PunctuatorTexts
    BY <2>1, ShortFacts, PunctuatorTwo
  <2>2. QED
    BY <2>1, <1>2, <1>3, <1>4 DEF IsPunctuation

\* A literal ends where no digit of its radix follows.
LEMMA DigitsClassified ==
  ASSUME NEW S, NEW lexeme \in Seq(S), lexeme # <<>>, NEW base, IsDigits(lexeme, base),
         NEW peek, peek \notin DigitOf[base],
         Len(lexeme) = 2 /\ lexeme[1] = "0" => peek \in DigitOf[base]
  PROVE  Answered(LITER_INT, base, lexeme, peek)
<1>1. LITER_INT \notin {ENDOF, IDENT, KWORD_VAR, COMMENT, INVAL}
  BY DEF ENDOF, IDENT, KWORD_VAR, LITER_INT, COMMENT, INVAL
<1>2. CASE /\ base = 10 /\ lexeme[1] \in Digit \ {"0"}
           /\ \A i \in 1 .. Len(lexeme) : lexeme[i] \in DigitOf[10]
  <2>1. AllIn(lexeme, DigitOf[10])
    BY <1>2 DEF AllIn, ToSet
  <2>2. lexeme[1] \in Digit /\ lexeme[1] # "0"
    BY <1>2
  <2>3. QED
    BY <1>1, <1>2, <2>1, <2>2 DEF Answered, Classified
<1>3. CASE /\ base \in {2, 8, 10, 16} /\ lexeme[1] = "0" /\ Len(lexeme) >= 2
           /\ RadixOf(lexeme[2]) = base
           /\ \A i \in 3 .. Len(lexeme) : lexeme[i] \in DigitOf[base]
  <2>1. Len(lexeme) > 2
    <3>1. Len(lexeme) # 2
      BY <1>3
    <3>2. Len(lexeme) \in Nat /\ Len(lexeme) >= 2
      BY <1>3
    <3>3. \A n \in Nat : n >= 2 /\ n # 2 => n > 2
      OBVIOUS
    <3>4. QED
      BY <3>1, <3>2, <3>3, Zenon
  <2>2. AllIn(SubSeq(lexeme, 3, Len(lexeme)), DigitOf[base])
    <3>1. \A i \in 1 .. Len(lexeme) - 2 : 2 + i \in 3 .. Len(lexeme)
      OBVIOUS
    <3>2. /\ Len(SubSeq(lexeme, 2 + 1, Len(lexeme))) = Len(lexeme) - 2
          /\ SubSeq(lexeme, 2 + 1, Len(lexeme)) \in Seq(S)
          /\ \A i \in 1 .. Len(lexeme) - 2 : SubSeq(lexeme, 2 + 1, Len(lexeme))[i] = lexeme[2 + i]
      BY <2>1, PartFacts
    <3>3. \A i \in 1 .. Len(lexeme) - 2 : SubSeq(lexeme, 3, Len(lexeme))[i] \in DigitOf[base]
      BY <1>3, <3>1, <3>2
    <3>4. DOMAIN SubSeq(lexeme, 3, Len(lexeme)) = 1 .. Len(lexeme) - 2
      BY <3>2
    <3>5. QED
      BY <3>3, <3>4 DEF AllIn, ToSet
  <2>3. lexeme[1] \in Digit
    BY <1>3 DEF Digit
  <2>4. QED
    BY <1>1, <1>3, <2>1, <2>2, <2>3 DEF Answered, Classified
<1>4. QED
  BY <1>2, <1>3 DEF IsDigits

\* What is taken for the keyword: it, and its first two letters.
LEMMA KeywordTexts ==
  ASSUME NEW S, NEW lexeme \in Seq(S), IsKeyword(lexeme)
  PROVE  lexeme \in {<<"v", "a">>, <<"v", "a", "r">>}
<1> DEFINE var == <<"v", "a", "r">>
<1>1. Len(var) = 3 /\ var[1] = "v" /\ var[2] = "a" /\ var[3] = "r"
  OBVIOUS
<1>2. Len(lexeme) \in Nat /\ Len(lexeme) > 1 /\ IsPrefix(lexeme, var)
  BY DEF IsKeyword
<1>3. Len(lexeme) <= 3 /\ \A i \in 1 .. Len(lexeme) : lexeme[i] = var[i]
  BY <1>1, <1>2 DEF IsPrefix
<1>4. Len(lexeme) = 2 \/ Len(lexeme) = 3
  <2>1. \A n \in Nat : n > 1 /\ n <= 3 => n = 2 \/ n = 3
    OBVIOUS
  <2>2. QED
    BY <1>2, <1>3, <2>1
<1>5. lexeme[1] = "v" /\ lexeme[2] = "a" /\ (Len(lexeme) = 3 => lexeme[3] = "r")
  BY <1>1, <1>3, <1>4
<1>6. Len(lexeme) = 2 => lexeme = <<"v", "a">>
  BY <1>5, ShortFacts
<1>7. Len(lexeme) = 3 => lexeme = var
  BY <1>5, ShortFacts
<1>8. QED
  BY <1>4, <1>6, <1>7

\* A word ends where nothing follows that would be part of it.
LEMMA WordClassified ==
  ASSUME NEW S, NEW lexeme \in Seq(S), lexeme # <<>>, lexeme[1] \in IdentStart,
         \A i \in 2 .. Len(lexeme) : lexeme[i] \in Ident, NEW peek, peek \notin Ident
  PROVE  Answered(IF IsKeyword(lexeme) THEN KWORD_VAR ELSE IDENT, 0, lexeme, peek)
<1> DEFINE class == IF IsKeyword(lexeme) THEN KWORD_VAR ELSE IDENT
<1>1. AllIn(Tail(lexeme), Ident)
  <2>1. /\ Tail(lexeme) \in Seq(S) /\ Len(Tail(lexeme)) = Len(lexeme) - 1
        /\ \A i \in 1 .. Len(lexeme) - 1 : Tail(lexeme)[i] = lexeme[i + 1]
    OBVIOUS
  <2>2. \A i \in 1 .. Len(lexeme) - 1 : i + 1 \in 2 .. Len(lexeme)
    OBVIOUS
  <2>3. DOMAIN Tail(lexeme) = 1 .. Len(lexeme) - 1
    BY <2>1
  <2>4. QED
    BY <2>1, <2>2, <2>3 DEF AllIn, ToSet
<1>2. lexeme = <<"v", "a", "r">> => IsKeyword(lexeme)
  <2>1. Len(<<"v", "a", "r">>) = 3 /\ 3 > 1 /\ 3 <= 3
    OBVIOUS
  <2>2. IsPrefix(<<"v", "a", "r">>, <<"v", "a", "r">>)
    BY <2>1 DEF IsPrefix
  <2>3. QED
    BY <2>1, <2>2 DEF IsKeyword
<1>3. class \in {IDENT, KWORD_VAR} /\ class \notin {ENDOF, LITER_INT, COMMENT, INVAL}
  BY DEF ENDOF, IDENT, KWORD_VAR, LITER_INT, COMMENT, INVAL
<1>4. lexeme = <<"v", "a", "r">> => class = KWORD_VAR
  BY <1>2
<1>5. class = KWORD_VAR => lexeme \in {<<"v", "a">>, <<"v", "a", "r">>}
  <2>1. IDENT # KWORD_VAR
    BY DEF IDENT, KWORD_VAR
  <2>2. QED
    BY <2>1, KeywordTexts
<1> HIDE DEF class
<1>6. ASSUME class = KWORD_VAR, lexeme = <<"v", "a">> PROVE Answered(class, 0, lexeme, peek)
  BY <1>6 DEF Answered, KeywordPrefix
<1>7. ASSUME class = KWORD_VAR <=> lexeme = <<"v", "a", "r">>
      PROVE  Answered(class, 0, lexeme, peek)
  <2>1. Classified(class, 0, lexeme, peek)
    BY <1>1, <1>3, <1>7 DEF Classified
  <2>2. QED
    BY <2>1 DEF Answered
<1>8. Answered(class, 0, lexeme, peek)
  BY <1>4, <1>5, <1>6, <1>7, Zenon
<1>9. QED
  BY <1>8 DEF class

\* The end of the source, where nothing can be seen.
LEMMA EndClassified ==
  ASSUME NEW base
  PROVE  Answered(ENDOF, base, <<>>, EOF)
<1>1. ENDOF \notin {IDENT, KWORD_VAR, LITER_INT, COMMENT, INVAL}
  BY DEF ENDOF, IDENT, KWORD_VAR, LITER_INT, COMMENT, INVAL
<1>2. QED
  BY <1>1 DEF Answered, Classified

LEMMA CommentClassified ==
  ASSUME NEW S, NEW lexeme \in Seq(S), NEW peek, Len(lexeme) >= 2, EndsComment(lexeme, peek)
  PROVE  Answered(COMMENT, 0, lexeme, peek)
<1>1. COMMENT \notin {ENDOF, IDENT, KWORD_VAR, LITER_INT, INVAL}
  BY DEF ENDOF, IDENT, KWORD_VAR, LITER_INT, COMMENT, INVAL
<1>2. QED
  BY <1>1 DEF Answered, Classified

\* A comment of a line ends with it, or at the end of the source.
LEMMA LineClassified ==
  ASSUME NEW S, NEW lexeme \in Seq(S), NEW peek, Len(lexeme) >= 2, lexeme[2] = "/",
         \A i \in 1 .. Len(lexeme) - 1 : lexeme[i] # "\n",
         lexeme[Len(lexeme)] = "\n" \/ peek = EOF
  PROVE  Answered(COMMENT, 0, lexeme, peek)
<1>1. lexeme # <<>>
  OBVIOUS
<1>2. /\ Front(lexeme) \in Seq(S) /\ Len(Front(lexeme)) = Len(lexeme) - 1
      /\ \A i \in 1 .. Len(lexeme) - 1 : Front(lexeme)[i] = lexeme[i]
  BY <1>1, FrontAt
<1>3. DOMAIN Front(lexeme) = 1 .. Len(lexeme) - 1
  BY <1>2
<1>4. "\n" \notin ToSet(Front(lexeme))
  BY <1>2, <1>3 DEF ToSet
<1>5. Last(lexeme) = lexeme[Len(lexeme)]
  BY DEF Last
<1>6. EndsComment(lexeme, peek)
  BY <1>4, <1>5 DEF EndsComment
<1>7. QED
  BY <1>6, CommentClassified

\* A block comment ends with its delimiter, or at the end of the source.
LEMMA BlockClassified ==
  ASSUME NEW S, NEW lexeme \in Seq(S), NEW peek, IsBlock(lexeme),
         \/ peek = EOF
         \/ /\ Len(lexeme) >= 4
            /\ lexeme[Len(lexeme) - 1] = "*" /\ lexeme[Len(lexeme)] = "/"
  PROVE  Answered(COMMENT, 0, lexeme, peek)
<1>1. Len(lexeme) >= 2 /\ lexeme[2] # "/"
  BY DEF IsBlock
<1>2. ASSUME Len(lexeme) >= 4, lexeme[Len(lexeme) - 1] = "*", lexeme[Len(lexeme)] = "/"
      PROVE  IsSuffix(<<"*", "/">>, lexeme)
  <2> DEFINE n == Len(lexeme)
             p == Reverse(<<"*", "/">>)
             q == Reverse(lexeme)
  <2>1. p = [i \in 1 .. 2 |-> <<"*", "/">>[(2 - i) + 1]]
    BY DEF Reverse
  <2> HIDE DEF p
  <2>2. p \in Seq({"/", "*"}) /\ Len(p) = 2 /\ p[1] = "/" /\ p[2] = "*"
    <3>1. (2 - 1) + 1 = 2 /\ (2 - 2) + 1 = 1
      OBVIOUS
    <3>2. <<"*", "/">>[1] = "*" /\ <<"*", "/">>[2] = "/"
      OBVIOUS
    <3>3. p = [i \in 1 .. 2 |-> IF i = 1 THEN "/" ELSE "*"]
      BY <2>1, <3>1, <3>2
    <3>4. \A i \in 1 .. 2 : p[i] \in {"/", "*"}
      BY <3>3
    <3>5. DOMAIN p = 1 .. 2 /\ p = [i \in 1 .. 2 |-> p[i]]
      BY <3>3
    <3>6. p \in Seq({"/", "*"}) /\ Len(p) = 2
      BY <3>4, <3>5
    <3>7. p[1] = "/" /\ p[2] = "*"
      BY <3>3
    <3>8. QED
      BY <3>6, <3>7
  <2>3. n \in Nat /\ n >= 4
    BY <1>2
  <2>4. q = [i \in 1 .. n |-> lexeme[(n - i) + 1]]
    BY DEF Reverse
  <2>5. \A i \in 1 .. n : (n - i) + 1 \in 1 .. n
    BY <2>3
  <2>6. q \in Seq(S) /\ Len(q) = n
    BY <2>3, <2>4, <2>5
  <2>7. q[1] = "/" /\ q[2] = "*"
    <3>1. (n - 1) + 1 = n /\ (n - 2) + 1 = n - 1 /\ 1 \in 1 .. n /\ 2 \in 1 .. n
      BY <2>3
    <3>2. q[1] = lexeme[n] /\ q[2] = lexeme[n - 1]
      BY <2>4, <3>1
    <3>3. QED
      BY <1>2, <3>2
  <2> HIDE DEF p, q, n
  <2>8. ASSUME NEW T, NEW x \in Seq(T), Len(x) >= 2 PROVE SubSeq(x, 1, 2) = <<x[1], x[2]>>
    <3>1. PICK y \in Seq(T) : y = SubSeq(x, 1, 2) /\ Len(y) = 2 /\ y[1] = x[1] /\ y[2] = x[2]
      <4>1. /\ SubSeq(x, 1, 2) \in Seq(T) /\ Len(SubSeq(x, 1, 2)) = 2
            /\ SubSeq(x, 1, 2)[1] = x[1] /\ SubSeq(x, 1, 2)[2] = x[2]
        BY <2>8
      <4>2. QED
        BY <4>1
    <3>2. y = <<y[1], y[2]>>
      BY <3>1, TupleFacts
    <3>3. QED
      BY <3>1, <3>2
  <2>9. SubSeq(p, 1, 2) = <<"/", "*">>
    <3>1. SubSeq(p, 1, 2) = <<p[1], p[2]>>
      <4>1. p \in Seq({"/", "*"}) /\ Len(p) >= 2
        BY <2>2
      <4>2. QED
        BY ONLY <4>1, <2>8, Zenon
    <3>2. QED
      BY <2>2, <3>1
  <2>10. SubSeq(q, 1, 2) = <<"/", "*">>
    BY <2>3, <2>6, <2>7, <2>8
  <2>11. IsPrefix(p, q)
    <3>1. Len(p) <= Len(q)
      BY <2>2, <2>3, <2>6
    <3>2. Len(p) = 2
      BY <2>2
    <3>3. QED
      BY <3>1, <3>2, <2>9, <2>10 DEF IsPrefix
  <2>12. QED
    BY <2>11 DEF IsSuffix, p, q
<1>3. EndsComment(lexeme, peek)
  BY <1>1, <1>2 DEF EndsComment
<1>4. QED
  BY <1>1, <1>3, CommentClassified

-------------------------------------------------------------------------------
(* The steps of a scan.                                                       *)

LEMMA LexemeIsText ==
  ASSUME SourceInv
  PROVE  /\ RawLexeme(source) \in Seq(Character)
         /\ RawLexeme(source) \in Seq(Character \cup {EOF})
         /\ Peek \in Character \cup {EOF}
<1>1. RawLexeme(source) \in Seq(Character)
  BY LexemeFacts DEF SourceInv
<1>2. Peek \in Character \cup {EOF}
  BY PeekFacts DEF SourceInv, Peek
<1>3. RawLexeme(source) \in Seq(Character \cup {EOF})
  BY <1>1
<1>4. QED
  BY <1>1, <1>2, <1>3

\* A read keeps what is known of the source.
LEMMA ReadSource ==
  ASSUME StateType, SourceInv, mode # "closed", mode = "space" => mode' = "space",
         ~Overruns(source), source' = AfterRead, UNCHANGED historyVars
  PROVE  SourceInv' /\ Reads(source, Got, source')
<1>1. /\ StreamSound(source) /\ text \in Seq(Character) /\ origin \in Nat
      /\ source' = SourceRead(source).source
  BY DEF StateType, SourceInv, AfterRead
<1>2. StreamSound(source') /\ Reads(source, Got, source') /\ Keeps(source, source', text, origin)
  BY <1>1, ReadFacts, ReadKeeps DEF Got
<1>3. UNCHANGED <<text, origin, dropped>>
  BY DEF historyVars
<1>4. QED
  BY <1>2, <1>3 DEF SourceInv, Keeps

\* What can be seen is read.
LEMMA PeekSource ==
  ASSUME StateType, SourceInv, mode # "closed", mode = "space" => mode' = "space",
         Peek # EOF, source' = AfterRead, UNCHANGED historyVars
  PROVE  /\ SourceInv' /\ Peek \in Character \ {NUL}
         /\ RawLexeme(source)' = Append(RawLexeme(source), Peek)
<1>1. /\ StreamSound(source) /\ SourcePeek(source) # EOF
      /\ source' = SourceRead(source).source
  BY DEF SourceInv, AfterRead, Peek
<1>2. /\ ~Overruns(source) /\ Peek \in Character \ {NUL}
      /\ RawLexeme(source') = Append(RawLexeme(source), Peek)
  BY <1>1, PeekFacts DEF Peek
<1>3. QED
  BY <1>2, ReadSource

\* A step that leaves the source alone.
LEMMA SameSource ==
  ASSUME SourceInv, mode # "closed", mode = "space" => mode' = "space",
         UNCHANGED <<source, text, origin, dropped>>
  PROVE  SourceInv'
  BY DEF SourceInv

\* A token begins where the last one ended.
LEMMA AdvanceFacts ==
  ASSUME NEW s, StreamSound(s)
  PROVE  /\ StreamSound(SourceAdvance(s)) /\ RawLexeme(SourceAdvance(s)) = <<>>
         /\ SourcePeek(SourceAdvance(s)) = SourcePeek(s)
         /\ SourceAdvance(s).stale = s.stale
         /\ \A t, o : /\ Shows(s, t, o) => Shows(SourceAdvance(s), t, o)
                      /\ Placed(s.forward, s, t, o) =>
                           /\ Placed(SourceAdvance(s).forward, SourceAdvance(s), t, o)
                           /\ Placed(SourceAdvance(s).current, SourceAdvance(s), t, o)
<1> DEFINE r == SourceAdvance(s)
<1>1. s \in Stream /\ s.forward \in Position
  BY DEF StreamSound, Stream
<1>2. /\ r \in Stream /\ r.current = s.forward /\ r.forward = s.forward /\ r.kind = s.kind
      /\ r.buffer = s.buffer /\ r.unread = s.unread /\ r.streamSize = s.streamSize
      /\ r.delta = s.delta /\ r.stale = s.stale
  BY <1>1 DEF SourceAdvance, Stream
<1> HIDE DEF r
<1>3. s.forward.offset \in Nat /\ s.buffer \in Seq(Character)
  BY <1>1 DEF Stream, Position
<1>4. StreamSound(r)
  BY <1>2, <1>3 DEF StreamSound
<1>5. RawLexeme(r) = <<>>
  BY <1>2, <1>3 DEF RawLexeme
<1>6. SourcePeek(r) = SourcePeek(s)
  BY <1>2 DEF SourcePeek, AtBufferEnd, BufferSize, ByteAt
<1>7. ASSUME NEW t, NEW o
      PROVE  /\ Shows(s, t, o) => Shows(r, t, o)
             /\ Placed(s.forward, s, t, o) =>
                  Placed(r.forward, r, t, o) /\ Placed(r.current, r, t, o)
  <2>1. ShowsFile(s, t) => ShowsFile(r, t)
    BY <1>2 DEF ShowsFile
  <2>2. ShowsLine(s, t, o) => ShowsLine(r, t, o)
    BY <1>2 DEF ShowsLine
  <2>3. Base(r, o) = Base(s, o)
    BY <1>2 DEF Base
  <2>4. QED
    BY <1>2, <2>1, <2>2, <2>3 DEF Shows, Placed
<1>8. QED
  BY <1>2, <1>4, <1>5, <1>6, <1>7 DEF r

\* Outside the lexemes of a mode there is nothing to know.
LEMMA NoLexeme ==
  ASSUME mode' \in {"prompt", "host", "lost", "closed", "space"}
  PROVE  LexemeInv'
  BY DEF LexemeInv, Shape

\* A token that is made of the source as it is then.
LEMMA FinishMade ==
  ASSUME NEW class, NEW base, FinishToken(class, source', base),
         Answered(class, base, RawLexeme(source)', Peek')
  PROVE  MadeSound' /\ LexemeInv' /\ mode' = "host" /\ made' = TRUE
<1>1. token' = MakeToken(class, source', base) /\ mode' = "host" /\ made' = TRUE
  BY DEF FinishToken
<1>2. token'.code = class /\ token'.radix = base
  BY <1>1 DEF MakeToken
<1>3. QED
  BY <1>1, <1>2, NoLexeme DEF MadeSound

\* What a step of a scan has to keep.
LEMMA ScanLexerInv ==
  ASSUME LexerInv, Scanning, UNCHANGED historyVars, mode' \in Modes \ {"prompt", "closed"},
         radix' \in {0, 2, 8, 10, 16}, counter' \in Nat, SourceInv', LexemeInv',
         UNCHANGED made \/ made' = FALSE \/ (made' = TRUE /\ MadeSound')
  PROVE  LexerInv'
<1>1. made = FALSE
  BY DEF LexerInv, MadeSound, Scanning, StateType
<1>2. MadeSound' /\ made' \in BOOLEAN
  BY <1>1 DEF MadeSound
<1>3. StateType'
  BY <1>2 DEF LexerInv, StateType, historyVars, Modes
<1>4. QED
  BY <1>2, <1>3 DEF LexerInv

LEMMA SkipSpaceLexerInv == ASSUME LexerInv, SkipSpace PROVE LexerInv'
<1>1. Peek # EOF
  BY DEF SkipSpace, Space, EOF
<1>2. /\ mode = "space" /\ mode' = "space" /\ UNCHANGED <<radix, counter, made>>
      /\ UNCHANGED historyVars /\ source' = AfterRead
  BY DEF SkipSpace, Continue
<1>3. SourceInv'
  BY <1>1, <1>2, PeekSource DEF LexerInv
<1>4. QED
  BY <1>2, <1>3, NoLexeme, ScanLexerInv DEF LexerInv, StateType, Scanning, Modes

LEMMA OverrunLexerInv == ASSUME LexerInv, Overrun PROVE LexerInv'
<1>1. /\ mode \in {"zero", "line", "block"} /\ mode' = "lost"
      /\ UNCHANGED <<source, radix, counter, made>> /\ UNCHANGED historyVars
  BY DEF Overrun
<1>2. SourceInv'
  BY <1>1, SameSource DEF LexerInv, historyVars
<1>3. QED
  BY <1>1, <1>2, NoLexeme, ScanLexerInv DEF LexerInv, StateType, Scanning, Modes

\* The digits of a radix are characters, the ten among those of ten.
LEMMA DigitFacts ==
  /\ Digit \subseteq DigitOf[10]
  /\ \A base \in {2, 8, 10, 16} : EOF \notin DigitOf[base]
<1>1. DigitOf[2] = {"_"} \cup {"0", "1"}
  BY DEF DigitOf
<1>2. DigitOf[8] = {"_"} \cup (Digit \ {"8", "9"})
  BY DEF DigitOf
<1>3. DigitOf[10] = {"_"} \cup Digit
  BY DEF DigitOf
<1>4. DigitOf[16] = {"_"} \cup (Digit \cup (Letter \ {"r", "t", "v", "x", "z", "X"}))
  BY DEF DigitOf
<1>5. EOF \notin {"_"} \cup Digit \cup Letter
  BY DEF EOF, Digit, Letter
<1>6. EOF \notin {"_"} \cup {"0", "1"}
  BY DEF EOF
<1>7. QED
  BY <1>1, <1>2, <1>3, <1>4, <1>5, <1>6

LEMMA StartLexemeLexerInv == ASSUME LexerInv, StartLexeme PROVE LexerInv'
<1> DEFINE s == SourceAdvance(source)
<1>1. /\ mode = "space" /\ Peek \notin Space /\ UNCHANGED historyVars /\ counter' = counter
  BY DEF StartLexeme
<1>2. StreamSound(source) /\ text \in Seq(Character) /\ origin \in Nat
  BY DEF LexerInv, SourceInv, StateType
<1>3. /\ StreamSound(s) /\ RawLexeme(s) = <<>> /\ SourcePeek(s) = Peek /\ s.stale = source.stale
      /\ ~s.stale => Shows(s, text, origin)
      /\ ~s.stale /\ ~dropped => /\ Placed(s.forward, s, text, origin)
                                 /\ Placed(s.current, s, text, origin)
  BY <1>1, <1>2, AdvanceFacts DEF LexerInv, SourceInv, Peek
<1> HIDE DEF s
<1>4. UNCHANGED <<text, origin, dropped>>
  BY <1>1 DEF historyVars
<1>5. CASE Peek = EOF
  <2>1. source' = s /\ FinishToken(ENDOF, source', 0) /\ radix' = radix
    BY <1>5 DEF StartLexeme, s
  <2>2. SourceInv'
    BY <2>1, <1>3, <1>4 DEF SourceInv
  <2>3. Answered(ENDOF, 0, RawLexeme(source)', Peek')
    BY <2>1, <1>3, <1>5, EndClassified DEF Peek
  <2>4. MadeSound' /\ LexemeInv' /\ mode' = "host" /\ made' = TRUE
    BY <2>1, <2>3, FinishMade
  <2>5. QED
    BY <1>1, <2>1, <2>2, <2>4, ScanLexerInv DEF LexerInv, StateType, Scanning, Modes
<1>6. CASE Peek # EOF
  <2>1. /\ source' = SourceRead(s).source /\ radix' = 10 /\ made' = made
        /\ mode' = CASE Peek = "0" -> "zero"
                     [] Peek \in Digit \ {"0"} -> "digits"
                     [] Peek \in IdentStart -> "ident"
                     [] OTHER -> "punct"
    BY <1>6 DEF StartLexeme, Continue, s
  <2>2. /\ ~Overruns(s) /\ Peek \in Character /\ StreamSound(source')
        /\ RawLexeme(source') = Append(RawLexeme(s), Peek)
    BY <1>3, <1>6, <2>1, PeekFacts
  <2>3. Keeps(s, source', text, origin)
    BY <1>2, <1>3, <2>1, <2>2, ReadKeeps
  <2>4. SourceInv'
    BY <1>3, <1>4, <2>2, <2>3 DEF SourceInv, Keeps
  <2>5. RawLexeme(source)' = <<Peek>>
    BY <1>3, <2>2
  <2>6. PICK c : c = Peek /\ RawLexeme(source)' = <<c>>
    BY <2>5
  <2>7. /\ Len(<<c>>) = 1 /\ <<c>>[1] = c /\ <<c>> # <<>>
        /\ \A i \in 1 .. Len(<<c>>) : <<c>>[i] = c
        /\ \A i \in 2 .. Len(<<c>>) : FALSE
    OBVIOUS
  <2>8. CASE c = "0"
    <3>1. mode' = "zero"
      BY <2>1, <2>6, <2>8 DEF Digit, IdentStart, Letter
    <3>2. LexemeInv'
      BY <2>6, <2>8, <3>1 DEF LexemeInv, Shape
    <3>3. QED
      BY <1>1, <2>1, <2>4, <3>1, <3>2, ScanLexerInv DEF LexerInv, StateType, Scanning, Modes
  <2>9. CASE c \in Digit \ {"0"}
    <3>1. mode' = "digits"
      BY <2>1, <2>6, <2>9 DEF Digit, IdentStart, Letter
    <3>2. c \in DigitOf[10]
      BY <2>9, DigitFacts
    <3>3. IsDigits(<<c>>, 10)
      BY <2>7, <2>9, <3>2 DEF IsDigits
    <3>4. LexemeInv'
      BY <2>1, <2>6, <2>7, <3>1, <3>3 DEF LexemeInv, Shape
    <3>5. QED
      BY <1>1, <2>1, <2>4, <3>1, <3>4, ScanLexerInv DEF LexerInv, StateType, Scanning, Modes
  <2>10. CASE c \in IdentStart
    <3>1. mode' = "ident"
      BY <2>1, <2>6, <2>10 DEF Digit, IdentStart, Letter
    <3>2. LexemeInv'
      BY <2>6, <2>7, <2>10, <3>1 DEF LexemeInv, Shape
    <3>3. QED
      BY <1>1, <2>1, <2>4, <3>1, <3>2, ScanLexerInv DEF LexerInv, StateType, Scanning, Modes
  <2>11. CASE c # "0" /\ c \notin Digit \ {"0"} /\ c \notin IdentStart
    <3>1. mode' = "punct"
      BY <2>1, <2>6, <2>11
    <3>2. LexemeInv'
      BY <2>6, <2>7, <3>1 DEF LexemeInv, Shape, IsPunctuation
    <3>3. QED
      BY <1>1, <2>1, <2>4, <3>1, <3>2, ScanLexerInv DEF LexerInv, StateType, Scanning, Modes
  <2>12. QED
    BY <2>8, <2>9, <2>10, <2>11
<1>7. QED
  BY <1>5, <1>6
LEMMA ReadRadixLexerInv == ASSUME LexerInv, ReadRadix PROVE LexerInv'
<1> DEFINE lexeme == RawLexeme(source)
<1>1. /\ mode = "zero" /\ ~Overruns(source) /\ UNCHANGED historyVars /\ counter' = counter
      /\ source' = AfterRead /\ radix' = RadixOf(Got)
  BY DEF ReadRadix, Reading
<1>2. SourceInv' /\ Reads(source, Got, source')
  BY <1>1, ReadSource DEF LexerInv
<1>3. lexeme = <<"0">>
  BY <1>1 DEF LexerInv, LexemeInv, Shape
<1>4. radix' \in {0, 2, 8, 10, 16}
  BY <1>1 DEF RadixOf
<1>5. CASE radix' # 0 /\ Peek' \in DigitOf[radix']
  <2>1. mode' = "digits" /\ made' = made
    BY <1>5 DEF ReadRadix, Continue, Peek
  <2>2. Got # EOF
    BY <1>1, <1>5 DEF RadixOf, EOF
  <2>3. Got \in Character /\ RawLexeme(source)' = Append(lexeme, Got)
    BY <1>2, <2>2 DEF Reads
  <2>4. PICK c \in Character : c = Got /\ RawLexeme(source)' = <<"0", c>>
    <3>1. RawLexeme(source)' = Append(<<"0">>, Got)
      BY <1>3, <2>3, Zenon
    <3>2. "0" \in Character \cup {"0"} /\ Got \in Character \cup {"0"}
      BY <2>3
    <3>3. QED
      BY <2>3, <3>1, <3>2, AfterOne
  <2>5. PICK r \in {2, 8, 10, 16} : r = radix'
    BY <1>4, <1>5
  <2>6. RadixOf(c) = r
    BY <1>1, <2>4, <2>5
  <2>7. IsDigits(<<"0", c>>, r)
    <3>1. /\ Len(<<"0", c>>) = 2 /\ <<"0", c>>[1] = "0" /\ <<"0", c>>[2] = c
          /\ \A i \in 3 .. Len(<<"0", c>>) : FALSE
      OBVIOUS
    <3>2. QED
      BY <2>6, <3>1 DEF IsDigits
  <2>8. LexemeInv'
    <3>1. <<"0", c>> # <<>> /\ Peek' \in DigitOf[r]
      BY <1>5, <2>5
    <3>2. QED
      BY <2>1, <2>4, <2>5, <2>7, <3>1 DEF LexemeInv, Shape
  <2>9. QED
    BY <1>1, <1>2, <1>4, <2>1, <2>8, ScanLexerInv DEF LexerInv, StateType, Scanning, Modes
<1>6. CASE ~(radix' # 0 /\ Peek' \in DigitOf[radix'])
  <2>1. mode' = "host" /\ made' = FALSE
    BY <1>6 DEF ReadRadix, FinishWithout, Peek
  <2>2. QED
    BY <1>1, <1>2, <1>4, <2>1, NoLexeme, ScanLexerInv DEF LexerInv, StateType, Scanning, Modes
<1>7. QED
  BY <1>5, <1>6

\* A character more of a literal, and of a word.
LEMMA DigitsNext ==
  ASSUME NEW lexeme \in Seq(Character), NEW base, lexeme # <<>>, IsDigits(lexeme, base),
         NEW c \in Character, c \in DigitOf[base]
  PROVE  /\ IsDigits(Append(lexeme, c), base) /\ Append(lexeme, c) # <<>>
         /\ ~(Len(Append(lexeme, c)) = 2 /\ Append(lexeme, c)[1] = "0")
<1>1. PICK n \in Nat : n = Len(lexeme) /\ n >= 1
  OBVIOUS
<1>2. PICK u \in Seq(Character) :
        /\ u = Append(lexeme, c) /\ Len(u) = n + 1 /\ u[n + 1] = c
        /\ \A i \in 1 .. n : u[i] = lexeme[i]
  <2>1. /\ Append(lexeme, c) \in Seq(Character) /\ Len(Append(lexeme, c)) = Len(lexeme) + 1
        /\ \A i \in 1 .. Len(lexeme) : Append(lexeme, c)[i] = lexeme[i]
        /\ Append(lexeme, c)[Len(lexeme) + 1] = c
    BY AppendAt
  <2>2. QED
    BY <1>1, <2>1, Zenon
<1>3. u # <<>> /\ u[1] = lexeme[1]
  BY <1>1, <1>2
<1>4. CASE /\ base = 10 /\ lexeme[1] \in Digit \ {"0"}
           /\ \A i \in 1 .. Len(lexeme) : lexeme[i] \in DigitOf[10]
  <2>1. \A i \in 1 .. n + 1 : i = n + 1 \/ i \in 1 .. n
    BY <1>1
  <2>2. \A i \in 1 .. n + 1 : u[i] \in DigitOf[10]
    BY <1>1, <1>2, <1>4, <2>1
  <2>3. IsDigits(u, base)
    BY <1>2, <1>3, <1>4, <2>2 DEF IsDigits
  <2>4. QED
    BY <1>2, <1>3, <1>4, <2>3
<1>5. CASE /\ base \in {2, 8, 10, 16} /\ lexeme[1] = "0" /\ Len(lexeme) >= 2
           /\ RadixOf(lexeme[2]) = base
           /\ \A i \in 3 .. Len(lexeme) : lexeme[i] \in DigitOf[base]
  <2>1. n >= 2
    BY <1>1, <1>5
  <2>2. \A i \in 3 .. n + 1 : i = n + 1 \/ (i \in 3 .. n /\ i \in 1 .. n)
    BY <1>1
  <2>3. \A i \in 3 .. n + 1 : u[i] \in DigitOf[base]
    BY <1>1, <1>2, <1>5, <2>2
  <2>4. u[2] = lexeme[2] /\ n + 1 >= 2 /\ n + 1 # 2
    BY <1>2, <2>1
  <2>5. IsDigits(u, base)
    BY <1>2, <1>3, <1>5, <2>3, <2>4 DEF IsDigits
  <2>6. QED
    BY <1>2, <1>3, <2>4, <2>5
<1>6. QED
  BY <1>4, <1>5 DEF IsDigits

LEMMA WordNext ==
  ASSUME NEW lexeme \in Seq(Character), lexeme # <<>>, lexeme[1] \in IdentStart,
         \A i \in 2 .. Len(lexeme) : lexeme[i] \in Ident, NEW c \in Character, c \in Ident
  PROVE  /\ Append(lexeme, c) # <<>> /\ Append(lexeme, c)[1] \in IdentStart
         /\ \A i \in 2 .. Len(Append(lexeme, c)) : Append(lexeme, c)[i] \in Ident
<1>1. PICK n \in Nat : n = Len(lexeme) /\ n >= 1
  OBVIOUS
<1>2. PICK u \in Seq(Character) :
        /\ u = Append(lexeme, c) /\ Len(u) = n + 1 /\ u[n + 1] = c
        /\ \A i \in 1 .. n : u[i] = lexeme[i]
  <2>1. /\ Append(lexeme, c) \in Seq(Character) /\ Len(Append(lexeme, c)) = Len(lexeme) + 1
        /\ \A i \in 1 .. Len(lexeme) : Append(lexeme, c)[i] = lexeme[i]
        /\ Append(lexeme, c)[Len(lexeme) + 1] = c
    BY AppendAt
  <2>2. QED
    BY <1>1, <2>1, Zenon
<1>3. \A i \in 2 .. n + 1 : i = n + 1 \/ (i \in 2 .. n /\ i \in 1 .. n)
  BY <1>1
<1>4. \A i \in 2 .. n + 1 : u[i] \in Ident
  BY <1>1, <1>2, <1>3
<1>5. u # <<>> /\ u[1] = lexeme[1]
  BY <1>1, <1>2
<1>6. QED
  BY <1>2, <1>4, <1>5

LEMMA ScanWordLexerInv == ASSUME LexerInv, ScanWord PROVE LexerInv'
<1> DEFINE lexeme == RawLexeme(source)
<1>1. /\ mode \in {"digits", "ident"} /\ UNCHANGED historyVars /\ UNCHANGED <<radix, counter>>
  BY DEF ScanWord
<1>2. lexeme \in Seq(Character)
  BY LexemeIsText DEF LexerInv
<1>3. CASE mode = "digits"
  <2>1. lexeme # <<>> /\ IsDigits(lexeme, radix)
        /\ (Len(lexeme) = 2 /\ lexeme[1] = "0" => Peek \in DigitOf[radix])
    BY <1>3 DEF LexerInv, LexemeInv, Shape
  <2>2. radix \in {2, 8, 10, 16}
    BY <2>1 DEF IsDigits
  <2>3. CASE Peek \in DigitOf[radix]
    <3>1. source' = AfterRead /\ mode' = "digits" /\ made' = made
      BY <1>3, <2>3 DEF ScanWord, Continue
    <3>2. Peek # EOF
      BY <2>2, <2>3, DigitFacts
    <3>3. SourceInv' /\ Peek \in Character /\ RawLexeme(source)' = Append(lexeme, Peek)
      BY <1>1, <3>1, <3>2, PeekSource DEF LexerInv
    <3>4. PICK l \in Seq(Character), c \in Character : l = lexeme /\ c = Peek
      BY <1>2, <3>3
    <3>5. /\ IsDigits(Append(l, c), radix) /\ Append(l, c) # <<>>
          /\ ~(Len(Append(l, c)) = 2 /\ Append(l, c)[1] = "0")
      BY <2>1, <2>3, <3>4, DigitsNext
    <3>6. RawLexeme(source)' = Append(l, c)
      BY <3>3, <3>4
    <3>7. LexemeInv'
      BY <1>1, <3>1, <3>5, <3>6 DEF LexemeInv, Shape
    <3>8. QED
      BY <1>1, <3>1, <3>3, <3>7, ScanLexerInv DEF LexerInv, StateType, Scanning, Modes
  <2>4. CASE Peek \notin DigitOf[radix]
    <3>1. source' = source /\ FinishToken(LITER_INT, source', radix)
      BY <1>3, <2>4 DEF ScanWord
    <3>2. Answered(LITER_INT, radix, lexeme, Peek)
      BY <1>2, <2>1, <2>4, DigitsClassified
    <3>3. MadeSound' /\ LexemeInv' /\ mode' = "host" /\ made' = TRUE
      BY <3>1, <3>2, FinishMade DEF Peek
    <3>4. SourceInv'
      BY <1>1, <3>1, <3>3, SameSource DEF LexerInv, historyVars
    <3>5. QED
      BY <1>1, <3>3, <3>4, ScanLexerInv DEF LexerInv, StateType, Scanning, Modes
  <2>5. QED
    BY <2>3, <2>4
<1>4. CASE mode = "ident"
  <2>1. lexeme # <<>> /\ lexeme[1] \in IdentStart /\ \A i \in 2 .. Len(lexeme) : lexeme[i] \in Ident
    BY <1>4 DEF LexerInv, LexemeInv, Shape
  <2>2. CASE Peek \in Ident
    <3>1. source' = AfterRead /\ mode' = "ident" /\ made' = made
      BY <1>4, <2>2 DEF ScanWord, Continue
    <3>2. Peek # EOF
      BY <2>2 DEF Ident, Letter, Digit, EOF
    <3>3. SourceInv' /\ Peek \in Character /\ RawLexeme(source)' = Append(lexeme, Peek)
      BY <1>1, <3>1, <3>2, PeekSource DEF LexerInv
    <3>4. PICK l \in Seq(Character), c \in Character : l = lexeme /\ c = Peek
      BY <1>2, <3>3
    <3>5. /\ Append(l, c) # <<>> /\ Append(l, c)[1] \in IdentStart
          /\ \A i \in 2 .. Len(Append(l, c)) : Append(l, c)[i] \in Ident
      BY <2>1, <2>2, <3>4, WordNext
    <3>6. RawLexeme(source)' = Append(l, c)
      BY <3>3, <3>4
    <3>7. LexemeInv'
      BY <3>1, <3>5, <3>6 DEF LexemeInv, Shape
    <3>8. QED
      BY <1>1, <3>1, <3>3, <3>7, ScanLexerInv DEF LexerInv, StateType, Scanning, Modes
  <2>3. CASE Peek \notin Ident
    <3> DEFINE class == IF IsKeyword(lexeme) THEN KWORD_VAR ELSE IDENT
    <3>1. source' = source /\ FinishToken(class, source', 0)
      BY <1>4, <2>3 DEF ScanWord
    <3>2. Answered(class, 0, lexeme, Peek)
      BY <1>2, <2>1, <2>3, WordClassified
    <3>3. MadeSound' /\ LexemeInv' /\ mode' = "host" /\ made' = TRUE
      BY <3>1, <3>2, FinishMade DEF Peek
    <3>4. SourceInv'
      BY <1>1, <3>1, <3>3, SameSource DEF LexerInv, historyVars
    <3>5. QED
      BY <1>1, <3>3, <3>4, ScanLexerInv DEF LexerInv, StateType, Scanning, Modes
  <2>4. QED
    BY <2>2, <2>3
<1>5. QED
  BY <1>1, <1>3, <1>4
\* The end of the source goes on no punctuator.
LEMMA EndNotContinues == ASSUME NEW lexeme PROVE EOF \notin Continues(lexeme)
<1>1. \A c \in DOMAIN Second : EOF \notin Second[c]
  BY DEF Second, EOF
<1>2. EOF # "=" /\ EOF # "."
  BY DEF EOF
<1>3. \/ Continues(lexeme) = {} \/ Continues(lexeme) = {"="} \/ Continues(lexeme) = {"."}
      \/ lexeme[1] \in DOMAIN Second /\ Continues(lexeme) = Second[lexeme[1]]
  BY DEF Continues
<1>4. QED
  BY <1>1, <1>2, <1>3

LEMMA ScanPunctuatorLexerInv == ASSUME LexerInv, ScanPunctuator PROVE LexerInv'
<1> DEFINE lexeme == RawLexeme(source)
<1>1. /\ mode = "punct" /\ UNCHANGED historyVars /\ radix' = radix
  BY DEF ScanPunctuator
<1>2. /\ lexeme \in Seq(Character) /\ lexeme \in Seq(Character \cup {EOF})
      /\ Peek \in Character \cup {EOF}
  BY LexemeIsText DEF LexerInv
<1>3. IsPunctuation(lexeme)
  BY <1>1 DEF LexerInv, LexemeInv, Shape
<1>4. CASE Peek \in Continues(lexeme)
  <2>1. /\ source' = AfterRead /\ made' = made /\ counter' = 1
        /\ mode' = CASE lexeme = <<"/">> /\ Peek = "/" -> "line"
                     [] lexeme = <<"/">> /\ Peek = "*" -> "block"
                     [] OTHER -> "punct"
    BY <1>4 DEF ScanPunctuator, Continue
  <2>2. Peek # EOF
    BY <1>4, EndNotContinues
  <2>3. SourceInv' /\ Peek \in Character /\ RawLexeme(source)' = Append(lexeme, Peek)
    BY <1>1, <2>1, <2>2, PeekSource DEF LexerInv
  <2>4. PICK l \in Seq(Character), c \in Character : l = lexeme /\ c = Peek
    BY <1>2, <2>3
  <2>5. RawLexeme(source)' = Append(l, c)
    BY <2>3, <2>4
  <2>6. \/ IsPunctuation(Append(l, c)) /\ ~(l = <<"/">> /\ c \in {"/", "*"})
        \/ l = <<"/">> /\ c \in {"/", "*"} /\ Append(l, c) = <<"/", c>>
    BY <1>3, <1>4, <2>4, ContinuesFacts
  <2>7. /\ Len(<<"/", c>>) = 2 /\ <<"/", c>>[1] = "/" /\ <<"/", c>>[2] = c
        /\ \A i \in 1 .. 2 : i = 1 \/ i = 2
    OBVIOUS
  <2>8. CASE IsPunctuation(Append(l, c)) /\ ~(l = <<"/">> /\ c \in {"/", "*"})
    <3>1. mode' = "punct"
      BY <2>1, <2>4, <2>8
    <3>2. LexemeInv'
      BY <2>5, <2>8, <3>1 DEF LexemeInv, Shape
    <3>3. QED
      BY <1>1, <2>1, <2>3, <3>1, <3>2, ScanLexerInv DEF LexerInv, StateType, Scanning, Modes
  <2>9. CASE l = <<"/">> /\ c = "/" /\ Append(l, c) = <<"/", c>>
    <3>1. mode' = "line"
      BY <2>1, <2>4, <2>9
    <3>2. \A i \in 1 .. Len(<<"/", c>>) : <<"/", c>>[i] # "\n"
      BY <2>7, <2>9
    <3>3. LexemeInv'
      BY <2>5, <2>7, <2>9, <3>1, <3>2 DEF LexemeInv, Shape
    <3>4. QED
      BY <1>1, <2>1, <2>3, <3>1, <3>3, ScanLexerInv DEF LexerInv, StateType, Scanning, Modes
  <2>10. CASE l = <<"/">> /\ c = "*" /\ Append(l, c) = <<"/", c>>
    <3>1. mode' = "block"
      BY <2>1, <2>4, <2>10
    <3>2. IsBlock(<<"/", c>>) /\ counter' >= 1
      BY <2>1, <2>7, <2>10 DEF IsBlock
    <3>3. LexemeInv'
      BY <2>5, <2>10, <3>1, <3>2 DEF LexemeInv, Shape
    <3>4. QED
      BY <1>1, <2>1, <2>3, <3>1, <3>3, ScanLexerInv DEF LexerInv, StateType, Scanning, Modes
  <2>11. QED
    BY <2>6, <2>8, <2>9, <2>10
<1>5. CASE Peek \notin Continues(lexeme)
  <2>1. source' = source /\ FinishToken(PunctuatorCode(lexeme), source', 0) /\ counter' = counter
    BY <1>5 DEF ScanPunctuator
  <2>2. Answered(PunctuatorCode(lexeme), 0, lexeme, Peek)
    BY <1>2, <1>3, <1>5, PunctuatorClassified
  <2>3. MadeSound' /\ LexemeInv' /\ mode' = "host" /\ made' = TRUE
    BY <2>1, <2>2, FinishMade DEF Peek
  <2>4. SourceInv'
    BY <1>1, <2>1, <2>3, SameSource DEF LexerInv, historyVars
  <2>5. QED
    BY <1>1, <2>1, <2>3, <2>4, ScanLexerInv DEF LexerInv, StateType, Scanning, Modes
<1>6. QED
  BY <1>4, <1>5

\* A lexeme with a character more.
LEMMA Longer ==
  ASSUME NEW lexeme \in Seq(Character), NEW c \in Character
  PROVE  /\ Append(lexeme, c) \in Seq(Character) /\ Len(lexeme) \in Nat
         /\ Len(Append(lexeme, c)) = Len(lexeme) + 1
         /\ Append(lexeme, c)[Len(Append(lexeme, c))] = c
         /\ Last(Append(lexeme, c)) = c
         /\ \A i \in 1 .. Len(Append(lexeme, c)) - 1 : Append(lexeme, c)[i] = lexeme[i]
<1>1. PICK u \in Seq(Character), n \in Nat :
        /\ n = Len(lexeme) /\ u = Append(lexeme, c) /\ Len(u) = n + 1 /\ u[n + 1] = c
        /\ \A i \in 1 .. n : u[i] = lexeme[i]
  <2>1. /\ Append(lexeme, c) \in Seq(Character) /\ Len(Append(lexeme, c)) = Len(lexeme) + 1
        /\ \A i \in 1 .. Len(lexeme) : Append(lexeme, c)[i] = lexeme[i]
        /\ Append(lexeme, c)[Len(lexeme) + 1] = c
    BY AppendAt
  <2>2. Len(lexeme) \in Nat
    OBVIOUS
  <2>3. QED
    BY <2>1, <2>2, Zenon
<1>2. n + 1 - 1 = n
  OBVIOUS
<1>3. Last(u) = c
  BY <1>1 DEF Last
<1>4. /\ u \in Seq(Character) /\ n \in Nat /\ Len(u) = n + 1 /\ u[Len(u)] = c /\ Last(u) = c
      /\ \A i \in 1 .. Len(u) - 1 : u[i] = lexeme[i]
  BY <1>1, <1>2, <1>3
<1>5. QED
  BY <1>1, <1>4, Zenon

LEMMA ScanSingleLineCommentLexerInv == ASSUME LexerInv, ScanSingleLineComment PROVE LexerInv'
<1> DEFINE lexeme == RawLexeme(source)
<1>1. /\ mode = "line" /\ ~Overruns(source) /\ UNCHANGED historyVars
      /\ UNCHANGED <<radix, counter>> /\ source' = AfterRead
  BY DEF ScanSingleLineComment, Reading
<1>2. SourceInv' /\ Reads(source, Got, source')
  BY <1>1, ReadSource DEF LexerInv
<1>3. lexeme \in Seq(Character)
  BY LexemeIsText DEF LexerInv
<1>4. PICK l \in Seq(Character) :
        /\ l = lexeme /\ Len(l) >= 2 /\ l[1] = "/" /\ l[2] = "/"
        /\ \A i \in 1 .. Len(l) : l[i] # "\n"
  <2>1. Len(lexeme) >= 2 /\ lexeme[1] = "/" /\ lexeme[2] = "/"
        /\ \A i \in 1 .. Len(lexeme) : lexeme[i] # "\n"
    BY <1>1 DEF LexerInv, LexemeInv, Shape
  <2>2. QED
    BY <1>3, <2>1, Zenon
<1>5. ASSUME Answered(COMMENT, 0, RawLexeme(source)', Peek'), EndsLine(Got)
      PROVE  LexerInv'
  <2>1. FinishToken(COMMENT, source', 0)
    BY <1>5 DEF ScanSingleLineComment
  <2>2. MadeSound' /\ LexemeInv' /\ mode' = "host" /\ made' = TRUE
    BY <1>5, <2>1, FinishMade
  <2>3. QED
    BY <1>1, <1>2, <2>2, ScanLexerInv DEF LexerInv, StateType, Scanning, Modes
<1>6. CASE Got = EOF
  <2>1. RawLexeme(source)' = l /\ Peek' = EOF
    BY <1>2, <1>4, <1>6, SourceAssumption DEF Reads, Peek
  <2>2. \A i \in 1 .. Len(l) - 1 : l[i] # "\n"
    BY <1>4
  <2>3. Answered(COMMENT, 0, RawLexeme(source)', Peek')
    BY <1>4, <2>1, <2>2, LineClassified
  <2>4. QED
    BY <1>5, <1>6, <2>3 DEF EndsLine
<1>7. CASE Got # EOF
  <2>1. Got \in Character /\ RawLexeme(source)' = Append(lexeme, Got)
    BY <1>2, <1>7 DEF Reads
  <2>2. PICK c \in Character, u \in Seq(Character), n \in Nat :
          /\ c = Got /\ u = RawLexeme(source)' /\ n = Len(l) /\ Len(u) = n + 1
          /\ u[Len(u)] = c /\ \A i \in 1 .. Len(u) - 1 : u[i] = l[i]
    <3>1. /\ Append(l, Got) \in Seq(Character) /\ Len(l) \in Nat
          /\ Len(Append(l, Got)) = Len(l) + 1
          /\ Append(l, Got)[Len(Append(l, Got))] = Got
          /\ \A i \in 1 .. Len(Append(l, Got)) - 1 : Append(l, Got)[i] = l[i]
      BY <2>1, Longer
    <3>2. RawLexeme(source)' = Append(l, Got)
      BY <1>4, <2>1
    <3>3. QED
      BY <2>1, <3>1, <3>2, Zenon
  <2>3. /\ n >= 2 /\ Len(u) - 1 = n /\ 1 \in 1 .. Len(u) - 1 /\ 2 \in 1 .. Len(u) - 1
    BY <1>4, <2>2
  <2>4. /\ Len(u) >= 2 /\ u[1] = "/" /\ u[2] = "/" /\ \A i \in 1 .. Len(u) - 1 : u[i] # "\n"
    BY <1>4, <2>2, <2>3
  <2>5. CASE c = "\n"
    <3>1. Answered(COMMENT, 0, RawLexeme(source)', Peek')
      BY <2>2, <2>4, <2>5, LineClassified
    <3>2. QED
      BY <1>5, <2>2, <2>5, <3>1 DEF EndsLine
  <2>6. CASE c # "\n"
    <3>1. mode' = "line" /\ made' = made
      BY <1>7, <2>2, <2>6 DEF ScanSingleLineComment, EndsLine, Continue
    <3>2. \A i \in 1 .. Len(u) : u[i] # "\n"
      <4>1. \A i \in 1 .. Len(u) : i = Len(u) \/ i \in 1 .. Len(u) - 1
        BY <2>2
      <4>2. QED
        BY <2>2, <2>4, <2>6, <4>1
    <3>3. LexemeInv'
      BY <2>2, <2>4, <3>1, <3>2 DEF LexemeInv, Shape
    <3>4. QED
      BY <1>1, <1>2, <3>1, <3>3, ScanLexerInv DEF LexerInv, StateType, Scanning, Modes
  <2>7. QED
    BY <2>5, <2>6
<1>8. QED
  BY <1>6, <1>7
\* A block comment goes on.
LEMMA BlockNext ==
  ASSUME NEW lexeme \in Seq(Character), NEW c \in Character, IsBlock(lexeme)
  PROVE  /\ IsBlock(Append(lexeme, c)) /\ Len(Append(lexeme, c)) >= 3
         /\ Last(Append(lexeme, c)) = c
         /\ Len(lexeme) >= 3 /\ Last(lexeme) = "*" =>
              /\ Len(Append(lexeme, c)) >= 4
              /\ Append(lexeme, c)[Len(Append(lexeme, c)) - 1] = "*"
              /\ Append(lexeme, c)[Len(Append(lexeme, c))] = c
<1>1. PICK u \in Seq(Character), n \in Nat :
        /\ u = Append(lexeme, c) /\ n = Len(lexeme) /\ Len(u) = n + 1
        /\ u[Len(u)] = c /\ Last(u) = c /\ \A i \in 1 .. Len(u) - 1 : u[i] = lexeme[i]
  BY Longer, Zenon
<1>2. n >= 2 /\ lexeme[1] = "/" /\ lexeme[2] = "*"
  BY <1>1 DEF IsBlock
<1>3. Len(u) >= 3 /\ 1 \in 1 .. Len(u) - 1 /\ 2 \in 1 .. Len(u) - 1 /\ Len(u) - 1 = n
      /\ n \in 1 .. Len(u) - 1 /\ Len(u) >= 2
  BY <1>1, <1>2
<1>4. IsBlock(u)
  BY <1>1, <1>2, <1>3 DEF IsBlock
<1>5. ASSUME n >= 3, Last(lexeme) = "*"
      PROVE  Len(u) >= 4 /\ u[Len(u) - 1] = "*"
  <2>1. lexeme[n] = "*"
    BY <1>1, <1>5 DEF Last
  <2>2. QED
    BY <1>1, <1>3, <1>5, <2>1
<1>6. QED
  BY <1>1, <1>3, <1>4, <1>5, Zenon

LEMMA ScanMultiLineCommentLexerInv == ASSUME LexerInv, ScanMultiLineComment PROVE LexerInv'
<1> DEFINE lexeme == RawLexeme(source)
<1>1. /\ mode = "block" /\ ~Overruns(source) /\ UNCHANGED historyVars
      /\ UNCHANGED <<radix, counter>> /\ source' = AfterRead
  BY DEF ScanMultiLineComment, Reading
<1>2. SourceInv' /\ Reads(source, Got, source')
  BY <1>1, ReadSource DEF LexerInv
<1>3. lexeme \in Seq(Character)
  BY LexemeIsText DEF LexerInv
<1>4. IsBlock(lexeme) /\ counter >= 1
  BY <1>1 DEF LexerInv, LexemeInv, Shape
<1>5. CASE Got = EOF
  <2>1. RawLexeme(source)' = lexeme /\ Peek' = EOF
    BY <1>2, <1>5, SourceAssumption DEF Reads, Peek
  <2>2. Answered(COMMENT, 0, RawLexeme(source)', Peek')
    BY <1>3, <1>4, <2>1, BlockClassified
  <2>3. Got \notin {"*", "/"}
    BY <1>5 DEF EOF
  <2>4. FinishToken(COMMENT, source', 0)
    BY <1>5, <2>3 DEF ScanMultiLineComment
  <2>5. MadeSound' /\ LexemeInv' /\ mode' = "host" /\ made' = TRUE
    BY <2>2, <2>4, FinishMade
  <2>6. QED
    BY <1>1, <1>2, <2>5, ScanLexerInv DEF LexerInv, StateType, Scanning, Modes
<1>6. CASE Got # EOF
  <2>1. Got \in Character /\ RawLexeme(source)' = Append(lexeme, Got)
    BY <1>2, <1>6 DEF Reads
  <2>2. PICK u : u = RawLexeme(source)' /\ IsBlock(u) /\ Len(u) >= 3 /\ Last(u) = Got
    BY <1>3, <1>4, <2>1, BlockNext
  <2>3. /\ made' = made
        /\ \/ mode' = "star" /\ Got = "*"
           \/ mode' = "slash"
           \/ mode' = "block"
    <3>1. CASE Got = "*"
      BY <1>6, <3>1 DEF ScanMultiLineComment, Continue
    <3>2. CASE Got = "/"
      BY <1>6, <3>2 DEF ScanMultiLineComment, Continue
    <3>3. CASE Got \notin {"*", "/"}
      BY <1>6, <3>3 DEF ScanMultiLineComment, Continue
    <3>4. QED
      BY <3>1, <3>2, <3>3
  <2>4. LexemeInv'
    BY <1>1, <1>4, <2>2, <2>3 DEF LexemeInv, Shape
  <2>5. QED
    BY <1>1, <1>2, <2>3, <2>4, ScanLexerInv DEF LexerInv, StateType, Scanning, Modes
<1>7. QED
  BY <1>5, <1>6

LEMMA MatchDelimiterLexerInv == ASSUME LexerInv, MatchDelimiter PROVE LexerInv'
<1> DEFINE lexeme == RawLexeme(source)
<1>1. mode \in {"star", "slash"} /\ UNCHANGED historyVars /\ radix' = radix
  BY DEF MatchDelimiter
<1>2. lexeme \in Seq(Character)
  BY LexemeIsText DEF LexerInv
<1>3. /\ IsBlock(lexeme) /\ counter \in Nat /\ counter >= 1 /\ Len(lexeme) >= 3
      /\ mode = "star" => Last(lexeme) = "*"
  BY <1>1 DEF LexerInv, StateType, LexemeInv, Shape
<1>4. CASE mode = "star" /\ Peek = "/"
  <2>1. source' = AfterRead /\ counter' = counter - 1
    BY <1>3, <1>4 DEF MatchDelimiter
  <2>2. Peek # EOF
    BY <1>4 DEF EOF
  <2>3. SourceInv' /\ Peek \in Character /\ RawLexeme(source)' = Append(lexeme, Peek)
    BY <1>1, <2>1, <2>2, PeekSource DEF LexerInv
  <2>4. PICK u \in Seq(Character) :
          /\ u = RawLexeme(source)' /\ IsBlock(u) /\ Len(u) >= 4
          /\ u[Len(u) - 1] = "*" /\ u[Len(u)] = "/"
    <3>1. Append(lexeme, Peek) \in Seq(Character)
      BY <1>2, <2>3
    <3>2. /\ IsBlock(Append(lexeme, Peek)) /\ Len(Append(lexeme, Peek)) >= 4
          /\ Append(lexeme, Peek)[Len(Append(lexeme, Peek)) - 1] = "*"
          /\ Append(lexeme, Peek)[Len(Append(lexeme, Peek))] = Peek
      BY <1>2, <1>3, <1>4, <2>3, BlockNext
    <3>3. QED
      BY <1>4, <2>3, <3>1, <3>2, Zenon
  <2>5. CASE counter' = 0
    <3>1. FinishToken(COMMENT, source', 0)
      BY <2>5 DEF MatchDelimiter
    <3>2. Answered(COMMENT, 0, RawLexeme(source)', Peek')
      BY <2>4, BlockClassified
    <3>3. MadeSound' /\ LexemeInv' /\ mode' = "host" /\ made' = TRUE
      BY <3>1, <3>2, FinishMade
    <3>4. QED
      BY <1>1, <2>3, <2>5, <3>3, ScanLexerInv DEF LexerInv, StateType, Scanning, Modes
  <2>6. CASE counter' # 0
    <3>1. mode' = "block" /\ made' = made
      BY <2>6 DEF MatchDelimiter, Continue
    <3>2. counter' \in Nat /\ counter' >= 1
      BY <1>3, <2>1, <2>6
    <3>3. LexemeInv'
      BY <2>4, <3>1, <3>2 DEF LexemeInv, Shape
    <3>4. QED
      BY <1>1, <2>3, <3>1, <3>2, <3>3, ScanLexerInv DEF LexerInv, StateType, Scanning, Modes
  <2>7. QED
    BY <2>5, <2>6
<1>5. CASE mode = "slash" /\ Peek = "*"
  <2>1. source' = AfterRead /\ counter' = counter + 1
    BY <1>5 DEF MatchDelimiter
  <2>2. Peek # EOF
    BY <1>5 DEF EOF
  <2>3. SourceInv' /\ Peek \in Character /\ RawLexeme(source)' = Append(lexeme, Peek)
    BY <1>1, <2>1, <2>2, PeekSource DEF LexerInv
  <2>4. IsBlock(RawLexeme(source)')
    BY <1>2, <1>3, <2>3, BlockNext
  <2>5. counter' \in Nat /\ counter' >= 1
    BY <1>3, <2>1
  <2>6. mode' = "block" /\ made' = made
    BY <2>5 DEF MatchDelimiter, Continue
  <2>7. LexemeInv'
    BY <2>4, <2>5, <2>6 DEF LexemeInv, Shape
  <2>8. QED
    BY <1>1, <2>3, <2>5, <2>6, <2>7, ScanLexerInv DEF LexerInv, StateType, Scanning, Modes
<1>6. CASE Peek # (IF mode = "star" THEN "/" ELSE "*")
  <2>1. source' = source /\ counter' = counter
    BY <1>6 DEF MatchDelimiter
  <2>2. counter' # 0
    BY <1>3, <2>1
  <2>3. mode' = "block" /\ made' = made
    BY <2>2 DEF MatchDelimiter, Continue
  <2>4. SourceInv'
    BY <1>1, <2>1, <2>3, SameSource DEF LexerInv, historyVars
  <2>5. LexemeInv'
    BY <1>3, <2>1, <2>3 DEF LexemeInv, Shape
  <2>6. QED
    BY <1>1, <1>3, <2>1, <2>3, <2>4, <2>5, ScanLexerInv DEF LexerInv, StateType, Scanning, Modes
<1>7. QED
  BY <1>1, <1>4, <1>5, <1>6

LEMMA ScanTokenLexerInv == ASSUME LexerInv, ScanToken PROVE LexerInv'
<1>1. /\ mode = "host" /\ mode' = "space" /\ made' = FALSE
      /\ UNCHANGED <<source, radix, counter, historyVars>>
  BY DEF ScanToken
<1>2. SourceInv'
  BY <1>1 DEF LexerInv, SourceInv, historyVars
<1>3. StateType'
  BY <1>1 DEF LexerInv, StateType, Modes, historyVars
<1>4. LexemeInv' /\ MadeSound'
  BY <1>1, NoLexeme DEF MadeSound
<1>5. QED
  BY <1>1, <1>2, <1>3, <1>4 DEF LexerInv
LEMMA RetreatLexerInv == ASSUME LexerInv, Retreat PROVE LexerInv'
<1>1. /\ mode = "host" /\ mode' = "host" /\ source.kind # "repl" /\ made' = FALSE
      /\ source' = Moved(source, source.current)
      /\ UNCHANGED <<radix, counter, text, origin, dropped>>
  BY DEF Retreat, SourceRetreat, Moved
<1>2. /\ StreamSound(source) /\ source.current \in Position
      /\ source.current.offset <= source.current.offset
      /\ source.current.offset <= Len(source.buffer)
  <2>1. /\ StreamSound(source) /\ source.current \in Position /\ source.current.offset \in Nat
        /\ source.forward.offset \in Nat /\ source.current.offset <= source.forward.offset
        /\ source.forward.offset <= Len(source.buffer) /\ source.buffer \in Seq(Character)
    BY FieldFacts DEF LexerInv, SourceInv
  <2>2. QED
    BY <2>1
<1>3. /\ StreamSound(source') /\ source'.forward = source.current
      /\ source'.current = source.current /\ source'.stale = source.stale
  BY <1>1, <1>2, MovedFacts
<1>4. Shows(source, text, origin) =>
        Shows(source', text, origin) /\ Base(source', origin) = Base(source, origin)
  BY <1>1, <1>2, ShowsMoved
<1>5. SourceInv'
  BY <1>1, <1>3, <1>4 DEF LexerInv, SourceInv, Placed
<1>6. StateType'
  BY <1>1 DEF LexerInv, StateType
<1>7. LexemeInv' /\ MadeSound'
  BY <1>1, NoLexeme DEF MadeSound
<1>8. QED
  BY <1>1, <1>5, <1>6, <1>7 DEF LexerInv

LEMMA CloseLexerInv == ASSUME LexerInv, Close PROVE LexerInv'
<1>1. /\ mode = "host" /\ mode' \in {"closed", "lost"} /\ made' = FALSE
      /\ UNCHANGED <<radix, counter>> /\ UNCHANGED historyVars
      /\ \/ source' = CloseSource(source) /\ mode' = "closed"
         \/ source' = source /\ mode' = "lost"
  BY DEF Close
<1>2. SourceInv'
  <2>1. CASE source' = CloseSource(source) /\ mode' = "closed"
    <3>1. source.stale \in BOOLEAN
      BY DEF LexerInv, SourceInv, StreamSound, Stream
    <3>2. /\ source'.kind = "closed" /\ source'.buffer = <<>> /\ source'.current.offset = 0
          /\ source'.forward.offset = 0 /\ source' \in Stream
      BY <2>1, <3>1 DEF CloseSource, Stream, Position
    <3>3. StreamSound(source')
      BY <3>2 DEF StreamSound
    <3>4. QED
      BY <2>1, <3>3 DEF SourceInv
  <2>2. CASE source' = source /\ mode' = "lost"
    BY <1>1, <2>2 DEF LexerInv, SourceInv, historyVars
  <2>3. QED
    BY <1>1, <2>1, <2>2
<1>3. StateType'
  BY <1>1 DEF LexerInv, StateType, historyVars, Modes
<1>4. LexemeInv' /\ MadeSound'
  BY <1>1, NoLexeme DEF MadeSound
<1>5. QED
  BY <1>1, <1>2, <1>3, <1>4 DEF LexerInv

\* What the reader of a line takes: no more than its room, and no end of a line.
LEMMA LineFacts ==
  ASSUME NEW input \in Seq(Character)
  PROVE  /\ LineOf(input) \in Seq(Character) /\ Len(LineOf(input)) <= Page - 2
         /\ \A k \in 1 .. Len(LineOf(input)) : LineOf(input)[k] # NUL
         /\ LineTaken(input) \in 0 .. Len(input)
<1> DEFINE ends == {k \in DOMAIN input : input[k] \in {NUL, "\n"}}
           least == CHOOSE k \in ends : \A j \in ends : k <= j
           stop == IF ends = {} THEN Len(input) ELSE least - 1
           size == IF stop < Page - 2 THEN stop ELSE Page - 2
<1>1. Len(input) \in Nat /\ ends \subseteq 1 .. Len(input)
  OBVIOUS
<1>2. ends # {} => least \in ends /\ \A j \in ends : least <= j
  <2>1. ends \subseteq Nat
    BY <1>1
  <2> HIDE DEF ends
  <2>2. ends # {} => \E k \in ends : \A j \in ends : k <= j
    BY <2>1, LeastNatural
  <2>3. QED
    BY <2>2
<1> HIDE DEF least
<1>3. stop \in 0 .. Len(input) /\ \A k \in 1 .. stop : k \notin ends
  BY <1>1, <1>2
<1> HIDE DEF stop
<1>4. /\ size \in Nat /\ size <= Len(input) /\ size <= Page - 2 /\ size <= stop
  BY <1>1, <1>3, SourceAssumption
<1>5. \A k \in 1 .. size : k \in DOMAIN input /\ k \in 1 .. stop
  BY <1>1, <1>3, <1>4
<1>6. \A k \in 1 .. size : input[k] # NUL
  BY <1>3, <1>5
<1>7. LineOf(input) = SubSeq(input, 1, size)
  BY DEF LineOf, stop, least
<1> HIDE DEF size
<1>8. /\ LineOf(input) \in Seq(Character) /\ Len(LineOf(input)) = size
      /\ \A k \in 1 .. size : LineOf(input)[k] = input[k]
  BY <1>4, <1>7
<1>9. LineTaken(input) \in 0 .. Len(input)
  <2>1. LineTaken(input) = IF size < Page - 2 /\ size < Len(input) THEN size + 1 ELSE size
    BY <1>8 DEF LineTaken
  <2>2. QED
    BY <1>1, <1>4, <2>1
<1>10. QED
  BY <1>4, <1>6, <1>8, <1>9
\* The stream behind the reading of a line.
LEMMA ReadLineFacts ==
  ASSUME NEW s, StreamSound(s), s.kind = "repl"
  PROVE  LET line == LineOf(s.unread)
             r == ReadLine(s)
         IN  /\ StreamSound(r) /\ r.kind = "repl" /\ r.stale = s.stale
             /\ r.forward = [s.forward EXCEPT !.offset = 0]
             /\ \A k \in 1 .. Len(line) : r.buffer[k] = line[k]
             /\ r.buffer[Len(line) + 1] = "\n" /\ r.buffer[Len(line) + 2] = NUL
<1> DEFINE line == LineOf(s.unread)
           left == SubSeq(s.buffer, Len(line) + 3, Page)
           buffer == line \o <<"\n", NUL>> \o left
           rest == SubSeq(s.unread, LineTaken(s.unread) + 1, Len(s.unread))
           r == ReadLine(s)
<1>1. /\ s \in Stream /\ s.buffer \in Seq(Character) /\ s.unread \in Seq(Character)
      /\ s.current \in Position /\ s.forward \in Position /\ Len(s.buffer) = Page
  BY DEF StreamSound, Stream
<1>2. Page \in Nat /\ Page >= 3 /\ {NUL, "\n"} \subseteq Character
  BY SourceAssumption
<1>3. /\ line \in Seq(Character) /\ Len(line) <= Page - 2
      /\ LineTaken(s.unread) \in 0 .. Len(s.unread)
  BY <1>1, LineFacts
<1> HIDE DEF line
<1>4. PICK n \in Nat : n = Len(line) /\ n <= Page - 2
  BY <1>3
<1>5. left \in Seq(Character) /\ Len(left) = Page - (n + 2)
  <2>1. n + 2 \in Nat /\ n + 2 <= Len(s.buffer) /\ n + 2 + 1 = n + 3
    BY <1>1, <1>2, <1>4
  <2>2. /\ SubSeq(s.buffer, n + 2 + 1, Len(s.buffer)) \in Seq(Character)
        /\ Len(SubSeq(s.buffer, n + 2 + 1, Len(s.buffer))) = Len(s.buffer) - (n + 2)
    BY <1>1, <2>1, PartFacts
  <2>3. left = SubSeq(s.buffer, n + 2 + 1, Len(s.buffer))
    BY <1>1, <1>4, <2>1
  <2>4. QED
    BY <1>1, <2>2, <2>3
<1>6. rest \in Seq(Character)
  <2>1. LineTaken(s.unread) \in Nat /\ LineTaken(s.unread) <= Len(s.unread)
    BY <1>3
  <2>2. QED
    BY <1>1, <2>1, PartFacts
<1> HIDE DEF left, rest
<1>7. /\ buffer \in Seq(Character) /\ Len(buffer) = Page
      /\ \A k \in 1 .. n : buffer[k] = line[k]
      /\ buffer[n + 1] = "\n" /\ buffer[n + 2] = NUL
  <2>1. /\ <<"\n", NUL>> \in Seq(Character) /\ Len(<<"\n", NUL>>) = 2
        /\ <<"\n", NUL>>[1] = "\n" /\ <<"\n", NUL>>[2] = NUL
    BY <1>2
  <2>2. PICK p \in Seq(Character), q \in Seq(Character), t \in Seq(Character) :
          /\ p = line /\ q = <<"\n", NUL>> /\ t = left
          /\ Len(p) = n /\ Len(q) = 2 /\ Len(t) = Page - (n + 2)
          /\ q[1] = "\n" /\ q[2] = NUL
    BY <1>3, <1>4, <1>5, <2>1, Zenon
  <2>3. /\ p \o q \o t \in Seq(Character) /\ Len(p \o q \o t) = Len(p) + Len(q) + Len(t)
        /\ \A k \in 1 .. Len(p) : (p \o q \o t)[k] = p[k]
        /\ \A k \in 1 .. Len(q) : (p \o q \o t)[Len(p) + k] = q[k]
    BY JoinFacts
  <2>4. buffer = p \o q \o t
    BY <2>2
  <2> HIDE DEF buffer
  <2>5. Len(buffer) = n + 2 + (Page - (n + 2)) /\ 1 \in 1 .. Len(q) /\ 2 \in 1 .. Len(q)
    BY <2>2, <2>3, <2>4
  <2>6. Len(buffer) = Page
    BY <1>2, <2>5
  <2>7. QED
    BY <2>2, <2>3, <2>4, <2>5, <2>6, Zenon
<1> HIDE DEF buffer
<1>8. /\ r \in Stream /\ r.buffer = buffer /\ r.kind = s.kind /\ r.stale = s.stale
      /\ r.current = [s.current EXCEPT !.offset = 0]
      /\ r.forward = [s.forward EXCEPT !.offset = 0]
  <2> DEFINE moved == [s EXCEPT !.buffer = buffer, !.unread = rest]
  <2>1. r = [s EXCEPT !.buffer = buffer, !.unread = rest, !.current.offset = 0,
                      !.forward.offset = 0]
    BY DEF ReadLine, buffer, rest, left, line
  <2> HIDE DEF r
  <2>2. /\ moved \in Stream /\ moved.buffer = buffer /\ moved.kind = s.kind
        /\ moved.current = s.current /\ moved.forward = s.forward /\ moved.stale = s.stale
    <3>1. moved \in Stream
      BY <1>1, <1>6, <1>7 DEF Stream
    <3>2. moved.buffer = buffer /\ moved.kind = s.kind
      BY <1>1 DEF Stream
    <3>3. moved.current = s.current /\ moved.forward = s.forward /\ moved.stale = s.stale
      BY <1>1 DEF Stream
    <3>4. QED
      BY <3>1, <3>2, <3>3
  <2>3. r = [[moved EXCEPT !.current.offset = 0] EXCEPT !.forward.offset = 0]
    BY <2>1
  <2> HIDE DEF moved
  <2>4. PICK z : z = [moved EXCEPT !.current.offset = 0]
    OBVIOUS
  <2>5. /\ z \in Stream /\ z.buffer = buffer /\ z.kind = s.kind
        /\ z.current = [s.current EXCEPT !.offset = 0] /\ z.forward = s.forward
        /\ z.stale = s.stale
    <3>1. [s.current EXCEPT !.offset = 0] \in Position
      BY <1>1 DEF Position
    <3>2. z = [moved EXCEPT !.current = [s.current EXCEPT !.offset = 0]]
      BY <2>2, <2>4 DEF Stream
    <3>3. QED
      BY <2>2, <3>1, <3>2 DEF Stream
  <2>6. [s.forward EXCEPT !.offset = 0] \in Position
    BY <1>1 DEF Position
  <2>7. r = [z EXCEPT !.forward = [s.forward EXCEPT !.offset = 0]]
    BY <2>3, <2>4, <2>5 DEF Stream
  <2>8. QED
    BY <2>5, <2>6, <2>7 DEF Stream
<1> HIDE DEF r
<1>9. r.current.offset = 0 /\ r.forward.offset = 0
  BY <1>1, <1>8 DEF Position
<1>10. StreamSound(r)
  BY <1>2, <1>7, <1>8, <1>9 DEF StreamSound
<1>11. /\ StreamSound(r) /\ r.kind = "repl" /\ r.stale = s.stale
       /\ r.forward = [s.forward EXCEPT !.offset = 0]
       /\ \A k \in 1 .. Len(line) : r.buffer[k] = line[k]
       /\ r.buffer[Len(line) + 1] = "\n" /\ r.buffer[Len(line) + 2] = NUL
  BY <1>4, <1>7, <1>8, <1>10, Zenon
<1>12. QED
  BY <1>11 DEF r, line
\* A prompt that left nothing of its line is at the end of its text.
LEMMA LineEnds ==
  ASSUME LexerInv, source.kind = "repl", mode = "prompt" \/ (mode = "host" /\ Peek = EOF),
         ~source.stale
  PROVE  origin + source.forward.offset = Len(text)
<1>1. /\ StreamSound(source) /\ text \in Seq(Character) /\ origin \in 0 .. Len(text)
      /\ Shows(source, text, origin) /\ source.forward.offset \in Nat
  BY FieldFacts DEF LexerInv, SourceInv, StateType
<1>2. /\ origin + source.forward.offset <= Len(text)
      /\ \A k \in 1 .. Len(text) - origin : text[origin + k] # NUL
      /\ Base(source, origin) = origin
  BY <1>1 DEF Shows, ShowsLine, Base
<1>3. CASE mode = "prompt"
  <2>1. Len(text) = 0
    BY <1>3 DEF LexerInv
  <2>2. QED
    BY <1>1, <1>2, <2>1
<1>4. CASE Peek = EOF
  <2>1. PICK n \in Nat, o \in Nat, f \in Nat :
          n = Len(text) /\ o = origin /\ f = source.forward.offset
    <3>1. Len(text) \in Nat /\ origin \in Nat /\ source.forward.offset \in Nat
      BY <1>1
    <3>2. QED
      BY <3>1, Zenon
  <2>2. o + f <= n
    BY <1>2, <2>1
  <2>3. SUFFICES ASSUME o + f + 1 <= n PROVE FALSE
    BY ONLY <2>1, <2>2, <2>3
  <2>4. f + 1 \in 1 .. n - o /\ o + f + 1 \in 1 .. n /\ o + (f + 1) = o + f + 1
    BY <2>3
  <2>5. text[o + f + 1] # NUL /\ text[o + f + 1] \in Character
    <3>1. text[o + (f + 1)] # NUL
      BY <1>2, <2>1, <2>4, Zenon
    <3>2. \A k \in 1 .. Len(text) : text[k] \in Character
      BY <1>1
    <3>3. text[o + f + 1] \in Character
      BY <2>1, <2>4, <3>2, Zenon
    <3>4. QED
      BY <2>4, <3>1, <3>3, Zenon
  <2>6. ~(o + f + 1 > n)
    BY <2>4
  <2>7. Behind(source, text, origin) = text[o + f + 1]
    BY <1>2, <2>1, <2>5, <2>6 DEF Behind
  <2>8. Behind(source, text, origin) = EOF
    BY <1>1, <1>4, ShowsPeek DEF Peek
  <2>9. QED
    BY <2>5, <2>7, <2>8, SourceAssumption
<1>5. QED
  BY <1>3, <1>4

LEMMA ReplReadLineLexerInv == ASSUME LexerInv, ReplReadLine PROVE LexerInv'
<1> DEFINE line == LineOf(source.unread)
<1>1. /\ source.kind = "repl" /\ LineDone /\ source' = ReadLine(source)
      /\ text' = text \o line \o <<"\n">> /\ origin' = Len(text)
      /\ dropped' = (dropped \/ (mode = "host" /\ Peek # EOF))
      /\ mode' = "space" /\ made' = FALSE /\ UNCHANGED <<radix, counter>>
  BY DEF ReplReadLine
<1>2. /\ StreamSound(source) /\ text \in Seq(Character) /\ source.unread \in Seq(Character)
      /\ dropped \in BOOLEAN /\ mode # "closed" /\ mode \in {"prompt", "host"}
      /\ source.forward \in Position
  BY <1>1, FieldFacts DEF LexerInv, SourceInv, StateType, LineDone
<1>3. /\ line \in Seq(Character) /\ Len(line) <= Page - 2 /\ Len(line) \in Nat
      /\ \A k \in 1 .. Len(line) : line[k] # NUL
  BY <1>2, LineFacts
<1>4. /\ StreamSound(source') /\ source'.kind = "repl" /\ source'.stale = source.stale
      /\ source'.forward = [source.forward EXCEPT !.offset = 0]
      /\ \A k \in 1 .. Len(line) : source'.buffer[k] = line[k]
      /\ source'.buffer[Len(line) + 1] = "\n" /\ source'.buffer[Len(line) + 2] = NUL
  BY <1>1, <1>2, ReadLineFacts
<1>5. PICK p \in Seq(Character), q \in Seq(Character), n \in Nat, m \in Nat :
        p = text /\ q = line /\ n = Len(p) /\ m = Len(q)
  BY <1>2, <1>3
<1> HIDE DEF line
<1>6. PICK t \in Seq(Character) :
        /\ t = text' /\ Len(t) = n + m + 1 /\ \A k \in 1 .. n : t[k] = p[k]
        /\ \A k \in 1 .. m : t[n + k] = q[k]
        /\ t[n + m + 1] = "\n"
  <2>1. PICK e \in Seq(Character) : e = <<"\n">> /\ Len(e) = 1 /\ e[1] = "\n"
    <3>1. "\n" \in Character
      BY SourceAssumption
    <3>2. <<"\n">> \in Seq(Character) /\ Len(<<"\n">>) = 1 /\ <<"\n">>[1] = "\n"
      BY <3>1
    <3>3. QED
      BY <3>2, Zenon
  <2>2. PICK z \in Seq(Character) :
          /\ z = p \o q /\ Len(z) = n + m /\ \A k \in 1 .. n : z[k] = p[k]
          /\ \A k \in 1 .. m : z[n + k] = q[k]
    <3>1. /\ p \o q \in Seq(Character) /\ Len(p \o q) = Len(p) + Len(q)
          /\ \A k \in 1 .. Len(p) : (p \o q)[k] = p[k]
          /\ \A k \in 1 .. Len(q) : (p \o q)[Len(p) + k] = q[k]
      OBVIOUS
    <3>2. QED
      BY <1>5, <3>1, Zenon
  <2>3. /\ z \o e \in Seq(Character) /\ Len(z \o e) = Len(z) + Len(e)
        /\ \A k \in 1 .. Len(z) : (z \o e)[k] = z[k]
        /\ \A k \in 1 .. Len(e) : (z \o e)[Len(z) + k] = e[k]
    OBVIOUS
  <2>4. /\ Len(z) = n + m /\ Len(e) = 1 /\ 1 \in 1 .. 1
        /\ \A k \in 1 .. n : k \in 1 .. n + m
        /\ \A k \in 1 .. m : n + k \in 1 .. n + m
    BY <2>1, <2>2
  <2>5. /\ Len(z \o e) = n + m + 1 /\ \A k \in 1 .. n : (z \o e)[k] = p[k]
        /\ \A k \in 1 .. m : (z \o e)[n + k] = q[k]
        /\ (z \o e)[n + m + 1] = "\n"
    BY <2>1, <2>2, <2>3, <2>4, Zenon
  <2>6. text' = z \o e
    BY <1>1, <1>5, <2>1, <2>2, Zenon
  <2>7. QED
    BY <2>3, <2>5, <2>6, Zenon
<1>7. origin' = n
  BY <1>1, <1>5
<1>8. origin' \in 0 .. Len(t)
  BY <1>6, <1>7
<1>9. StateType'
  BY <1>1, <1>2, <1>6, <1>8 DEF LexerInv, StateType, Modes
<1>10. source'.forward.offset = 0 /\ source'.forward.line = source.forward.line
       /\ source'.forward.column = source.forward.column
  BY <1>2, <1>4 DEF Position
<1>11. Shows(source', text', origin')
  <2>1. n + source'.forward.offset <= Len(t)
    BY <1>6, <1>10
  <2>2. Len(t) - n < Page /\ Len(t) - n = m + 1
    <3>1. m <= Page - 2 /\ Page \in Nat
      BY <1>3, <1>5, SourceAssumption
    <3>2. m + 1 < Page /\ (n + m + 1) - n = m + 1
      BY <3>1
    <3>3. QED
      BY <1>6, <3>2
  <2>3. \A k \in 1 .. m + 1 : source'.buffer[k] = t[n + k] /\ t[n + k] # NUL
    <3>1. \A k \in 1 .. m : source'.buffer[k] = t[n + k] /\ t[n + k] # NUL
      BY <1>3, <1>4, <1>5, <1>6
    <3>2. source'.buffer[m + 1] = t[n + m + 1] /\ t[n + m + 1] # NUL
      BY <1>4, <1>5, <1>6 DEF NUL
    <3>3. \A k \in 1 .. m + 1 : k \in 1 .. m \/ k = m + 1
      OBVIOUS
    <3>4. n + (m + 1) = n + m + 1
      OBVIOUS
    <3>5. QED
      BY <3>1, <3>2, <3>3, <3>4
  <2>4. source'.buffer[m + 1 + 1] = NUL
    <3>1. m + 1 + 1 = m + 2
      OBVIOUS
    <3>2. QED
      BY <1>4, <1>5, <3>1
  <2>5. ShowsLine(source', t, n)
    BY <2>1, <2>2, <2>3, <2>4 DEF ShowsLine
  <2>6. QED
    BY <1>4, <1>6, <1>7, <2>5 DEF Shows
<1>12. ~source'.stale /\ ~dropped' => Placed(source'.forward, source', text', origin')
  <2> SUFFICES ASSUME ~source'.stale, ~dropped'
               PROVE  Placed(source'.forward, source', text', origin')
    OBVIOUS
  <2>1. /\ ~source.stale /\ ~dropped
        /\ mode = "prompt" \/ (mode = "host" /\ Peek = EOF)
    BY <1>1, <1>2, <1>4
  <2>2. Placed(source.forward, source, text, origin) /\ Base(source, origin) = origin
    BY <1>1, <1>2, <2>1 DEF LexerInv, SourceInv, Base
  <2>3. origin + source.forward.offset = n
    BY <1>1, <1>5, <2>1, LineEnds
  <2>4. ExactAt(source.forward, p, n)
    BY <1>5, <2>2, <2>3 DEF Placed
  <2>5. ExactAt(source'.forward, t, n)
    BY <1>6, <1>10, <2>4, ExactSame
  <2>6. Base(source', origin') + source'.forward.offset = n
    BY <1>4, <1>7, <1>10 DEF Base
  <2>7. QED
    BY <1>6, <2>5, <2>6 DEF Placed
<1>13. SourceInv'
  BY <1>1, <1>4, <1>11, <1>12 DEF SourceInv
<1>14. LexemeInv' /\ MadeSound'
  BY <1>1, NoLexeme DEF MadeSound
<1>15. QED
  BY <1>1, <1>9, <1>13, <1>14 DEF LexerInv
LEMMA InitLexerInv == LexerInit => LexerInv
<1> SUFFICES ASSUME LexerInit PROVE LexerInv
  OBVIOUS
<1>1. /\ radix = 0 /\ counter = 0 /\ made = FALSE /\ origin = 0 /\ dropped = FALSE
  BY DEF LexerInit
<1>2. PICK t \in Texts \cup Inputs :
        \/ Opened(OpenSourceText(t), t)
        \/ Opened(OpenSourceFile(t), t)
        \/ Opened(OpenReplStream(t), <<>>)
  BY DEF LexerInit
<1>3. /\ t \in Seq(Character) /\ Page \in Nat /\ Page >= 3 /\ NUL \in Character
      /\ Len(t) \in Nat /\ <<>> \in Seq(Character)
  BY LexerAssumption, SourceAssumption
<1>4. StartPos \in Position /\ StartPos.offset = 0 /\ 0 <= 0
  BY DEF StartPos, Position
<1>5. ASSUME NEW x \in Seq(Character), text = x,
             StreamSound(source), source.forward = StartPos, source.current = StartPos,
             source.delta = 0, Shows(source, x, 0),
             mode = "host" \/ (mode = "prompt" /\ x = <<>>)
      PROVE  LexerInv
  <2>1. StateType
    <3>1. 0 \in 0 .. Len(text)
      BY <1>5
    <3>2. QED
      BY <1>1, <1>5, <3>1 DEF StateType, Modes
  <2>2. Placed(StartPos, source, text, origin)
    <3>1. Base(source, origin) + StartPos.offset = 0
      BY <1>1, <1>4, <1>5 DEF Base
    <3>2. QED
      BY <3>1, ExactStart DEF Placed
  <2>3. SourceInv
    BY <1>1, <1>5, <2>2 DEF SourceInv
  <2>4. LexemeInv /\ MadeSound
    BY <1>1, <1>5 DEF LexemeInv, Shape, MadeSound
  <2>5. QED
    BY <1>5, <2>1, <2>3, <2>4 DEF LexerInv
<1>6. CASE Opened(OpenSourceText(t), t)
  <2>1. /\ source = InitSourceBuffer("text", t, <<>>, 0) /\ text = t
    BY <1>6 DEF Opened, OpenSourceText
  <2>2. /\ source.kind = "text" /\ source.buffer = t /\ source.delta = 0
        /\ source.forward = StartPos /\ source.current = StartPos /\ source \in Stream
    BY <1>3, <1>4, <2>1 DEF InitSourceBuffer, Stream
  <2>3. mode = "host"
    BY <1>6, <2>1, <2>2 DEF Opened, OpenSourceText
  <2>4. StreamSound(source)
    BY <1>3, <1>4, <2>2 DEF StreamSound
  <2>5. Shows(source, t, 0)
    BY <2>2 DEF Shows
  <2>6. QED
    BY <1>3, <1>5, <2>1, <2>2, <2>3, <2>4, <2>5
<1>7. CASE Opened(OpenSourceFile(t), t)
  <2> DEFINE size == IF Len(t) > Page THEN Page ELSE Len(t)
             read == SubSeq(t, 1, size)
             left == SubSeq(t, size + 1, Len(t))
  <2>1. size \in Nat /\ size <= Len(t)
    BY <1>3
  <2>2. source = InitSourceBuffer("file", read, left, Len(t)) /\ text = t
    BY <1>7 DEF Opened, OpenSourceFile
  <2> HIDE DEF size
  <2>3. /\ read \in Seq(Character) /\ Len(read) = size /\ \A k \in 1 .. size : read[k] = t[k]
    BY <1>3, <2>1
  <2>4. /\ left \in Seq(Character) /\ Len(left) = Len(t) - size
        /\ \A k \in 1 .. Len(t) - size : left[k] = t[size + k]
    BY <1>3, <2>1, PartFacts
  <2> HIDE DEF read, left
  <2>5. /\ source.kind = "file" /\ source.buffer = read /\ source.unread = left
        /\ source.delta = 0 /\ source.streamSize = Len(t)
        /\ source.forward = StartPos /\ source.current = StartPos /\ source \in Stream
    BY <1>3, <1>4, <2>2, <2>3, <2>4 DEF InitSourceBuffer, Stream
  <2>6. mode = "host"
    BY <1>7, <2>5 DEF Opened, OpenSourceFile, InitSourceBuffer
  <2>7. StreamSound(source)
    BY <1>4, <2>1, <2>3, <2>5 DEF StreamSound
  <2>8. ShowsFile(source, t)
    <3>1. PICK n \in Nat, m \in Nat : n = Len(t) /\ m = size /\ m <= n
      BY <1>3, <2>1, Zenon
    <3>2. 0 + m + (n - m) = n /\ 0 + m = m
      OBVIOUS
    <3>3. source.delta + Len(source.buffer) + Len(source.unread) = Len(t)
      <4>1. Len(source.buffer) = m /\ Len(source.unread) = n - m
        BY <2>3, <2>4, <2>5, <3>1
      <4>2. QED
        BY <2>5, <3>1, <3>2, <4>1, Zenon
    <3>4. \A k \in 1 .. Len(source.buffer) : source.buffer[k] = t[source.delta + k]
      <4>1. \A k \in 1 .. m : 0 + k = k
        OBVIOUS
      <4>2. QED
        BY <2>3, <2>5, <3>1, <4>1, Zenon
    <3>5. \A k \in 1 .. Len(source.unread) :
            source.unread[k] = t[source.delta + Len(source.buffer) + k]
      BY <2>3, <2>4, <2>5, <3>1, <3>2, Zenon
    <3>6. QED
      BY <2>5, <3>3, <3>4, <3>5 DEF ShowsFile
  <2>9. Shows(source, t, 0)
    BY <2>5, <2>8 DEF Shows
  <2>10. QED
    BY <1>3, <1>5, <2>2, <2>5, <2>6, <2>7, <2>9
<1>8. CASE Opened(OpenReplStream(t), <<>>)
  <2> DEFINE buffer == [k \in 1 .. Page |-> NUL]
  <2>1. /\ source = InitSourceBuffer("repl", buffer, t, 0) /\ text = <<>>
    BY <1>8 DEF Opened, OpenReplStream
  <2>2. buffer \in Seq(Character) /\ Len(buffer) = Page /\ buffer[1] = NUL
    BY <1>3
  <2> HIDE DEF buffer
  <2>3. /\ source.kind = "repl" /\ source.buffer = buffer /\ source.delta = 0
        /\ source.forward = StartPos /\ source.current = StartPos /\ source \in Stream
    BY <1>3, <1>4, <2>1, <2>2 DEF InitSourceBuffer, Stream
  <2>4. mode = "prompt"
    BY <1>8, <2>3 DEF Opened, OpenReplStream, InitSourceBuffer
  <2>5. StreamSound(source)
    BY <1>3, <1>4, <2>2, <2>3 DEF StreamSound
  <2>6. Shows(source, <<>>, 0)
    <3>1. /\ Len(<<>>) = 0 /\ 0 + 0 <= 0 /\ 0 - 0 < Page /\ 0 - 0 + 1 = 1
          /\ \A k \in 1 .. 0 - 0 : FALSE
      BY <1>3
    <3>2. ShowsLine(source, <<>>, 0)
      BY <1>4, <2>2, <2>3, <3>1 DEF ShowsLine
    <3>3. QED
      BY <2>3, <3>2 DEF Shows
  <2>7. QED
    BY <1>3, <1>5, <2>1, <2>3, <2>4, <2>5, <2>6
<1>9. QED
  BY <1>2, <1>6, <1>7, <1>8

\* The stream shows its text through every step, and what is read of a lexeme is
\* what the place in the scanner says.
THEOREM SpecLexerInv == LexerSpec => []LexerInv
<1>1. ASSUME LexerInv, UNCHANGED lexerVars PROVE LexerInv'
  <2>1. /\ UNCHANGED <<source, mode, radix, counter, token, made>>
        /\ UNCHANGED <<text, origin, dropped>>
    BY <1>1 DEF lexerVars, historyVars
  <2>2. StateType'
    BY <1>1, <2>1 DEF LexerInv, StateType
  <2>3. SourceInv'
    BY <1>1, <2>1 DEF LexerInv, SourceInv
  <2>4. LexemeInv' /\ MadeSound'
    BY <1>1, <2>1 DEF LexerInv, LexemeInv, MadeSound, Peek
  <2>5. QED
    BY <1>1, <2>1, <2>2, <2>3, <2>4 DEF LexerInv
<1>2. LexerInv /\ [LexerNext]_lexerVars => LexerInv'
  BY <1>1, SkipSpaceLexerInv, StartLexemeLexerInv, ReadRadixLexerInv, ScanWordLexerInv,
     ScanPunctuatorLexerInv, ScanSingleLineCommentLexerInv, ScanMultiLineCommentLexerInv,
     MatchDelimiterLexerInv, OverrunLexerInv, ScanTokenLexerInv, ReplReadLineLexerInv,
     RetreatLexerInv, CloseLexerInv DEF LexerNext
<1>3. QED
  BY InitLexerInv, <1>2, PTL DEF LexerSpec

\* The state of the scanner is well typed.
THEOREM LexerTypes == LexerSpec => []TypeOK
<1> DEFINE TokenType == token.offset \in Nat /\ token.length \in Nat
<1>1. LexerInit => TokenType
  BY DEF LexerInit, NoToken
<1>2. LexerInv' /\ TokenType /\ [LexerNext]_lexerVars => TokenType'
  <2> SUFFICES ASSUME LexerInv', TokenType, [LexerNext]_lexerVars
               PROVE  TokenType'
    OBVIOUS
  <2>1. token' = token \/ token' = NoToken \/ made' = TRUE
    <3>1. CASE SkipSpace \/ Overrun \/ ScanToken \/ Retreat \/ Close
      BY <3>1 DEF SkipSpace, Overrun, ScanToken, Retreat, Close, Continue
    <3>2. CASE StartLexeme \/ ReadRadix \/ ScanWord \/ ScanPunctuator
      BY <3>2 DEF StartLexeme, ReadRadix, ScanWord, ScanPunctuator, Continue, FinishToken,
                  FinishWithout
    <3>3. CASE ScanSingleLineComment \/ MatchDelimiter
      BY <3>3 DEF ScanSingleLineComment, MatchDelimiter, Continue, FinishToken
    <3>4. CASE ScanMultiLineComment
      <4>1. CASE Got = EOF
        BY <3>4, <4>1 DEF ScanMultiLineComment, FinishToken, EOF
      <4>2. CASE Got # EOF
        BY <3>4, <4>2 DEF ScanMultiLineComment, Continue
      <4>3. QED
        BY <4>1, <4>2
    <3>5. CASE ReplReadLine
      BY <3>5 DEF ReplReadLine
    <3>6. CASE UNCHANGED lexerVars
      BY <3>6 DEF lexerVars
    <3>7. QED
      BY <3>1, <3>2, <3>3, <3>4, <3>5, <3>6 DEF LexerNext
  <2>2. CASE made' = TRUE
    <3>1. token' = MakeToken(token'.code, source', token'.radix) /\ StreamSound(source')
      BY <2>2 DEF LexerInv, MadeSound, SourceInv
    <3>2. source'.current.offset \in Nat /\ LexemeLength(source') \in Nat
      BY <3>1, FieldFacts, LexemeFacts
    <3>3. PICK k, r : token' = MakeToken(k, source', r)
      BY <3>1
    <3>4. QED
      BY <3>2, <3>3 DEF MakeToken
  <2>3. CASE token' = NoToken
    BY <2>3 DEF NoToken
  <2>4. CASE token' = token
    BY <2>4
  <2>5. QED
    BY <2>1, <2>2, <2>3, <2>4
<1>3. LexerInv /\ TokenType => TypeOK
  <2> SUFFICES ASSUME LexerInv, TokenType PROVE TypeOK
    OBVIOUS
  <2>1. /\ source.current.offset <= source.forward.offset
        /\ source.forward.offset <= BufferSize(source)
    BY DEF LexerInv, SourceInv, StreamSound, BufferSize
  <2>2. QED
    BY <2>1 DEF LexerInv, StateType, Modes, TypeOK
<1> HIDE DEF TokenType
<1>4. QED
  BY <1>1, <1>2, <1>3, SpecLexerInv, PTL DEF LexerSpec

\* A token that was made is of the lexeme behind the scanner, which is there in
\* the text.
LEMMA MadeLexeme ==
  ASSUME LexerInv, Exact
  PROVE  /\ mode = "host" /\ StreamSound(source) /\ text \in Seq(Character)
         /\ Shows(source, text, origin) /\ Base(source, origin) = Origin
         /\ token.offset = source.current.offset /\ token.length = LexemeLength(source)
         /\ Lexeme = RawLexeme(source)
         /\ Start + token.length = Origin + source.forward.offset
<1>1. /\ mode = "host" /\ StreamSound(source) /\ text \in Seq(Character) /\ origin \in Nat
      /\ Shows(source, text, origin)
  BY DEF LexerInv, Exact, MadeSound, SourceInv, StateType
<1>2. token = MakeToken(token.code, source, token.radix)
  BY DEF LexerInv, Exact, MadeSound
<1>3. PICK c, r : token = MakeToken(c, source, r)
  BY <1>2
<1>4. token.offset = source.current.offset /\ token.length = LexemeLength(source)
  BY <1>3 DEF MakeToken
<1>5. Base(source, origin) = Origin
  BY DEF Base, Origin
<1>6. Lexeme = RawLexeme(source)
  <2>1. SubSeq(text, Base(source, origin) + source.current.offset + 1,
               Base(source, origin) + source.current.offset + LexemeLength(source))
          = RawLexeme(source)
    BY <1>1, ShowsLexeme
  <2>2. QED
    BY <1>4, <1>5, <2>1 DEF Lexeme, Start
<1>7. Start + token.length = Origin + source.forward.offset
  <2>1. PICK e \in Nat, f \in Nat : e = source.current.offset /\ f = source.forward.offset
    BY <1>1, FieldFacts
  <2>2. LexemeLength(source) = f - e
    BY <2>1 DEF LexemeLength
  <2>3. Base(source, origin) \in Nat
    BY <1>1, WindowFacts
  <2>4. PICK b \in Nat : b = Origin
    BY <1>5, <2>3
  <2>5. b + e + (f - e) = b + f
    OBVIOUS
  <2>6. QED
    BY <1>4, <2>1, <2>2, <2>4, <2>5, Zenon DEF Start
<1>8. QED
  BY <1>1, <1>4, <1>5, <1>6, <1>7

\* Wherever a token was made, its text in the buffer is the piece of the stream
\* it says, and its line and column are where a reader finds that piece: for
\* every text, page and line, across refills, lines and rescans.
THEOREM LexemesStayExact == LexerSpec => []LexemeExact
<1>1. LexerInv => LexemeExact
  <2> SUFFICES ASSUME LexerInv, Exact
               PROVE  /\ SubSeq(source.buffer, token.offset + 1, token.offset + token.length)
                           = Lexeme
                      /\ token.line = 1 + Cardinality(Newlines(Start))
                      /\ \E bol \in Newlines(Start) \cup {0} :
                           /\ \A k \in Newlines(Start) : k <= bol
                           /\ token.column = Start - bol + 1
    BY DEF LexemeExact
  <2>1. /\ StreamSound(source) /\ Base(source, origin) = Origin /\ mode = "host"
        /\ token.offset = source.current.offset /\ token.length = LexemeLength(source)
        /\ Lexeme = RawLexeme(source)
    BY MadeLexeme
  <2>2. token.line = source.current.line /\ token.column = source.current.column
    <3>1. token = MakeToken(token.code, source, token.radix)
      BY DEF LexerInv, Exact, MadeSound
    <3>2. PICK c, r : token = MakeToken(c, source, r)
      BY <3>1
    <3>3. QED
      BY <3>2 DEF MakeToken
  <2>3. Placed(source.current, source, text, origin)
    BY <2>1 DEF LexerInv, Exact, SourceInv
  <2>4. ExactAt(source.current, text, Start)
    BY <2>1, <2>3 DEF Placed, Start
  <2>5. Newlines(Start) = NewlinesIn(text, Start)
    BY DEF Newlines, NewlinesIn
  <2>6. SubSeq(source.buffer, token.offset + 1, token.offset + token.length) = RawLexeme(source)
    <3>1. PICK c \in Nat, f \in Nat : c = source.current.offset /\ f = source.forward.offset
      BY <2>1, FieldFacts
    <3>2. LexemeLength(source) = f - c /\ c + (f - c) = f
      BY <3>1 DEF LexemeLength
    <3>3. token.offset + token.length = f /\ token.offset = c
      BY <2>1, <3>1, <3>2, Zenon
    <3>4. QED
      BY <3>1, <3>3 DEF RawLexeme
  <2>7. QED
    BY <2>1, <2>2, <2>4, <2>5, <2>6 DEF ExactAt
<1>2. QED
  BY <1>1, SpecLexerInv, PTL

\* Wherever a token was made, its code is the class of its text, and nothing that
\* can be seen behind it would make it longer: for every text, page and line.
THEOREM TokensStayClassified == LexerSpec => []TokensClassified
<1>1. LexerInv => TokensClassified
  <2> DEFINE seen == IF PageEnds \/ NulFollows THEN EOF ELSE Following
  <2> SUFFICES ASSUME LexerInv, Exact
               PROVE  Answered(token.code, token.radix, Lexeme, seen)
    BY DEF TokensClassified
  <2>1. /\ StreamSound(source) /\ text \in Seq(Character) /\ Shows(source, text, origin)
        /\ Base(source, origin) = Origin /\ Lexeme = RawLexeme(source)
        /\ Start + token.length = Origin + source.forward.offset
    BY MadeLexeme
  <2>2. origin \in Nat
    BY DEF LexerInv, StateType
  <2>3. Peek = Behind(source, text, origin)
    BY <2>1, <2>2, ShowsPeek DEF Peek
  <2>4. seen = Behind(source, text, origin)
    <3> DEFINE k == Start + token.length + 1
               past == source.kind = "file" /\ k > source.delta + BufferSize(source)
    <3>1. Behind(source, text, origin) =
            IF k > Len(text) \/ text[k] = NUL \/ past THEN EOF ELSE text[k]
      BY <2>1 DEF Behind
    <3>2. Following = IF k > Len(text) THEN EOF ELSE text[k]
      BY DEF Following
    <3>3. source.delta + BufferSize(source) \in Int /\ Start + token.length \in Int
      BY <2>1, <2>2, FieldFacts DEF BufferSize, Base
    <3>4. PageEnds <=> past /\ Following # EOF
      BY <3>3 DEF PageEnds
    <3>5. NulFollows <=> Following = NUL
      BY DEF NulFollows
    <3>6. \A i \in 1 .. Len(text) : text[i] # EOF
      BY <2>1, SourceAssumption
    <3>7. EOF # NUL
      BY DEF EOF, NUL
    <3> HIDE DEF k, past
    <3>8. QED
      BY <3>1, <3>2, <3>4, <3>5, <3>7, Zenon
  <2>5. Answered(token.code, token.radix, RawLexeme(source), Peek)
    BY DEF LexerInv, Exact, MadeSound
  <2>6. QED
    BY <2>1, <2>3, <2>4, <2>5
<1>2. QED
  BY <1>1, SpecLexerInv, PTL

-------------------------------------------------------------------------------
(* The stack machine.                                                         *)


\* The programs whose constants one byte can name.
FewConstants == MaxInstructions \in Nat /\ MaxInstructions <= IndexModulus

-------------------------------------------------------------------------------
(* Sequences of anything.                                                     *)

IsSeq(s) == s \in Seq(ToSet(s))

\* Whatever a sequence is said to be of, it is one.
LEMMA SeqIs ==
  ASSUME NEW S, NEW s \in Seq(S)
  PROVE  IsSeq(s)
  BY DEF IsSeq, ToSet

\* Its elements and its length.
LEMMA SeqFacts ==
  ASSUME NEW s, IsSeq(s)
  PROVE  Len(s) \in Nat /\ DOMAIN s = 1 .. Len(s)
  BY DEF IsSeq

\* Appending to it.
LEMMA SeqAppend ==
  ASSUME NEW s, IsSeq(s), NEW v
  PROVE  /\ IsSeq(Append(s, v)) /\ Len(Append(s, v)) = Len(s) + 1
         /\ \A k \in 1 .. Len(s) : Append(s, v)[k] = s[k]
         /\ Append(s, v)[Len(s) + 1] = v
<1> DEFINE S == ToSet(s) \cup {v}
<1>1. s \in Seq(S) /\ v \in S
  BY DEF IsSeq
<1> HIDE DEF S
<1>2. /\ Append(s, v) \in Seq(S) /\ Len(Append(s, v)) = Len(s) + 1
      /\ \A k \in 1 .. Len(s) : Append(s, v)[k] = s[k]
      /\ Append(s, v)[Len(s) + 1] = v
  BY <1>1, AppendAt
<1>3. QED
  BY <1>2, SeqIs

\* Dropping its last element.
LEMMA SeqFront ==
  ASSUME NEW s, IsSeq(s), Len(s) > 0
  PROVE  /\ IsSeq(Front(s)) /\ Len(Front(s)) = Len(s) - 1
         /\ \A k \in 1 .. Len(s) - 1 : Front(s)[k] = s[k]
<1> DEFINE S == ToSet(s)
<1>1. s \in Seq(S) /\ s # <<>>
  BY DEF IsSeq
<1> HIDE DEF S
<1>2. /\ Front(s) \in Seq(S) /\ Len(Front(s)) = Len(s) - 1
      /\ \A k \in 1 .. Len(s) - 1 : Front(s)[k] = s[k]
  BY <1>1, FrontAt
<1>3. QED
  BY <1>2, SeqIs

\* Putting another behind it.
LEMMA SeqConcat ==
  ASSUME NEW s, IsSeq(s), NEW t, IsSeq(t)
  PROVE  /\ IsSeq(s \o t) /\ Len(s \o t) = Len(s) + Len(t)
         /\ \A k \in 1 .. Len(s) : (s \o t)[k] = s[k]
         /\ \A k \in 1 .. Len(t) : (s \o t)[Len(s) + k] = t[k]
<1> DEFINE S == ToSet(s) \cup ToSet(t)
<1>1. s \in Seq(S) /\ t \in Seq(S)
  BY DEF IsSeq
<1> HIDE DEF S
<1>2. s \o t \in Seq(S) /\ Len(s \o t) = Len(s) + Len(t)
  BY <1>1
<1>3. \A k \in 1 .. Len(s) : (s \o t)[k] = s[k]
  BY <1>1
<1>4. ASSUME NEW k \in 1 .. Len(t)
      PROVE  (s \o t)[Len(s) + k] = t[k]
  BY <1>1
<1>5. QED
  BY <1>2, <1>3, <1>4, SeqIs

\* Changing one of its elements.
LEMMA SeqExcept ==
  ASSUME NEW S, NEW s \in Seq(S), NEW n \in 1 .. Len(s), NEW v \in S
  PROVE  /\ [s EXCEPT ![n] = v] \in Seq(S) /\ Len([s EXCEPT ![n] = v]) = Len(s)
         /\ [s EXCEPT ![n] = v][n] = v
         /\ \A k \in 1 .. Len(s) : k # n => [s EXCEPT ![n] = v][k] = s[k]
  OBVIOUS

-------------------------------------------------------------------------------
(* Where instructions start.                                                  *)

Widths(p) == [k \in DOMAIN p |-> Width(p[k].op)]

\* An instruction starts where the one before it ends.
LEMMA StartsFacts ==
  ASSUME NEW p, IsSeq(p)
  PROVE  /\ DOMAIN Starts(p) = 1 .. Len(p) + 1
         /\ \A k \in 1 .. Len(p) + 1 :
              Starts(p)[k] = 1 + SumFunctionOnSet(Widths(p), 1 .. k - 1)
         /\ \A k \in 1 .. Len(p) + 1 : Starts(p)[k] \in Nat \ {0}
         /\ Starts(p)[1] = 1
         /\ \A k \in 1 .. Len(p) : Starts(p)[k + 1] = Starts(p)[k] + Width(p[k].op)
<1> DEFINE f == Widths(p)
           S(k) == SumFunctionOnSet(f, 1 .. k - 1)
<1>1. Len(p) \in Nat /\ DOMAIN p = 1 .. Len(p)
  BY SeqFacts
<1>2. DOMAIN Starts(p) = 1 .. Len(p) + 1 /\ \A k \in 1 .. Len(p) + 1 : Starts(p)[k] = 1 + S(k)
  BY DEF Starts, Widths
<1>3. \A k \in 1 .. Len(p) : f[k] = Width(p[k].op) /\ f[k] \in {1, 2}
  BY <1>1 DEF Widths, Width
<1> HIDE DEF f
<1>4. ASSUME NEW k \in 1 .. Len(p) + 1
      PROVE  /\ IsFiniteSet(1 .. k - 1)
             /\ \A j \in 1 .. k - 1 : f[j] \in Nat
             /\ S(k) \in Nat
  <2>1. 1 .. k - 1 \subseteq 1 .. Len(p) /\ k - 1 \in Int
    BY <1>1
  <2>2. IsFiniteSet(1 .. k - 1)
    BY <2>1, FS_Interval
  <2>3. \A j \in 1 .. k - 1 : f[j] \in Nat
    BY <1>3, <2>1
  <2>4. SumFunctionOnSet(f, 1 .. k - 1) \in Nat
    BY <2>2, <2>3, SumNat
  <2>5. QED
    BY <2>2, <2>3, <2>4
<1>5. ASSUME NEW k \in 1 .. Len(p)
      PROVE  S(k + 1) = S(k) + f[k]
  <2>1. IsFiniteSet(1 .. k - 1) /\ k \notin 1 .. k - 1 /\ 1 .. (k + 1) - 1 = (1 .. k - 1) \cup {k}
    BY <1>1, <1>4
  <2>2. \A j \in (1 .. k - 1) \cup {k} : f[j] \in Int
    BY <1>1, <1>3
  <2>3. SumFunctionOnSet(f, (1 .. k - 1) \cup {k}) = SumFunctionOnSet(f, 1 .. k - 1) + f[k]
    BY <2>1, <2>2, SumAdd
  <2>4. QED
    BY <2>1, <2>3
<1>6. 1 .. 1 - 1 = {}
  OBVIOUS
<1>7. S(1) = 0
  BY <1>6, SumEmpty
<1>8. \A k \in 1 .. Len(p) + 1 : S(k) \in Nat
  BY <1>4
<1>9. \A k \in 1 .. Len(p) : k \in 1 .. Len(p) + 1 /\ k + 1 \in 1 .. Len(p) + 1
  BY <1>1
<1>10. 1 \in 1 .. Len(p) + 1
  BY <1>1
<1> HIDE DEF S
<1>11. \A k \in 1 .. Len(p) + 1 : Starts(p)[k] \in Nat \ {0}
  BY <1>2, <1>8
<1>12. Starts(p)[1] = 1
  BY <1>2, <1>7, <1>10
<1>13. ASSUME NEW k \in 1 .. Len(p)
       PROVE  Starts(p)[k + 1] = Starts(p)[k] + Width(p[k].op)
  <2>1. Starts(p)[k] = 1 + S(k) /\ Starts(p)[k + 1] = 1 + S(k + 1)
    BY <1>2, <1>9
  <2>2. f[k] = Width(p[k].op) /\ f[k] \in Nat
    BY <1>3
  <2>3. S(k + 1) = S(k) + f[k]
    BY <1>5
  <2>4. S(k) \in Nat
    BY <1>8, <1>9
  <2>5. QED
    BY <2>1, <2>2, <2>3, <2>4
<1>14. QED
  BY <1>2, <1>11, <1>12, <1>13 DEF S, f

\* One more instruction moves no other.
LEMMA StartsAppend ==
  ASSUME NEW p, IsSeq(p), NEW i, NEW k \in 1 .. Len(p) + 1
  PROVE  Starts(Append(p, i))[k] = Starts(p)[k]
<1> DEFINE q == Append(p, i)
<1>1. Len(p) \in Nat /\ DOMAIN p = 1 .. Len(p)
  BY SeqFacts
<1>2. IsSeq(q) /\ Len(q) = Len(p) + 1 /\ \A j \in 1 .. Len(p) : q[j] = p[j]
  BY SeqAppend
<1> HIDE DEF q
<1>3. DOMAIN q = 1 .. Len(q)
  BY <1>2, SeqFacts
<1>4. IsFiniteSet(1 .. k - 1)
  BY <1>1, FS_Interval
<1>5. \A j \in 1 .. k - 1 : Widths(p)[j] \in Int /\ Widths(p)[j] = Widths(q)[j]
  BY <1>1, <1>2, <1>3 DEF Widths, Width
<1>6. SumFunctionOnSet(Widths(p), 1 .. k - 1) = SumFunctionOnSet(Widths(q), 1 .. k - 1)
  BY <1>4, <1>5, SumAgree
<1>7. k \in 1 .. Len(q) + 1
  BY <1>1, <1>2
<1>8. Starts(q)[k] = 1 + SumFunctionOnSet(Widths(q), 1 .. k - 1)
  BY <1>2, <1>7, StartsFacts
<1>9. Starts(p)[k] = 1 + SumFunctionOnSet(Widths(p), 1 .. k - 1)
  BY StartsFacts
<1>10. QED
  BY <1>6, <1>8, <1>9 DEF q
-------------------------------------------------------------------------------
(* What an instruction does to the stack.                                     *)

\* The cases of Effects, one by one.
LEMMA EffectsCases ==
  ASSUME NEW i, NEW s
  PROVE  /\ i.op \in {"NOP", "EQ"} => Effects(i, s) = {s}
         /\ i.op \in {"LDI", "LDC"} => Effects(i, s) = {Append(s, i.arg)}
         /\ i.op \in {"POP", "OUT"} => Effects(i, s) = {Front(s)}
         /\ i.op = "DUP" => Effects(i, s) = {Append(s, Last(s))}
         /\ i.op \in Unary =>
              Effects(i, s) = {Append(Front(s), v) : v \in UnaryAnswers(i.op, Last(s))}
         /\ i.op \in Binary =>
              Effects(i, s) = {Append(Front(Front(s)), v) :
                                 v \in BinaryAnswers(i.op, s[Len(s) - 1], Last(s)) \ {Trap}}
         /\ i.op \notin {"NOP", "EQ", "LDI", "LDC", "POP", "OUT", "DUP"} \cup Unary \cup Binary
              => Effects(i, s) = {}
<1> DEFINE o == i.op
<1>1. o \in Unary => o \in {"BNOT", "NOT", "NEG"}
  BY DEF Unary
<1>2. o \in Binary => o \in {"ADD", "SUB", "MUL", "DIV", "POW", "REM", "BAND", "BOR", "BXOR",
                             "AND", "OR"}
  BY DEF Binary, Arithmetic, BitwiseOps, Logic
<1>3. o \in Unary => o \notin {"NOP", "EQ", "LDI", "LDC", "POP", "OUT", "DUP"}
  BY <1>1
<1>4. o \in Binary => o \notin {"NOP", "EQ", "LDI", "LDC", "POP", "OUT", "DUP"} \cup Unary
  BY <1>2 DEF Unary
<1> HIDE DEF o
<1>5. o \in {"NOP", "EQ"} => Effects(i, s) = {s}
  BY <1>3, <1>4 DEF Effects, o
<1>6. o \in {"LDI", "LDC"} => Effects(i, s) = {Append(s, i.arg)}
  BY <1>3, <1>4 DEF Effects, o
<1>7. o \in {"POP", "OUT"} => Effects(i, s) = {Front(s)}
  BY <1>3, <1>4 DEF Effects, o
<1>8. o = "DUP" => Effects(i, s) = {Append(s, Last(s))}
  BY <1>3, <1>4 DEF Effects, o
<1>9. o \in Unary => Effects(i, s) = {Append(Front(s), v) : v \in UnaryAnswers(i.op, Last(s))}
  BY <1>3, <1>4 DEF Effects, o
<1>10. o \in Binary =>
         Effects(i, s) = {Append(Front(Front(s)), v) :
                            v \in BinaryAnswers(i.op, s[Len(s) - 1], Last(s)) \ {Trap}}
  BY <1>4 DEF Effects, o
<1>11. o \notin {"NOP", "EQ", "LDI", "LDC", "POP", "OUT", "DUP"} \cup Unary \cup Binary
         => Effects(i, s) = {}
  BY DEF Effects, o
<1>12. QED
  BY <1>5, <1>6, <1>7, <1>8, <1>9, <1>10, <1>11 DEF o

\* An instruction that has its operands leaves a stack at most one higher; those that
\* end the run leave none.
LEMMA EffectsFacts ==
  ASSUME NEW i, NEW s, IsSeq(s), ~Underflows(i.op, s), NEW t \in Effects(i, s)
  PROVE  IsSeq(t) /\ Len(t) <= Len(s) + 1 /\ ~Ends(i)
<1> DEFINE Moves == {"NOP", "EQ", "LDI", "LDC", "POP", "OUT", "DUP"}
<1>1. i.op \in Moves \cup Unary \cup Binary
  BY EffectsCases
<1>2. ~Ends(i)
  BY <1>1 DEF Ends, Known, Unary, Binary, Arithmetic, BitwiseOps, Logic
<1>3. Len(s) \in Nat
  BY SeqFacts
<1>4. /\ i.op \in Binary => Len(s) >= 2
      /\ i.op \in Unary \cup {"POP", "OUT"} => Len(s) >= 1
  <2>1. i.op \in Binary => Operands(i.op) = 2
    BY DEF Operands
  <2>2. i.op \in Unary \cup {"POP", "OUT"} => Operands(i.op) = 1
    BY DEF Operands, Unary, Binary, Arithmetic, BitwiseOps, Logic
  <2>3. ~(Len(s) < Operands(i.op))
    BY DEF Underflows
  <2>4. QED
    BY <1>3, <2>1, <2>2, <2>3
<1>5. ASSUME NEW r, IsSeq(r), Len(r) <= Len(s), NEW v
      PROVE  IsSeq(Append(r, v)) /\ Len(Append(r, v)) <= Len(s) + 1
  <2>1. Len(r) \in Nat /\ IsSeq(Append(r, v)) /\ Len(Append(r, v)) = Len(r) + 1
    BY <1>5, SeqFacts, SeqAppend
  <2>2. QED
    BY <1>3, <1>5, <2>1
<1>6. Len(s) >= 1 => IsSeq(Front(s)) /\ Len(Front(s)) = Len(s) - 1
  BY <1>3, SeqFront
<1>7. Len(s) >= 2 => IsSeq(Front(Front(s))) /\ Len(Front(Front(s))) = Len(s) - 2
  <2>1. ASSUME Len(s) >= 2
        PROVE  IsSeq(Front(Front(s))) /\ Len(Front(Front(s))) = Len(s) - 2
    <3>1. IsSeq(Front(s)) /\ Len(Front(s)) = Len(s) - 1 /\ Len(Front(s)) > 0
      BY <1>3, <1>6, <2>1
    <3>2. IsSeq(Front(Front(s))) /\ Len(Front(Front(s))) = Len(Front(s)) - 1
      BY <3>1, SeqFront
    <3>3. QED
      BY <1>3, <3>1, <3>2
  <2>2. QED
    BY <2>1
<1> HIDE DEF Moves
<1>8. CASE i.op \in {"NOP", "EQ"}
  BY <1>2, <1>3, <1>8, EffectsCases
<1>9. CASE i.op \in {"LDI", "LDC"}
  <2>1. t = Append(s, i.arg) /\ Len(s) <= Len(s)
    BY <1>3, <1>9, EffectsCases
  <2>2. QED
    BY <1>2, <1>5, <2>1
<1>10. CASE i.op \in {"POP", "OUT"}
  <2>1. t = Front(s) /\ Len(s) >= 1
    BY <1>4, <1>10, EffectsCases
  <2>2. QED
    BY <1>2, <1>3, <1>6, <2>1
<1>11. CASE i.op = "DUP"
  <2>1. t = Append(s, Last(s)) /\ Len(s) <= Len(s)
    BY <1>3, <1>11, EffectsCases
  <2>2. QED
    BY <1>2, <1>5, <2>1
<1>12. CASE i.op \in Unary
  <2>1. Len(s) >= 1 /\ \E v : t = Append(Front(s), v)
    BY <1>4, <1>12, EffectsCases
  <2>2. IsSeq(Front(s)) /\ Len(Front(s)) <= Len(s)
    BY <1>3, <1>6, <2>1
  <2>3. QED
    BY <1>2, <1>5, <2>1, <2>2
<1>13. CASE i.op \in Binary
  <2>1. Len(s) >= 2 /\ \E v : t = Append(Front(Front(s)), v)
    BY <1>4, <1>13, EffectsCases
  <2>2. IsSeq(Front(Front(s))) /\ Len(Front(Front(s))) <= Len(s)
    BY <1>3, <1>7, <2>1
  <2>3. QED
    BY <1>2, <1>5, <2>1, <2>2
<1>14. QED
  BY <1>1, <1>8, <1>9, <1>10, <1>11, <1>12, <1>13 DEF Moves

-------------------------------------------------------------------------------
(* The bytes of a program.                                                    *)

\* c is the code of p: every opcode where its instruction starts, room for its
\* argument behind it, and nothing behind the last.
Laid(c, p) ==
  /\ Len(c) + 1 = Starts(p)[Len(p) + 1]
  /\ \A k \in DOMAIN p : /\ Starts(p)[k] + Width(p[k].op) <= Len(c) + 1
                         /\ c[Starts(p)[k]] = OpByte(p[k].op)

\* What is written for an instruction.
Written(op, a) == IF HasArgument(op) THEN <<OpByte(op), ArgByte(a)>> ELSE <<OpByte(op)>>

\* One byte or two, as the loop expects.
LEMMA WrittenFacts ==
  ASSUME NEW op, NEW a
  PROVE  /\ IsSeq(Written(op, a)) /\ Len(Written(op, a)) = Width(op)
         /\ Width(op) \in {1, 2}
         /\ Written(op, a)[1] = OpByte(op)
         /\ HasArgument(op) => Written(op, a)[2] = ArgByte(a)
<1>1. CASE HasArgument(op)
  <2> DEFINE x == OpByte(op)
             y == ArgByte(a)
  <2>1. Written(op, a) = <<x, y>> /\ Width(op) = 2
    BY <1>1 DEF Written, Width
  <2> HIDE DEF x, y
  <2>2. <<x, y>> \in Seq({x, y}) /\ Len(<<x, y>>) = 2 /\ <<x, y>>[1] = x /\ <<x, y>>[2] = y
    OBVIOUS
  <2>3. IsSeq(<<x, y>>)
    BY <2>2, SeqIs
  <2>4. QED
    BY <2>1, <2>2, <2>3 DEF x, y
<1>2. CASE ~HasArgument(op)
  <2> DEFINE x == OpByte(op)
  <2>1. Written(op, a) = <<x>> /\ Width(op) = 1
    BY <1>2 DEF Written, Width
  <2> HIDE DEF x
  <2>2. <<x>> \in Seq({x}) /\ Len(<<x>>) = 1 /\ <<x>>[1] = x
    OBVIOUS
  <2>3. IsSeq(<<x>>)
    BY <2>2, SeqIs
  <2>4. QED
    BY <1>2, <2>1, <2>2, <2>3 DEF x
<1>3. QED
  BY <1>1, <1>2

\* Writing an instruction behind a program lays the longer program.
LEMMA LaidAppend ==
  ASSUME NEW c, IsSeq(c), NEW p, IsSeq(p), Laid(c, p), NEW i, NEW a
  PROVE  /\ Laid(c \o Written(i.op, a), Append(p, i))
         /\ Starts(Append(p, i))[Len(p) + 1] = Len(c) + 1
         /\ Starts(Append(p, i))[Len(p) + 2] = Len(c) + 1 + Width(i.op)
<1> DEFINE w == Written(i.op, a)
           d == c \o w
           q == Append(p, i)
<1>1. Len(p) \in Nat /\ DOMAIN p = 1 .. Len(p) /\ Len(c) \in Nat
  BY SeqFacts
<1>2. /\ IsSeq(w) /\ Len(w) = Width(i.op) /\ Width(i.op) \in {1, 2} /\ w[1] = OpByte(i.op)
  BY WrittenFacts
<1>3. /\ IsSeq(q) /\ Len(q) = Len(p) + 1
      /\ \A k \in 1 .. Len(p) : q[k] = p[k]
      /\ q[Len(p) + 1] = i
  BY SeqAppend
<1>4. \A k \in 1 .. Len(p) + 1 : Starts(q)[k] = Starts(p)[k]
  BY StartsAppend
<1> HIDE DEF w
<1>5. /\ IsSeq(d) /\ Len(d) = Len(c) + Width(i.op)
      /\ \A k \in 1 .. Len(c) : d[k] = c[k]
      /\ \A k \in 1 .. Len(w) : d[Len(c) + k] = w[k]
  BY <1>2, SeqConcat
<1> HIDE DEF d, q
<1>6. DOMAIN q = 1 .. Len(p) + 1
  BY <1>3, SeqFacts
<1>7. Len(c) + 1 = Starts(p)[Len(p) + 1]
  BY DEF Laid
<1>8. Starts(q)[Len(p) + 1] = Len(c) + 1
  BY <1>1, <1>4, <1>7
<1>9. Starts(q)[Len(p) + 2] = Len(c) + 1 + Width(i.op)
  <2>1. Len(p) + 1 \in 1 .. Len(q) /\ Len(p) + 2 = (Len(p) + 1) + 1
    BY <1>1, <1>3
  <2>2. Starts(q)[(Len(p) + 1) + 1] = Starts(q)[Len(p) + 1] + Width(q[Len(p) + 1].op)
    BY <1>3, <2>1, StartsFacts
  <2>3. QED
    BY <1>3, <1>8, <2>1, <2>2
<1>10. d[Len(c) + 1] = OpByte(i.op)
  <2>1. 1 \in 1 .. Len(w)
    BY <1>2
  <2>2. QED
    BY <1>2, <1>5, <2>1
<1>11. ASSUME NEW k \in DOMAIN q
       PROVE  /\ Starts(q)[k] + Width(q[k].op) <= Len(d) + 1
              /\ d[Starts(q)[k]] = OpByte(q[k].op)
  <2>1. CASE k = Len(p) + 1
    <3>1. Starts(q)[k] = Len(c) + 1 /\ q[k] = i
      BY <2>1, <1>3, <1>8
    <3>2. QED
      BY <1>1, <1>2, <1>5, <1>10, <3>1
  <2>2. CASE k \in 1 .. Len(p)
    <3>1. Starts(q)[k] = Starts(p)[k] /\ q[k] = p[k] /\ k \in DOMAIN p
      BY <2>2, <1>1, <1>3, <1>4
    <3>2. Starts(p)[k] + Width(p[k].op) <= Len(c) + 1 /\ c[Starts(p)[k]] = OpByte(p[k].op)
      BY <3>1 DEF Laid
    <3>3. Starts(p)[k] \in Nat \ {0} /\ Width(p[k].op) \in {1, 2}
      BY <2>2, <1>1, StartsFacts DEF Width
    <3>4. Starts(p)[k] \in 1 .. Len(c)
      BY <1>1, <3>2, <3>3
    <3>5. d[Starts(p)[k]] = c[Starts(p)[k]]
      BY <1>5, <3>4
    <3>6. Starts(p)[k] + Width(p[k].op) <= Len(d) + 1
      BY <1>1, <1>2, <1>5, <3>2, <3>3
    <3>7. QED
      BY <3>1, <3>2, <3>5, <3>6
  <2>3. QED
    BY <2>1, <2>2, <1>1, <1>6
<1>12. Len(d) + 1 = Starts(q)[Len(q) + 1]
  <2>1. Len(q) + 1 = Len(p) + 2
    BY <1>1, <1>3
  <2>2. QED
    BY <1>1, <1>2, <1>5, <1>9, <2>1
<1>13. Laid(d, q)
  BY <1>11, <1>12 DEF Laid
<1>14. QED
  BY <1>8, <1>9, <1>13 DEF d, q, w
-------------------------------------------------------------------------------
(* Growing arrays.                                                            *)

\* PI_GrowCap leaves room for what is written, one byte or two.
LEMMA CodeGrows ==
  ASSUME NEW cap \in Nat, NEW n \in Nat, n <= cap, cap = 0 \/ cap >= CodeCap, NEW k \in {1, 2},
         NEW g, g = IF ~ShouldGrow(cap, n, k) THEN cap
                    ELSE IF cap < CodeCap THEN CodeCap ELSE CodeGrowth * cap
  PROVE  g \in Nat /\ n + k <= g /\ (g = 0 \/ g >= CodeCap)
<1>1. CodeCap \in Nat /\ CodeCap >= 2 /\ CodeGrowth \in Nat /\ CodeGrowth >= 2
  BY SvmAssumption
<1>2. CASE k <= cap - n
  BY <1>1, <1>2 DEF ShouldGrow
<1>3. CASE k > cap - n /\ cap < CodeCap
  BY <1>1, <1>3 DEF ShouldGrow
<1>4. CASE k > cap - n /\ cap >= CodeCap
  <2>1. g = CodeGrowth * cap
    BY <1>1, <1>4 DEF ShouldGrow
  <2>2. ASSUME NEW x \in Nat, x >= 2, NEW y \in Nat
        PROVE  x * y \in Nat /\ x * y >= y + y
    <3>1. PICK z \in Nat : x = z + 2
      BY <2>2
    <3>2. z * y \in Nat
      BY <2>2
    <3>3. x * y = z * y + (y + y)
      BY <3>1, <2>2
    <3>4. QED
      BY <2>2, <3>2, <3>3
  <2>3. CodeGrowth * cap \in Nat /\ CodeGrowth * cap >= cap + cap
    BY <1>1, <2>2
  <2>4. cap + cap >= n + k /\ cap + cap >= CodeCap
    BY <1>1, <1>4
  <2>5. QED
    BY <1>1, <2>1, <2>3, <2>4
<1>5. QED
  BY <1>1, <1>2, <1>3, <1>4

\* So does the growth of the other arrays.
LEMMA ArrayGrows ==
  ASSUME NEW cap \in Nat, NEW n \in Nat, n <= cap
  PROVE  GrowArray(cap, n) \in Nat /\ n + 1 <= GrowArray(cap, n)
  BY SvmAssumption DEF GrowArray, ShouldGrow

-------------------------------------------------------------------------------
(* Line records.                                                              *)

StartSet(p) == {Starts(p)[k] : k \in 1 .. Len(p) + 1}

\* ls are records of the code c of p: each ends between instructions, none before the
\* one before it, and the last where the code ends.
LinesLaid(ls, c, p) ==
  /\ ls \in Seq(Nat)
  /\ ls # <<>> => ls[Len(ls)] = Len(c)
  /\ \A k \in 1 .. Len(ls) : ls[k] + 1 \in StartSet(p)
  /\ \A k \in 1 .. Len(ls) : k > 1 => ls[k - 1] <= ls[k]

\* A record lies inside the code.
LEMMA LinesInside ==
  ASSUME NEW ls, NEW c, IsSeq(c), NEW p, LinesLaid(ls, c, p)
  PROVE  \A k \in 1 .. Len(ls) : ls[k] <= Len(c)
<1> DEFINE Bad == {k \in 1 .. Len(ls) : ~(ls[k] <= Len(c))}
           n == Len(ls)
<1>1. ls \in Seq(Nat) /\ n \in Nat /\ Len(c) \in Nat /\ \A k \in 1 .. n : ls[k] \in Nat
  BY SeqFacts DEF LinesLaid
<1>2. \A k \in 1 .. n : k > 1 => ls[k - 1] <= ls[k]
  BY DEF LinesLaid
<1>3. n > 0 => ls[n] = Len(c)
  BY <1>1 DEF LinesLaid
<1> SUFFICES ASSUME Bad # {} PROVE FALSE
  OBVIOUS
<1> DEFINE Back == {n - k : k \in Bad}
<1>4. Back \subseteq Nat /\ Back # {}
  BY <1>1
<1>5. PICK m \in Back : \A j \in Back : m <= j
  <2> HIDE DEF Back
  <2>1. QED
    BY <1>4, LeastNatural
<1>6. PICK k \in Bad : \A j \in Bad : j <= k
  <2>1. PICK k \in Bad : m = n - k
    BY <1>5
  <2>2. ASSUME NEW j \in Bad
        PROVE  j <= k
    <3>1. n - k <= n - j
      BY <1>5, <2>1, <2>2
    <3>2. k \in Nat /\ j \in Nat
      BY <2>2
    <3> HIDE DEF n
    <3>3. QED
      BY <1>1, <3>1, <3>2
  <2>3. QED
    BY <2>2
<1> HIDE DEF n
<1>7. k \in 1 .. n /\ ls[k] > Len(c) /\ n \in Nat
  BY <1>1, <1>6 DEF n
<1>8. k # n
  BY <1>1, <1>3, <1>7
<1>9. k + 1 \in 1 .. n /\ ls[k] <= ls[k + 1]
  <2>1. k + 1 \in 1 .. n /\ k + 1 > 1 /\ (k + 1) - 1 = k
    BY <1>7, <1>8
  <2>2. QED
    BY <1>2, <2>1
<1>10. ls[k + 1] > Len(c)
  BY <1>1, <1>7, <1>9
<1>11. k + 1 \in Bad
  BY <1>1, <1>9, <1>10 DEF n
<1>12. QED
  BY <1>6, <1>7, <1>11

\* A new record ends where the code ends.
LEMMA LinesPushed ==
  ASSUME NEW ls, NEW c, IsSeq(c), NEW p, IsSeq(p), Laid(c, p), LinesLaid(ls, c, p)
  PROVE  LinesLaid(Append(ls, Len(c)), c, p)
<1> DEFINE ms == Append(ls, Len(c))
           n == Len(ls)
<1>1. Len(c) \in Nat /\ Len(p) \in Nat /\ ls \in Seq(Nat) /\ Len(ls) \in Nat
  BY SeqFacts DEF LinesLaid
<1>2. /\ ms \in Seq(Nat) /\ Len(ms) = n + 1
      /\ \A k \in 1 .. n : ms[k] = ls[k]
      /\ ms[n + 1] = Len(c)
  BY <1>1, AppendAt
<1>9. n \in Nat
  BY <1>1
<1> HIDE DEF ms, n
<1>3. Len(c) + 1 \in StartSet(p)
  BY <1>1 DEF Laid, StartSet
<1>4. \A k \in 1 .. n : ls[k] + 1 \in StartSet(p)
  BY DEF LinesLaid, n
<1>5. \A k \in 1 .. n + 1 : ms[k] + 1 \in StartSet(p)
  BY <1>9, <1>2, <1>3, <1>4
<1>6. ASSUME NEW k \in 1 .. n + 1, k > 1
      PROVE  ms[k - 1] <= ms[k]
  <2>1. k - 1 \in 1 .. n /\ ms[k - 1] = ls[k - 1]
    BY <1>9, <1>2, <1>6
  <2>2. CASE k = n + 1
    BY <1>2, <2>1, <2>2, LinesInside DEF n
  <2>3. CASE k \in 1 .. n
    BY <1>2, <1>6, <2>1, <2>3 DEF LinesLaid, n
  <2>4. QED
    BY <1>9, <2>2, <2>3
<1>7. LinesLaid(ms, c, p)
  BY <1>1, <1>2, <1>5, <1>6, <1>9 DEF LinesLaid
<1>8. QED
  BY <1>7 DEF ms

Lengthened(ls, n) == IF ls = <<>> THEN ls ELSE [ls EXCEPT ![Len(ls)] = @ + n]

\* The current line takes in what is written.
LEMMA LinesWritten ==
  ASSUME NEW ls, NEW c, IsSeq(c), NEW p, IsSeq(p), Laid(c, p), LinesLaid(ls, c, p),
         NEW i, NEW d, Len(d) = Len(c) + Width(i.op)
  PROVE  LinesLaid(Lengthened(ls, Width(i.op)), d, Append(p, i))
<1> DEFINE q == Append(p, i)
           w == Width(i.op)
           ms == Lengthened(ls, w)
<1>1. /\ Len(c) \in Nat /\ Len(p) \in Nat /\ ls \in Seq(Nat) /\ Len(ls) \in Nat
      /\ DOMAIN ls = 1 .. Len(ls) /\ \A k \in 1 .. Len(ls) : ls[k] \in Nat
      /\ w \in {1, 2}
  BY SeqFacts DEF LinesLaid, Width
<1>2. Len(q) = Len(p) + 1 /\ \A k \in 1 .. Len(p) + 1 : Starts(q)[k] = Starts(p)[k]
  BY SeqAppend, StartsAppend
<1>3. Starts(q)[Len(p) + 2] = Len(c) + 1 + w
  <2> HIDE DEF w
  <2>1. Starts(Append(p, i))[Len(p) + 2] = Len(c) + 1 + Width(i.op)
    BY ONLY IsSeq(c), IsSeq(p), Laid(c, p), LaidAppend
  <2>2. QED
    BY <2>1 DEF w
<1>9. Len(d) = Len(c) + w
  OBVIOUS
<1>10. ls # <<>> => ms = [ls EXCEPT ![Len(ls)] = ls[Len(ls)] + w]
  BY DEF Lengthened
<1>11. ls = <<>> => ms = <<>>
  BY DEF Lengthened
<1> HIDE DEF q, w, ms
<1>4. StartSet(p) \subseteq StartSet(q) /\ Len(d) + 1 \in StartSet(q)
  <2>1. StartSet(p) \subseteq StartSet(q)
    BY <1>1, <1>2 DEF StartSet
  <2>2. Len(p) + 2 \in 1 .. Len(q) + 1 /\ Len(d) + 1 = Starts(q)[Len(p) + 2]
    BY <1>1, <1>2, <1>3, <1>9
  <2>3. QED
    BY <2>1, <2>2 DEF StartSet
<1>5. \A k \in 1 .. Len(ls) : ls[k] + 1 \in StartSet(q)
  BY <1>4 DEF LinesLaid
<1>6. ASSUME ls = <<>>
      PROVE  LinesLaid(ms, d, q)
  <2>1. ms = <<>> /\ Len(ms) = 0
    BY <1>6, <1>11
  <2>2. QED
    BY <2>1 DEF LinesLaid
<1>7. ASSUME ls # <<>>
      PROVE  LinesLaid(ms, d, q)
  <2> DEFINE n == Len(ls)
  <2>1. n \in 1 .. Len(ls) /\ ls[n] = Len(c)
    BY <1>1, <1>7 DEF LinesLaid
  <2>2. /\ ms \in Seq(Nat) /\ Len(ms) = n
        /\ ms[n] = Len(c) + w
        /\ \A k \in 1 .. n : k # n => ms[k] = ls[k]
    <3>1. ms = [ls EXCEPT ![n] = Len(c) + w]
      BY <1>7, <1>10, <2>1
    <3> DEFINE v == Len(c) + w
    <3>2. v \in Nat /\ n \in 1 .. Len(ls) /\ ls \in Seq(Nat)
      BY <1>1, <2>1
    <3>3. ms = [ls EXCEPT ![n] = v]
      BY <3>1
    <3> HIDE DEF v, n
    <3>4. /\ [ls EXCEPT ![n] = v] \in Seq(Nat) /\ Len([ls EXCEPT ![n] = v]) = Len(ls)
          /\ [ls EXCEPT ![n] = v][n] = v
          /\ \A k \in 1 .. Len(ls) : k # n => [ls EXCEPT ![n] = v][k] = ls[k]
      BY <3>2, SeqExcept
    <3>5. QED
      BY <3>3, <3>4 DEF v, n
  <2>7. n \in Nat /\ \A k \in 1 .. n : ls[k] \in Nat
    BY <1>1
  <2> HIDE DEF n
  <2>3. \A k \in 1 .. n : ms[k] + 1 \in StartSet(q)
    <3>1. ms[n] + 1 = Len(d) + 1
      BY <1>9, <2>2
    <3>2. QED
      BY <1>4, <1>5, <2>2, <3>1 DEF n
  <2>4. ASSUME NEW k \in 1 .. n, k > 1
        PROVE  ms[k - 1] <= ms[k]
    <3>0. k - 1 \in 1 .. n /\ k - 1 # n /\ k \in 1 .. n
      BY <2>4, <2>7
    <3>1. ms[k - 1] = ls[k - 1] /\ ls[k - 1] <= ls[k] /\ ls[k - 1] \in Nat /\ ls[k] \in Nat
      BY <2>2, <2>4, <2>7, <3>0 DEF LinesLaid, n
    <3>2. CASE k = n
      <4>1. ls[k] = Len(c) /\ ms[k] = Len(c) + w
        BY <2>1, <2>2, <3>2
      <4>2. QED
        BY <1>1, <3>1, <4>1
    <3>3. CASE k # n
      BY <2>2, <3>1, <3>3
    <3>4. QED
      BY <3>2, <3>3
  <2>5. ms[Len(ms)] = Len(d)
    BY <1>9, <2>2
  <2>6. QED
    BY <2>2, <2>3, <2>4, <2>5 DEF LinesLaid
<1>8. QED
  BY <1>6, <1>7 DEF q, w, ms
-------------------------------------------------------------------------------
(* The inductive invariant.                                                   *)

\* The arrays of a chunk hold the code, the constants and the lines of the program p.
ChunkSound(c, cap, d, dcap, ls, p) ==
  /\ IsSeq(c) /\ IsSeq(d) /\ Len(d) <= Len(p)
  /\ cap \in Nat /\ dcap \in Nat
  /\ Len(c) <= cap /\ (cap = 0 \/ cap >= CodeCap) /\ Len(d) <= dcap
  /\ Laid(c, p)
  /\ LinesLaid(ls, c, p)

\* The loop at the instruction k of the program p, with the byte b and the stack s.
Standing(k, b, s, cap, p) ==
  /\ p # <<>> /\ Ends(p[Len(p)])
  /\ k \in 1 .. Len(p) /\ b = Starts(p)[k]
  /\ Len(s) <= cap

LoopTypes ==
  /\ status \in {"host", "running", "aborted"}
  /\ program \in Seq(Instructions)
  /\ ip \in Nat /\ pc \in Nat /\ stackCap \in Nat
  /\ IsSeq(stack) /\ vmStack \in BOOLEAN /\ handler \in {"none", "host", "loop"}

IInv ==
  /\ LoopTypes
  /\ ChunkSound(code, codeCap, data, dataCap, lines, program)
  /\ status = "running" => Standing(pc, ip, stack, stackCap, program)
  /\ StackRegistered

\* An empty chunk.
LEMMA EmptyChunk ==
  ASSUME NEW dcap \in Nat
  PROVE  ChunkSound(<<>>, 0, <<>>, dcap, <<>>, <<>>)
<1> DEFINE e == <<>>
<1>1. e \in Seq(Nat) /\ Len(e) = 0
  OBVIOUS
<1> HIDE DEF e
<1>2. IsSeq(e)
  BY <1>1, SeqIs
<1>3. DOMAIN e = 1 .. 0
  BY <1>1, <1>2, SeqFacts
<1>4. Starts(e)[1] = 1
  BY <1>2, StartsFacts
<1>5. Laid(e, e)
  BY <1>1, <1>3, <1>4 DEF Laid
<1>6. LinesLaid(e, e, e)
  <2>1. e = <<>>
    BY DEF e
  <2>2. QED
    BY <1>1, <2>1 DEF LinesLaid
<1>7. ChunkSound(e, 0, e, dcap, e, e)
  BY <1>1, <1>2, <1>5, <1>6 DEF ChunkSound
<1>8. QED
  BY <1>7 DEF e

\* The machine starts with an empty chunk and no stack.
LEMMA InitIInv == SvmInit => IInv
<1> SUFFICES ASSUME SvmInit PROVE IInv
  OBVIOUS
<1>1. ChunkSound(code, codeCap, data, dataCap, lines, program)
  <2>1. InlineCap \in Nat
    BY SvmAssumption
  <2>2. QED
    BY <2>1, EmptyChunk DEF SvmInit, Init
<1>2. IsSeq(stack)
  <2>1. stack \in Seq(Nat)
    BY DEF SvmInit, Init
  <2>2. QED
    BY <2>1, SeqIs
<1>3. LoopTypes
  <2>1. program \in Seq(Instructions)
    BY DEF SvmInit, Init
  <2>2. status = "host" /\ handler = "none"
    BY DEF SvmInit, Init
  <2>3. ip = 0 /\ pc = 0 /\ stackCap = 0 /\ vmStack = FALSE
    BY DEF SvmInit, Init
  <2>4. QED
    BY <1>2, <2>1, <2>2, <2>3 DEF LoopTypes
<1>4. status = "host" /\ vmStack = FALSE
  BY DEF SvmInit, Init
<1>5. StackRegistered
  BY <1>4 DEF StackRegistered
<1>6. QED
  BY <1>1, <1>3, <1>4, <1>5 DEF IInv

\* Writing one more instruction, its constant and its bytes.
LEMMA ChunkWritten ==
  ASSUME NEW c, NEW cap, NEW d, NEW dcap, NEW ls, NEW p, IsSeq(p),
         ChunkSound(c, cap, d, dcap, ls, p),
         NEW i, NEW a, NEW g \in Nat, Len(c) + Width(i.op) <= g, g = 0 \/ g >= CodeCap,
         NEW e, IsSeq(e), Len(e) <= Len(d) + 1, NEW ecap \in Nat, Len(e) <= ecap
  PROVE  ChunkSound(c \o Written(i.op, a), g, e, ecap, Lengthened(ls, Width(i.op)),
                    Append(p, i))
<1> DEFINE w == Written(i.op, a)
           b == c \o w
           q == Append(p, i)
<1>1. IsSeq(c) /\ IsSeq(d) /\ Len(d) <= Len(p) /\ Laid(c, p) /\ LinesLaid(ls, c, p)
  BY DEF ChunkSound
<1>2. Len(c) \in Nat /\ Len(d) \in Nat /\ Len(e) \in Nat /\ Len(p) \in Nat /\ Len(q) = Len(p) + 1
  BY <1>1, SeqFacts, SeqAppend
<1>3. IsSeq(w) /\ Len(w) = Width(i.op)
  BY WrittenFacts
<1>4. Laid(b, q)
  BY <1>1, LaidAppend
<1> HIDE DEF w
<1>5. IsSeq(b) /\ Len(b) = Len(c) + Width(i.op)
  BY <1>1, <1>3, SeqConcat
<1> HIDE DEF b
<1>6. LinesLaid(Lengthened(ls, Width(i.op)), b, q)
  BY <1>1, <1>5, LinesWritten
<1> HIDE DEF q
<1>7. Len(e) <= Len(q)
  BY <1>1, <1>2
<1>8. ChunkSound(b, g, e, ecap, Lengthened(ls, Width(i.op)), q)
  BY <1>4, <1>5, <1>6, <1>7 DEF ChunkSound
<1>9. QED
  BY <1>8 DEF b, q, w
\* What the host writes keeps the invariant.
LEMMA WriteKeeps ==
  ASSUME IInv, NEW i \in Instructions, ChunkWrite(i)
  PROVE  IInv'
<1> DEFINE a == ArgumentOf(i)
<1>1. /\ LoopTypes /\ ChunkSound(code, codeCap, data, dataCap, lines, program)
      /\ StackRegistered
  BY DEF IInv
<1>2. IsSeq(program) /\ Len(program) \in Nat
  BY <1>1, SeqIs DEF LoopTypes
<1>3. /\ IsSeq(code) /\ IsSeq(data) /\ codeCap \in Nat /\ dataCap \in Nat
      /\ Len(code) <= codeCap /\ (codeCap = 0 \/ codeCap >= CodeCap) /\ Len(data) <= dataCap
  BY <1>1 DEF ChunkSound
<1>4. Len(code) \in Nat /\ Len(data) \in Nat
  BY <1>3, SeqFacts
<1>5. WriteBytes(Written(i.op, a))
  BY DEF ChunkWrite, Written
<1>6. /\ code' = code \o Written(i.op, a)
      /\ lines' = Lengthened(lines, Width(i.op))
      /\ codeCap' = GrowCode(Width(i.op))
  BY <1>5, WrittenFacts DEF WriteBytes, LinesAfter, Lengthened
<1>7. codeCap' \in Nat /\ Len(code) + Width(i.op) <= codeCap' /\ (codeCap' = 0 \/ codeCap' >= CodeCap)
  <2>1. Width(i.op) \in {1, 2}
    BY DEF Width
  <2>2. \A g : g = GrowCode(Width(i.op)) =>
                 g \in Nat /\ Len(code) + Width(i.op) <= g /\ (g = 0 \/ g >= CodeCap)
    BY <1>3, <1>4, <2>1, CodeGrows DEF GrowCode
  <2>3. QED
    BY <1>6, <2>2
<1>8. IsSeq(data') /\ Len(data') <= Len(data) + 1 /\ dataCap' \in Nat /\ Len(data') <= dataCap'
  <2>1. CASE i.op = "LDC"
    <3>1. data' = Append(data, i.arg) /\ dataCap' = GrowArray(dataCap, Len(data))
      BY <2>1 DEF ChunkWrite
    <3>2. IsSeq(data') /\ Len(data') = Len(data) + 1
      BY <1>3, <3>1, SeqAppend
    <3>3. QED
      BY <1>3, <1>4, <3>1, <3>2, ArrayGrows
  <2>2. CASE i.op # "LDC"
    BY <1>3, <1>4, <2>2 DEF ChunkWrite
  <2>3. QED
    BY <2>1, <2>2
<1>9. program' = Append(program, i) /\ status = "host" /\ UNCHANGED machine
  BY DEF ChunkWrite, Write
<1>10. ChunkSound(code', codeCap', data', dataCap', lines', program')
  <2>1. ChunkSound(code \o Written(i.op, a), codeCap', data', dataCap',
                   Lengthened(lines, Width(i.op)), Append(program, i))
    BY <1>1, <1>2, <1>7, <1>8, ChunkWritten
  <2>2. QED
    BY <1>6, <1>9, <2>1
<1>11. LoopTypes'
  <2>1. program' \in Seq(Instructions)
    BY <1>1, <1>9 DEF LoopTypes
  <2>2. QED
    BY <1>1, <1>9, <2>1 DEF LoopTypes, ChunkWrite, loopVars, machine
<1>12. status' = "host" /\ StackRegistered'
  BY <1>1, <1>9 DEF ChunkWrite, loopVars, machine, StackRegistered
<1>13. QED
  BY <1>10, <1>11, <1>12 DEF IInv

\* So do its line records, its new chunks, its handlers and its errors.
LEMMA HostKeeps ==
  ASSUME IInv, PushLine \/ FreeChunk \/ SetErrorHandler \/ RaiseError
  PROVE  IInv'
<1>1. /\ LoopTypes /\ ChunkSound(code, codeCap, data, dataCap, lines, program)
      /\ StackRegistered /\ status = "host"
  BY DEF IInv, PushLine, FreeChunk, Clear, SetErrorHandler, RaiseError
<1>2. IsSeq(program)
  BY <1>1, SeqIs DEF LoopTypes
<1>3. status' \in {"host", "aborted"}
  BY <1>1 DEF PushLine, FreeChunk, Clear, SetErrorHandler, RaiseError, programVars, machine
<1>4. vmStack' = vmStack
  BY DEF PushLine, FreeChunk, SetErrorHandler, RaiseError, loopVars
<1>5. StackRegistered'
  BY <1>1, <1>3, <1>4 DEF StackRegistered
<1>6. CASE PushLine
  <2>1. IsSeq(code) /\ Laid(code, program) /\ LinesLaid(lines, code, program)
    BY <1>1 DEF ChunkSound
  <2>2. LinesLaid(Append(lines, Len(code)), code, program)
    BY <1>2, <2>1, LinesPushed
  <2>3. ChunkSound(code, codeCap, data, dataCap, Append(lines, Len(code)), program)
    BY <1>1, <2>2 DEF ChunkSound
  <2>4. ChunkSound(code', codeCap', data', dataCap', lines', program')
    BY <1>6, <2>3 DEF PushLine, programVars
  <2>5. LoopTypes'
    BY <1>1, <1>6 DEF LoopTypes, PushLine, programVars, machine, loopVars
  <2>6. QED
    BY <1>3, <1>5, <2>4, <2>5 DEF IInv
<1>7. CASE FreeChunk
  <2>1. InlineCap \in Nat
    BY SvmAssumption
  <2>2. ChunkSound(<<>>, 0, <<>>, InlineCap, <<>>, <<>>)
    BY <2>1, EmptyChunk
  <2>3. ChunkSound(code', codeCap', data', dataCap', lines', program')
    BY <1>7, <2>2 DEF FreeChunk, Clear
  <2>4. program' \in Seq(Instructions)
    BY <1>7 DEF FreeChunk, Clear
  <2>5. LoopTypes'
    BY <1>1, <1>7, <2>4 DEF LoopTypes, FreeChunk, Clear, machine, loopVars
  <2>6. QED
    BY <1>3, <1>5, <2>3, <2>5 DEF IInv
<1>8. CASE SetErrorHandler \/ RaiseError
  <2>1. ChunkSound(code', codeCap', data', dataCap', lines', program')
    BY <1>1, <1>8 DEF SetErrorHandler, RaiseError, chunkVars, programVars
  <2>2. LoopTypes'
    BY <1>1, <1>3, <1>8 DEF LoopTypes, SetErrorHandler, RaiseError, programVars, machine, loopVars
  <2>3. QED
    BY <1>3, <1>5, <2>1, <2>2 DEF IInv
<1>9. QED
  BY <1>6, <1>7, <1>8
\* The loop stands on the opcode of an instruction of the program.
LEMMA StandsOnOpcode ==
  ASSUME IInv, status = "running"
  PROVE  /\ IsSeq(program) /\ Len(program) \in Nat
         /\ pc \in 1 .. Len(program) /\ ip = Starts(program)[pc]
         /\ ip \in 1 .. Len(code) /\ ip + Width(Op) <= Len(code) + 1
         /\ Op = program[pc].op
         /\ Decoded.op = program[pc].op
         /\ IsSeq(stack) /\ Len(stack) <= stackCap /\ stackCap \in Nat
         /\ program # <<>> /\ Ends(program[Len(program)])
<1>1. /\ LoopTypes /\ ChunkSound(code, codeCap, data, dataCap, lines, program)
      /\ Standing(pc, ip, stack, stackCap, program)
  BY DEF IInv
<1>2. IsSeq(program) /\ Len(program) \in Nat /\ DOMAIN program = 1 .. Len(program)
  <2>1. IsSeq(program)
    BY <1>1, SeqIs DEF LoopTypes
  <2>2. QED
    BY <2>1, SeqFacts
<1>3. pc \in 1 .. Len(program) /\ ip = Starts(program)[pc]
  BY <1>1 DEF Standing
<1>4. /\ ip + Width(program[pc].op) <= Len(code) + 1
      /\ code[ip] = OpByte(program[pc].op)
  BY <1>1, <1>2, <1>3 DEF ChunkSound, Laid
<1>5. ip \in Nat \ {0} /\ Len(code) \in Nat /\ Width(program[pc].op) \in {1, 2}
  <2>1. Starts(program)[pc] \in Nat \ {0}
    BY <1>2, <1>3, StartsFacts
  <2>2. Len(code) \in Nat
    BY <1>1, SeqFacts DEF ChunkSound
  <2>3. QED
    BY <1>3, <2>1, <2>2 DEF Width
<1>6. Op = program[pc].op
  BY <1>4 DEF Op, OpByte
<1>7. Decoded.op = program[pc].op
  BY <1>6 DEF Decoded, Instr
<1>8. ip \in 1 .. Len(code) /\ ip + Width(Op) <= Len(code) + 1
  BY <1>4, <1>5, <1>6
<1>9. QED
  BY <1>1, <1>2, <1>3, <1>6, <1>7, <1>8 DEF LoopTypes, Standing

\* The next instruction of a program that does not end here.
LEMMA NextStands ==
  ASSUME NEW p, IsSeq(p), Ends(p[Len(p)]), NEW k \in 1 .. Len(p), ~Ends(p[k])
  PROVE  /\ k + 1 \in 1 .. Len(p)
         /\ Starts(p)[k + 1] = Starts(p)[k] + Width(p[k].op)
<1>1. Len(p) \in Nat
  BY SeqFacts
<1>2. k # Len(p)
  OBVIOUS
<1>3. k + 1 \in 1 .. Len(p)
  BY <1>1, <1>2
<1>4. QED
  BY <1>3, StartsFacts

\* A step of the loop that leaves the chunk alone keeps what is said of it.
LEMMA ChunkStays ==
  ASSUME IInv, UNCHANGED <<program, chunkVars>>
  PROVE  ChunkSound(code', codeCap', data', dataCap', lines', program')
  BY DEF IInv, chunkVars

\* Starting a run.
LEMMA RunKeeps ==
  ASSUME IInv, RunChunk
  PROVE  IInv'
<1>1. LoopTypes
  BY DEF IInv
<1>2. /\ program' = program /\ status' = "running" /\ pc' = 1 /\ ip' = 1 /\ stack' = <<>>
      /\ vmStack' = TRUE /\ handler' = "loop"
      /\ stackCap' = IF ArrayCap > InlineCap THEN ArrayCap ELSE InlineCap
  BY DEF RunChunk, Run
<1>3. ChunkSound(code', codeCap', data', dataCap', lines', program')
  BY <1>2, ChunkStays DEF RunChunk
<1>4. stackCap' \in Nat
  BY <1>2, SvmAssumption
<1>5. IsSeq(program) /\ Len(program) \in Nat
  <2>1. IsSeq(program)
    BY <1>1, SeqIs DEF LoopTypes
  <2>2. QED
    BY <2>1, SeqFacts
<1>6. program # <<>> /\ Ends(program[Len(program)])
  BY DEF RunChunk, Closed, Last
<1>7. 1 \in 1 .. Len(program)
  <2>1. Len(program) # 0
    BY <1>1, <1>6 DEF LoopTypes
  <2>2. QED
    BY <1>5, <2>1
<1>8. Starts(program)[1] = 1
  BY <1>5, StartsFacts
<1>9. IsSeq(stack') /\ Len(stack') = 0
  <2> DEFINE e == <<>>
  <2>1. e \in Seq(Nat) /\ Len(e) = 0
    OBVIOUS
  <2> HIDE DEF e
  <2>2. IsSeq(e)
    BY <2>1, SeqIs
  <2>3. QED
    BY <1>2, <2>1, <2>2 DEF e
<1>10. Standing(pc', ip', stack', stackCap', program')
  BY <1>2, <1>4, <1>6, <1>7, <1>8, <1>9 DEF Standing
<1>11. LoopTypes'
  <2>1. program' \in Seq(Instructions)
    BY <1>1, <1>2 DEF LoopTypes
  <2>2. status' \in {"host", "running", "aborted"} /\ handler' \in {"none", "host", "loop"}
    BY <1>2
  <2>3. ip' \in Nat /\ pc' \in Nat /\ vmStack' \in BOOLEAN
    BY <1>2
  <2>4. QED
    BY <1>4, <1>9, <2>1, <2>2, <2>3 DEF LoopTypes
<1>12. StackRegistered'
  BY <1>2 DEF StackRegistered
<1>13. QED
  BY <1>3, <1>10, <1>11, <1>12 DEF IInv

\* An instruction that goes on to the next.
LEMMA DispatchKeeps ==
  ASSUME IInv, Dispatch
  PROVE  IInv'
<1>1. /\ status = "running" /\ ~Underflows(Op, stack)
      /\ stack' \in Effects(Decoded, stack)
      /\ stackCap' = IF Len(stack') > Len(stack) THEN GrowArray(stackCap, Len(stack))
                                                ELSE stackCap
      /\ ip' = ip + Width(Op) /\ pc' = pc + 1
      /\ UNCHANGED <<program, status, result, chunkVars, vmStack, handler, errors>>
  BY DEF Dispatch, Ready, Fetched
<1>2. /\ IsSeq(program) /\ Len(program) \in Nat
      /\ pc \in 1 .. Len(program) /\ ip = Starts(program)[pc]
      /\ Op = program[pc].op /\ Decoded.op = program[pc].op
      /\ IsSeq(stack) /\ Len(stack) <= stackCap /\ stackCap \in Nat
      /\ program # <<>> /\ Ends(program[Len(program)])
  BY <1>1, StandsOnOpcode
<1>3. IsSeq(stack') /\ Len(stack') <= Len(stack) + 1 /\ ~Ends(Decoded)
  BY <1>1, <1>2, EffectsFacts
<1>4. ~Ends(program[pc])
  BY <1>2, <1>3 DEF Ends
<1>5. pc + 1 \in 1 .. Len(program) /\ Starts(program)[pc + 1] = ip + Width(Op)
  BY <1>2, <1>4, NextStands
<1>6. stackCap' \in Nat /\ Len(stack') <= stackCap'
  <2>1. Len(stack) \in Nat /\ Len(stack') \in Nat
    BY <1>2, <1>3, SeqFacts
  <2>2. GrowArray(stackCap, Len(stack)) \in Nat /\ Len(stack) + 1 <= GrowArray(stackCap, Len(stack))
    BY <1>2, <2>1, ArrayGrows
  <2>3. CASE Len(stack') > Len(stack)
    BY <1>1, <1>3, <2>1, <2>2, <2>3
  <2>4. CASE ~(Len(stack') > Len(stack))
    BY <1>1, <1>2, <2>1, <2>4
  <2>5. QED
    BY <2>3, <2>4
<1>7. Standing(pc', ip', stack', stackCap', program')
  BY <1>1, <1>2, <1>5, <1>6 DEF Standing
<1>8. ChunkSound(code', codeCap', data', dataCap', lines', program')
  BY <1>1, ChunkStays
<1>9. LoopTypes'
  <2>1. LoopTypes
    BY DEF IInv
  <2>2. Width(Op) \in {1, 2}
    BY DEF Width
  <2>3. ip' \in Nat /\ pc' \in Nat
    BY <1>1, <2>1, <2>2 DEF LoopTypes
  <2>4. QED
    BY <1>1, <1>3, <1>6, <2>1, <2>3 DEF LoopTypes
<1>10. StackRegistered'
  BY <1>1 DEF IInv, StackRegistered
<1>11. QED
  BY <1>7, <1>8, <1>9, <1>10 DEF IInv
\* An empty stack.
LEMMA EmptyStack == IsSeq(<<>>) /\ Len(<<>>) = 0
<1> DEFINE e == <<>>
<1>1. e \in Seq(Nat) /\ Len(e) = 0
  OBVIOUS
<1> HIDE DEF e
<1>2. IsSeq(e)
  BY <1>1, SeqIs
<1>3. QED
  BY <1>1, <1>2 DEF e

\* An operand that is missing: on behind the instruction, or again from the start.
LEMMA UnderflowKeeps ==
  ASSUME IInv, RaiseUnderflow
  PROVE  IInv'
<1>1. /\ status = "running" /\ Underflows(Op, stack)
      /\ stack' = <<>>
      /\ UNCHANGED <<program, status, result, chunkVars, stackCap, vmStack, handler>>
  BY DEF RaiseUnderflow, Fetched
<1>2. \/ ip' = ip + Width(Op) /\ pc' = pc + 1
      \/ ip' = 1 /\ pc' = 1
  BY DEF RaiseUnderflow
<1>3. /\ IsSeq(program) /\ Len(program) \in Nat
      /\ pc \in 1 .. Len(program) /\ ip = Starts(program)[pc]
      /\ Op = program[pc].op
      /\ IsSeq(stack) /\ stackCap \in Nat
      /\ program # <<>> /\ Ends(program[Len(program)])
  BY <1>1, StandsOnOpcode
<1>4. ~Ends(program[pc])
  <2>1. Len(stack) \in Nat
    BY <1>3, SeqFacts
  <2>2. Operands(Op) # 0
    BY <1>1, <2>1 DEF Underflows
  <2>3. Op \in Binary \cup Unary \cup {"POP", "OUT", "DUP"}
    BY <2>2 DEF Operands
  <2>4. QED
    BY <1>3, <2>3 DEF Ends, Known, Unary, Binary, Arithmetic, BitwiseOps, Logic
<1>5. pc' \in 1 .. Len(program) /\ ip' = Starts(program)[pc'] /\ ip' \in Nat
  <2>1. CASE ip' = ip + Width(Op) /\ pc' = pc + 1
    <3>1. pc + 1 \in 1 .. Len(program) /\ Starts(program)[pc + 1] = ip + Width(Op)
      BY <1>3, <1>4, NextStands
    <3>2. Width(Op) \in {1, 2} /\ ip \in Nat
      BY DEF Width, IInv, LoopTypes
    <3>3. ip' \in Nat
      BY <2>1, <3>2
    <3>4. QED
      BY <2>1, <3>1, <3>3
  <2>2. CASE ip' = 1 /\ pc' = 1
    <3>1. Starts(program)[1] = 1
      BY <1>3, StartsFacts
    <3>2. QED
      BY <1>3, <2>2, <3>1
  <2>3. QED
    BY <1>2, <2>1, <2>2
<1>6. IsSeq(stack') /\ Len(stack') = 0
  BY <1>1, EmptyStack
<1>7. Standing(pc', ip', stack', stackCap', program')
  <2>1. Len(stack') <= stackCap'
    BY <1>1, <1>3, <1>6
  <2>2. QED
    BY <1>1, <1>3, <1>5, <2>1 DEF Standing
<1>8. ChunkSound(code', codeCap', data', dataCap', lines', program')
  BY <1>1, ChunkStays
<1>9. LoopTypes'
  <2>1. pc' \in Nat
    BY <1>3, <1>5
  <2>2. QED
    BY <1>1, <1>5, <1>6, <2>1 DEF IInv, LoopTypes
<1>10. StackRegistered'
  BY <1>1 DEF IInv, StackRegistered
<1>11. QED
  BY <1>7, <1>8, <1>9, <1>10 DEF IInv

\* The end of a run, or of the process.
LEMMA EndKeeps ==
  ASSUME IInv, Return \/ Die
  PROVE  IInv'
<1>1. ChunkSound(code', codeCap', data', dataCap', lines', program')
  BY ChunkStays DEF Return, Die
<1>2. CASE Return
  <2>1. /\ status' = "host" /\ pc' = 0 /\ ip' = 0 /\ stackCap' = 0 /\ stack' = <<>>
        /\ vmStack' = FALSE /\ UNCHANGED <<program, handler>>
    BY <1>2 DEF Return, Unregistered
  <2>2. IsSeq(stack')
    BY <2>1, EmptyStack
  <2>3. LoopTypes'
    <3>1. ip' \in Nat /\ pc' \in Nat /\ stackCap' \in Nat
      BY <2>1
    <3>2. vmStack' \in BOOLEAN /\ status' \in {"host", "running", "aborted"}
      BY <2>1
    <3>3. program' \in Seq(Instructions) /\ handler' \in {"none", "host", "loop"}
      BY <2>1 DEF IInv, LoopTypes
    <3>4. QED
      BY <2>2, <3>1, <3>2, <3>3 DEF LoopTypes
  <2>4. StackRegistered'
    BY <2>1 DEF StackRegistered
  <2>5. QED
    BY <1>1, <2>1, <2>3, <2>4 DEF IInv
<1>3. CASE Die
  <2>1. status' = "aborted" /\ UNCHANGED <<program, pc, stack, loopVars>>
    BY <1>3 DEF Die
  <2>2. LoopTypes'
    BY <2>1 DEF IInv, LoopTypes, loopVars
  <2>3. QED
    BY <1>1, <2>1, <2>2 DEF IInv, StackRegistered
<1>4. QED
  BY <1>2, <1>3

\* Every step keeps the invariant.
LEMMA StepIInv == IInv /\ [SvmNext]_vars => IInv'
<1> SUFFICES ASSUME IInv, [SvmNext]_vars PROVE IInv'
  OBVIOUS
<1>1. CASE UNCHANGED vars
  BY <1>1 DEF IInv, LoopTypes, StackRegistered, vars, programVars, machine, chunkVars, loopVars
<1>2. ASSUME NEW i \in Instructions, ChunkWrite(i) PROVE IInv'
  BY <1>2, WriteKeeps
<1>3. CASE PushLine \/ FreeChunk \/ SetErrorHandler \/ RaiseError
  BY <1>3, HostKeeps
<1>4. CASE RunChunk
  BY <1>4, RunKeeps
<1>5. CASE Dispatch
  BY <1>5, DispatchKeeps
<1>6. CASE RaiseUnderflow
  BY <1>6, UnderflowKeeps
<1>7. CASE Return \/ Die
  BY <1>7, EndKeeps
<1>8. QED
  BY <1>1, <1>2, <1>3, <1>4, <1>5, <1>6, <1>7 DEF SvmNext

\* The arrays hold the program, and a running loop stands inside it.
THEOREM IInvHolds == SvmSpec => []IInv
<1>1. QED
  BY InitIInv, StepIInv, PTL DEF SvmSpec

\* Types of the machine, the chunk and the loop.
THEOREM TypesHold == SvmSpec => []SvmTypeOK
<1>1. IInv => SvmTypeOK
  BY DEF IInv, LoopTypes, ChunkSound, SvmTypeOK
<1>2. QED
  BY <1>1, IInvHolds, PTL

\* Nothing is written past an array, and the loop stands on opcodes only (chunk.h,
\* svm.c: the dispatch loop never checks ip).
THEOREM LoopStaysInBounds == SvmSpec => []InBounds
<1>1. IInv => InBounds
  <2> SUFFICES ASSUME IInv PROVE InBounds
    OBVIOUS
  <2>1. Len(code) <= codeCap /\ Len(data) <= dataCap
    BY DEF IInv, ChunkSound
  <2>2. IsSeq(program)
    BY SeqIs DEF IInv, LoopTypes
  <2>3. DOMAIN program = 1 .. Len(program)
    BY <2>2, SeqFacts
  <2>4. status = "running" => /\ Len(stack) <= stackCap
                              /\ pc \in DOMAIN program /\ ip = Starts(program)[pc]
    BY <2>3 DEF IInv, Standing
  <2>5. QED
    BY <2>1, <2>4 DEF InBounds
<1>2. QED
  BY <1>1, IInvHolds, PTL

\* Line records end between instructions, in order, the last at the end (chunk.h).
THEOREM LinesStayExact == SvmSpec => []LinesExact
<1>1. IInv => LinesExact
  <2> SUFFICES ASSUME IInv PROVE LinesExact
    OBVIOUS
  <2>1. LinesLaid(lines, code, program)
    BY DEF IInv, ChunkSound
  <2>2. IsSeq(program)
    BY SeqIs DEF IInv, LoopTypes
  <2>3. StartSet(program) = ToSet(Starts(program))
    BY <2>2, StartsFacts DEF StartSet, ToSet
  <2>4. DOMAIN lines = 1 .. Len(lines)
    BY <2>1 DEF LinesLaid
  <2>5. QED
    BY <2>1, <2>3, <2>4 DEF LinesLaid, LinesExact, Last
<1>2. QED
  BY <1>1, IInvHolds, PTL

\* The collector's stack root is set while the loop's stack exists and no longer
\* (svm.c, the end of piRunSvmChunk).
THEOREM StackStaysRegistered == SvmSpec => []StackRegistered
<1>1. IInv => StackRegistered
  BY DEF IInv
<1>2. QED
  BY <1>1, IInvHolds, PTL
-------------------------------------------------------------------------------
(* The operands of a program.                                                 *)

\* The code c and the constants d give every instruction of p its operand.
OperandsLaid(c, d, p) ==
  \A k \in 1 .. Len(p) :
    LET b == c[Starts(p)[k] + 1].byte
    IN  /\ p[k].op = "LDC" => b + 1 \in 1 .. Len(d) /\ d[b + 1] = p[k].arg
        /\ p[k].op = "LDI" => UInt(b) = p[k].arg
        /\ p[k].op = "EXIT" => b = p[k].arg

\* Writing an instruction writes its operand too, when a names it.
LEMMA OperandsWritten ==
  ASSUME NEW c, IsSeq(c), NEW d, IsSeq(d), NEW p, IsSeq(p), Laid(c, p), OperandsLaid(c, d, p),
         NEW i, NEW a, NEW e,
         i.op = "LDC" => a = Len(d) /\ e = Append(d, i.arg),
         i.op # "LDC" => e = d,
         i.op = "LDI" => UInt(a) = i.arg,
         i.op = "EXIT" => a = i.arg
  PROVE  OperandsLaid(c \o Written(i.op, a), e, Append(p, i))
<1> DEFINE w == Written(i.op, a)
           b == c \o w
           q == Append(p, i)
<1>1. Len(p) \in Nat /\ DOMAIN p = 1 .. Len(p) /\ Len(c) \in Nat /\ Len(d) \in Nat
  BY SeqFacts
<1>2. /\ IsSeq(w) /\ Len(w) = Width(i.op)
      /\ HasArgument(i.op) => w[2] = ArgByte(a) /\ Len(w) = 2
  BY WrittenFacts DEF Width
<1>3. /\ Len(q) = Len(p) + 1
      /\ \A k \in 1 .. Len(p) : q[k] = p[k]
      /\ q[Len(p) + 1] = i
  BY SeqAppend
<1>4. \A k \in 1 .. Len(p) + 1 : Starts(q)[k] = Starts(p)[k]
  BY StartsAppend
<1>5. Starts(q)[Len(p) + 1] = Len(c) + 1
  BY ONLY IsSeq(c), IsSeq(p), Laid(c, p), LaidAppend
<1> HIDE DEF w
<1>6. /\ \A k \in 1 .. Len(c) : b[k] = c[k]
      /\ \A k \in 1 .. Len(w) : b[Len(c) + k] = w[k]
  BY <1>2, SeqConcat
<1> HIDE DEF b, q
<1>7. Len(d) <= Len(e) /\ \A n \in 1 .. Len(d) : e[n] = d[n]
  <2>1. CASE i.op = "LDC"
    BY <1>1, <2>1, SeqAppend
  <2>2. CASE i.op # "LDC"
    BY <1>1, <2>2
  <2>3. QED
    BY <2>1, <2>2
<1>8. Len(e) \in Nat
  <2>1. CASE i.op = "LDC"
    BY <1>1, <2>1, SeqAppend
  <2>2. CASE i.op # "LDC"
    BY <1>1, <2>2
  <2>3. QED
    BY <2>1, <2>2
<1> DEFINE At(k) == b[Starts(q)[k] + 1].byte
<1>9. ASSUME NEW k \in 1 .. Len(p)
      PROVE  /\ q[k].op = "LDC" => At(k) + 1 \in 1 .. Len(e) /\ e[At(k) + 1] = q[k].arg
             /\ q[k].op = "LDI" => UInt(At(k)) = q[k].arg
             /\ q[k].op = "EXIT" => At(k) = q[k].arg
  <2> DEFINE n == c[Starts(p)[k] + 1].byte
  <2>1. /\ p[k].op = "LDC" => n + 1 \in 1 .. Len(d) /\ d[n + 1] = p[k].arg
        /\ p[k].op = "LDI" => UInt(n) = p[k].arg
        /\ p[k].op = "EXIT" => n = p[k].arg
    BY DEF OperandsLaid
  <2>2. q[k] = p[k] /\ Starts(q)[k] = Starts(p)[k]
    BY <1>1, <1>3, <1>4
  <2>3. ASSUME HasArgument(p[k].op)
        PROVE  At(k) = n
    <3>1. Starts(p)[k] + 2 <= Len(c) + 1
      BY <1>1, <2>3 DEF Laid, Width
    <3>2. Starts(p)[k] \in Nat
      BY <1>1, StartsFacts
    <3>3. Starts(p)[k] + 1 \in 1 .. Len(c)
      BY <1>1, <3>1, <3>2
    <3>4. b[Starts(p)[k] + 1] = c[Starts(p)[k] + 1]
      BY <1>6, <3>3
    <3>5. QED
      BY <2>2, <3>4
  <2> HIDE DEF At, n
  <2>4. p[k].op = "LDC" => At(k) + 1 \in 1 .. Len(e) /\ e[At(k) + 1] = p[k].arg
    <3>1. ASSUME p[k].op = "LDC"
          PROVE  n + 1 \in 1 .. Len(d) /\ n + 1 \in 1 .. Len(e) /\ d[n + 1] = p[k].arg /\ At(k) = n
      BY <1>1, <1>7, <1>8, <2>1, <2>3, <3>1 DEF HasArgument
    <3>2. QED
      BY <1>7, <3>1
  <2>5. p[k].op = "LDI" => UInt(At(k)) = p[k].arg
    BY <2>1, <2>3 DEF HasArgument
  <2>6. p[k].op = "EXIT" => At(k) = p[k].arg
    BY <2>1, <2>3 DEF HasArgument
  <2>7. QED
    BY <2>2, <2>4, <2>5, <2>6
<1>10. HasArgument(i.op) => At(Len(p) + 1) = a
  <2>1. ASSUME HasArgument(i.op)
        PROVE  b[Len(c) + 2] = ArgByte(a)
    BY <1>2, <1>6, <2>1
  <2>2. Starts(q)[Len(p) + 1] + 1 = Len(c) + 2
    BY <1>1, <1>5
  <2>3. QED
    BY <2>1, <2>2 DEF ArgByte
<1> HIDE DEF At
<1>11. /\ i.op = "LDC" => At(Len(p) + 1) + 1 \in 1 .. Len(e) /\ e[At(Len(p) + 1) + 1] = i.arg
       /\ i.op = "LDI" => UInt(At(Len(p) + 1)) = i.arg
       /\ i.op = "EXIT" => At(Len(p) + 1) = i.arg
  <2>1. i.op \in {"LDC", "LDI", "EXIT"} => At(Len(p) + 1) = a
    BY <1>10 DEF HasArgument
  <2>2. i.op = "LDC" => Len(e) = Len(d) + 1 /\ e[Len(d) + 1] = i.arg
    BY SeqAppend
  <2>3. i.op = "LDC" => At(Len(p) + 1) = Len(d)
    BY <2>1
  <2>4. i.op = "LDC" => At(Len(p) + 1) + 1 \in 1 .. Len(e) /\ e[At(Len(p) + 1) + 1] = i.arg
    BY <1>1, <2>2, <2>3
  <2>5. QED
    BY <2>1, <2>4
<1>12. ASSUME NEW k \in 1 .. Len(q)
       PROVE  /\ q[k].op = "LDC" => At(k) + 1 \in 1 .. Len(e) /\ e[At(k) + 1] = q[k].arg
              /\ q[k].op = "LDI" => UInt(At(k)) = q[k].arg
              /\ q[k].op = "EXIT" => At(k) = q[k].arg
  <2>1. k \in 1 .. Len(p) \/ k = Len(p) + 1
    BY <1>1, <1>3
  <2>2. CASE k \in 1 .. Len(p)
    BY <1>9, <2>2
  <2>3. CASE k = Len(p) + 1
    BY <1>3, <1>11, <2>3
  <2>4. QED
    BY <2>1, <2>2, <2>3
<1>13. OperandsLaid(b, e, q)
  BY <1>12 DEF OperandsLaid, At
<1>14. QED
  BY <1>13 DEF b, q, w

\* What the loop decodes is the instruction the host wrote, its operand included.
LEMMA Decodes ==
  ASSUME IInv, OperandsLaid(code, data, program), status = "running"
  PROVE  HasArgument(program[pc].op) => Decoded.arg = program[pc].arg
<1> DEFINE n == code[ip + 1].byte
<1>1. /\ pc \in 1 .. Len(program) /\ ip = Starts(program)[pc]
      /\ Op = program[pc].op
  BY StandsOnOpcode
<1>2. /\ Op = "LDC" => data[n + 1] = program[pc].arg
      /\ Op = "LDI" => UInt(n) = program[pc].arg
      /\ Op = "EXIT" => n = program[pc].arg
  BY <1>1 DEF OperandsLaid
<1>3. /\ Op = "LDC" => Decoded.arg = data[n + 1]
      /\ Op = "LDI" => Decoded.arg = UInt(n)
      /\ Op = "EXIT" => Decoded.arg = n
  BY DEF Decoded, Instr, Argument
<1>4. QED
  BY <1>1, <1>2, <1>3 DEF HasArgument

\* What an instruction does depends on its operand only if it has one.
LEMMA OperandOnly ==
  ASSUME NEW i, NEW j, i.op = j.op, HasArgument(j.op) => i.arg = j.arg, NEW s
  PROVE  /\ Effects(i, s) = Effects(j, s)
         /\ MayAbort(i, s) = MayAbort(j, s)
         /\ Exits(i, s) = Exits(j, s)
<1>1. Effects(i, s) = Effects(j, s)
  BY DEF Effects, HasArgument
<1>2. MayAbort(i, s) = MayAbort(j, s)
  BY DEF MayAbort
<1>3. Exits(i, s) = Exits(j, s)
  BY DEF Exits, HasArgument
<1>4. QED
  BY <1>1, <1>2, <1>3
-------------------------------------------------------------------------------
(* The machine executes the program that was written.                         *)

\* The abstract machine's instructions are those of Program.
LEMMA SameInstructions ==
  ASSUME NEW i, NEW s
  PROVE  /\ Abstract!Effects(i, s) = Effects(i, s)
         /\ Abstract!MayAbort(i, s) = MayAbort(i, s)
         /\ Abstract!Exits(i, s) = Exits(i, s)
         /\ Abstract!Underflows(i.op, s) = Underflows(i.op, s)
<1>0. /\ Abstract!Real("nan") = Real("nan") /\ Abstract!Reals = Reals
      /\ \A t, n : Abstract!Of(t, n) = Of(t, n)
      /\ \A b : Abstract!Bool(b) = Bool(b)
      /\ \A n : Abstract!Signed(n) = Signed(n)
  BY Zenon DEF Abstract!Real, Real, Abstract!Reals, Reals, Abstract!RealClasses, RealClasses,
     Abstract!Of, Of, Abstract!Bool, Bool, Abstract!Signed, Signed
<1>1. \A o, l, r : Abstract!BinaryAnswers(o, l, r) = BinaryAnswers(o, l, r)
  <2>1. \A v : Abstract!IsTrue(v) = IsTrue(v)
    BY Zenon DEF Abstract!IsTrue, IsTrue, Abstract!RealClasses, RealClasses
  <2>2. \A o, l, r : Abstract!Implemented(o, l, r) = Implemented(o, l, r)
    BY Zenon DEF Abstract!Implemented, Implemented, Abstract!Logic, Logic, Abstract!BitwiseOps,
       BitwiseOps, Abstract!Arithmetic, Arithmetic, Abstract!Numeric, Numeric, Abstract!IsInt, IsInt
  <2>3. \A v : Abstract!Casts(v) = Casts(v)
    BY Zenon DEF Abstract!Casts, Casts
  <2>4. \A o, t, a, b : Abstract!Divide(o, t, a, b) = Divide(o, t, a, b)
    <3>1. \A x, y : Abstract!Truncated(x, y) = Truncated(x, y)
      BY Zenon DEF Abstract!Truncated, Truncated
    <3>2. Abstract!Trap = Trap
      BY Zenon DEF Abstract!Trap, Trap
    <3>3. ASSUME NEW o, NEW t, NEW a, NEW b
          PROVE  Abstract!Divide(o, t, a, b) = Divide(o, t, a, b)
      <4> DEFINE x == IF t = "SINT" THEN Signed(a) ELSE a
                 y == IF t = "SINT" THEN Signed(b) ELSE b
                 q == Truncated(x, y)
                 Traps == y = 0 \/ (t = "SINT" /\ y = -1 /\ x = -(Modulus \div 2))
                 n == IF o = "DIV" THEN q ELSE x - y * q
      <4>1. Divide(o, t, a, b) = IF Traps THEN Trap ELSE Of(t, n)
        BY Zenon DEF Divide
      <4>2. /\ Abstract!Truncated(x, y) = q /\ Abstract!Of(t, n) = Of(t, n)
            /\ Abstract!Signed(a) = Signed(a) /\ Abstract!Signed(b) = Signed(b)
        BY Zenon, <1>0, <3>1
      <4>3. Abstract!Divide(o, t, a, b) = IF Traps THEN Trap ELSE Of(t, n)
        BY <3>2, <4>2 DEF Abstract!Divide
      <4>4. QED
        BY <4>1, <4>3
    <3>4. QED
      BY Zenon, <3>3
  <2>5. \A t : Abstract!AnyOf(t) = AnyOf(t)
    BY Zenon DEF Abstract!AnyOf, AnyOf, Abstract!Of, Of
  <2>6. \A o, t, a, b : Abstract!Compute(o, t, a, b) = Compute(o, t, a, b)
    BY Zenon, <1>0, <2>4, <2>5 DEF Abstract!Compute, Compute
  <2>7. ASSUME NEW o, NEW l, NEW r
        PROVE  Abstract!BinaryAnswers(o, l, r) = BinaryAnswers(o, l, r)
    <3> DEFINE A == {Abstract!Compute(o, l.type, l.bits, b) : b \in Abstract!Casts(r)}
               C == {Compute(o, l.type, l.bits, b) : b \in Casts(r)}
               L == {Bool(IF o = "AND" THEN IsTrue(l) /\ IsTrue(r) ELSE IsTrue(l) \/ IsTrue(r))}
               M == {Abstract!Bool(IF o = "AND" THEN Abstract!IsTrue(l) /\ Abstract!IsTrue(r)
                                                ELSE Abstract!IsTrue(l) \/ Abstract!IsTrue(r))}
    <3>1. A = C
      BY Zenon, <2>3, <2>6
    <3>2. M = L
      BY Zenon, <1>0, <2>1
    <3>3. /\ Abstract!IsTrue(r) = IsTrue(r) /\ Abstract!Implemented(o, l, r) = Implemented(o, l, r)
          /\ Abstract!Logic = Logic /\ Abstract!Reals = Reals /\ Abstract!Real("nan") = Real("nan")
      BY Zenon, <1>0, <2>1, <2>2 DEF Abstract!Logic, Logic
    <3> DEFINE Answers(logic, truth, known, nan, reals, X, Y) ==
                 IF o \in logic THEN X
                 ELSE IF o \in {"DIV", "REM"} /\ ~truth THEN {nan}
                 ELSE IF ~known THEN {}
                 ELSE IF l.type = "REAL" THEN reals
                 ELSE UNION Y
    <3>4. BinaryAnswers(o, l, r) =
            Answers(Logic, IsTrue(r), Implemented(o, l, r), Real("nan"), Reals, L, C)
      BY Zenon DEF BinaryAnswers
    <3>5. Abstract!BinaryAnswers(o, l, r) =
            Answers(Abstract!Logic, Abstract!IsTrue(r), Abstract!Implemented(o, l, r),
                    Abstract!Real("nan"), Abstract!Reals, M, A)
      BY Zenon DEF Abstract!BinaryAnswers
    <3> HIDE DEF A, C, L, M, Answers
    <3>6. QED
      BY Zenon, <3>1, <3>2, <3>3, <3>4, <3>5
  <2>8. QED
    BY Zenon, <2>7
<1>2. \A o, v : Abstract!UnaryAnswers(o, v) = UnaryAnswers(o, v)
  BY Zenon DEF Abstract!UnaryAnswers, UnaryAnswers, Abstract!Bool, Bool, Abstract!IsInt, IsInt,
     Abstract!Of, Of
<1>3. \A v : Abstract!ExitCodesOf(v) = ExitCodesOf(v)
  BY Zenon DEF Abstract!ExitCodesOf, ExitCodesOf, Abstract!Signed, Signed, Abstract!SignedChar, SignedChar,
     Abstract!Casts, Casts
<1>4. Abstract!Unary = Unary /\ Abstract!Binary = Binary /\ Abstract!Trap = Trap
      /\ Abstract!Known = Known
  BY Zenon DEF Abstract!Unary, Unary, Abstract!Binary, Binary, Abstract!Trap, Trap, Abstract!Known,
     Known, Abstract!Logic, Logic, Abstract!BitwiseOps, BitwiseOps, Abstract!Arithmetic, Arithmetic
<1>10. \A t : Abstract!Last(t) = Last(t) /\ Abstract!Front(t) = Front(t)
  BY Zenon DEF Abstract!Last, Last, Abstract!Front, Front
<1>5. Abstract!Effects(i, s) = Effects(i, s)
  BY Zenon, <1>1, <1>2, <1>4, <1>10 DEF Abstract!Effects, Effects
<1>6. Abstract!MayAbort(i, s) = MayAbort(i, s)
  BY Zenon, <1>1, <1>2, <1>3, <1>4, <1>10 DEF Abstract!MayAbort, MayAbort
<1>7. Abstract!Exits(i, s) = Exits(i, s)
  BY Zenon, <1>3, <1>4, <1>10 DEF Abstract!Exits, Exits
<1>8. Abstract!Underflows(i.op, s) = Underflows(i.op, s)
  BY Zenon, <1>4 DEF Abstract!Underflows, Underflows, Abstract!Operands, Operands
<1>9. QED
  BY <1>5, <1>6, <1>7, <1>8
RefInv == IInv /\ OperandsLaid(code, data, program)

\* While a byte can name every constant, what is written is what is executed.
LEMMA WriteKeepsOperands ==
  ASSUME FewConstants, RefInv, NEW i \in Instructions, ChunkWrite(i)
  PROVE  OperandsLaid(code', data', program')
<1> DEFINE a == ArgumentOf(i)
<1>1. /\ IsSeq(code) /\ IsSeq(data) /\ IsSeq(program) /\ Laid(code, program)
      /\ Len(data) <= Len(program) /\ OperandsLaid(code, data, program)
  BY SeqIs DEF RefInv, IInv, ChunkSound, LoopTypes
<1>2. Len(data) \in Nat /\ Len(program) \in Nat
  BY <1>1, SeqFacts
<1>3. Len(data) % IndexModulus = Len(data)
  <2>1. Len(program) < MaxInstructions
    BY DEF ChunkWrite, Write
  <2>2. IndexModulus \in Nat /\ Len(data) < IndexModulus
    BY <1>1, <1>2, <2>1, SvmAssumption DEF FewConstants
  <2>3. QED
    BY <1>2, <2>2
<1>4. i.op = "LDC" => a = Len(data) /\ data' = Append(data, i.arg)
  BY <1>3 DEF ArgumentOf, ChunkWrite
<1>5. i.op # "LDC" => data' = data
  BY DEF ChunkWrite
<1>6. i.op = "LDI" => UInt(a) = i.arg
  BY SvmAssumption DEF ArgumentOf
<1>7. i.op = "EXIT" => a = i.arg
  BY DEF ArgumentOf
<1>8. WriteBytes(Written(i.op, a)) /\ program' = Append(program, i)
  BY DEF ChunkWrite, Written, Write
<1> HIDE DEF a
<1>9. OperandsLaid(code \o Written(i.op, a), data', Append(program, i))
  BY <1>1, <1>4, <1>5, <1>6, <1>7, OperandsWritten
<1>10. QED
  BY <1>8, <1>9 DEF WriteBytes

\* Every step of the chunk, the loop and the host is a step of the machine or none.
LEMMA StepIsPrograms ==
  ASSUME FewConstants, RefInv, [SvmNext]_vars
  PROVE  OperandsLaid(code', data', program') /\ [Abstract!Next]_programVars
<1>1. IInv /\ OperandsLaid(code, data, program)
  BY DEF RefInv
<1>2. ASSUME UNCHANGED programVars, UNCHANGED <<code, data>>
      PROVE  OperandsLaid(code', data', program') /\ [Abstract!Next]_programVars
  BY <1>1, <1>2 DEF programVars
<1>3. CASE UNCHANGED vars
  BY <1>2, <1>3 DEF vars, chunkVars
<1>4. ASSUME NEW i \in Instructions, ChunkWrite(i)
      PROVE  OperandsLaid(code', data', program') /\ [Abstract!Next]_programVars
  <2>1. Abstract!Write(i)
    BY <1>4 DEF ChunkWrite, Write, Abstract!Write, Abstract!machine, machine
  <2>2. QED
    BY <1>4, <2>1, WriteKeepsOperands DEF Abstract!Next
<1>5. CASE PushLine \/ SetErrorHandler
  BY <1>2, <1>5 DEF PushLine, SetErrorHandler, chunkVars
<1>6. CASE FreeChunk
  <2>1. Abstract!Clear /\ program' = <<>>
    BY <1>6 DEF FreeChunk, Clear, Abstract!Clear, Abstract!machine, machine
  <2>2. OperandsLaid(code', data', program')
    BY <2>1, EmptyStack DEF OperandsLaid
  <2>3. QED
    BY <2>1, <2>2 DEF Abstract!Next
<1>7. ASSUME UNCHANGED <<program, chunkVars>>
      PROVE  OperandsLaid(code', data', program')
  BY <1>1, <1>7 DEF chunkVars
<1>8. CASE RunChunk
  <2>1. Abstract!Run
    BY <1>8 DEF RunChunk, Run, Abstract!Run
  <2>2. UNCHANGED <<program, chunkVars>>
    BY <1>8 DEF RunChunk, Run
  <2>3. QED
    BY <1>7, <2>1, <2>2 DEF Abstract!Next
<1>9. RaiseError => OperandsLaid(code', data', program') /\ [Abstract!Next]_programVars
  <2>1. ASSUME RaiseError
        PROVE  OperandsLaid(code', data', program') /\ [Abstract!Next]_programVars
    <3>1. /\ UNCHANGED <<program, pc, stack, result, chunkVars>>
          /\ status = "host" /\ status' \in {"host", "aborted"}
      BY <2>1 DEF RaiseError
    <3>2. CASE status' = "host"
      BY <1>7, <3>1, <3>2 DEF programVars, machine
    <3>3. CASE status' = "aborted"
      BY <1>7, <3>1, <3>3 DEF Abstract!Next, Abstract!HostEnds
    <3>4. QED
      BY <3>1, <3>2, <3>3
  <2>2. QED
    BY <2>1
<1>10. ASSUME status = "running"
       PROVE  /\ Op = program[pc].op
              /\ Effects(Decoded, stack) = Abstract!Effects(program[pc], stack)
              /\ MayAbort(Decoded, stack) = Abstract!MayAbort(program[pc], stack)
              /\ Exits(Decoded, stack) = Abstract!Exits(program[pc], stack)
              /\ Underflows(Op, stack) = Abstract!Underflows(program[pc].op, stack)
  <2> DEFINE i == Decoded
             j == program[pc]
  <2>2. Op = j.op /\ i.op = j.op
    BY <1>1, <1>10, StandsOnOpcode
  <2>3. HasArgument(j.op) => i.arg = j.arg
    BY <1>1, <1>10, Decodes
  <2> HIDE DEF i, j
  <2>4. /\ Effects(i, stack) = Effects(j, stack)
        /\ MayAbort(i, stack) = MayAbort(j, stack)
        /\ Exits(i, stack) = Exits(j, stack)
    BY <2>2, <2>3, OperandOnly
  <2>5. /\ Abstract!Effects(j, stack) = Effects(j, stack)
        /\ Abstract!MayAbort(j, stack) = MayAbort(j, stack)
        /\ Abstract!Exits(j, stack) = Exits(j, stack)
        /\ Abstract!Underflows(j.op, stack) = Underflows(j.op, stack)
    BY SameInstructions
  <2>6. QED
    BY <2>2, <2>4, <2>5 DEF i, j
<1>11. CASE Dispatch
  <2>1. Abstract!Execute
    BY <1>10, <1>11 DEF Dispatch, Ready, Fetched, Abstract!Execute
  <2>2. QED
    BY <1>7, <1>11, <2>1 DEF Dispatch, Abstract!Next
<1>12. CASE RaiseUnderflow
  <2>1. Abstract!Underflow
    BY <1>10, <1>12 DEF RaiseUnderflow, Fetched, Abstract!Underflow
  <2>2. QED
    BY <1>7, <1>12, <2>1 DEF RaiseUnderflow, Abstract!Next
<1>13. CASE Return
  <2>1. Abstract!Finish
    BY <1>10, <1>13 DEF Return, Ready, Fetched, Abstract!Finish
  <2>2. QED
    BY <1>7, <1>13, <2>1 DEF Return, Abstract!Next
<1>14. CASE Die
  <2>1. Abstract!Abort
    BY <1>10, <1>14 DEF Die, Ready, Fetched, Abstract!Abort
  <2>2. QED
    BY <1>7, <1>14, <2>1 DEF Die, Abstract!Next
<1>15. QED
  BY <1>3, <1>4, <1>5, <1>6, <1>8, <1>9, <1>11, <1>12, <1>13, <1>14 DEF SvmNext

\* What the machine executes, through bytes, pool and arrays, are the instructions the
\* host wrote (chunk.h, svm.c), while one byte can name all their constants.
THEOREM MachineImplementsProgram ==
  ASSUME FewConstants
  PROVE  SvmSpec => ImplementsProgram
<1>1. SvmInit => RefInv
  <2>1. SvmInit => program = <<>>
    BY DEF SvmInit, Init
  <2>2. program = <<>> => OperandsLaid(code, data, program)
    BY EmptyStack DEF OperandsLaid
  <2>3. QED
    BY <2>1, <2>2, InitIInv DEF RefInv
<1>2. RefInv /\ [SvmNext]_vars => RefInv'
  BY StepIInv, StepIsPrograms DEF RefInv
<1>3. RefInv /\ [SvmNext]_vars => [Abstract!Next]_programVars
  BY StepIsPrograms
<1>4. SvmInit => Abstract!Init
  BY DEF SvmInit, Init, Abstract!Init, NoResult, Abstract!NoResult
<1>6. SvmSpec => [][Abstract!Next]_programVars
  BY <1>1, <1>2, <1>3, PTL DEF SvmSpec
<1>7. QED
  BY <1>4, <1>6, PTL DEF ImplementsProgram, Abstract!Spec, SvmSpec, Abstract!programVars,
     programVars, Abstract!machine, machine
-------------------------------------------------------------------------------
(* Division in a debug build.                                                 *)

\* A real is of one of the classes.
Classed(v) == v.type = "REAL" => v.bits \in RealClasses

AllClassed(s) == \A k \in 1 .. Len(s) : Classed(s[k])

\* The host loads such values.
LoadsAreClassed == \A i \in Instructions : i.op \in {"LDI", "LDC"} => Classed(i.arg)

\* The operators answer such values, and a division that is carried out one of the
\* dividend's type.
LEMMA AnswersClassed ==
  ASSUME NEW op, NEW l, NEW r, NEW v \in BinaryAnswers(op, l, r), v # Trap
  PROVE  /\ Classed(v)
         /\ op \in {"DIV", "REM"} /\ IsTrue(r) => v.type = l.type
<1>1. /\ \A c \in RealClasses : Classed(Real(c)) /\ Real(c).type = "REAL"
      /\ \A b : Classed(Bool(b))
      /\ \A t, n : Of(t, n).type = t /\ (t # "REAL" => Classed(Of(t, n)))
  BY DEF Classed, Real, Bool, Of
<1>2. \A x \in Reals : Classed(x) /\ x.type = "REAL"
  BY <1>1 DEF Reals
<1>3. CASE op \in {"AND", "OR"}
  BY <1>1, <1>3 DEF BinaryAnswers, Logic
<1>5. CASE op \in {"DIV", "REM"} /\ ~IsTrue(r)
  <2>1. v = Real("nan")
    BY <1>5 DEF BinaryAnswers, Logic
  <2>2. "nan" \in RealClasses
    BY DEF RealClasses
  <2>3. QED
    BY <1>1, <1>5, <2>1, <2>2
<1>6. ASSUME op \notin {"AND", "OR"}, ~(op \in {"DIV", "REM"} /\ ~IsTrue(r))
      PROVE  /\ Implemented(op, l, r)
             /\ v \in IF l.type = "REAL" THEN Reals
                      ELSE UNION {Compute(op, l.type, l.bits, b) : b \in Casts(r)}
  BY <1>6 DEF BinaryAnswers, Logic
<1>7. CASE op \notin {"AND", "OR"} /\ ~(op \in {"DIV", "REM"} /\ ~IsTrue(r)) /\ l.type = "REAL"
  BY <1>2, <1>6, <1>7
<1>8. CASE op \notin {"AND", "OR"} /\ ~(op \in {"DIV", "REM"} /\ ~IsTrue(r)) /\ l.type # "REAL"
  <2>1. PICK b \in Casts(r) : v \in Compute(op, l.type, l.bits, b)
    BY <1>6, <1>8
  <2>2. \E n : v = Of(l.type, n)
    <3>1. Divide(op, l.type, l.bits, b) = Trap \/ \E n : Divide(op, l.type, l.bits, b) = Of(l.type, n)
      BY DEF Divide
    <3>2. \A x \in AnyOf(l.type) : \E n : x = Of(l.type, n)
      BY DEF AnyOf
    <3>3. CASE op \in {"DIV", "REM"}
      <4>1. v = Divide(op, l.type, l.bits, b)
        <5>1. op # "ADD" /\ op # "SUB" /\ op # "MUL"
          BY <3>3
        <5>2. QED
          BY <2>1, <3>3, <5>1 DEF Compute
      <4>2. QED
        BY <3>1, <4>1
    <3>4. CASE op = "ADD"
      BY <2>1, <3>4 DEF Compute
    <3>5. CASE op = "SUB"
      BY <2>1, <3>5 DEF Compute
    <3>6. CASE op = "MUL"
      BY <2>1, <3>6 DEF Compute
    <3>7. CASE op \notin {"ADD", "SUB", "MUL", "DIV", "REM"}
      <4>1. v \in AnyOf(l.type)
        BY <2>1, <3>7 DEF Compute
      <4>2. QED
        BY <3>2, <4>1
    <3>8. QED
      BY <3>3, <3>4, <3>5, <3>6, <3>7
  <2>3. QED
    BY <1>1, <1>8, <2>2
<1>9. QED
  BY <1>3, <1>5, <1>7, <1>8

\* NEG leaves a real as it is; every other answer is none.
LEMMA UnaryClassed ==
  ASSUME NEW op, NEW x, Classed(x), NEW v \in UnaryAnswers(op, x)
  PROVE  Classed(v)
<1>1. /\ \A b : Classed(Bool(b))
      /\ \A t, n : t # "REAL" => Classed(Of(t, n))
  BY DEF Classed, Bool, Of
<1>2. IsInt(x) => x.type # "REAL"
  BY DEF IsInt
<1>3. CASE op = "NOT"
  <2>1. op # "NEG" /\ op # "BNOT"
    BY <1>3
  <2>2. \E b : v = Bool(b)
    <3>1. CASE x.type = "REAL"
      BY <1>3, <2>1, <3>1 DEF UnaryAnswers
    <3>2. CASE x.type # "REAL" /\ x.type # "OBJC"
      BY <1>3, <2>1, <3>2 DEF UnaryAnswers
    <3>3. CASE x.type = "OBJC"
      BY <1>3, <2>1, <3>3 DEF UnaryAnswers
    <3>4. QED
      BY <3>1, <3>2, <3>3
  <2>3. QED
    BY <1>1, <2>2
<1>4. CASE op = "NEG"
  <2>1. op # "NOT" /\ op # "BNOT"
    BY <1>4
  <2>2. CASE x.type = "REAL"
    <3>1. v = x
      BY <1>2, <1>4, <2>1, <2>2 DEF UnaryAnswers
    <3>2. QED
      BY <3>1
  <2>3. CASE x.type # "REAL" /\ IsInt(x)
    <3>1. v = Of("SINT", -x.bits)
      BY <1>4, <2>1, <2>3 DEF UnaryAnswers
    <3>2. QED
      BY <1>1, <3>1
  <2>4. CASE x.type # "REAL" /\ ~IsInt(x)
    BY <1>4, <2>1, <2>4 DEF UnaryAnswers
  <2>5. QED
    BY <2>2, <2>3, <2>4
<1>5. CASE op = "BNOT"
  <2>1. op # "NOT" /\ op # "NEG"
    BY <1>5
  <2>2. CASE IsInt(x)
    <3>1. v = Of(x.type, Modulus - 1 - x.bits)
      BY <1>5, <2>1, <2>2 DEF UnaryAnswers
    <3>2. QED
      BY <1>1, <1>2, <2>2, <3>1
  <2>3. CASE ~IsInt(x)
    BY <1>5, <2>1, <2>3 DEF UnaryAnswers
  <2>4. QED
    BY <2>2, <2>3
<1>6. CASE op \notin {"NOT", "NEG", "BNOT"}
  BY <1>6 DEF UnaryAnswers
<1>7. QED
  BY <1>3, <1>4, <1>5, <1>6
\* What an instruction leaves on the stack.
LEMMA EffectsClassed ==
  ASSUME NEW i, NEW s, IsSeq(s), AllClassed(s), ~Underflows(i.op, s), NEW t \in Effects(i, s),
         i.op \in {"LDI", "LDC"} => Classed(i.arg)
  PROVE  /\ AllClassed(t)
         /\ i.op \in {"DIV", "REM"} /\ IsTrue(Last(s)) => Last(t).type = s[Len(s) - 1].type
<1> DEFINE Moves == {"NOP", "EQ", "LDI", "LDC", "POP", "OUT", "DUP"}
           n == Len(s)
<1>1. i.op \in Moves \cup Unary \cup Binary
  BY EffectsCases
<1>2. n \in Nat /\ \A k \in 1 .. n : Classed(s[k])
  BY SeqFacts DEF AllClassed
<1>3. /\ i.op \in Binary => n >= 2
      /\ i.op \in Unary \cup {"POP", "OUT", "DUP"} => n >= 1
  <2>1. i.op \in Binary => Operands(i.op) = 2
    BY DEF Operands
  <2>2. i.op \in Unary \cup {"POP", "OUT", "DUP"} => Operands(i.op) = 1
    BY DEF Operands, Unary, Binary, Arithmetic, BitwiseOps, Logic
  <2>3. ~(n < Operands(i.op))
    BY DEF Underflows
  <2>4. QED
    BY <1>2, <2>1, <2>2, <2>3
<1>4. ASSUME NEW r, IsSeq(r), AllClassed(r), NEW v, Classed(v)
      PROVE  AllClassed(Append(r, v)) /\ Last(Append(r, v)) = v
  <2>1. /\ Len(r) \in Nat /\ IsSeq(Append(r, v)) /\ Len(Append(r, v)) = Len(r) + 1
        /\ \A k \in 1 .. Len(r) : Append(r, v)[k] = r[k]
        /\ Append(r, v)[Len(r) + 1] = v
    BY <1>4, SeqFacts, SeqAppend
  <2>2. ASSUME NEW k \in 1 .. Len(r) + 1
        PROVE  Classed(Append(r, v)[k])
    BY <1>4, <2>1, <2>2 DEF AllClassed
  <2>3. QED
    BY <2>1, <2>2 DEF AllClassed, Last
<1>5. ASSUME NEW r, IsSeq(r), AllClassed(r), Len(r) > 0
      PROVE  IsSeq(Front(r)) /\ AllClassed(Front(r)) /\ Len(Front(r)) = Len(r) - 1
  <2>1. /\ Len(r) \in Nat /\ IsSeq(Front(r)) /\ Len(Front(r)) = Len(r) - 1
        /\ \A k \in 1 .. Len(r) - 1 : Front(r)[k] = r[k]
    BY <1>5, SeqFacts, SeqFront
  <2>2. \A k \in 1 .. Len(r) - 1 : k \in 1 .. Len(r)
    BY <2>1
  <2>3. QED
    BY <1>5, <2>1, <2>2 DEF AllClassed
<1>6. n >= 1 => Classed(Last(s))
  BY <1>2 DEF Last
<1>7. i.op \notin Binary => i.op \notin {"DIV", "REM"}
  BY DEF Binary, Arithmetic
<1> HIDE DEF Moves
<1>8. CASE i.op \in {"NOP", "EQ"}
  <2>1. t = s /\ i.op \notin {"DIV", "REM"}
    BY <1>8, EffectsCases
  <2>2. QED
    BY <2>1
<1>9. CASE i.op \in {"LDI", "LDC"}
  <2>1. t = Append(s, i.arg) /\ i.op \notin {"DIV", "REM"}
    BY <1>9, EffectsCases
  <2>2. QED
    BY <1>4, <1>9, <2>1
<1>10. CASE i.op \in {"POP", "OUT"}
  <2>1. t = Front(s) /\ i.op \notin {"DIV", "REM"} /\ n > 0
    BY <1>2, <1>3, <1>10, EffectsCases
  <2>2. QED
    BY <1>5, <2>1
<1>11. CASE i.op = "DUP"
  <2>1. t = Append(s, Last(s)) /\ i.op \notin {"DIV", "REM"} /\ n >= 1
    BY <1>3, <1>11, EffectsCases
  <2>2. QED
    BY <1>4, <1>6, <2>1
<1>12. CASE i.op \in Unary
  <2>1. i.op \notin {"DIV", "REM"} /\ n >= 1 /\ n > 0
    BY <1>2, <1>3, <1>12 DEF Unary
  <2>2. PICK v \in UnaryAnswers(i.op, Last(s)) : t = Append(Front(s), v)
    BY <1>12, EffectsCases
  <2>3. Classed(v)
    BY <1>6, <2>1, UnaryClassed
  <2>4. IsSeq(Front(s)) /\ AllClassed(Front(s))
    BY <1>5, <2>1
  <2>5. QED
    BY <1>4, <2>1, <2>2, <2>3, <2>4
<1>13. CASE i.op \in Binary
  <2>1. n >= 2 /\ n > 0
    BY <1>2, <1>3, <1>13
  <2>2. PICK v \in BinaryAnswers(i.op, s[n - 1], Last(s)) \ {Trap} : t = Append(Front(Front(s)), v)
    BY <1>13, EffectsCases
  <2>3. /\ Classed(v)
        /\ i.op \in {"DIV", "REM"} /\ IsTrue(Last(s)) => v.type = s[n - 1].type
    BY <2>2, AnswersClassed
  <2>4. IsSeq(Front(s)) /\ AllClassed(Front(s)) /\ Len(Front(s)) = n - 1
    BY <1>5, <2>1
  <2>5. Len(Front(s)) > 0
    BY <1>2, <2>1, <2>4
  <2>6. IsSeq(Front(Front(s))) /\ AllClassed(Front(Front(s)))
    BY <1>5, <2>4, <2>5
  <2>7. AllClassed(t) /\ Last(t) = v
    BY <1>4, <2>2, <2>3, <2>6
  <2>8. QED
    BY <2>3, <2>7
<1>14. QED
  BY <1>1, <1>8, <1>9, <1>10, <1>11, <1>12, <1>13 DEF Moves

DivInv == RefInv /\ AllClassed(stack)

\* A run of the loop keeps its values classed, and its divisions their types.
LEMMA StepDivides ==
  ASSUME FewConstants, LoadsAreClassed, Debug, DivInv, [SvmNext]_vars
  PROVE  /\ AllClassed(stack')
         /\ Dividing /\ pc' = pc + 1 /\ ~IsZero(Last(stack)) =>
              Last(stack').type = stack[Len(stack) - 1].type
<1>1. IInv /\ OperandsLaid(code, data, program) /\ AllClassed(stack)
  BY DEF DivInv, RefInv
<1>2. IsSeq(stack) /\ pc \in Nat
  BY <1>1 DEF IInv, LoopTypes
<1>3. ASSUME UNCHANGED <<stack, pc>>
      PROVE  /\ AllClassed(stack') /\ ~(pc' = pc + 1)
  BY <1>1, <1>2, <1>3
<1>4. AllClassed(<<>>)
  BY EmptyStack DEF AllClassed
<1>5. CASE Dispatch
  <2> DEFINE i == Decoded
  <2>1. status = "running" /\ ~Underflows(Op, stack) /\ stack' \in Effects(i, stack)
    BY <1>5 DEF Dispatch, Ready, Fetched
  <2>2. /\ Op = program[pc].op /\ i.op = program[pc].op /\ pc \in 1 .. Len(program)
        /\ HasArgument(program[pc].op) => i.arg = program[pc].arg
    BY <1>1, <2>1, StandsOnOpcode, Decodes
  <2>3. program[pc] \in Instructions
    BY <1>1, <2>2 DEF IInv, LoopTypes
  <2> HIDE DEF i
  <2>4. i.op \in {"LDI", "LDC"} => Classed(i.arg)
    BY <2>2, <2>3 DEF LoadsAreClassed, HasArgument
  <2>5. /\ AllClassed(stack')
        /\ i.op \in {"DIV", "REM"} /\ IsTrue(Last(stack)) =>
             Last(stack').type = stack[Len(stack) - 1].type
    <3>1. ~Underflows(i.op, stack)
      BY <2>1, <2>2
    <3>2. QED
      BY <1>1, <1>2, <2>1, <2>4, <3>1, EffectsClassed
  <2>6. ASSUME Dividing, ~IsZero(Last(stack))
        PROVE  i.op \in {"DIV", "REM"} /\ IsTrue(Last(stack))
    <3> DEFINE top == Last(stack)
    <3>1. i.op \in {"DIV", "REM"}
      BY <2>2, <2>6 DEF Dividing
    <3>2. Classed(top)
      <4>1. Operands(Op) = 2
        BY <2>6 DEF Dividing, Operands, Binary, Arithmetic
      <4>2. Len(stack) \in Nat /\ ~(Len(stack) < 2)
        BY <1>2, <2>1, <4>1, SeqFacts DEF Underflows
      <4>3. Len(stack) \in 1 .. Len(stack)
        BY <4>2
      <4>4. QED
        BY <1>1, <4>3 DEF AllClassed, Last
    <3>3. ~IsZero(top)
      BY <2>6
    <3> HIDE DEF top
    <3>4. IsTrue(top)
      BY <3>2, <3>3 DEF IsTrue, IsZero, Classed
    <3>5. QED
      BY <3>1, <3>4 DEF top
  <2>7. QED
    BY <2>5, <2>6
<1>6. CASE RaiseUnderflow
  <2>1. stack' = <<>> /\ ~Dividing
    BY <1>6 DEF RaiseUnderflow, Dividing, Ready
  <2>2. QED
    BY <1>4, <2>1
<1>7. CASE Return
  <2>1. stack' = <<>> /\ ~(pc' = pc + 1)
    BY <1>2, <1>7 DEF Return
  <2>2. QED
    BY <1>4, <2>1
<1>8. CASE RunChunk
  <2>1. stack' = <<>> /\ ~Dividing
    BY <1>8 DEF RunChunk, Run, Dividing, Ready, Fetched
  <2>2. QED
    BY <1>4, <2>1
<1>9. ASSUME NEW i \in Instructions, ChunkWrite(i)
      PROVE  UNCHANGED <<stack, pc>>
  BY <1>9 DEF ChunkWrite, Write, machine
<1>10. CASE PushLine \/ FreeChunk \/ SetErrorHandler \/ RaiseError \/ Die \/ UNCHANGED vars
  <2>1. UNCHANGED <<stack, pc>>
    BY <1>10 DEF PushLine, FreeChunk, Clear, SetErrorHandler, RaiseError, Die, vars, programVars, machine
  <2>2. QED
    BY <1>3, <2>1
<1>11. QED
  BY <1>3, <1>5, <1>6, <1>7, <1>8, <1>9, <1>10 DEF SvmNext

\* A debug build divides by what is not zero and answers in the dividend's type (svm.c,
\* DIV and REM); a release build does not, which the run MCSvmRelease shows.
THEOREM QuotientsKeepTheirType ==
  ASSUME FewConstants, LoadsAreClassed, Debug
  PROVE  SvmSpec => QuotientKeepsType
<1> DEFINE Divides == Dividing /\ pc' = pc + 1 /\ ~IsZero(Last(stack)) =>
                        Last(stack').type = stack[Len(stack) - 1].type
<1>1. SvmInit => DivInv
  <2>1. SvmInit => program = <<>> /\ stack = <<>>
    BY DEF SvmInit, Init
  <2>2. program = <<>> => OperandsLaid(code, data, program)
    BY EmptyStack DEF OperandsLaid
  <2>3. stack = <<>> => AllClassed(stack)
    BY EmptyStack DEF AllClassed
  <2>4. QED
    BY <2>1, <2>2, <2>3, InitIInv DEF DivInv, RefInv
<1>2. DivInv /\ [SvmNext]_vars => DivInv'
  <2>1. DivInv => RefInv /\ IInv
    BY DEF DivInv, RefInv
  <2>2. QED
    BY <2>1, StepIInv, StepIsPrograms, StepDivides DEF DivInv, RefInv
<1>3. DivInv /\ [SvmNext]_vars => [Divides]_vars
  BY StepDivides
<1>4. QED
  BY <1>1, <1>2, <1>3, PTL DEF SvmSpec, QuotientKeepsType
===============================================================================
