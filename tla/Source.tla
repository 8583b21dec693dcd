--------------------------------- MODULE Source ---------------------------------
(***************************************************************************)
(* Source streams (lib/compiler/source.c): a buffer over a text, over a    *)
(* file that may be longer than a page, or over the current line of an     *)
(* interactive stream, with the positions where the current lexeme starts  *)
(* and ends.  A stream is a record; every operator answers what the        *)
(* function of its name makes of it.  Characters are one-letter strings;   *)
(* an offset o names buffer[o + 1].                                        *)
(***************************************************************************)
EXTENDS Integers, Sequences, SequencesExt

CONSTANTS
  Character,  \* what a byte of a text can be
  Page        \* piGetPageSize, and maxLine of an interactive stream

NUL == "NUL"
EOF == "EOF"

ASSUME SourceAssumption ==
  /\ Page \in Nat /\ Page >= 3
  /\ {NUL, "\n"} \subseteq Character /\ EOF \notin Character

\* piResetSourcePosition.
StartPos == [offset |-> 0, line |-> 1, column |-> 1]

\* pi_InitSourceBuffer; unread is what the FILE still holds, stale the history
\* whether a refill left bytes of an earlier read behind the new ones.
InitSourceBuffer(kind, buffer, unread, streamSize) ==
  [kind |-> kind, buffer |-> buffer, unread |-> unread, streamSize |-> streamSize,
   delta |-> 0, current |-> StartPos, forward |-> StartPos, stale |-> FALSE]

\* strlen ends a text at its first NUL.
OpenSourceText(text) == InitSourceBuffer("text", text, <<>>, 0)

OpenSourceFile(text) ==
  LET size == IF Len(text) > Page THEN Page ELSE Len(text)
  IN  InitSourceBuffer("file", SubSeq(text, 1, size), SubSeq(text, size + 1, Len(text)), Len(text))

\* The buffer is not initialised; nothing reads it before the first line is in.
OpenReplStream(input) == InitSourceBuffer("repl", [k \in 1..Page |-> NUL], input, 0)

\* piOpenSourceText leaves the FILE pointer as it finds it, and piCloseSource closes
\* what it points to.
StreamUnset(s) == s.kind = "text"

CloseSource(s) ==
  LET pos == [offset |-> 0, line |-> 0, column |-> 0]
  IN  [kind |-> "closed", buffer |-> <<>>, unread |-> <<>>, streamSize |-> 0,
       delta |-> 0, current |-> pos, forward |-> pos, stale |-> s.stale]

-------------------------------------------------------------------------------
(* Peek, advance, retreat.                                                    *)

BufferSize(s) == Len(s.buffer)
AtBufferEnd(s) == s.forward.offset >= BufferSize(s)
ByteAt(s) == s.buffer[s.forward.offset + 1]

\* The end of the buffer counts as the end of the source, also when the file
\* goes on.
SourcePeek(s) == IF AtBufferEnd(s) \/ ByteAt(s) = NUL THEN EOF ELSE ByteAt(s)

LexemeLength(s) == s.forward.offset - s.current.offset
RawLexeme(s) == SubSeq(s.buffer, s.current.offset + 1, s.forward.offset)

SourceAdvance(s) == [s EXCEPT !.current = s.forward]

\* mutant: only the offset goes back
SourceRetreatOffset(s) == [s EXCEPT !.forward.offset = s.current.offset]
SourceRetreat(s) == [s EXCEPT !.forward = s.current]

-------------------------------------------------------------------------------
(* Read.                                                                      *)

\* A NUL is the end and is not passed.
Step(pos, c) ==
  CASE c = NUL  -> pos
    [] c = "\n" -> [offset |-> pos.offset + 1, line |-> pos.line + 1, column |-> 1]
    [] OTHER    -> [pos EXCEPT !.offset = @ + 1, !.column = @ + 1]

\* pi_SourceRead: the character and the stream behind it.
ReadByte(s) == [c |-> IF ByteAt(s) = NUL THEN EOF ELSE ByteAt(s),
                source |-> [s EXCEPT !.forward = Step(@, ByteAt(s))]]

Room(s) == BufferSize(s) - LexemeLength(s)

\* The lexeme moves to the front (its copy may overlap: memcpy, taken as memmove,
\* which it is in the C libraries in use), the file fills what it can, and where
\* it ends short the buffer keeps what it held.
Refill(s) ==
  LET kept == LexemeLength(s)
      got == IF Len(s.unread) < Room(s) THEN Len(s.unread) ELSE Room(s)
  IN  [s EXCEPT !.buffer = RawLexeme(s) \o SubSeq(s.unread, 1, got)
                             \o SubSeq(s.buffer, kept + got + 1, BufferSize(s)),
                !.unread = SubSeq(s.unread, got + 1, Len(s.unread)),
                !.delta = s.delta + s.current.offset,
                !.current.offset = 0,
                !.forward.offset = kept,
                !.stale = s.stale \/ got < Room(s)]

NeedsRefill(s) == AtBufferEnd(s) /\ s.kind = "file" /\ s.delta < s.streamSize

\* A lexeme that fills the buffer leaves no room to refill: pi_SourceReadFile
\* then reads behind the buffer, and C says nothing of what follows.
Overruns(s) == NeedsRefill(s) /\ Room(s) = 0

\* piSourceRead.
SourceRead(s) ==
  CASE ~AtBufferEnd(s) -> ReadByte(s)
    [] NeedsRefill(s)  -> ReadByte(Refill(s))
    [] OTHER           -> [c |-> EOF, source |-> s]

-------------------------------------------------------------------------------
(* Lines of an interactive stream.                                            *)

\* What pi_SourceReadLine takes of the input before it meets the end of the
\* line, a NUL, the end of the input or the room it has.
LineOf(input) ==
  LET ends == {k \in DOMAIN input : input[k] \in {NUL, "\n"}}
      stop == IF ends = {} THEN Len(input) ELSE (CHOOSE k \in ends : \A j \in ends : k <= j) - 1
  IN  SubSeq(input, 1, IF stop < Page - 2 THEN stop ELSE Page - 2)

\* The terminator is taken with the line, unless the line filled its room first.
LineTaken(input) ==
  LET n == Len(LineOf(input))
  IN  IF n < Page - 2 /\ n < Len(input) THEN n + 1 ELSE n

\* pi_SourceReadLine: the offsets start again, lines and columns go on.
ReadLine(s) ==
  LET line == LineOf(s.unread)
  IN  [s EXCEPT !.buffer = line \o <<"\n", NUL>> \o SubSeq(s.buffer, Len(line) + 3, Page),
                !.unread = SubSeq(s.unread, LineTaken(s.unread) + 1, Len(s.unread)),
                !.current.offset = 0,
                !.forward.offset = 0]
===============================================================================
