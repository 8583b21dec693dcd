---------------------------------- MODULE Io ----------------------------------
(***************************************************************************)
(* Streams, files and the calls over them (lib/runtime/io.c, io.h and the  *)
(* wrappers of env.h), for both builds: the POSIX handlers over stdio and  *)
(* the Windows ones.  The operating system and stdio are external: a file  *)
(* is a sequence of bytes; a FILE keeps a position, an end-of-file mark    *)
(* and bytes it has not stored yet; a process holds a limited number of    *)
(* files open.  A full disk ends a call with an error, stdio drops then    *)
(* what it could not store, and what a close cannot store is lost unseen.  *)
(* The heap of the environment runs out, which its handlers report by a    *)
(* jump out of the call and a host's own handler by NULL.  The host opens  *)
(* a file once at a time and no directory, and leaves files alone that it  *)
(* has open or that an error left open.                                    *)
(***************************************************************************)
EXTENDS Integers, Sequences, SequencesExt, FiniteSets, FiniteSetsExt

CONSTANTS
  Builds,              \* of "posix" and "windows"
  Paths, Streams,
  FlagSets,            \* combinations of PI_STREAM_ flags the host opens with
  Texts,               \* what the host writes in one call
  LineSizes,           \* sizes of its line buffers
  Offsets,             \* of its seeks
  Newline, Gap,        \* '\n', and the byte of a hole in a file
  BufferSize,          \* PI_IO_BUFFER_SIZE
  MaxHandles,          \* the process may hold no more files open
  NULL,
  DiskMayFill,
  OutOfMemory,         \* how an allocation fails: of "jump" and "null"
  MaxSize              \* bound of the model: no file grows beyond it

Flags == {"READ", "WRITE", "APPEND", "CREATE", "TRUNCATE"}
Bytes == {Newline, Gap} \cup UNION {ToSet(t) : t \in Texts}

\* What the handle of an open stream is at.
Handle ==
  [path : Paths, read : BOOLEAN, write : BOOLEAN, append : BOOLEAN, flags : SUBSET Flags,
   pos : Nat, eof : BOOLEAN, unwritten : Seq(Bytes)]

\* Where a stream is, as Files tells it.
Place == [path : Paths, pos : Nat, appends : BOOLEAN]

ASSUME IoAssumption ==
  /\ NULL \notin Handle \cup Place \cup Seq(Bytes)
  /\ Texts \subseteq Seq(Bytes)
  /\ Builds \subseteq {"posix", "windows"}
  /\ FlagSets \subseteq SUBSET Flags
  /\ LineSizes \subseteq Nat \ {0} /\ Offsets \subseteq Int
  /\ {BufferSize, MaxHandles, MaxSize} \subseteq Nat \ {0}
  /\ DiskMayFill \in BOOLEAN /\ OutOfMemory \subseteq {"jump", "null"}

VARIABLES
  io,              \* the build, which decides the table of handlers
  kind, content,   \* of each path: "none", "file" or "dir"; the bytes the disk has
  stream,          \* of each PiStream: NULL, or what its handle is at
  handles,         \* number of files the process holds open
  lost,            \* files left open by an error, with no stream to close them by
  call             \* NULL, or the call over handlers that is in progress

fileVars == <<kind, content>>
vars == <<io, fileVars, stream, handles, lost, call>>

Idle == call = NULL
Doing(name) == call # NULL /\ call.name = name
IsOpen(s) == stream[s] # NULL
Posix == io = "posix"

\* Files the host may name in a call.
Unused(p) == p \notin lost /\ \A s \in Streams : IsOpen(s) => stream[s].path # p

-------------------------------------------------------------------------------
(* A FILE of stdio (external).                                                *)

\* text with data over or behind it from byte n + 1 on, a hole between them filled.
Overlay(text, n, data) ==
  IF data = <<>> THEN text
  ELSE [i \in 1 .. Max({Len(text), n + Len(data)}) |->
          IF i \in n + 1 .. n + Len(data) THEN data[i - n]
          ELSE IF i \in DOMAIN text THEN text[i] ELSE Gap]

\* The file as its stream sees it: the bytes not stored yet end at the position.
View(s) ==
  LET f == stream[s]
  IN  Overlay(content[f.path], f.pos - Len(f.unwritten), f.unwritten)

\* Where s writes: appending goes to the end from wherever the stream was.
WritesAt(s) == IF stream[s].append THEN Len(View(s)) ELSE stream[s].pos

\* What s holds, data behind it, and where in the file it begins.
Held(s, data) == stream[s].unwritten \o data
HeldFrom(s) == WritesAt(s) - Len(stream[s].unwritten)

\* The file on the disk once k bytes of what s holds, data behind it, are stored.
Reached(s, data, k) ==
  Overlay(content[stream[s].path], HeldFrom(s), SubSeq(Held(s, data), 1, k))

\* The disk is full before all of it is stored: the rest is dropped, an error is left, and
\* s stands behind the last byte that was stored.
DiskFull(s, data) ==
  /\ Posix /\ DiskMayFill
  /\ \E k \in 0 .. Len(Held(s, data)) - 1 :
       /\ content' = [content EXCEPT ![stream[s].path] = Reached(s, data, k)]
       /\ stream' = [stream EXCEPT ![s] =
            [@ EXCEPT !.pos = HeldFrom(s) + k, !.unwritten = <<>>]]
  /\ UNCHANGED <<io, kind, handles, lost>>

\* What s has not stored is stored, and s is left as f.
Store(s, f) ==
  /\ content' = [content EXCEPT ![f.path] = View(s)]
  /\ stream' = [stream EXCEPT ![s] = [f EXCEPT !.unwritten = <<>>]]
  /\ UNCHANGED kind

-------------------------------------------------------------------------------
(* Opening and closing.                                                       *)

\* mutant: a stream that reads and appends is opened for update instead
PosixOpenModeUpdate(flags) ==
  CASE "READ" \in flags /\ flags # {"READ"} -> "r+"
    [] "APPEND" \in flags /\ "READ" \notin flags -> "a"
    [] "WRITE" \in flags /\ flags \cap {"READ", "APPEND"} = {} -> "w"
    [] OTHER -> "r"

\* pi_GetPosixOpenMode: neither CREATE nor TRUNCATE is looked at.
PosixOpenMode(flags) ==
  CASE "APPEND" \in flags -> IF "READ" \in flags THEN "a+" ELSE "a"
    [] {"READ", "WRITE"} \subseteq flags /\ "APPEND" \notin flags -> "r+"
    [] "WRITE" \in flags /\ flags \cap {"READ", "APPEND"} = {} -> "w"
    [] OTHER -> "r"

\* fopen (external).
Fopen(mode) ==
  [read |-> mode \in {"r", "r+", "a+"}, write |-> mode # "r",
   append |-> mode \in {"a", "a+"}, atEnd |-> mode = "a",
   create |-> mode \notin {"r", "r+"}, truncate |-> mode = "w"]

PosixFileOpen(flags) == Fopen(PosixOpenMode(flags))

WindowsAccessMode(flags) == flags \cap {"READ", "WRITE"}

WindowsCreationDisposition(flags) ==
  IF "CREATE" \in flags
    THEN IF "TRUNCATE" \in flags THEN "CREATE_ALWAYS" ELSE "OPEN_ALWAYS"
    ELSE IF "TRUNCATE" \in flags THEN "TRUNCATE_EXISTING" ELSE "OPEN_EXISTING"

\* One seek to the end, when it opens, stands for APPEND.
WindowsFileOpen(flags) ==
  LET access == WindowsAccessMode(flags)
      disposition == WindowsCreationDisposition(flags)
  IN  [read |-> "READ" \in access, write |-> "WRITE" \in access,
       append |-> FALSE, atEnd |-> "APPEND" \in flags,
       create |-> disposition \in {"CREATE_ALWAYS", "OPEN_ALWAYS"},
       truncate |-> disposition \in {"CREATE_ALWAYS", "TRUNCATE_EXISTING"}]

Mode(flags) == IF Posix THEN PosixFileOpen(flags) ELSE WindowsFileOpen(flags)

\* The system opens p: a handle is left, the file is there or made, and no file is
\* emptied without leave to write it.  Where it does not, the answer is NULL.
CanOpen(p, m) ==
  /\ handles < MaxHandles
  /\ kind[p] = "file" \/ m.create
  /\ m.truncate /\ ~m.create => m.write

OpenedText(p, m) == IF m.truncate \/ kind[p] = "none" THEN <<>> ELSE content[p]

OpenFile(p, flags) ==
  LET m == Mode(flags)
  IN  /\ Unused(p) /\ kind[p] # "dir" /\ CanOpen(p, m)
      /\ kind' = [kind EXCEPT ![p] = "file"]
      /\ content' = [content EXCEPT ![p] = OpenedText(p, m)]

Opens(s, p, flags) ==
  LET m == Mode(flags)
  IN  /\ ~IsOpen(s) /\ OpenFile(p, flags)
      /\ stream' = [stream EXCEPT ![s] =
           [path |-> p, read |-> m.read, write |-> m.write, append |-> m.append,
            flags |-> flags, pos |-> IF m.atEnd THEN Len(OpenedText(p, m)) ELSE 0,
            eof |-> FALSE, unwritten |-> <<>>]]
      /\ handles' = handles + 1
      /\ UNCHANGED <<io, lost>>

FileOpen(s, p, flags) == Idle /\ Opens(s, p, flags) /\ UNCHANGED call

\* There is no memory for the PiStream.  A handler that answers NULL lets the file
\* be closed again; a jump leaves it open with nobody to know of it.
OpenFails(p, flags) ==
  /\ OpenFile(p, flags)
  /\ \/ "null" \in OutOfMemory /\ UNCHANGED <<handles, lost>>
     \/ /\ "jump" \in OutOfMemory
        /\ handles' = handles + 1
        /\ lost' = lost \cup {p}
  /\ UNCHANGED <<io, stream, call>>

FileOpenFails(p, flags) == Idle /\ OpenFails(p, flags)

\* What may be left on the disk.  The answer is OK all the same.
PosixFileClose(s) ==
  {View(s)} \cup
    IF DiskMayFill THEN {Reached(s, <<>>, k) : k \in 0 .. Len(Held(s, <<>>)) - 1} ELSE {}

WindowsFileClose(s) == {content[stream[s].path]}

Closes(s) ==
  /\ \E text \in IF Posix THEN PosixFileClose(s) ELSE WindowsFileClose(s) :
       content' = [content EXCEPT ![stream[s].path] = text]
  /\ stream' = [stream EXCEPT ![s] = NULL]
  /\ handles' = handles - 1
  /\ UNCHANGED <<io, kind, lost>>

FileClose(s) == Idle /\ IsOpen(s) /\ Closes(s) /\ UNCHANGED call

-------------------------------------------------------------------------------
(* Reading, writing, positions.  A call the handle does not allow answers an  *)
(* error and changes nothing.                                                 *)

Got(s, n) ==
  SubSeq(View(s), stream[s].pos + 1, Min({stream[s].pos + n, Len(View(s))}))

\* fread marks the end of the file when it meets it.
PosixFileRead(s, n) ==
  LET got == Len(Got(s, n))
  IN  Store(s, [stream[s] EXCEPT !.pos = @ + got, !.eof = @ \/ got < n])

WindowsFileRead(s, n) ==
  /\ stream' = [stream EXCEPT ![s].pos = @ + Len(Got(s, n))]
  /\ UNCHANGED fileVars

\* The answer is PI_IO_EOF: on POSIX not where nothing was asked for.
MeetsEnd(s, n) == Got(s, n) = <<>> /\ (Posix => stream[s].eof \/ n > 0)

Reads(s, n) ==
  /\ stream[s].read
  /\ IF Posix THEN PosixFileRead(s, n) ELSE WindowsFileRead(s, n)
  /\ UNCHANGED <<io, handles, lost>>

FileRead(s, n) == Idle /\ IsOpen(s) /\ Reads(s, n) /\ UNCHANGED call

\* stdio holds the bytes back.
PosixFileWrite(s, data) ==
  /\ WritesAt(s) + Len(data) <= MaxSize
  /\ stream' = [stream EXCEPT ![s].pos = WritesAt(s) + Len(data), ![s].unwritten = @ \o data]
  /\ UNCHANGED fileVars

\* Data that stdio's buffer has no room for meets the full disk at once.
PosixFileWriteFails(s, data) ==
  /\ stream[s].write /\ WritesAt(s) + Len(data) <= MaxSize
  /\ DiskFull(s, data)

\* A full disk is an error, and changes nothing.
WindowsFileWrite(s, data) ==
  LET f == stream[s]
  IN  /\ f.pos + Len(data) <= MaxSize
      /\ content' = [content EXCEPT ![f.path] = Overlay(@, f.pos, data)]
      /\ stream' = [stream EXCEPT ![s].pos = @ + Len(data)]
      /\ UNCHANGED kind

Writes(s, data) ==
  /\ stream[s].write
  /\ IF Posix THEN PosixFileWrite(s, data) ELSE WindowsFileWrite(s, data)
  /\ UNCHANGED <<io, handles, lost>>

FileWrite(s, data) == Idle /\ IsOpen(s) /\ Writes(s, data) /\ UNCHANGED call

FileWriteFails(s, data) ==
  Idle /\ IsOpen(s) /\ PosixFileWriteFails(s, data) /\ UNCHANGED call

\* A flush, a seek, a size or a read has to store what s holds, and cannot.
FileStoreFails(s) == Idle /\ IsOpen(s) /\ DiskFull(s, <<>>) /\ UNCHANGED call

\* piStreamPrintf writes what fits the buffer with its terminator.
Printf(s, data) ==
  FileWrite(s, SubSeq(data, 1, Min({Len(data), BufferSize - 1})))

SeekBase(s, origin) ==
  CASE origin = "SET" -> 0 [] origin = "CUR" -> stream[s].pos [] origin = "END" -> Len(View(s))

\* stdio stores what it holds and takes the mark away.
PosixFileSeek(s, n) == Store(s, [stream[s] EXCEPT !.pos = n, !.eof = FALSE])

WindowsFileSeek(s, n) == stream' = [stream EXCEPT ![s].pos = n] /\ UNCHANGED fileVars

Seeks(s, n) ==
  /\ n \in 0 .. MaxSize
  /\ IF Posix THEN PosixFileSeek(s, n) ELSE WindowsFileSeek(s, n)
  /\ UNCHANGED <<io, handles, lost>>

FileSeek(s, origin, offset) ==
  Idle /\ IsOpen(s) /\ Seeks(s, SeekBase(s, origin) + offset) /\ UNCHANGED call

FileTell(s) == stream[s].pos

\* Nothing is held back on Windows.
PosixFileFlush(s) == Idle /\ Posix /\ IsOpen(s) /\ Store(s, stream[s])
                     /\ UNCHANGED <<io, handles, lost, call>>

\* mutant: the position is not restored
PosixFileSizeAtEnd(s) == PosixFileSeek(s, Len(View(s)))

\* To the end and back.
PosixFileSize(s) == PosixFileSeek(s, FileTell(s))

Sizes(s) ==
  /\ IF Posix THEN PosixFileSize(s) ELSE UNCHANGED <<fileVars, stream>>
  /\ UNCHANGED <<io, handles, lost>>

FileSize(s) == Idle /\ IsOpen(s) /\ Sizes(s) /\ UNCHANGED call

\* mutant: the last byte is taken for the end
WindowsFileEofEarly(s) == FileTell(s) + 1 >= Len(View(s))

WindowsFileEof(s) == FileTell(s) >= Len(View(s))

PosixFileEof(s) == stream[s].eof

FileEof(s) == IF Posix THEN PosixFileEof(s) ELSE WindowsFileEof(s)

-------------------------------------------------------------------------------
(* The file system.                                                           *)

FsExists(p) == kind[p] # "none"
FsIsDir(p) == kind[p] = "dir"
FsIsFile(p) == kind[p] = "file"

\* rename replaces what is of the same kind, MoveFile nothing.
PosixFsRename(p, q) == FsExists(q) => kind[p] = kind[q]
WindowsFsRename(p, q) == ~FsExists(q)

Changes == /\ Idle
           /\ UNCHANGED <<io, stream, handles, lost, call>>

Becomes(p, k) == kind' = [kind EXCEPT ![p] = k] /\ content' = [content EXCEPT ![p] = <<>>]

FsDelete(p) == Changes /\ Unused(p) /\ FsIsFile(p) /\ Becomes(p, "none")
FsMkdir(p) == Changes /\ Unused(p) /\ ~FsExists(p) /\ Becomes(p, "dir")
FsRmdir(p) == Changes /\ Unused(p) /\ FsIsDir(p) /\ Becomes(p, "none")

FsRename(p, q) ==
  /\ Changes /\ p # q /\ Unused(p) /\ Unused(q)
  /\ FsExists(p)
  /\ IF Posix THEN PosixFsRename(p, q) ELSE WindowsFsRename(p, q)
  /\ kind' = [kind EXCEPT ![q] = kind[p], ![p] = "none"]
  /\ content' = [content EXCEPT ![q] = content[p], ![p] = <<>>]

-------------------------------------------------------------------------------
(* piStreamReadLine, one byte a step.                                         *)

ReadLine(s, size) ==
  /\ Idle /\ IsOpen(s) /\ stream[s].read
  /\ call' = [name |-> "line", stream |-> s, size |-> size,
              start |-> stream[s].pos, buf |-> <<>>]
  /\ UNCHANGED <<io, fileVars, stream, handles, lost>>

LineIsFull(buf, size) == Len(buf) = size - 1 \/ (buf # <<>> /\ Last(buf) = Newline)

\* mutant: only an answer of no bytes ends the line, PI_IO_EOF does not
ReadStopsAtZero(s) == Got(s, 1) = <<>> /\ ~MeetsEnd(s, 1)

\* An answer of no bytes, or an error.
ReadStops(s) == Got(s, 1) = <<>>

LineByte ==
  /\ Doing("line") /\ ~LineIsFull(call.buf, call.size)
  /\ Reads(call.stream, 1)
  /\ call' = IF ReadStops(call.stream) THEN NULL
             ELSE [call EXCEPT !.buf = @ \o Got(call.stream, 1)]

\* The bytes held back before the first one read meet a full disk, which stops the line.
LineByteFails ==
  /\ Doing("line") /\ ~LineIsFull(call.buf, call.size)
  /\ DiskFull(call.stream, <<>>)
  /\ call' = NULL

LineReturn ==
  /\ Doing("line") /\ LineIsFull(call.buf, call.size)
  /\ call' = NULL
  /\ UNCHANGED <<io, fileVars, stream, handles, lost>>

-------------------------------------------------------------------------------
(* piReadEntireFile and piWriteEntireFile, one handler a step.                *)

At(name, step) == Doing(name) /\ call.step = step

ReadEntireFile(s, p) ==
  /\ Idle /\ Opens(s, p, {"READ"})
  /\ call' = [name |-> "read", step |-> "size", stream |-> s, size |-> 0, buf |-> NULL]

EntireSize ==
  /\ At("read", "size")
  /\ Sizes(call.stream)
  /\ call' = [call EXCEPT !.step = "alloc", !.size = Len(View(call.stream))]

\* mutant: the file is not closed before NULL is returned
EntireForgotten(s) ==
  /\ stream' = [stream EXCEPT ![s] = NULL]
  /\ UNCHANGED <<io, fileVars, handles, lost>>

EntireUndone(s) == Closes(s)

\* The file has no size, as one that cannot seek.
EntireSizeFails ==
  /\ At("read", "size")
  /\ EntireUndone(call.stream)
  /\ call' = NULL

EntireAlloc ==
  /\ At("read", "alloc")
  /\ call' = [call EXCEPT !.step = "data"]
  /\ UNCHANGED <<io, fileVars, stream, handles, lost>>

\* No memory for the bytes: NULL from the handler closes the file, a jump loses it.
EntireAllocFails ==
  /\ At("read", "alloc")
  /\ \/ "null" \in OutOfMemory /\ EntireUndone(call.stream)
     \/ /\ "jump" \in OutOfMemory
        /\ stream' = [stream EXCEPT ![call.stream] = NULL]
        /\ lost' = lost \cup {stream[call.stream].path}
        /\ UNCHANGED <<io, fileVars, handles>>
  /\ call' = NULL

\* A read that meets the end at once is taken for an error.
EntireRead ==
  LET s == call.stream
  IN  /\ At("read", "data")
      /\ Reads(s, call.size)
      /\ call' = [call EXCEPT !.step = "close",
                   !.buf = IF MeetsEnd(s, call.size) THEN NULL ELSE Got(s, call.size)]

WriteEntireFile(s, p, data) ==
  /\ Idle /\ Opens(s, p, {"WRITE", "CREATE", "TRUNCATE"})
  /\ call' = [name |-> "write", step |-> "data", stream |-> s, data |-> data, failed |-> FALSE]

EntireWrite ==
  /\ At("write", "data")
  /\ Writes(call.stream, call.data)
  /\ call' = [call EXCEPT !.step = "close"]

\* What stdio holds back meets the full disk in the close, unseen.
EntireWriteFails ==
  /\ At("write", "data") /\ DiskMayFill
  /\ IF Posix THEN PosixFileWriteFails(call.stream, call.data)
     ELSE UNCHANGED <<io, fileVars, stream, handles, lost>>
  /\ call' = [call EXCEPT !.step = "close", !.failed = TRUE]

EntireClose ==
  /\ At("read", "close") \/ At("write", "close")
  /\ Closes(call.stream)
  /\ call' = NULL

-------------------------------------------------------------------------------
Init ==
  /\ io \in Builds
  /\ kind = [p \in Paths |-> "none"] /\ content = [p \in Paths |-> <<>>]
  /\ stream = [s \in Streams |-> NULL]
  /\ handles = 0 /\ lost = {}
  /\ call = NULL

CallStep ==
  \/ LineByte \/ LineByteFails \/ LineReturn
  \/ EntireSize \/ EntireSizeFails \/ EntireAlloc \/ EntireAllocFails \/ EntireRead
  \/ EntireWrite \/ EntireWriteFails \/ EntireClose

Next ==
  \/ \E s \in Streams, p \in Paths, flags \in FlagSets : FileOpen(s, p, flags)
  \/ \E p \in Paths, flags \in FlagSets : FileOpenFails(p, flags)
  \/ \E s \in Streams : FileClose(s) \/ PosixFileFlush(s) \/ FileSize(s) \/ FileStoreFails(s)
  \/ \E s \in Streams, n \in 1 .. MaxSize : FileRead(s, n)
  \/ \E s \in Streams, data \in Texts :
       FileWrite(s, data) \/ FileWriteFails(s, data) \/ Printf(s, data)
  \/ \E s \in Streams, origin \in {"SET", "CUR", "END"}, offset \in Offsets :
       FileSeek(s, origin, offset)
  \/ \E p \in Paths : FsDelete(p) \/ FsMkdir(p) \/ FsRmdir(p)
  \/ \E p, q \in Paths : FsRename(p, q)
  \/ \E s \in Streams, size \in LineSizes : ReadLine(s, size)
  \/ \E s \in Streams, p \in Paths : ReadEntireFile(s, p)
  \/ \E s \in Streams, p \in Paths, data \in Texts : WriteEntireFile(s, p, data)
  \/ CallStep

\* A call in progress goes on: its thread runs nothing else.
Spec == Init /\ [][Next]_vars /\ WF_vars(CallStep)

-------------------------------------------------------------------------------
(* Properties.                                                                *)

Line == [name : {"line"}, stream : Streams, size : Nat \ {0}, start : Nat, buf : Seq(Bytes)]
EntireFileRead ==
  [name : {"read"}, step : {"size", "alloc", "data", "close"}, stream : Streams,
   size : Nat, buf : Seq(Bytes) \cup {NULL}]
EntireFileWrite ==
  [name : {"write"}, step : {"data", "close"}, stream : Streams,
   data : Seq(Bytes), failed : BOOLEAN]

\* Types of the files, the handles and the call in progress.
TypeOK ==
  /\ io \in Builds
  /\ kind \in [Paths -> {"none", "file", "dir"}] /\ content \in [Paths -> Seq(Bytes)]
  /\ stream \in [Streams -> Handle \cup {NULL}]
  /\ handles \in Nat /\ lost \subseteq Paths
  /\ call \in {NULL} \cup Line \cup EntireFileRead \cup EntireFileWrite

\* The files the process holds are those with a stream and those an error left open:
\* no return, early or late, forgets to close.
HandlesAccounted ==
  handles = Cardinality({s \in Streams : IsOpen(s)}) + Cardinality(lost)

\* While a line is read its buffer holds, and its terminator fits behind, exactly the
\* bytes from where the stream stood to where it stands, a newline last if at all.
LineExact ==
  Doing("line") =>
    /\ call.buf = SubSeq(View(call.stream), call.start + 1, stream[call.stream].pos)
    /\ Len(call.buf) < call.size
    /\ \A i \in 1 .. Len(call.buf) - 1 : call.buf[i] # Newline

\* Before it is closed, a file that was read whole was read from its first byte to
\* its last, and a file that was written holds what was written and nothing older.
\* Only Windows takes an empty file for a failure.
EntireExact ==
  Idle \/ Doing("line") \/ call.step # "close" \/
    IF call.name = "read"
      THEN LET text == View(call.stream)
           IN  call.buf = text \/ (call.buf = NULL /\ text = <<>> /\ ~Posix)
      ELSE call.failed \/ View(call.stream) = call.data

\* What the calls over handlers deliver is what the handlers gave, at every step.
CallsExact == LineExact /\ EntireExact

\* A stream that says it is at its end has no byte left to read, in either build.
EofMeansEnd == \A s \in Streams : IsOpen(s) /\ FileEof(s) => stream[s].pos >= Len(View(s))

\* A line, a file read or a file written comes to an end.
CallsEnd == call # NULL ~> call = NULL

Text == [p \in Paths |->
  IF ~FsIsFile(p) THEN NULL
  ELSE IF Unused(p) \/ p \in lost THEN content[p]
  ELSE View(CHOOSE s \in Streams : IsOpen(s) /\ stream[s].path = p)]

Stored == [p \in Paths |-> IF FsIsFile(p) THEN content[p] ELSE NULL]

\* POSIX appends at every write, Windows goes to the end once, when it opens.
Position(s) == IF ~IsOpen(s) THEN NULL
          ELSE [path |-> stream[s].path, pos |-> stream[s].pos,
                appends |-> Posix /\ "APPEND" \in stream[s].flags]

Places == [s \in Streams |-> Position(s)]

Abstract == INSTANCE Files WITH text <- Text, stored <- Stored, at <- Places

\* Buffers, marks, modes and the calls over handlers implement files with positions.
ImplementsFiles == Abstract!Spec
===============================================================================
