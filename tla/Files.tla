--------------------------------- MODULE Files ---------------------------------
(***************************************************************************)
(* What runtime/io.h promises of files: a stream reads and writes the text *)
(* of its file at a position, or appends to it.  What is written reaches   *)
(* the disk at some later time, and what has not may be gone once the      *)
(* stream is closed or a call on it fails.  Nothing is said of buffers,    *)
(* open modes and builds, nor of the calls that read lines and read or     *)
(* write whole files.                                                      *)
(***************************************************************************)
EXTENDS Integers, Sequences, SequencesExt, FiniteSetsExt

CONSTANTS Paths, Streams, Texts, Gap, NULL, MaxSize

VARIABLES
  text,    \* of each path: its bytes as its stream sees them, NULL where no file is
  stored,  \* of each path: the bytes the disk has
  at       \* of each stream: NULL, or the path, the position and whether it appends

Free(p) == \A s \in Streams : at[s] # NULL => at[s].path # p

\* old with data over or behind it from byte n + 1 on, a hole between them filled.
Overlay(old, n, data) ==
  IF data = <<>> THEN old
  ELSE [i \in 1 .. Max({Len(old), n + Len(data)}) |->
          IF i \in n + 1 .. n + Len(data) THEN data[i - n]
          ELSE IF i \in DOMAIN old THEN old[i] ELSE Gap]

Becomes(p, bytes) ==
  /\ text' = [text EXCEPT ![p] = bytes]
  /\ stored' = [stored EXCEPT ![p] = bytes]

MayStore(p) == stored' \in {stored, [stored EXCEPT ![p] = text'[p]]}

\* The file is kept, emptied, or made.
Open(s, p, appends) ==
  /\ at[s] = NULL /\ Free(p)
  /\ \E bytes \in {text[p], <<>>} \ {NULL} : \E n \in {0, Len(bytes)} :
       /\ Becomes(p, bytes)
       /\ at' = [at EXCEPT ![s] = [path |-> p, pos |-> n, appends |-> appends]]

\* A call opens the file and fails, with or without the file being closed again.
Touch(p) == Free(p) /\ Becomes(p, <<>>) /\ UNCHANGED at

\* Of the bytes of p the first few are stored, and p is left with what the disk has then.
StoreFirst(p, bytes) ==
  \E n \in 0 .. Len(bytes) : Becomes(p, Overlay(stored[p], 0, SubSeq(bytes, 1, n)))

\* The stream goes, with or without what it has not stored.
Close(s) ==
  /\ at[s] # NULL
  /\ StoreFirst(at[s].path, text[at[s].path])
  /\ at' = [at EXCEPT ![s] = NULL]

WritesAt(s) == IF at[s].appends THEN Len(text[at[s].path]) ELSE at[s].pos

Write(s, data) ==
  LET p == at[s].path
      n == WritesAt(s)
  IN  /\ at[s] # NULL
      /\ text' = [text EXCEPT ![p] = Overlay(@, n, data)]
      /\ at' = [at EXCEPT ![s].pos = n + Len(data)]
      /\ MayStore(p)

\* A call, which may have had data to write, fails: where that leaves the stream is open.
Fail(s, data) ==
  LET p == at[s].path
  IN  /\ at[s] # NULL
      /\ StoreFirst(p, Overlay(text[p], WritesAt(s), data))
      /\ \E n \in 0 .. MaxSize : at' = [at EXCEPT ![s].pos = n]

\* Reads, seeks, flushes.
Move(s, n) ==
  /\ at[s] # NULL
  /\ at' = [at EXCEPT ![s].pos = n]
  /\ UNCHANGED text
  /\ MayStore(at[s].path)

Delete(p) == Free(p) /\ text[p] # NULL /\ Becomes(p, NULL) /\ UNCHANGED at

Rename(p, q) ==
  /\ Free(p) /\ Free(q) /\ text[p] # NULL
  /\ text' = [text EXCEPT ![q] = text[p], ![p] = NULL]
  /\ stored' = [stored EXCEPT ![q] = text[p], ![p] = NULL]
  /\ UNCHANGED at

Init ==
  /\ text = [p \in Paths |-> NULL]
  /\ stored = text
  /\ at = [s \in Streams |-> NULL]


Next ==
  \/ \E s \in Streams, p \in Paths, b \in BOOLEAN : Open(s, p, b)
  \/ \E p \in Paths : Touch(p) \/ Delete(p)
  \/ \E p, q \in Paths : p # q /\ Rename(p, q)
  \/ \E s \in Streams : Close(s)
  \/ \E s \in Streams, data \in UNION {Prefixes(t) : t \in Texts} : Write(s, data)
  \/ \E s \in Streams, data \in Texts \cup {<<>>} : Fail(s, data)
  \/ \E s \in Streams, n \in 0 .. MaxSize : Move(s, n)

Spec == Init /\ [][Next]_<<text, stored, at>>
===============================================================================
