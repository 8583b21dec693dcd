-------------------------------- MODULE Strings --------------------------------
(***************************************************************************)
(* PiString (lib/common/string.c): characters that are borrowed, or owned  *)
(* in a block of the process heap, with their count and hash.  Memory is a *)
(* sequence of bytes that ends in a NUL.  The host gives lengths up        *)
(* to the first NUL, and where it has copied a string that owns its        *)
(* characters it frees one of the two and lets the others go, as           *)
(* piStringCopy asks of it.  PiString structs are the host's own: those    *)
(* piStringCopy and piStringDup make when they are given none are left out.*)
(***************************************************************************)
EXTENDS CHeap, Sequences, SequencesExt

CONSTANTS
  Names,         \* the PiStrings of the host
  Texts,         \* what it writes, without NULs
  Hash(_),       \* FNV-1a: some function of the bytes
  ToLower,       \* tolower, as a function on characters
  NULL

NUL == 0

\* Where characters are, and what a PiString is: its hash is one of some text.
Chars == [where : {"heap"}, at : Addresses] \cup [where : {"static"}, text : Texts]
Hashes == {0} \cup UNION {{Hash(SubSeq(text, 1, n)) : n \in 0 .. Len(text)} : text \in Texts}
PiString == [chars : Chars \cup {NULL}, count : Nat, clear : BOOLEAN, hash : Hashes]

ASSUME StringsAssumption ==
  /\ DOMAIN ToLower \subseteq Int \ {NUL} /\ ToLower \in [DOMAIN ToLower -> Int]
  /\ Texts \subseteq Seq(DOMAIN ToLower)
  /\ NULL \notin Chars \cup PiString

VARIABLES
  str,           \* of each name: NULL, or chars, count, clear and hash
  bytes          \* what the live blocks of the strings hold

Blank == [chars |-> NULL, count |-> 0, clear |-> FALSE, hash |-> 0]

stringVars == <<str, bytes>>

Memory(chars) ==
  IF chars.where = "heap" THEN bytes[chars.at] ELSE Append(chars.text, NUL)

HasChars(s) == str[s] # NULL /\ str[s].chars # NULL
Content(s) == SubSeq(Memory(str[s].chars), 1, str[s].count)

\* Strings of the host that name the same block.
Sharing(s) == {x \in Names : HasChars(x) /\ str[x].clear /\ str[x].chars = str[s].chars}

Becomes(s, value) == str' = [str EXCEPT ![s] = value]

\* Characters elsewhere, of which the string is the first length ones.
InitStringWithLength(s, text, length) ==
  /\ str[s] = NULL
  /\ Becomes(s, [chars |-> [where |-> "static", text |-> text], count |-> length,
                 clear |-> FALSE, hash |-> Hash(SubSeq(text, 1, length))])
  /\ UNCHANGED <<live, bytes>>

InitString(s, text) == InitStringWithLength(s, text, Len(text))

\* A block of the host's, which the string frees from now on.
InitOwnedStringWithLength(s, text, length) ==
  /\ str[s] = NULL
  /\ Malloc
  /\ bytes' = [bytes EXCEPT ![Answered] = Append(text, NUL)]
  /\ Becomes(s, [chars |-> [where |-> "heap", at |-> Answered], count |-> length,
                 clear |-> TRUE, hash |-> Hash(SubSeq(text, 1, length))])

InitOwnedString(s, text) == InitOwnedStringWithLength(s, text, Len(text))

StringCopyTo(dest, s) ==
  /\ str[s] # NULL /\ str[dest] = NULL
  /\ Becomes(dest, str[s])
  /\ UNCHANGED <<live, bytes>>

\* strncpy of count + 1 bytes into zeroed memory: up to the first NUL.
DupMemory(memory, count) ==
  [i \in 1 .. count + 1 |->
     IF \E j \in 1 .. i : memory[j] = NUL THEN NUL ELSE memory[i]]

DupFlag == TRUE

StringDupTo(dest, s) ==
  /\ str[s] # NULL /\ str[dest] = NULL
  /\ IF HasChars(s)
       THEN /\ Malloc
            /\ bytes' = [bytes EXCEPT ![Answered] =
                 DupMemory(Memory(str[s].chars), str[s].count)]
            /\ Becomes(dest, [str[s] EXCEPT !.clear = DupFlag,
                              !.chars = [where |-> "heap", at |-> Answered]])
       ELSE Becomes(dest, [str[s] EXCEPT !.clear = DupFlag]) /\ UNCHANGED <<live, bytes>>

FreeString(s) ==
  /\ str[s] # NULL
  /\ HasChars(s) /\ str[s].clear => Sharing(s) = {s}
  /\ IF HasChars(s) /\ str[s].clear
       THEN /\ Free({str[s].chars.at})
            /\ bytes' = [bytes EXCEPT ![str[s].chars.at] = <<>>]
       ELSE UNCHANGED <<live, bytes>>
  /\ Becomes(s, Blank)

\* The host's PiString goes: it owns nothing, or another one owns it too.
Forget(s) ==
  /\ str[s] # NULL
  /\ HasChars(s) /\ str[s].clear => Sharing(s) # {s}
  /\ Becomes(s, NULL)
  /\ UNCHANGED <<live, bytes>>

StringsInit == str = [s \in Names |-> NULL] /\ bytes = [a \in Addresses |-> <<>>]

StringsNext ==
  \/ \E s \in Names, text \in Texts : InitString(s, text) \/ InitOwnedString(s, text)
  \/ \E s \in Names, text \in Texts : \E n \in 0 .. Len(text) :
       InitStringWithLength(s, text, n) \/ InitOwnedStringWithLength(s, text, n)
  \/ \E s, dest \in Names : StringCopyTo(dest, s) \/ StringDupTo(dest, s)
  \/ \E s \in Names : FreeString(s) \/ Forget(s)

-------------------------------------------------------------------------------
(* Comparison.                                                                *)

\* mutant: equal hashes and counts are taken for equal strings
SameBytesUnseen(x, y) == Len(x) = Len(y)

SameBytes(x, y) == \A i \in DOMAIN x : x[i] = y[i]

StringEquals(a, b) ==
  /\ str[a].hash = str[b].hash
  /\ str[a].count = str[b].count
  /\ SameBytes(Content(a), Content(b))

StringEqualsIgnoreCase(a, b) ==
  /\ str[a].count = str[b].count
  /\ \A i \in 1 .. str[a].count : ToLower[Content(a)[i]] = ToLower[Content(b)[i]]

Sign(n) == IF n < 0 THEN -1 ELSE IF n > 0 THEN 1 ELSE 0

\* The sign of the answer: of the first difference, or else of the lengths.
CompareBytes(x, y) ==
  LET differ == {i \in 1 .. Min({Len(x), Len(y)}) : x[i] # y[i]}
  IN  IF differ # {} THEN Sign(x[Min(differ)] - y[Min(differ)])
                     ELSE Sign(Len(x) - Len(y))

Lowered(x) == [i \in DOMAIN x |-> ToLower[x[i]]]

StringCompare(a, b) == CompareBytes(Content(a), Content(b))
StringCompareIgnoreCase(a, b) == CompareBytes(Lowered(Content(a)), Lowered(Content(b)))

\* However two strings came to be, borrowed, owned, sliced, copied or duplicated,
\* the test by stored hashes finds them equal exactly if their characters are, the
\* order agrees with it, with and without case, and is one order from both sides.
ComparisonsAgree ==
  \A a, b \in {s \in Names : HasChars(s)} :
    /\ StringEquals(a, b) <=> Content(a) = Content(b)
    /\ StringEquals(a, b) <=> StringCompare(a, b) = 0
    /\ StringEqualsIgnoreCase(a, b) <=> StringCompareIgnoreCase(a, b) = 0
    /\ StringCompare(a, b) = -StringCompare(b, a)
===============================================================================
