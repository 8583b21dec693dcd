--------------------------------- MODULE Lexer ---------------------------------
(***************************************************************************)
(* The lexical analyser (lib/compiler/lexer.c): piScanToken one            *)
(* piSourceRead a step, over the streams of Source, called as the prompt   *)
(* in src/pi/pi.c calls it.  A token code is the text that token.inc gives *)
(* a bracket or a punctuator, and a name of its own otherwise.             *)
(***************************************************************************)
EXTENDS Source, FiniteSets

CONSTANTS
  Texts, Inputs,            \* bounds: what texts and files hold, and what is typed
  MaxReadLines, MaxRetreats     \* bounds of the model

ASSUME LexerAssumption == Texts \cup Inputs \subseteq Seq(Character)

VARIABLES
  source,
  mode,         \* where the scanner stands: "prompt", "host", "lost", "closed" outside a call
  radix,
  counter,      \* block comments open
  token,        \* *outToken, its text a place in the buffer
  made,         \* history: the last call set the token
  text,         \* history: what the stream was given so far
  origin,       \* history: where in text a REPL's line starts
  dropped,      \* history: the prompt left a line before its end
  readLines, retreats       \* history: calls, for the bounds

historyVars == <<text, origin, dropped, readLines, retreats>>
lexerVars == <<source, mode, radix, counter, token, made, historyVars>>

ENDOF == <<"ENDOF">>
IDENT == <<"IDENT">>
KWORD_VAR == <<"KWORD_VAR">>
LITER_INT == <<"LITER_INT">>
COMMENT == <<"COMMENT">>
INVAL == <<"INVAL">>
UNDEFINED == <<"?undefined">>       \* a local nothing has set

-------------------------------------------------------------------------------
(* Characters: one or more of each class the scanner tells apart.             *)

Digit == {"0", "1", "2", "7", "8", "9"}
Letter == {"a", "b", "c", "d", "r", "t", "v", "x", "z", "A", "B", "X"}
Space == {" ", "\n"}
IdentStart == Letter \cup {"_", "$"}
Ident == Letter \cup Digit \cup {"_"}
DigitOf == [r \in {2, 8, 10, 16} |->
              {"_"} \cup CASE r = 2  -> {"0", "1"}
                           [] r = 8  -> Digit \ {"8", "9"}
                           [] r = 10 -> Digit
                           [] r = 16 -> Digit \cup (Letter \ {"r", "t", "v", "x", "z", "X"})]
RadixOf(c) == CASE c \in {"b", "B"} -> 2
                [] c = "c" -> 8
                [] c = "d" -> 10
                [] c \in {"x", "X"} -> 16
                [] OTHER -> 0

\* piGetKeyword compares as many characters as the lexeme has: a prefix matches.
IsKeyword(lexeme) == Len(lexeme) > 1 /\ IsPrefix(lexeme, <<"v", "a", "r">>)

\* pi_ScanPunctuator: the characters that may follow, in a lexeme of one and of two.
Second == [c \in {"~", "!", "?", "&", "|", "^", "=", "<", ">", "+", "-", "*", "/", "%",
                  ".", ":", ";", "#"} |->
  CASE c \in {"~", "^", "%"} -> {"="}
    [] c \in {"!", "&", "|", "+", "*", ":"} -> {"=", c}
    [] c = "?" -> {"=", "?", "."}
    [] c = "=" -> {"=", ">"}
    [] c = "<" -> {"=", "<", "-"}
    [] c = ">" -> {"=", ">"}
    [] c = "-" -> {"=", "-", ">"}
    [] c = "/" -> {"=", "/", "*"}
    [] c \in {".", ";", "#"} -> {c}]

\* mutant: a third character is never looked for
ContinuesTwo(lexeme) ==
  IF Len(lexeme) = 1 /\ lexeme[1] \in DOMAIN Second THEN Second[lexeme[1]] ELSE {}

Continues(lexeme) ==
  CASE Len(lexeme) = 1 /\ lexeme[1] \in DOMAIN Second -> Second[lexeme[1]]
    [] lexeme \in {<<"<", "<">>, <<">", ">">>} -> {"="}
    [] lexeme = <<".", ".">> -> {"."}
    [] OTHER -> {}

\* All three kinds of bracket get the codes of the round ones.
PunctuatorCode(lexeme) ==
  CASE lexeme \in {<<"[">>, <<"{">>} -> <<"(">>
    [] lexeme \in {<<"]">>, <<"}">>} -> <<")">>
    [] Len(lexeme) = 1 /\ lexeme[1] \notin DOMAIN Second \cup {"(", ")", "[", "]", "{", "}", ",", "@"}
         -> INVAL
    [] OTHER -> lexeme

-------------------------------------------------------------------------------
(* One call of piScanToken.                                                   *)

NoToken == [code |-> UNDEFINED, offset |-> 0, length |-> 0, line |-> 0, column |-> 0, radix |-> 0]

\* pi_MakeNumericToken.
MakeToken(code, s, base) ==
  [code |-> code, offset |-> s.current.offset, length |-> LexemeLength(s),
   line |-> s.current.line, column |-> s.current.column, radix |-> base]

Peek == SourcePeek(source)
Got == SourceRead(source).c
AfterRead == SourceRead(source).source

Scanning == mode \notin {"prompt", "host", "lost", "closed"}
Reading == Scanning /\ ~Overruns(source)

Continue(m) == mode' = m /\ UNCHANGED <<token, made>>
FinishToken(code, s, base) == mode' = "host" /\ token' = MakeToken(code, s, base) /\ made' = TRUE

\* A return without a token: *outToken stays, and the result is not even set when
\* no radix follows the zero.
FinishWithout == mode' = "host" /\ made' = FALSE /\ UNCHANGED token

SkipSpace ==
  /\ mode = "space" /\ Peek \in Space
  /\ source' = AfterRead
  /\ Continue("space")
  /\ UNCHANGED <<radix, counter, historyVars>>

\* piSourceAdvance, the choice of the token class, and the first read of it.
StartLexeme ==
  /\ mode = "space" /\ Peek \notin Space
  /\ LET s == SourceAdvance(source)
     IN  IF Peek = EOF
         THEN source' = s /\ FinishToken(ENDOF, s, 0) /\ UNCHANGED radix
         ELSE /\ source' = SourceRead(s).source
              /\ radix' = 10
              /\ Continue(CASE Peek = "0" -> "zero"
                            [] Peek \in Digit \ {"0"} -> "digits"
                            [] Peek \in IdentStart -> "ident"
                            [] OTHER -> "punct")
  /\ UNCHANGED <<counter, historyVars>>

\* pi_ScanNumericLiteral reads what follows a zero before it knows what it is.
ReadRadix ==
  /\ mode = "zero" /\ Reading
  /\ source' = AfterRead
  /\ radix' = RadixOf(Got)
  /\ IF radix' # 0 /\ SourcePeek(source') \in DigitOf[radix'] THEN Continue("digits")
                                                              ELSE FinishWithout
  /\ UNCHANGED <<counter, historyVars>>

\* pi_ScanNumericLiteralWithRadix and pi_ScanIdentifierOrKeyword.
ScanWord ==
  /\ mode \in {"digits", "ident"}
  /\ IF Peek \in (IF mode = "digits" THEN DigitOf[radix] ELSE Ident)
     THEN source' = AfterRead /\ Continue(mode)
     ELSE /\ UNCHANGED source
          /\ IF mode = "digits" THEN FinishToken(LITER_INT, source, radix)
             ELSE FinishToken(IF IsKeyword(RawLexeme(source)) THEN KWORD_VAR ELSE IDENT, source, 0)
  /\ UNCHANGED <<radix, counter, historyVars>>

ScanPunctuator ==
  /\ mode = "punct"
  /\ LET lexeme == RawLexeme(source)
     IN  IF Peek \in Continues(lexeme)
         THEN /\ source' = AfterRead
              /\ Continue(CASE lexeme = <<"/">> /\ Peek = "/" -> "line"
                            [] lexeme = <<"/">> /\ Peek = "*" -> "block"
                            [] OTHER -> "punct")
              /\ counter' = 1
         ELSE FinishToken(PunctuatorCode(lexeme), source, 0) /\ UNCHANGED <<source, counter>>
  /\ UNCHANGED <<radix, historyVars>>

EndsLineNewlineOnly(c) == c = "\n"          \* mutant: the end of the source does not end it
EndsLine(c) == c \in {"\n", EOF}

ScanSingleLineComment ==
  /\ mode = "line" /\ Reading
  /\ source' = AfterRead
  /\ IF EndsLine(Got) THEN FinishToken(COMMENT, source', 0) ELSE Continue("line")
  /\ UNCHANGED <<radix, counter, historyVars>>

\* pi_ScanMultiLineComment reads a character, and where it is half of a delimiter
\* peeks for the other half, which it does not find behind the end of the buffer.
ScanMultiLineComment ==
  /\ mode = "block" /\ Reading
  /\ source' = AfterRead
  /\ CASE Got = EOF -> FinishToken(COMMENT, source', 0)
       [] Got = "*" -> Continue("star")
       [] Got = "/" -> Continue("slash")
       [] OTHER     -> Continue("block")
  /\ UNCHANGED <<radix, counter, historyVars>>

MatchDelimiter ==
  /\ mode \in {"star", "slash"}
  /\ IF Peek = (IF mode = "star" THEN "/" ELSE "*")
     THEN source' = AfterRead /\ counter' = counter + (IF mode = "star" THEN -1 ELSE 1)
     ELSE UNCHANGED <<source, counter>>
  /\ IF counter' = 0 THEN FinishToken(COMMENT, source', 0) ELSE Continue("block")
  /\ UNCHANGED <<radix, historyVars>>

\* Reads behind the buffer: the model stops.
Overrun ==
  /\ mode \in {"zero", "line", "block"} /\ Overruns(source)
  /\ mode' = "lost"
  /\ UNCHANGED <<source, radix, counter, token, made, historyVars>>

-------------------------------------------------------------------------------
(* The host: pi_Repl, or a program that scans a text or a file.               *)

ScanToken ==
  /\ mode = "host" /\ (source.kind = "repl" => token.code # ENDOF)
  /\ mode' = "space" /\ made' = FALSE
  /\ UNCHANGED <<source, radix, counter, token, historyVars>>

\* The driver tests token.code and not the result, also when the call set nothing:
\* token is a local that each line leaves uninitialised.
LineDone == mode = "prompt" \/ (mode = "host" /\ token.code \in {ENDOF, UNDEFINED})

\* The result is a size_t, so the driver's test for a negative one never ends the
\* loop; it goes on to scan the line.
ReplReadLine ==
  /\ source.kind = "repl" /\ LineDone /\ readLines < MaxReadLines
  /\ source' = ReadLine(source)
  /\ text' = text \o LineOf(source.unread) \o <<"\n">>
  /\ origin' = Len(text)
  /\ dropped' = (dropped \/ (mode = "host" /\ Peek # EOF))
  /\ readLines' = readLines + 1
  /\ mode' = "space" /\ token' = NoToken /\ made' = FALSE
  /\ UNCHANGED <<radix, counter, retreats>>

\* piSourceRetreat, to scan the last lexeme again.
Retreat ==
  /\ mode = "host" /\ source.kind # "repl" /\ retreats < MaxRetreats
  /\ source' = SourceRetreat(source)
  /\ retreats' = retreats + 1
  /\ made' = FALSE
  /\ UNCHANGED <<mode, radix, counter, token, text, origin, dropped, readLines>>

\* What comes of closing a stream nobody set C does not say: it was NULL, or the
\* model stops.
Close ==
  /\ mode = "host" /\ (source.kind = "repl" => LineDone)
  /\ \/ source' = CloseSource(source) /\ mode' = "closed"
     \/ StreamUnset(source) /\ mode' = "lost" /\ UNCHANGED source
  /\ made' = FALSE
  /\ UNCHANGED <<radix, counter, token, historyVars>>

Opened(s, given) == source = s /\ text = given /\ mode = (IF s.kind = "repl" THEN "prompt" ELSE "host")

LexerInit ==
  /\ \/ \E t \in Texts : NUL \notin ToSet(t) /\ Opened(OpenSourceText(t), t)
     \/ \E t \in Texts : Opened(OpenSourceFile(t), t)
     \/ \E t \in Inputs : Opened(OpenReplStream(t), <<>>)
  /\ radix = 0 /\ counter = 0 /\ token = NoToken /\ made = FALSE
  /\ origin = 0 /\ dropped = FALSE /\ readLines = 0 /\ retreats = 0

ScanStep ==
  \/ SkipSpace \/ StartLexeme \/ ReadRadix \/ ScanWord \/ ScanPunctuator
  \/ ScanSingleLineComment \/ ScanMultiLineComment \/ MatchDelimiter \/ Overrun

LexerNext ==
  \/ SkipSpace \/ StartLexeme \/ ReadRadix \/ ScanWord \/ ScanPunctuator
  \/ ScanSingleLineComment \/ ScanMultiLineComment \/ MatchDelimiter \/ Overrun
  \/ ScanToken \/ ReplReadLine \/ Retreat \/ Close

\* A call of piScanToken in progress keeps executing.
LexerSpec == LexerInit /\ [][LexerNext]_lexerVars /\ WF_lexerVars(ScanStep)

-------------------------------------------------------------------------------
(* Properties.                                                                *)

\* Types of the scanner's state.
TypeOK ==
  /\ mode \in {"prompt", "host", "lost", "closed", "space", "zero", "digits", "ident", "punct",
              "line", "block", "star", "slash"}
  /\ radix \in {0, 2, 8, 10, 16} /\ counter \in Nat /\ made \in BOOLEAN
  /\ source.current.offset <= source.forward.offset
  /\ source.forward.offset <= BufferSize(source)
  /\ token.offset \in Nat /\ token.length \in Nat

\* The last call made a token; no refill has come back short before, and the
\* prompt has not left a line because a stray zero left its token undefined.
Exact == made /\ ~source.stale /\ ~dropped

Origin == IF source.kind = "file" THEN source.delta ELSE origin
Start == Origin + token.offset
Lexeme == SubSeq(text, Start + 1, Start + token.length)

\* The character behind the lexeme.
Following ==
  LET k == Start + token.length + 1 IN IF k > Len(text) THEN EOF ELSE text[k]

Newlines(n) == {k \in 1..n : text[k] = "\n"}

\* token.text and token.length delimit the token in the stream, and token.line and
\* token.column are where a reader of the text finds it, across refills of a
\* file's buffer, lines typed one after the other, and rescans.
LexemeExact ==
  Exact =>
    /\ SubSeq(source.buffer, token.offset + 1, token.offset + token.length) = Lexeme
    /\ token.line = 1 + Cardinality(Newlines(Start))
    /\ \E bol \in Newlines(Start) \cup {0} :
         /\ \A k \in Newlines(Start) : k <= bol
         /\ token.column = Start - bol + 1

\* The texts of token.inc.
PunctuatorTexts ==
  LET one == {<<c>> : c \in {"~", "!", "?", "&", "|", "^", "=", "<", ">", "+", "-", "*", "/", "%",
                            ".", ":", ";", ",", "#", "@", "(", ")", "[", "]", "{", "}"}}
      withEqual == {<<c, "=">> : c \in {"~", "!", "?", "&", "|", "^", "=", "<", ">", "+", "-", "*",
                                       "/", "%", ":"}}
      doubled == {<<c, c>> : c \in {"!", "?", "&", "|", "<", ">", "+", "-", "*", ".", ":", ";", "#"}}
  IN  one \cup withEqual \cup doubled
        \cup {<<"?", ".">>, <<"=", ">">>, <<"<", "-">>, <<"-", ">">>,
              <<"<", "<", "=">>, <<">", ">", "=">>, <<".", ".", ".">>}

AllIn(s, set) == ToSet(s) \subseteq set

EndsComment(lexeme, following) ==
  IF lexeme[2] = "/"
  THEN "\n" \notin ToSet(Front(lexeme)) /\ (Last(lexeme) = "\n" \/ following = EOF)
  ELSE following = EOF \/ (Len(lexeme) >= 4 /\ IsSuffix(<<"*", "/">>, lexeme))

\* What a token of a code says of its lexeme and of the character behind it: a word,
\* a literal or a punctuator never stops short of a character that would extend it,
\* a comment never before its end, and the end of the source is where nothing follows.
Classified(code, base, lexeme, following) ==
  CASE code = ENDOF -> lexeme = <<>> /\ following = EOF
    [] code \in {IDENT, KWORD_VAR} ->
         /\ lexeme[1] \in IdentStart /\ AllIn(Tail(lexeme), Ident) /\ following \notin Ident
         /\ code = KWORD_VAR <=> lexeme = <<"v", "a", "r">>
    [] code = LITER_INT ->
         /\ lexeme[1] \in Digit /\ following \notin DigitOf[base]
         /\ \/ base = 10 /\ lexeme[1] # "0" /\ AllIn(lexeme, DigitOf[10])
            \/ /\ lexeme[1] = "0" /\ Len(lexeme) > 2 /\ RadixOf(lexeme[2]) = base
               /\ AllIn(SubSeq(lexeme, 3, Len(lexeme)), DigitOf[base])
    [] code = COMMENT -> Len(lexeme) >= 2 /\ EndsComment(lexeme, following)
    [] code = INVAL -> Len(lexeme) = 1 /\ lexeme \notin PunctuatorTexts
    [] OTHER -> /\ lexeme = code /\ code \in PunctuatorTexts
                /\ Append(lexeme, following) \notin
                     PunctuatorTexts \cup {<<"/", "/">>, <<"/", "*">>}

\* token.inc:43-47 gives square and curly brackets codes of their own; lexer.c:311-322
\* answers the codes of the round ones.
BracketConfused(code, lexeme) ==
  \/ lexeme \in {<<"[">>, <<"{">>} /\ code = <<"(">>
  \/ lexeme \in {<<"]">>, <<"}">>} /\ code = <<")">>

\* lexer.c:106 compares no more than the lexeme has: `va' is the keyword.
KeywordPrefix(code, lexeme, following) ==
  lexeme = <<"v", "a">> /\ code = KWORD_VAR /\ following \notin Ident

Answered(code, base, lexeme, following) ==
  \/ Classified(code, base, lexeme, following)
  \/ BracketConfused(code, lexeme)
  \/ KeywordPrefix(code, lexeme, following)

\* source.h:241 has a negative character typically mean the end of the source;
\* piSourcePeek also answers it where a page ends and the file goes on, and at a NUL
\* in a file.
PageEnds ==
  /\ source.kind = "file" /\ Following # EOF
  /\ Start + token.length >= source.delta + BufferSize(source)
NulFollows == Following = NUL

\* Every token is of the class token.inc gives its text, and as long as that class
\* allows, but for two confusions of codes; at a page's end inside the file, and at
\* a NUL, it is what it would be if the source ended there.
TokensClassified ==
  Exact => Answered(token.code, token.radix, Lexeme,
                    IF PageEnds \/ NulFollows THEN EOF ELSE Following)

\* Every call of the scanner returns, on unterminated comments, stray zeros and
\* empty texts too, unless a file's lexeme outgrows the buffer.
ScanEnds == Scanning ~> ~Scanning
===============================================================================
