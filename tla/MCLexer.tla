-------------------------------- MODULE MCLexer --------------------------------
(* Texts for Lexer: every short one over a character of each kind, and longer  *)
(* ones over the characters that belong together.                              *)
EXTENDS Lexer

MCAny == {" ", "\n", NUL, "0", "1", "x", "v", "a", "$", "<", "=", "-", ".", "/", "*", "[", "}", "!", "'"}

MCCharacters == MCAny \cup {"r", "B", ">"}

MCTexts ==
  BoundedSeq(MCAny, 2)
    \cup BoundedSeq({"/", "*", "\n"}, 6)
    \cup BoundedSeq({"v", "a", "r", " "}, 4)
    \cup BoundedSeq({"0", "x", "B", "1"}, 4)
    \cup BoundedSeq({"<", "=", ">", "."}, 4)

MCInputs ==
  BoundedSeq({"/", "*", "\n", "a"}, 4) \cup BoundedSeq({"0", "a", " ", NUL, "\n"}, 4)
===============================================================================
