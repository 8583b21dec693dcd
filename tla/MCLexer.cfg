\* Every short text, file and typed input, on a page of four characters.
SPECIFICATION LexerSpec
CONSTANTS
  Texts <- MCTexts
  Inputs <- MCInputs
  Character <- MCCharacters
  Page = 4
  MaxReadLines = 3
  MaxRetreats = 1
\* a closed source, and a scan that left its buffer, go no further
CHECK_DEADLOCK FALSE
INVARIANTS LexemeExact TokensClassified
PROPERTIES ScanEnds
