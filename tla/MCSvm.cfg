\* A debug build: programs that may underflow, with line records and errors of the
\* host, and operators on values of every type.  The process may die.
SPECIFICATION SvmSpec
CONSTANTS
  Modulus = 4
  CharModulus = 2
  Debug = TRUE
  Instructions <- MixedAndTyped
  Careless <- Mixed
  Careful <- Typed
  MaxInstructions = 4
  IndexModulus = 256
  InlineCap = 1
  ArrayCap = 2
  CodeCap = 2
  CodeGrowth = 2
  MaxLines = 1
  MaxErrors = 1
CHECK_DEADLOCK FALSE
INVARIANTS InBounds LinesExact StackRegistered
PROPERTIES ImplementsProgram QuotientKeepsType RunsEnd
