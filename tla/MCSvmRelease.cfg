\* Divisions in a release build.
SPECIFICATION SvmSpec
CONSTANTS
  Modulus = 4
  CharModulus = 2
  Debug = FALSE
  Instructions <- Typed
  Careless = {}
  Careful <- Typed
  MaxInstructions = 4
  IndexModulus = 256
  InlineCap = 1
  ArrayCap = 2
  CodeCap = 2
  CodeGrowth = 2
  MaxLines = 0
  MaxErrors = 0
CHECK_DEADLOCK FALSE
PROPERTIES QuotientKeepsType
