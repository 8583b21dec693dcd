\* One stream and two files of up to two bytes, in both builds.  The host stops
\* when errors have left every file open that the model has.
CHECK_DEADLOCK FALSE
SPECIFICATION Spec
CONSTANTS
  p1 = p1
  p2 = p2
  s1 = s1
  a = a
  nl = nl
  Gap = gap
  NULL = NULL
  Newline = nl
  Builds = {"posix", "windows"}
  Paths = {p1, p2}
  Streams = {s1}
  FlagSets <- Modes
  Texts <- OneText
  LineSizes = {1, 2, 3}
  Offsets <- Back
  BufferSize = 2
  MaxHandles = 2
  DiskMayFill = TRUE
  OutOfMemory = {"jump", "null"}
  MaxSize = 2
INVARIANTS HandlesAccounted CallsExact EofMeansEnd
PROPERTIES CallsEnd ImplementsFiles
