\* Three objects, so that a sweep and a release unlink at the head, in the middle and
\* at the end, rooted by the stack; handlers that answer NULL, as piGcAlloc expects; one
\* size that fails while a root is kept.
SPECIFICATION ListSpec
CONSTANTS
  o1 = o1
  o2 = o2
  o3 = o3
  NULL = NULL
  Objects = {o1, o2, o3}
  RootVars = {}
  Sizes = {1, 3}
  SizeModulus = 2
  MaxRefCount = 2
  InitialThreshold = 2
  GrowthFactor = 2
  InitialRootCap = 1
  HeapCapacity = 3
  MemRaises = FALSE
  HostRootsHeld = TRUE
  MaxHeld = 1
  MaxAllocs = 3
  MaxCollections = 2
  MaxStack = 1
  MaxRoots = 1
  MaxErrors = 1
INVARIANTS ListIsExact
PROPERTIES ImplementsGc EmergencyGcBeforeError CallsReturn
