\* A host that does not root what it owns before it allocates again.
SPECIFICATION Spec
CONSTANTS
  o1 = o1
  o2 = o2
  r1 = r1
  NULL = NULL
  Objects = {o1, o2}
  RootVars = {r1}
  Sizes = {1, 2}
  SizeModulus = 4
  MaxRefCount = 3
  InitialThreshold = 2
  GrowthFactor = 2
  InitialRootCap = 1
  HeapCapacity = 3
  MemRaises = TRUE
  HostRootsHeld = FALSE
  MaxHeld = 2
  MaxAllocs = 3
  MaxCollections = 2
  MaxStack = 1
  MaxRoots = 1
  MaxErrors = 1
SYMMETRY Symmetry
PROPERTIES AllocKeepsOwned
