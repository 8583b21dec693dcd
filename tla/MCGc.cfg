\* A host that roots what it holds; the handlers raise, as both shipped ones do.
SPECIFICATION Spec
CONSTANTS
  o1 = o1
  o2 = o2
  r1 = r1
  r2 = r2
  NULL = NULL
  Objects = {o1, o2}
  RootVars = {r1, r2}
  Sizes = {2, 5}
  SizeModulus = 4
  MaxRefCount = 3
  InitialThreshold = 2
  GrowthFactor = 2
  InitialRootCap = 1
  HeapCapacity = 5
  MemRaises = TRUE
  HostRootsHeld = TRUE
  MaxHeld = 2
  MaxAllocs = 3
  MaxCollections = 1
  MaxStack = 1
  MaxRoots = 2
  MaxErrors = 1
SYMMETRY Symmetry
INVARIANTS TypeOK RootsAreLive OwnedStaysAllocated CountCoversOwners BooksExact
PROPERTIES CollectIsExact FreedBySweepOrLastOwner
