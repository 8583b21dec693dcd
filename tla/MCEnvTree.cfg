\* A host that frees single children with their parent; memory can run out, and
\* capabilities and limits change under way.
SPECIFICATION Spec
CONSTANTS
  e1 = e1
  e2 = e2
  e3 = e3
  NULL = NULL
  spawn = spawn
  io = io
  Envs = {e1, e2, e3}
  Caps = {spawn, io}
  Spawn = spawn
  Limits = {0, 1}
  HeapSizes = {0, 1}
  InitialChildCap = 1
  MemoryMayFail = TRUE
  NarrowFrees = TRUE
  MaxChildren = 2
  MaxChanges = 2
INVARIANTS FamilyConsistent FramesSound NoEscalation
PROPERTIES FreeEnvIsComplete FreeReturns
