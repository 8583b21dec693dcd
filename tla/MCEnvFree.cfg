\* A host that frees a parent of two children and lets piFreeEnv free them.
SPECIFICATION Spec
CONSTANTS
  e1 = e1
  e2 = e2
  e3 = e3
  NULL = NULL
  spawn = spawn
  io = io
  Envs = {e1, e2, e3}
  Caps = {spawn}
  Spawn = spawn
  Limits = {0}
  HeapSizes = {1}
  InitialChildCap = 1
  MemoryMayFail = FALSE
  NarrowFrees = FALSE
  MaxChildren = 2
  MaxChanges = 2
SYMMETRY Symmetry
PROPERTIES FreeEnvIsComplete
