\* Proportions of the code (header 2 and minimum 2 alignment units), scaled down.
CONSTANTS
  HeapSize = 40
  Align = 2
  MinBlock = 4
  HeaderSize = 4
  WordSize = 128
  Requests <- SmallRequests
  NULL = NULL

SPECIFICATION Spec

INVARIANT HeapIsSound

PROPERTY ImplementsAllocator
