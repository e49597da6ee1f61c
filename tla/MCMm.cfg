SPECIFICATION Spec
CONSTANTS
  SIZE_MOD = 512
  chunksize = 48
  MaxHeap = 112
  Sizes = {0, 8, 20}
  ReallocSizes = {0, 8, 36}
  CallocArgs <- MCCallocArgs
  Fills = {32}
  MaxLive = 3
INVARIANTS
  TypeOK
  HeapChecks
  FreeListsExact
  BoundaryFlags
  ClientDataIntact
  AllocatedIsHeld
  FitIsFound
PROPERTY
  ImplementsBlocks
