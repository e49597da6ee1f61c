SPECIFICATION Spec
CONSTANTS
  SIZE_MOD = 512
  chunksize = 64
  MaxHeap = 208
  Sizes = {0, 8, 20}
  ReallocSizes = {0, 8, 40}
  CallocArgs <- MCCallocArgs
  MaxLive = 5
INVARIANTS
  TypeOK
  Tiled
  Flags
  Coalesced
  Listed
  LiveIsUsed
  NoOverlap
  FitIsFound
PROPERTY
  ImplementsContract
