SPECIFICATION Spec
CONSTANTS
  SIZE_MOD = 512
  chunksize = 128
  MaxHeap = 144
  Sizes = {8, 24}
  ReallocSizes = {}
  CallocArgs <- NoCalls
  Fills = {49}
  MaxLive = 5
INVARIANTS
  FreeListsExact
