SPECIFICATION Spec
CONSTANTS
  SIZE_MOD = 512
  chunksize = 48
  MaxHeap = 112
  Sizes = {8, 500, 508}
  ReallocSizes = {}
  CallocArgs <- NoCalls
  Fills = {32}
  MaxLive = 3
INVARIANTS
  AtLeastSize
