SPECIFICATION Spec
CONSTANTS
  HeapSize = 12
  ALIGNMENT = 2
  RangeSizes = {1, 2, 5}
  MaxBlocks = 4
INVARIANTS
  TypeOK
  TrackedAreBlocks
  LinksSound
  NoFalseAlarm
