SPECIFICATION Spec
CONSTANTS
  SIZE_MOD = 256
  UINT_MOD = 4
  Lines <- MCLines
  NumIds = {0, 1, 2}
  NumOps = {0, 1, 2, 3}
  MaxHeap = 128
  maxfill = 2
INVARIANTS
  TypeOK
  CorrectIsValid
  GarblingExact
  UtilizationSound
PROPERTY
  ImplementsContract
CHECK_DEADLOCK FALSE
