SPECIFICATION Spec
CONSTANTS
  MaxHeap = 6
  SPARSE_PAGE_SIZE = 2
  num_pages = 2
  num_buckets = 2
  mem_pagesize = 2
  WordSize = 2
  Bytes = {0, 1, 2}
  Incrs <- MCIncrs
  Values <- MCValues
  CopySizes = {3}
  MaxInits = 2
INVARIANTS
  TypeOK
  PagesSound
  ReadsBack
  BreakIsAccessible
CHECK_DEADLOCK FALSE
