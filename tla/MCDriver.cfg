SPECIFICATION FairSpec
CONSTANTS
  num_tracefiles = 3
  kbest = 3
  maxsamples = 4
  min_reps = 1
  min_time = 3
  RepTimes = {1, 2}
  Times = {100, 101, 103}
INVARIANTS
  TypeOK
  CleanRun
  VerdictExact
  KBest
PROPERTY
  Termination
CHECK_DEADLOCK FALSE
