SPECIFICATION Spec
CONSTANTS
  num_tracefiles = 2
  kbest = 3
  maxsamples = 4
  min_reps = 1
  min_time = 3
  RepTimes = {1, 2}
  Times = {100, 101, 103}
PROPERTY TimeoutStops
CHECK_DEADLOCK FALSE
