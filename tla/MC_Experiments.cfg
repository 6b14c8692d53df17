SPECIFICATION Spec
CONSTANTS
  sizes <- MCSizes
  thread_nums <- MCThreadNums
  num_runs <- MCNumRuns
INVARIANTS TypeOK ThreadsInContext ExitTells
PROPERTY Progress
CHECK_DEADLOCK FALSE
