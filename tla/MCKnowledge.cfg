SPECIFICATION Spec
CONSTANTS
  t1 = t1
  t2 = t2
  e1 = e1
  e2 = e2
  Tasks <- MCTasks
  Sigs <- MCSigs
  Worker = Worker
  Cli = Cli
  Passed = Passed
  None = None
  MaxAttempts = 2
  MaxReruns = 1
  MaxFaults = 1
INVARIANTS GuidanceIsForLastError KnownFixesFixed
PROPERTIES LessonsStay
SYMMETRY Symmetry
CHECK_DEADLOCK FALSE
