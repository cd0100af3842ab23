CONSTANTS
  Procs = {p1, p2, p3}
  NoProc = NoProc
SPECIFICATION LeaseSpec
SYMMETRY ProcSymmetry
INVARIANTS ExclusiveWhenSequential StaleLockTakenOver
\* Every process may be dead.
CHECK_DEADLOCK FALSE
