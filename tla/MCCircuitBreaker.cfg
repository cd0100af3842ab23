CONSTANTS
  c1 = c1  c2 = c2  c3 = c3
  e1 = e1  e2 = e2
  NoErr = NoErr
  Codes <- MCCodes
  Errs <- MCErrs
  FREEZE_CODE_HASH_THRESHOLD = 2
  FREEZE_ERROR_SIG_THRESHOLD = 2
  HARD_STOP_FREEZE_CYCLES = 2
SPECIFICATION BreakerSpec
SYMMETRY MCSymmetry
INVARIANTS FreezesExactlyTheLoops
