CONSTANTS
  p1 = p1  h1 = h1  t1 = t1  t2 = t2  t3 = t3
  c1 = c1  e1 = e1  silent = silent
  NoErr = NoErr
  VerifyFailed = silent
  NoTask = NoTask
  Procs <- OneProc
  Threads <- OneThread
  Tasks <- OneTask
  Codes <- OneCode
  Errs <- TwoErrs
  Priorities = {0}
  FREEZE_CODE_HASH_THRESHOLD = 3
  FREEZE_ERROR_SIG_THRESHOLD = 2
  HARD_STOP_FREEZE_CYCLES = 2
  MAX_TOTAL_ATTEMPTS = 3
  SESSION_MAX_TASKS = 0
  MaxCrashes = 1
  MaxRetries = 1
SPECIFICATION Spec
INVARIANTS CancelBoundsWork ReplayFaithful AttemptCeiling SuccessIsEarned
PROPERTY RefinesLifecycle
CHECK_DEADLOCK FALSE
