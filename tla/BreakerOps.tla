------------------------------ MODULE BreakerOps ------------------------------
(***************************************************************************)
(* The value of one job_runner/circuit_breaker.py CircuitBreaker object and *)
(* what record_attempt does to it, as operators: the breaker itself         *)
(* (CircuitBreaker) and the worker that drives it (Scheduler) share them.   *)
(*                                                                         *)
(* A code is the class of all texts with the same normalize_ast_hash; an   *)
(* error is the class of all texts with the same normalize_error_signature; *)
(* NoErr is Python's None, no error recorded.                               *)
(***************************************************************************)
EXTENDS Integers

CONSTANTS Codes, Errs, NoErr,
          FREEZE_CODE_HASH_THRESHOLD,
          FREEZE_ERROR_SIG_THRESHOLD,
          HARD_STOP_FREEZE_CYCLES

ASSUME BreakerAssumption ==
  /\ NoErr \notin Errs
  /\ FREEZE_CODE_HASH_THRESHOLD \in Nat \ {0, 1}
  /\ FREEZE_ERROR_SIG_THRESHOLD \in Nat \ {0, 1}
  /\ HARD_STOP_FREEZE_CYCLES \in Nat \ {0}

Active   == "active"
Frozen   == "frozen"
HardStop == "needs_human_review"

Statuses == {Active, Frozen, HardStop}
Reasons  == {"none", "code_hash", "error_signature", "hard_stop"}

Breakers ==
  [status : Statuses, freeze_cycles : Nat, last_freeze_reason : Reasons,
   counts : [Codes -> Nat], last_err_sig : Errs \cup {NoErr}, err_sig_run : Nat]

NewBreaker ==
  [status |-> Active, freeze_cycles |-> 0, last_freeze_reason |-> "none",
   counts |-> [c \in Codes |-> 0], last_err_sig |-> NoErr, err_sig_run |-> 0]

\* The per-cycle counters restart, the freeze cycles do not.
Freeze(b, trigger) ==
  LET cycles == b.freeze_cycles + 1
      hard   == cycles >= HARD_STOP_FREEZE_CYCLES
  IN  [NewBreaker EXCEPT
         !.freeze_cycles      = cycles,
         !.status             = IF hard THEN HardStop ELSE Frozen,
         !.last_freeze_reason = IF hard THEN "hard_stop" ELSE trigger]

CodeSeen(b, code) == [b EXCEPT !.counts[code] = @ + 1]

\* Mutant of ErrSeen: a new error does not restart the run.
ErrSeenNoRestart(b, err) == [b EXCEPT !.err_sig_run = @ + 1, !.last_err_sig = err]

ErrSeen(b, err) ==
  [b EXCEPT !.err_sig_run  = IF err = b.last_err_sig THEN @ + 1 ELSE 1,
            !.last_err_sig = err]

SameCode(b, code) == b.counts[code] + 1 >= FREEZE_CODE_HASH_THRESHOLD

SameErr(b, err) ==
  /\ err # NoErr
  /\ ErrSeen(b, err).err_sig_run >= FREEZE_ERROR_SIG_THRESHOLD

\* The breaker after CircuitBreaker.record_attempt(code, error).
Recorded(b, code, err) ==
  IF b.status = HardStop THEN b
  ELSE IF SameCode(b, code) THEN Freeze(b, "code_hash")
  ELSE IF SameErr(b, err) THEN Freeze(b, "error_signature")
  ELSE IF err = NoErr THEN CodeSeen(b, code)
  ELSE ErrSeen(CodeSeen(b, code), err)

Stopped(b) == b.status = HardStop

\* What holds of a breaker between calls.
WithinThresholds(b) ==
  /\ \A c \in Codes : b.counts[c] < FREEZE_CODE_HASH_THRESHOLD
  /\ b.err_sig_run < FREEZE_ERROR_SIG_THRESHOLD
  /\ b.freeze_cycles <= HARD_STOP_FREEZE_CYCLES
  /\ b.status = HardStop <=> b.freeze_cycles = HARD_STOP_FREEZE_CYCLES
  /\ b.status = Active <=> b.freeze_cycles = 0
  /\ b.err_sig_run = 0 <=> b.last_err_sig = NoErr
===============================================================================
