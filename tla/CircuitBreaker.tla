---------------------------- MODULE CircuitBreaker ----------------------------
(***************************************************************************)
(* One CircuitBreaker object of job_runner/circuit_breaker.py: its caller   *)
(* records attempts, in any order of codes and errors, and asks for a       *)
(* retry context before each further attempt.                               *)
(***************************************************************************)
EXTENDS BreakerOps, Sequences, FiniteSets

VARIABLES
  breaker,   \* the counters and status of the object
  attempts,  \* its list of attempts, all freeze cycles together
  shown      \* how many attempts the last retry_context listed as negative
             \* examples; -1 when it raised CircuitBreakerError

breakerVars == <<breaker, attempts, shown>>

Attempt == [code : Codes, err : Errs \cup {NoErr}]

BreakerInit ==
  /\ breaker = NewBreaker
  /\ attempts = <<>>
  /\ shown = 0

RecordAttempt(code, err) ==
  /\ breaker' = Recorded(breaker, code, err)
  /\ attempts' = IF Stopped(breaker) THEN attempts
                 ELSE Append(attempts, [code |-> code, err |-> err])
  /\ UNCHANGED shown

RetryContext ==
  /\ shown' = CASE Stopped(breaker) -> -1
                [] ~Stopped(breaker) /\ breaker.freeze_cycles = 0 -> 0
                [] OTHER -> Len(attempts)
  /\ UNCHANGED <<breaker, attempts>>

BreakerNext ==
  \/ \E code \in Codes, err \in Errs \cup {NoErr} : RecordAttempt(code, err)
  \/ RetryContext

BreakerSpec == BreakerInit /\ [][BreakerNext]_breakerVars

-------------------------------------------------------------------------------
(* What a freeze is, said of the attempt list alone, with no counter.       *)

\* Attempt i repeats a code of the cycle that began at attempt s often enough.
RepeatsCode(s, i) ==
  Cardinality({j \in s..i : attempts[j].code = attempts[i].code})
    >= FREEZE_CODE_HASH_THRESHOLD

\* Attempt i ends a run of equal errors among the erring attempts of s..i.
RepeatsErr(s, i) ==
  LET erring == {j \in s..i : attempts[j].err # NoErr}
      after(j) == Cardinality({k \in erring : k > j})
  IN  /\ i \in erring
      /\ Cardinality(erring) >= FREEZE_ERROR_SIG_THRESHOLD
      /\ \A j \in erring :
           after(j) < FREEZE_ERROR_SIG_THRESHOLD => attempts[j].err = attempts[i].err

Trips(s, i) == RepeatsCode(s, i) \/ RepeatsErr(s, i)

\* The attempt at which the cycle attempt i belongs to began.
CycleStart[i \in 0..Len(attempts) + 1] ==
  IF i <= 1 THEN 1
  ELSE LET before == CycleStart[i - 1]
       IN  IF Trips(before, i - 1) THEN i ELSE before

Freezes == {i \in 1..Len(attempts) : Trips(CycleStart[i], i)}

-------------------------------------------------------------------------------
\* Every reachable value has its declared shape.
BreakerTypeOK ==
  /\ breaker \in Breakers
  /\ attempts \in Seq(Attempt)
  /\ shown \in Nat \cup {-1}

\* record_attempt's counters find exactly the loops the module's docstring
\* defines on the attempt list: one freeze cycle for each attempt that repeats a
\* code or ends a run of equal errors within its cycle, never more, never less,
\* and the status says which of the three stages the task is in.
FreezesExactlyTheLoops ==
  /\ breaker.freeze_cycles = Cardinality(Freezes)
  /\ breaker.status = CASE Freezes = {} -> Active
                   [] Cardinality(Freezes) >= HARD_STOP_FREEZE_CYCLES -> HardStop
                   [] OTHER -> Frozen

\* What the counters promise between calls: a counter that reached its threshold
\* has been turned into a freeze, and a hard stop is exactly the last freeze
\* cycle, so no freeze is ever counted twice or after the stop.
CountersBelowThresholds == WithinThresholds(breaker)

\* After a hard stop no further attempt is accepted and no retry context is
\* handed out: the only answer left is CircuitBreakerError.
HardStopIsFinal ==
  [][breaker.status = HardStop =>
       /\ UNCHANGED <<breaker, attempts>>
       /\ shown' \in {shown, -1}]_breakerVars
===============================================================================
