------------------------- MODULE CircuitBreakerProofs -------------------------
(***************************************************************************)
(* What CircuitBreaker.record_attempt preserves, for every threshold and    *)
(* any set of codes and errors (the scheduler's proofs build on it), and the *)
(* safety of the circuit breaker object: its types, its counters, the        *)
(* finality of a hard stop, and that its freezes are the loops of its list.  *)
(***************************************************************************)
EXTENDS CircuitBreaker, FiniteSetTheorems, SequenceTheorems, WellFoundedInduction, TLAPS

(* Induction over the natural numbers, from the least element of a set.     *)

LEMMA LeastNat ==
  ASSUME NEW S, S \subseteq Nat, S # {}
  PROVE  \E x \in S : \A y \in S : x <= y
<1>1. PICK x \in S : \A y \in S : ~ (<<y, x>> \in OpToRel(<, Nat))
  BY WFMin, NatLessThanWellFounded
<1>2. \A y \in S : y < x => <<y, x>> \in OpToRel(<, Nat)
  BY DEF OpToRel
<1>3. \A y \in S : ~(y < x)
  BY <1>1, <1>2
<1> QED
  BY <1>3

LEMMA UpToInduction ==
  ASSUME NEW n \in Nat, NEW S, 0 \in S,
         \A k \in 1..n : k - 1 \in S => k \in S
  PROVE  \A k \in 0..n : k \in S
<1> DEFINE Out == {k \in 0..n : k \notin S}
<1> SUFFICES ASSUME Out # {} PROVE FALSE
  OBVIOUS
<1>0. Out \subseteq Nat
  OBVIOUS
<1> HIDE DEF Out
<1>1. PICK k \in Out : \A j \in Out : k <= j
  BY <1>0, LeastNat
<1> USE DEF Out
<1>2. k \in 1..n /\ k - 1 \in 0..n
  BY <1>1
<1>3. k - 1 \notin Out
  BY <1>1, <1>2
<1> QED
  BY <1>1, <1>2, <1>3

-------------------------------------------------------------------------------
(* One call of record_attempt.                                               *)

LEMMA NewBreakerSound == NewBreaker \in Breakers /\ WithinThresholds(NewBreaker)
  BY BreakerAssumption
     DEF NewBreaker, Breakers, WithinThresholds, Statuses, Reasons, Active, HardStop

LEMMA FreezeSound ==
  ASSUME NEW b \in Breakers, WithinThresholds(b), b.status # HardStop,
         NEW trigger \in {"code_hash", "error_signature"}
  PROVE  /\ Freeze(b, trigger) \in Breakers
         /\ WithinThresholds(Freeze(b, trigger))
<1> DEFINE f == Freeze(b, trigger)
           n == b.freeze_cycles + 1
           hard == n >= HARD_STOP_FREEZE_CYCLES
<1>1. n \in Nat \ {0} /\ n <= HARD_STOP_FREEZE_CYCLES
  <2>1. b.freeze_cycles \in Nat
    BY DEF Breakers
  <2>2. b.freeze_cycles <= HARD_STOP_FREEZE_CYCLES
    BY DEF WithinThresholds
  <2>3. b.freeze_cycles # HARD_STOP_FREEZE_CYCLES
    BY DEF WithinThresholds
  <2> QED
    BY <2>1, <2>2, <2>3, BreakerAssumption
<1>2. /\ f = [NewBreaker EXCEPT !.freeze_cycles = n,
              !.status = IF hard THEN HardStop ELSE Frozen,
              !.last_freeze_reason = IF hard THEN "hard_stop" ELSE trigger]
      /\ f.status = IF hard THEN HardStop ELSE Frozen
      /\ f.freeze_cycles = n
      /\ f.counts = [c \in Codes |-> 0]
      /\ f.last_err_sig = NoErr /\ f.err_sig_run = 0
  BY DEF Freeze, NewBreaker
<1>3. f \in Breakers
  BY <1>1, <1>2, NewBreakerSound DEF Breakers, Statuses, Reasons, HardStop, Frozen
<1>4. f.status = HardStop <=> f.freeze_cycles = HARD_STOP_FREEZE_CYCLES
  BY <1>1, <1>2, BreakerAssumption DEF HardStop, Frozen
<1>5. f.status # Active /\ f.freeze_cycles # 0
  BY <1>1, <1>2 DEF HardStop, Frozen, Active
<1>6. WithinThresholds(f)
  BY <1>1, <1>2, <1>4, <1>5, BreakerAssumption DEF WithinThresholds
<1> QED
  BY <1>3, <1>6

LEMMA CodeSeenSound ==
  ASSUME NEW b \in Breakers, WithinThresholds(b),
         NEW code \in Codes, ~SameCode(b, code)
  PROVE  CodeSeen(b, code) \in Breakers /\ WithinThresholds(CodeSeen(b, code))
<1>1. b.counts \in [Codes -> Nat]
  BY DEF Breakers
<1>2. CodeSeen(b, code).counts = [b.counts EXCEPT ![code] = @ + 1]
  BY DEF CodeSeen, Breakers
<1>3. CodeSeen(b, code) \in Breakers
  BY <1>1 DEF CodeSeen, Breakers
<1>4. \A c \in Codes : CodeSeen(b, code).counts[c] < FREEZE_CODE_HASH_THRESHOLD
  <2>1. b.counts[code] + 1 < FREEZE_CODE_HASH_THRESHOLD
    BY <1>1, BreakerAssumption DEF SameCode
  <2>2. \A c \in Codes : b.counts[c] < FREEZE_CODE_HASH_THRESHOLD
    BY DEF WithinThresholds
  <2> QED
    BY <1>1, <1>2, <2>1, <2>2
<1> QED
  BY <1>3, <1>4 DEF WithinThresholds, CodeSeen, Breakers

LEMMA ErrSeenSound ==
  ASSUME NEW b \in Breakers, WithinThresholds(b),
         NEW err \in Errs, ErrSeen(b, err).err_sig_run < FREEZE_ERROR_SIG_THRESHOLD
  PROVE  ErrSeen(b, err) \in Breakers /\ WithinThresholds(ErrSeen(b, err))
<1> DEFINE d == ErrSeen(b, err)
           run == IF err = b.last_err_sig THEN b.err_sig_run + 1 ELSE 1
<1>1. err # NoErr
  BY BreakerAssumption
<1>2. run \in Nat \ {0}
  BY DEF Breakers
<1>3. d = [b EXCEPT !.err_sig_run = run, !.last_err_sig = err]
  BY DEF ErrSeen
<1> HIDE DEF run
<1>4. d \in Breakers
  BY <1>2, <1>3 DEF Breakers
<1>5. d.last_err_sig = err /\ d.err_sig_run # 0
  BY <1>2, <1>3 DEF Breakers
<1>6. /\ d.counts = b.counts /\ d.freeze_cycles = b.freeze_cycles
      /\ d.status = b.status
  BY <1>3 DEF Breakers
<1> HIDE DEF d
<1> QED
  BY <1>1, <1>4, <1>5, <1>6 DEF WithinThresholds, d

\* record_attempt keeps the shape of the object and its counters below their
\* thresholds.
THEOREM RecordedSound ==
  ASSUME NEW b \in Breakers, WithinThresholds(b),
         NEW code \in Codes, NEW err \in Errs \cup {NoErr}
  PROVE  Recorded(b, code, err) \in Breakers /\ WithinThresholds(Recorded(b, code, err))
<1>1. CASE b.status = HardStop
  BY <1>1 DEF Recorded
<1>2. CASE b.status # HardStop /\ SameCode(b, code)
  BY <1>2, FreezeSound DEF Recorded
<1>3. CASE b.status # HardStop /\ ~SameCode(b, code) /\ SameErr(b, err)
  BY <1>3, FreezeSound DEF Recorded
<1>4. CASE b.status # HardStop /\ ~SameCode(b, code) /\ err = NoErr
  <2>1. ~SameErr(b, err)
    BY <1>4 DEF SameErr
  <2> QED
    BY <1>4, <2>1, CodeSeenSound DEF Recorded
<1>5. CASE /\ b.status # HardStop /\ ~SameCode(b, code)
           /\ err # NoErr /\ ~SameErr(b, err)
  <2> DEFINE d == CodeSeen(b, code)
  <2>1. d \in Breakers /\ WithinThresholds(d)
    BY <1>5, CodeSeenSound
  <2>2. ErrSeen(d, err).err_sig_run = ErrSeen(b, err).err_sig_run
    BY DEF ErrSeen, CodeSeen, Breakers
  <2>3. ErrSeen(b, err).err_sig_run \in Nat
    BY DEF ErrSeen, Breakers
  <2>4. ErrSeen(d, err).err_sig_run < FREEZE_ERROR_SIG_THRESHOLD
    BY <1>5, <2>2, <2>3, BreakerAssumption DEF SameErr
  <2>5. Recorded(b, code, err) = ErrSeen(d, err)
    BY <1>5 DEF Recorded
  <2> QED
    BY <1>5, <2>1, <2>4, <2>5, ErrSeenSound
<1> QED
  BY <1>1, <1>2, <1>3, <1>4, <1>5

-------------------------------------------------------------------------------
(* The object and its caller.                                                *)

BreakerInv == BreakerTypeOK /\ CountersBelowThresholds

LEMMA BreakerInvInit == BreakerInit => BreakerInv
  BY NewBreakerSound DEF BreakerInit, BreakerInv, BreakerTypeOK, CountersBelowThresholds

LEMMA BreakerInvStep == BreakerInv /\ [BreakerNext]_breakerVars => BreakerInv'
<1> SUFFICES ASSUME BreakerInv, [BreakerNext]_breakerVars PROVE BreakerInv'
  OBVIOUS
<1> USE DEF BreakerInv, BreakerTypeOK, CountersBelowThresholds
<1>1. CASE UNCHANGED breakerVars
  BY <1>1 DEF breakerVars, WithinThresholds
<1>2. ASSUME NEW code \in Codes, NEW err \in Errs \cup {NoErr},
             RecordAttempt(code, err)
      PROVE  BreakerInv'
  <2>1. breaker' \in Breakers /\ WithinThresholds(breaker')
    BY <1>2, RecordedSound DEF RecordAttempt
  <2>2. attempts' \in Seq(Attempt)
    <3> DEFINE attempt == [code |-> code, err |-> err]
    <3>1. attempt \in Attempt
      BY DEF Attempt
    <3>2. Append(attempts, attempt) \in Seq(Attempt)
      BY <3>1
    <3> QED
      BY <1>2, <3>2 DEF RecordAttempt
  <2> QED
    BY <1>2, <2>1, <2>2 DEF RecordAttempt, WithinThresholds
<1>3. CASE RetryContext
  <2>1. shown' \in Nat \cup {-1}
    BY <1>3 DEF RetryContext
  <2> QED
    BY <1>3, <2>1 DEF RetryContext, WithinThresholds
<1> QED
  BY <1>1, <1>2, <1>3 DEF BreakerNext

LEMMA BreakerInvAlways == BreakerSpec => []BreakerInv
  BY BreakerInvInit, BreakerInvStep, PTL DEF BreakerSpec

\* Type correctness of the circuit breaker.
THEOREM BreakerTypes == BreakerSpec => []BreakerTypeOK
<1>1. BreakerInv => BreakerTypeOK
  BY DEF BreakerInv
<1> QED
  BY <1>1, BreakerInvAlways, PTL

\* A counter that reaches its threshold has become a freeze by the end of the
\* call, and the hard stop is exactly the last freeze cycle.
THEOREM BreakerCounters == BreakerSpec => []CountersBelowThresholds
<1>1. BreakerInv => CountersBelowThresholds
  BY DEF BreakerInv
<1> QED
  BY <1>1, BreakerInvAlways, PTL

\* A hard stop is final: no later call changes the object or hands out a
\* context.
THEOREM BreakerHardStop == BreakerSpec => HardStopIsFinal
<1>1. [BreakerNext]_breakerVars => [breaker.status = HardStop =>
         /\ UNCHANGED <<breaker, attempts>>
         /\ shown' \in {shown, -1}]_breakerVars
  BY DEF BreakerNext, RecordAttempt, RetryContext, Recorded, Stopped, breakerVars
<1> QED
  BY <1>1, PTL DEF BreakerSpec, HardStopIsFinal

-------------------------------------------------------------------------------
(* Freezes and loops: the counters compared with the attempt list. What the    *)
(* component says of its own list is said here of any list.                    *)

\* The attempts of s..i with the code c, and the erring ones.
SameCodes(log, s, i, c) == {j \in s..i : log[j].code = c}
Erring(log, s, i) == {j \in s..i : log[j].err # NoErr}
After(E, j) == {k \in E : k > j}

TripsIn(log, s, i) ==
  \/ Cardinality(SameCodes(log, s, i, log[i].code)) >= FREEZE_CODE_HASH_THRESHOLD
  \/ /\ i \in Erring(log, s, i)
     /\ Cardinality(Erring(log, s, i)) >= FREEZE_ERROR_SIG_THRESHOLD
     /\ \A j \in Erring(log, s, i) :
          Cardinality(After(Erring(log, s, i), j)) < FREEZE_ERROR_SIG_THRESHOLD
            => log[j].err = log[i].err

Extended(log, f, i) ==
  IF i <= 1 THEN 1 ELSE IF TripsIn(log, f[i - 1], i - 1) THEN i ELSE f[i - 1]

StartsUpTo(log, f, n) == f = [i \in 0..n |-> Extended(log, f, i)]

Starts(log) == CHOOSE f : StartsUpTo(log, f, Len(log) + 1)

FreezesIn(log) == {i \in 1..Len(log) : TripsIn(log, Starts(log)[i], i)}

LEMMA TripsOfList ==
  ASSUME NEW s, NEW i
  PROVE  Trips(s, i) = TripsIn(attempts, s, i)
BY DEF Trips, RepeatsCode, RepeatsErr, TripsIn, SameCodes, Erring, After

LEMMA StartsOfList == CycleStart = Starts(attempts)
BY TripsOfList DEF CycleStart, Starts, StartsUpTo, Extended

LEMMA FreezesOfList == Freezes = FreezesIn(attempts)
BY TripsOfList, StartsOfList DEF Freezes, FreezesIn

-------------------------------------------------------------------------------
(* Where the cycles begin.                                                   *)

\* Functions that satisfy the recursion on 0..k extend one another.
LEMMA StartsExist ==
  ASSUME NEW log \in Seq(Attempt)
  PROVE  StartsUpTo(log, Starts(log), Len(log) + 1)
<1> DEFINE n == Len(log) + 1
           Good == {k \in 0..n : \E f : StartsUpTo(log, f, k)}
<1>0. n \in Nat
  OBVIOUS
<1>1. 0 \in Good
  <2>1. StartsUpTo(log, [i \in 0..0 |-> 1], 0)
    BY DEF StartsUpTo, Extended
  <2> QED
    BY <1>0, <2>1
<1>2. ASSUME NEW k \in 1..n, k - 1 \in Good PROVE k \in Good
  <2>1. PICK f : StartsUpTo(log, f, k - 1)
    BY <1>2
  <2> DEFINE g == [i \in 0..k |-> IF i < k THEN f[i] ELSE Extended(log, f, k)]
  <2>2. ASSUME NEW i \in 0..k PROVE g[i] = Extended(log, g, i)
    <3>1. i > 0 => g[i - 1] = f[i - 1]
      OBVIOUS
    <3>2. Extended(log, g, i) = Extended(log, f, i)
      BY <3>1 DEF Extended
    <3>3. i < k => f[i] = Extended(log, f, i)
      BY <2>1 DEF StartsUpTo
    <3>4. g[i] = IF i < k THEN f[i] ELSE Extended(log, f, k)
      OBVIOUS
    <3> QED
      BY <3>2, <3>3, <3>4
  <2>3. StartsUpTo(log, g, k)
    BY <2>2 DEF StartsUpTo
  <2> HIDE DEF g
  <2> QED
    BY <2>3
<1> HIDE DEF Good
<1>3. \A k \in 0..n : k \in Good
  BY <1>0, <1>1, <1>2, UpToInduction
<1>4. n \in Good
  BY <1>0, <1>3
<1>5. \E f : StartsUpTo(log, f, n)
  BY <1>4 DEF Good
<1> QED
  BY <1>5 DEF Starts

LEMMA StartsStep ==
  ASSUME NEW log \in Seq(Attempt), NEW i \in 0..(Len(log) + 1)
  PROVE  Starts(log)[i] = Extended(log, Starts(log), i)
BY StartsExist DEF StartsUpTo

\* A cycle begins no later than its attempts.
LEMMA StartsBefore ==
  ASSUME NEW log \in Seq(Attempt), NEW i \in 1..(Len(log) + 1)
  PROVE  Starts(log)[i] \in 1..i
<1> DEFINE n == Len(log) + 1
           Good == {k \in 0..n : k = 0 \/ Starts(log)[k] \in 1..k}
<1>0. n \in Nat
  OBVIOUS
<1>1. ASSUME NEW k \in 1..n, k - 1 \in Good PROVE k \in Good
  <2>1. Starts(log)[k] = Extended(log, Starts(log), k)
    BY <1>0, StartsStep
  <2>2. k > 1 => Starts(log)[k - 1] \in 1..(k - 1)
    BY <1>1
  <2>3. Starts(log)[k] \in {1, k} \/ (k > 1 /\ Starts(log)[k] = Starts(log)[k - 1])
    BY <2>1 DEF Extended
  <2> QED
    BY <2>2, <2>3
<1>2. 0 \in Good
  BY <1>0
<1> HIDE DEF Good
<1>3. \A k \in 0..n : k \in Good
  BY <1>0, <1>1, <1>2, UpToInduction
<1> QED
  BY <1>3 DEF Good

\* What was said of an attempt is not changed by the ones after it.
LEMMA TripsKept ==
  ASSUME NEW log \in Seq(Attempt), NEW a \in Attempt, NEW i \in 1..Len(log), NEW s \in 1..i
  PROVE  TripsIn(Append(log, a), s, i) <=> TripsIn(log, s, i)
<1>1. \A j \in s..i : Append(log, a)[j] = log[j]
  <2>1. \A j \in s..i : j \in 1..Len(log)
    OBVIOUS
  <2> QED
    BY <2>1, AppendProperties
<1>2. i \in s..i
  OBVIOUS
<1>3. /\ \A c : SameCodes(Append(log, a), s, i, c) = SameCodes(log, s, i, c)
      /\ Erring(Append(log, a), s, i) = Erring(log, s, i)
  BY <1>1 DEF SameCodes, Erring
<1>4. \A j \in Erring(log, s, i) : j \in s..i
  BY DEF Erring
<1> QED
  BY <1>1, <1>2, <1>3, <1>4 DEF TripsIn

LEMMA StartsKept ==
  ASSUME NEW log \in Seq(Attempt), NEW a \in Attempt, NEW i \in 0..(Len(log) + 1)
  PROVE  Starts(Append(log, a))[i] = Starts(log)[i]
<1> DEFINE n == Len(log) + 1
           next == Append(log, a)
           Good == {k \in 0..n : Starts(next)[k] = Starts(log)[k]}
<1>0. n \in Nat /\ next \in Seq(Attempt) /\ Len(next) = n
  BY AppendProperties
<1> HIDE DEF next
<1>1. \A k \in 0..n : /\ Starts(next)[k] = Extended(next, Starts(next), k)
                      /\ Starts(log)[k] = Extended(log, Starts(log), k)
  BY <1>0, StartsStep
<1>2. 0 \in Good
  BY <1>0, <1>1 DEF Extended
<1>3. ASSUME NEW k \in 1..n, k - 1 \in Good PROVE k \in Good
  <2>1. CASE k = 1
    BY <1>1, <2>1 DEF Extended
  <2>2. CASE k > 1
    <3>1. k - 1 \in 1..Len(log) /\ Starts(log)[k - 1] \in 1..(k - 1)
      BY <2>2, StartsBefore
    <3>2. TripsIn(next, Starts(log)[k - 1], k - 1) <=> TripsIn(log, Starts(log)[k - 1], k - 1)
      BY <3>1, TripsKept DEF next
    <3> QED
      BY <1>1, <1>3, <2>2, <3>2 DEF Extended
  <2> QED
    BY <2>1, <2>2
<1> HIDE DEF Good
<1>4. \A k \in 0..n : k \in Good
  BY <1>0, <1>2, <1>3, UpToInduction
<1> QED
  BY <1>4 DEF Good, next

\* One more attempt freezes the task or not; the freezes before it stay.
LEMMA FreezesOfNext ==
  ASSUME NEW log \in Seq(Attempt), NEW a \in Attempt
  PROVE  LET n == Len(log) + 1
             s == Starts(log)[n]
             next == Append(log, a)
             trips == TripsIn(next, s, n)
         IN  /\ FreezesIn(next) = FreezesIn(log) \cup (IF trips THEN {n} ELSE {})
             /\ n \notin FreezesIn(log)
             /\ Starts(next)[n + 1] = IF trips THEN n + 1 ELSE s
<1> DEFINE n == Len(log) + 1
           s == Starts(log)[n]
           next == Append(log, a)
           trips == TripsIn(next, s, n)
<1>0. n \in Nat \ {0} /\ next \in Seq(Attempt) /\ Len(next) = n
  BY AppendProperties
<1>1. \A i \in 1..n : Starts(next)[i] = Starts(log)[i]
  BY <1>0, StartsKept
<1>2. \A i \in 1..Len(log) : TripsIn(next, Starts(log)[i], i) <=> TripsIn(log, Starts(log)[i], i)
  <2> SUFFICES ASSUME NEW i \in 1..Len(log)
               PROVE  TripsIn(next, Starts(log)[i], i) <=> TripsIn(log, Starts(log)[i], i)
    OBVIOUS
  <2>1. Starts(log)[i] \in 1..i
    BY StartsBefore
  <2> QED
    BY <2>1, TripsKept
<1>3. Starts(next)[n + 1] = Extended(next, Starts(next), n + 1)
  <2> HIDE DEF next
  <2>1. n + 1 \in 0..(Len(next) + 1)
    BY <1>0
  <2> QED
    BY <1>0, <2>1, StartsStep
<1>4. Starts(next)[n + 1] = IF trips THEN n + 1 ELSE s
  BY <1>0, <1>1, <1>3 DEF Extended
<1> HIDE DEF next
<1>5. \A i \in 1..n : i \in FreezesIn(next) <=> (i \in FreezesIn(log) \/ (i = n /\ trips))
  <2> SUFFICES ASSUME NEW i \in 1..n
               PROVE  i \in FreezesIn(next) <=> (i \in FreezesIn(log) \/ (i = n /\ trips))
    OBVIOUS
  <2>1. i \in FreezesIn(next) <=> TripsIn(next, Starts(log)[i], i)
    BY <1>0, <1>1 DEF FreezesIn
  <2>2. CASE i = n
    BY <1>0, <2>1, <2>2 DEF FreezesIn
  <2>3. CASE i # n
    <3>1. i \in 1..Len(log)
      BY <1>0, <2>3
    <3> QED
      BY <1>2, <2>1, <2>3, <3>1 DEF FreezesIn
  <2> QED
    BY <2>2, <2>3
<1>6. FreezesIn(next) \subseteq 1..n /\ FreezesIn(log) \subseteq 1..Len(log)
  BY <1>0 DEF FreezesIn
<1>7. FreezesIn(log) \subseteq 1..n /\ n \notin FreezesIn(log) /\ n \in 1..n
  BY <1>0, <1>6
<1>8. FreezesIn(next) = FreezesIn(log) \cup (IF trips THEN {n} ELSE {})
  BY <1>5, <1>6, <1>7
<1> QED
  BY <1>4, <1>7, <1>8 DEF next

-------------------------------------------------------------------------------
(* What the counters count, of the attempts s..i.                            *)

\* The run of equal errors the erring attempts of s..i end with.
Run(log, s, i, e) ==
  {j \in Erring(log, s, i) : \A k \in Erring(log, s, i) : k >= j => log[k].err = e}

Counts(log, s, i, b) ==
  /\ \A c \in Codes : b.counts[c] = Cardinality(SameCodes(log, s, i, c))
  /\ b.err_sig_run = Cardinality(Run(log, s, i, b.last_err_sig))
  /\ Erring(log, s, i) # {} => b.err_sig_run # 0

LEMMA FiniteParts ==
  ASSUME NEW log, NEW s \in Nat, NEW i \in Nat
  PROVE  /\ \A c : IsFiniteSet(SameCodes(log, s, i, c))
         /\ IsFiniteSet(Erring(log, s, i))
         /\ \A e : IsFiniteSet(Run(log, s, i, e))
         /\ \A j : IsFiniteSet(After(Erring(log, s, i), j))
<1>1. IsFiniteSet(s..i)
  BY FS_Interval
<1>2. \A S : S \subseteq s..i => IsFiniteSet(S)
  BY <1>1, FS_Subset
<1> QED
  BY <1>2 DEF SameCodes, Erring, Run, After

\* The last element of a set of attempts.
LEMMA LastOf ==
  ASSUME NEW i \in Nat, NEW S, S \subseteq 0..i, S # {}
  PROVE  \E x \in S : \A y \in S : y <= x
<1> DEFINE Dist == {d \in 0..i : i - d \in S}
<1>1. Dist \subseteq Nat /\ Dist # {}
  <2>1. PICK x \in S : TRUE
    OBVIOUS
  <2>2. x \in 0..i /\ i - x \in 0..i /\ i - (i - x) = x
    BY <2>1
  <2>3. i - x \in Dist
    BY <2>1, <2>2
  <2>4. Dist \subseteq Nat
    OBVIOUS
  <2> HIDE DEF Dist
  <2> QED
    BY <2>3, <2>4
<1> HIDE DEF Dist
<1>2. PICK d \in Dist : \A x \in Dist : d <= x
  BY <1>1, LeastNat
<1>3. d \in 0..i /\ i - d \in S
  BY DEF Dist
<1>4. ASSUME NEW y \in S PROVE y <= i - d
  <2>1. y \in 0..i /\ i - y \in 0..i /\ i - (i - y) = y
    OBVIOUS
  <2>2. i - y \in Dist
    BY <2>1 DEF Dist
  <2>3. d <= i - y
    BY <1>2, <2>2
  <2> QED
    BY <1>3, <2>1, <2>3
<1> QED
  BY <1>3, <1>4

\* The code of one more attempt.
LEMMA CodesOfNext ==
  ASSUME NEW log \in Seq(Attempt), NEW a \in Attempt, NEW s \in 1..(Len(log) + 1), NEW c
  PROVE  LET n == Len(log) + 1
         IN  Cardinality(SameCodes(Append(log, a), s, n, c))
               = Cardinality(SameCodes(log, s, Len(log), c)) + (IF c = a.code THEN 1 ELSE 0)
<1> DEFINE n == Len(log) + 1
           next == Append(log, a)
           old == SameCodes(log, s, Len(log), c)
<1>0. n \in Nat \ {0} /\ n \in s..n /\ next[n] = a /\ Len(log) \in Nat
      /\ \A j \in s..Len(log) : next[j] = log[j]
      /\ s..n = (s..Len(log)) \cup {n} /\ n \notin s..Len(log)
  BY AppendProperties
<1> HIDE DEF next
<1>1. SameCodes(next, s, n, c) = IF c = a.code THEN old \cup {n} ELSE old
  BY <1>0 DEF SameCodes
<1>2. IsFiniteSet(old) /\ n \notin old
  <2>1. s \in Nat
    OBVIOUS
  <2>2. IsFiniteSet(old)
    BY <1>0, <2>1, FiniteParts
  <2> QED
    BY <1>0, <2>2 DEF SameCodes
<1>3. Cardinality(old \cup {n}) = Cardinality(old) + 1 /\ Cardinality(old) \in Nat
  BY <1>2, FS_AddElement, FS_CardinalityType
<1> QED
  BY <1>1, <1>3 DEF next

\* Its error, if it has one, and the run it prolongs or begins.
LEMMA ErrorsOfNext ==
  ASSUME NEW log \in Seq(Attempt), NEW a \in Attempt, NEW s \in 1..(Len(log) + 1)
  PROVE  LET n == Len(log) + 1
         IN  Erring(Append(log, a), s, n)
               = Erring(log, s, Len(log)) \cup (IF a.err = NoErr THEN {} ELSE {n})
<1> DEFINE n == Len(log) + 1
           next == Append(log, a)
<1>0. n \in Nat \ {0} /\ n \in s..n /\ next[n] = a
      /\ \A j \in s..Len(log) : next[j] = log[j]
      /\ s..n = (s..Len(log)) \cup {n} /\ n \notin s..Len(log)
  BY AppendProperties
<1> HIDE DEF next
<1> QED
  BY <1>0 DEF Erring, next

LEMMA RunOfNext ==
  ASSUME NEW log \in Seq(Attempt), NEW a \in Attempt, NEW s \in 1..(Len(log) + 1),
         NEW b \in Breakers, WithinThresholds(b), Counts(log, s, Len(log), b)
  PROVE  LET n == Len(log) + 1
         IN  Cardinality(Run(Append(log, a), s, n, IF a.err = NoErr THEN b.last_err_sig ELSE a.err))
               = IF a.err = NoErr THEN b.err_sig_run ELSE ErrSeen(b, a.err).err_sig_run
<1> DEFINE n == Len(log) + 1
           next == Append(log, a)
           E == Erring(log, s, Len(log))
           last == b.last_err_sig
           R == Run(log, s, Len(log), last)
           e == IF a.err = NoErr THEN last ELSE a.err
           R2 == Run(next, s, n, e)
<1>0. /\ n \in Nat \ {0} /\ next[n] = a /\ Len(log) \in Nat
      /\ \A j \in E : next[j] = log[j] /\ j \in Nat /\ j < n
      /\ Erring(next, s, n) = E \cup (IF a.err = NoErr THEN {} ELSE {n})
  <2>1. \A j \in s..Len(log) : j \in 1..Len(log)
    OBVIOUS
  <2>2. \A j \in s..Len(log) : next[j] = log[j]
    BY <2>1, AppendProperties
  <2> QED
    BY <2>1, <2>2, AppendProperties, ErrorsOfNext DEF Erring
<1>1. b.err_sig_run = Cardinality(R) /\ (E # {} => b.err_sig_run # 0)
  BY DEF Counts
<1>2. IsFiniteSet(R) /\ R \subseteq E
  <2>1. s \in Nat
    OBVIOUS
  <2>2. IsFiniteSet(R)
    BY <1>0, <2>1, FiniteParts
  <2> QED
    BY <2>2 DEF Run
<1> HIDE DEF next, E
<1>3. CASE a.err = NoErr
  <2>1. R2 = R
    BY <1>0, <1>3 DEF Run, E
  <2> QED
    BY <1>1, <1>3, <2>1 DEF next
<1>4. CASE a.err # NoErr /\ a.err = last
  <2>1. R2 = R \cup {n} /\ n \notin R
    BY <1>0, <1>2, <1>4 DEF Run, E
  <2>2. Cardinality(R2) = Cardinality(R) + 1
    BY <1>2, <2>1, FS_AddElement
  <2> QED
    BY <1>1, <1>4, <2>2 DEF next, ErrSeen, Breakers
<1>5. CASE a.err # NoErr /\ a.err # last
  <2>1. ASSUME NEW j \in R2, j # n PROVE FALSE
    <3>1. j \in E /\ \A k \in E : k >= j => log[k].err = a.err
      BY <1>0, <1>5, <2>1 DEF Run
    <3>2. R # {}
      BY <1>1, <3>1, FS_EmptySet
    <3>3. PICK i \in R : TRUE
      BY <3>2
    <3>4. i \in E /\ \A k \in E : k >= i => log[k].err = last
      BY <3>3 DEF Run, E
    <3> QED
      BY <1>0, <1>5, <3>1, <3>4
  <2>2. n \in R2
    BY <1>0, <1>5 DEF Run
  <2>3. R2 = {n}
    BY <2>1, <2>2
  <2>4. Cardinality(R2) = 1
    BY <2>3, FS_Singleton
  <2> QED
    BY <1>5, <2>4 DEF next, ErrSeen, Breakers
<1> QED
  BY <1>3, <1>4, <1>5

\* The run is long enough exactly when the last so many erring attempts agree.
LEMMA RunTrips ==
  ASSUME NEW log, NEW s \in Nat, NEW n \in Nat, NEW T \in Nat, n \in Erring(log, s, n)
  PROVE  LET E == Erring(log, s, n)
         IN  Cardinality(Run(log, s, n, log[n].err)) >= T
               <=> /\ Cardinality(E) >= T
                   /\ \A j \in E : Cardinality(After(E, j)) < T => log[j].err = log[n].err
<1> DEFINE E == Erring(log, s, n)
           e == log[n].err
           R == Run(log, s, n, e)
<1>0. /\ E \subseteq 0..n /\ \A j \in E : j \in Nat
      /\ R = {j \in E : \A k \in E : k >= j => log[k].err = e}
  BY DEF Erring, Run
<1>1. /\ IsFiniteSet(E) /\ IsFiniteSet(R) /\ \A j : IsFiniteSet(After(E, j))
      /\ Cardinality(E) \in Nat /\ Cardinality(R) \in Nat
      /\ \A j : Cardinality(After(E, j)) \in Nat
  BY FiniteParts, FS_CardinalityType
<1> HIDE DEF E, R
<1>2. ASSUME Cardinality(R) >= T
      PROVE  /\ Cardinality(E) >= T
             /\ \A j \in E : Cardinality(After(E, j)) < T => log[j].err = e
  <2>1. Cardinality(R) <= Cardinality(E)
    BY <1>0, <1>1, FS_Subset
  <2>2. ASSUME NEW j \in E, log[j].err # e PROVE ~ (Cardinality(After(E, j)) < T)
    <3>1. R \subseteq After(E, j)
      <4>1. ASSUME NEW k \in R PROVE k \in E /\ k > j
        <5>1. k \in E /\ (j >= k => log[j].err = e)
          BY <1>0, <4>1
        <5> QED
          BY <1>0, <2>2, <5>1
      <4> QED
        BY <4>1 DEF After
    <3>2. Cardinality(R) <= Cardinality(After(E, j))
      BY <1>1, <3>1, FS_Subset
    <3> QED
      BY <1>1, <1>2, <3>2
  <2> QED
    BY <1>1, <1>2, <2>1, <2>2
<1>3. ASSUME Cardinality(E) >= T, Cardinality(R) < T
      PROVE  \E j \in E : Cardinality(After(E, j)) < T /\ log[j].err # e
  <2>0. R \subseteq E /\ E \ R \subseteq 0..n
    BY <1>0
  <2>1. E \ R # {}
    <3>1. E # R
      BY <1>1, <1>3
    <3> QED
      BY <2>0, <3>1
  <2>2. PICK j \in E \ R : \A k \in E \ R : k <= j
    BY <2>0, <2>1, LastOf
  <2>3. After(E, j) \subseteq R
    <3>1. \A k \in E \ R : ~ (k > j)
      BY <1>0, <2>2
    <3> QED
      BY <3>1 DEF After
  <2>4. Cardinality(After(E, j)) <= Cardinality(R)
    BY <1>1, <2>3, FS_Subset
  <2>5. log[j].err # e
    BY <1>0, <2>2, <2>3 DEF After
  <2> QED
    BY <1>1, <1>3, <2>2, <2>4, <2>5
<1> QED
  BY <1>1, <1>2, <1>3 DEF E, R

-------------------------------------------------------------------------------
(* record_attempt and the list, one attempt on.                              *)

LEMMA TripsIsFreeze ==
  ASSUME NEW log \in Seq(Attempt), NEW a \in Attempt, NEW s \in 1..(Len(log) + 1),
         NEW b \in Breakers, WithinThresholds(b), Counts(log, s, Len(log), b)
  PROVE  TripsIn(Append(log, a), s, Len(log) + 1) <=> SameCode(b, a.code) \/ SameErr(b, a.err)
<1> DEFINE n == Len(log) + 1
           next == Append(log, a)
<1>0. n \in Nat /\ next[n] = a /\ a.code \in Codes /\ s \in Nat
  BY AppendProperties DEF Attempt
<1>1. Cardinality(SameCodes(next, s, n, a.code)) = b.counts[a.code] + 1
  BY <1>0, CodesOfNext DEF Counts
<1>2. n \in Erring(next, s, n) <=> a.err # NoErr
  BY <1>0 DEF Erring
<1>3. a.err # NoErr => Cardinality(Run(next, s, n, a.err)) = ErrSeen(b, a.err).err_sig_run
  BY RunOfNext
<1>4. n \in Erring(next, s, n) =>
        (Cardinality(Run(next, s, n, a.err)) >= FREEZE_ERROR_SIG_THRESHOLD
          <=> /\ Cardinality(Erring(next, s, n)) >= FREEZE_ERROR_SIG_THRESHOLD
              /\ \A j \in Erring(next, s, n) :
                   Cardinality(After(Erring(next, s, n), j)) < FREEZE_ERROR_SIG_THRESHOLD
                     => next[j].err = a.err)
  <2>1. FREEZE_ERROR_SIG_THRESHOLD \in Nat
    BY BreakerAssumption
  <2> HIDE DEF next, n
  <2> SUFFICES ASSUME n \in Erring(next, s, n)
               PROVE  Cardinality(Run(next, s, n, next[n].err)) >= FREEZE_ERROR_SIG_THRESHOLD
                 <=> /\ Cardinality(Erring(next, s, n)) >= FREEZE_ERROR_SIG_THRESHOLD
                     /\ \A j \in Erring(next, s, n) :
                          Cardinality(After(Erring(next, s, n), j)) < FREEZE_ERROR_SIG_THRESHOLD
                            => next[j].err = next[n].err
    BY <1>0
  <2> QED
    BY <1>0, <2>1, RunTrips
<1> HIDE DEF next, n
<1>5. TripsIn(next, s, n) <=> SameCode(b, a.code) \/ SameErr(b, a.err)
  BY <1>0, <1>1, <1>2, <1>3, <1>4 DEF TripsIn, SameCode, SameErr
<1> QED
  BY <1>5 DEF next, n

LEMMA CountsOfNext ==
  ASSUME NEW log \in Seq(Attempt), NEW a \in Attempt, NEW s \in 1..(Len(log) + 1),
         NEW b \in Breakers, WithinThresholds(b), Counts(log, s, Len(log), b),
         b.status # HardStop, ~SameCode(b, a.code), ~SameErr(b, a.err)
  PROVE  Counts(Append(log, a), s, Len(log) + 1, Recorded(b, a.code, a.err))
<1> DEFINE n == Len(log) + 1
           next == Append(log, a)
           d == Recorded(b, a.code, a.err)
<1>0. a.code \in Codes /\ b.counts \in [Codes -> Nat]
  BY DEF Attempt, Breakers
<1>1. d = IF a.err = NoErr THEN CodeSeen(b, a.code) ELSE ErrSeen(CodeSeen(b, a.code), a.err)
  BY DEF Recorded
<1>2. /\ d.counts = [b.counts EXCEPT ![a.code] = @ + 1]
      /\ d.last_err_sig = IF a.err = NoErr THEN b.last_err_sig ELSE a.err
      /\ d.err_sig_run = IF a.err = NoErr THEN b.err_sig_run ELSE ErrSeen(b, a.err).err_sig_run
  BY <1>1 DEF CodeSeen, ErrSeen, Breakers
<1> HIDE DEF d
<1>3. \A c \in Codes : d.counts[c] = Cardinality(SameCodes(next, s, n, c))
  <2> SUFFICES ASSUME NEW c \in Codes
               PROVE  d.counts[c] = Cardinality(SameCodes(next, s, n, c))
    OBVIOUS
  <2>1. Cardinality(SameCodes(next, s, n, c)) = b.counts[c] + (IF c = a.code THEN 1 ELSE 0)
    BY CodesOfNext DEF Counts
  <2>2. d.counts[c] = b.counts[c] + (IF c = a.code THEN 1 ELSE 0)
    BY <1>0, <1>2
  <2> QED
    BY <2>1, <2>2
<1>4. d.err_sig_run = Cardinality(Run(next, s, n, d.last_err_sig))
  <2> HIDE DEF next, n
  <2>1. Cardinality(Run(next, s, n, IF a.err = NoErr THEN b.last_err_sig ELSE a.err))
          = IF a.err = NoErr THEN b.err_sig_run ELSE ErrSeen(b, a.err).err_sig_run
    BY RunOfNext DEF next, n
  <2> QED
    BY <1>2, <2>1
<1>5. Erring(next, s, n) # {} => d.err_sig_run # 0
  <2>1. a.err # NoErr => d.err_sig_run # 0
    BY <1>2 DEF ErrSeen, Breakers
  <2>2. a.err = NoErr => (Erring(next, s, n) # {} => d.err_sig_run # 0)
    BY <1>2, ErrorsOfNext DEF Counts
  <2> QED
    BY <2>1, <2>2
<1> QED
  BY <1>3, <1>4, <1>5 DEF Counts, d

LEMMA CountsOfNone ==
  ASSUME NEW log, NEW n \in Nat, NEW b, b.counts = [c \in Codes |-> 0], b.err_sig_run = 0
  PROVE  Counts(log, n + 1, n, b)
<1>1. (n + 1)..n = {}
  OBVIOUS
<1>2. /\ \A c : SameCodes(log, n + 1, n, c) = {}
      /\ Erring(log, n + 1, n) = {} /\ Run(log, n + 1, n, b.last_err_sig) = {}
  BY <1>1 DEF SameCodes, Erring, Run
<1> QED
  BY <1>2, FS_EmptySet DEF Counts

-------------------------------------------------------------------------------
(* The invariant: until the hard stop the counters are those of the cycle that    *)
(* the next attempt belongs to; the freezes counted are those of the list.        *)

LoopInv ==
  /\ BreakerInv
  /\ breaker.freeze_cycles = Cardinality(FreezesIn(attempts))
  /\ breaker.status # HardStop =>
       Counts(attempts, Starts(attempts)[Len(attempts) + 1], Len(attempts), breaker)

LEMMA FreezesFinite ==
  ASSUME NEW log \in Seq(Attempt)
  PROVE  IsFiniteSet(FreezesIn(log)) /\ Cardinality(FreezesIn(log)) \in Nat
<1>1. IsFiniteSet(1..Len(log)) /\ FreezesIn(log) \subseteq 1..Len(log)
  BY FS_Interval DEF FreezesIn
<1> QED
  BY <1>1, FS_Subset, FS_CardinalityType

LEMMA LoopInvInit == BreakerInit => LoopInv
<1> SUFFICES ASSUME BreakerInit PROVE LoopInv
  OBVIOUS
<1>1. attempts = <<>> /\ attempts \in Seq(Attempt) /\ Len(attempts) = 0
  BY DEF BreakerInit
<1>2. FreezesIn(attempts) = {}
  <2>1. 1..Len(attempts) = {}
    BY <1>1
  <2>2. FreezesIn(attempts) \subseteq 1..Len(attempts)
    BY DEF FreezesIn
  <2> QED
    BY <2>1, <2>2
<1>3. Starts(attempts)[0 + 1] = 0 + 1
  <2>1. 0 + 1 \in 1..(Len(attempts) + 1)
    BY <1>1
  <2>2. Starts(attempts)[0 + 1] \in 1..(0 + 1)
    BY <1>1, <2>1, StartsBefore
  <2> QED
    BY <2>2
<1>4. Counts(attempts, 0 + 1, 0, breaker)
  BY CountsOfNone DEF BreakerInit, NewBreaker
<1> QED
  BY <1>1, <1>2, <1>3, <1>4, BreakerInvInit, FS_EmptySet DEF LoopInv, BreakerInit, NewBreaker

LEMMA LoopInvStep == LoopInv /\ [BreakerNext]_breakerVars => LoopInv'
<1> SUFFICES ASSUME LoopInv, [BreakerNext]_breakerVars PROVE LoopInv'
  OBVIOUS
<1>0. BreakerInv'
  BY BreakerInvStep DEF LoopInv
<1>1. CASE UNCHANGED <<breaker, attempts>>
  BY <1>0, <1>1 DEF LoopInv
<1>2. ASSUME NEW code \in Codes, NEW err \in Errs \cup {NoErr}, RecordAttempt(code, err),
             breaker.status # HardStop
      PROVE  LoopInv'
  <2> DEFINE a == [code |-> code, err |-> err]
             n == Len(attempts) + 1
             s == Starts(attempts)[n]
             next == Append(attempts, a)
             trips == TripsIn(next, s, n)
  <2>1. /\ a \in Attempt /\ a.code = code /\ a.err = err
        /\ attempts \in Seq(Attempt) /\ n \in Nat \ {0} /\ s \in 1..n
        /\ next \in Seq(Attempt) /\ Len(next) = n
        /\ breaker \in Breakers /\ WithinThresholds(breaker)
        /\ Counts(attempts, s, Len(attempts), breaker)
    <3>1. a \in Attempt /\ attempts \in Seq(Attempt)
      BY DEF Attempt, LoopInv, BreakerInv, BreakerTypeOK
    <3>2. s \in 1..n
      BY <3>1, StartsBefore
    <3>3. next \in Seq(Attempt) /\ Len(next) = n /\ n \in Nat \ {0}
      BY <3>1, AppendProperties
    <3> QED
      BY <1>2, <3>1, <3>2, <3>3
         DEF LoopInv, BreakerInv, BreakerTypeOK, CountersBelowThresholds
  <2>2. breaker' = Recorded(breaker, a.code, a.err) /\ attempts' = next
    BY <1>2, <2>1 DEF RecordAttempt, Stopped
  <2>3. trips <=> SameCode(breaker, a.code) \/ SameErr(breaker, a.err)
    BY <2>1, TripsIsFreeze
  <2>4. /\ FreezesIn(next) = FreezesIn(attempts) \cup (IF trips THEN {n} ELSE {})
        /\ n \notin FreezesIn(attempts)
        /\ Starts(next)[n + 1] = IF trips THEN n + 1 ELSE s
    BY <2>1, FreezesOfNext
  <2>5. IsFiniteSet(FreezesIn(attempts)) /\ Cardinality(FreezesIn(attempts)) \in Nat
    BY <2>1, FreezesFinite
  <2>6. breaker.freeze_cycles = Cardinality(FreezesIn(attempts))
    BY DEF LoopInv
  <2> HIDE DEF next, s, n
  <2>7. CASE trips
    <3>1. \E trigger \in {"code_hash", "error_signature"} : breaker' = Freeze(breaker, trigger)
      BY <1>2, <2>2, <2>3, <2>7 DEF Recorded
    <3>2. /\ breaker'.freeze_cycles = breaker.freeze_cycles + 1
          /\ breaker'.counts = [c \in Codes |-> 0] /\ breaker'.err_sig_run = 0
      BY <3>1 DEF Freeze, NewBreaker
    <3>3. Cardinality(FreezesIn(next)) = Cardinality(FreezesIn(attempts)) + 1
      BY <2>4, <2>5, <2>7, FS_AddElement
    <3>4. Counts(next, n + 1, n, breaker')
      BY <2>1, <3>2, CountsOfNone
    <3> QED
      BY <1>0, <2>1, <2>2, <2>4, <2>6, <2>7, <3>2, <3>3, <3>4 DEF LoopInv
  <2>8. CASE ~trips
    <3>1. Counts(next, s, n, Recorded(breaker, a.code, a.err))
      BY <1>2, <2>1, <2>3, <2>8, CountsOfNext DEF next, n
    <3>2. breaker'.freeze_cycles = breaker.freeze_cycles
      BY <1>2, <2>1, <2>2, <2>3, <2>8 DEF Recorded, CodeSeen, ErrSeen, Breakers
    <3>3. FreezesIn(next) = FreezesIn(attempts)
      BY <2>4, <2>8
    <3> QED
      BY <1>0, <2>1, <2>2, <2>4, <2>6, <2>8, <3>1, <3>2, <3>3 DEF LoopInv
  <2> QED
    BY <2>7, <2>8
<1>3. breaker.status = HardStop \/ RetryContext => UNCHANGED <<breaker, attempts>>
  BY DEF BreakerNext, RecordAttempt, RetryContext, Recorded, Stopped, breakerVars
<1> QED
  BY <1>1, <1>2, <1>3 DEF BreakerNext, breakerVars

\* The counters find exactly the loops that the attempt list has, for every set of
\* codes and errors, all thresholds and lists of any length.
THEOREM BreakerFindsLoops == BreakerSpec => []FreezesExactlyTheLoops
<1>1. LoopInv => FreezesExactlyTheLoops
  <2> SUFFICES ASSUME LoopInv PROVE FreezesExactlyTheLoops
    OBVIOUS
  <2>1. /\ breaker.freeze_cycles = Cardinality(Freezes)
        /\ breaker.status \in Statuses /\ WithinThresholds(breaker)
        /\ attempts \in Seq(Attempt)
    BY FreezesOfList DEF LoopInv, BreakerInv, BreakerTypeOK, CountersBelowThresholds, Breakers
  <2>2. IsFiniteSet(Freezes) /\ Cardinality(Freezes) \in Nat
    BY <2>1, FreezesOfList, FreezesFinite
  <2>3. Cardinality(Freezes) = 0 <=> Freezes = {}
    BY <2>2, FS_EmptySet
  <2>4. /\ breaker.status = Active <=> Freezes = {}
        /\ breaker.status = HardStop <=> Cardinality(Freezes) >= HARD_STOP_FREEZE_CYCLES
    BY <2>1, <2>2, <2>3, BreakerAssumption DEF WithinThresholds
  <2> QED
    BY <2>1, <2>4 DEF FreezesExactlyTheLoops, Statuses, Active, Frozen, HardStop
<1> QED
  BY <1>1, LoopInvInit, LoopInvStep, PTL DEF BreakerSpec
===============================================================================
