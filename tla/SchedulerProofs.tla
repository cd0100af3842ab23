---------------------------- MODULE SchedulerProofs ----------------------------
(***************************************************************************)
(* Proofs about the scheduler, for any sets of tasks, processes, handlers   *)
(* and codes and every value of the limits.                                 *)
(*                                                                         *)
(* The shape of the state (TypeInv) and the absence of orphaned runs come   *)
(* first, then EarnedInv, which relates a success to a stored pass; these   *)
(* hold for any number of processes. With one process on the database       *)
(* (OneWorker, as server.py starts it) a run owns its task: OwnInv, and on  *)
(* it the refinement of TaskLifecycle, the cost of a task (CostInv) and the  *)
(* faithfulness of the replay (CycleInv).                                   *)
(***************************************************************************)
EXTENDS Scheduler, CircuitBreakerProofs

-------------------------------------------------------------------------------
(* Replaying rows gives a breaker.                                          *)

\* One row recorded in, or passed over by, the breaker b.
Replayed(b, row) ==
  IF row.status \in {"failed", "frozen"} THEN Recorded(b, row.code, row.err) ELSE b

LEMMA ReplayedSound ==
  ASSUME NEW b \in Breakers, WithinThresholds(b), NEW row \in Row
  PROVE  Replayed(b, row) \in Breakers /\ WithinThresholds(Replayed(b, row))
<1>1. row.code \in Codes /\ row.err \in Errs \cup {NoErr}
  BY DEF Row
<1> QED
  BY <1>1, RecordedSound DEF Replayed

\* The recursive function of ReplayOf exists: the functions on 0..k extend one
\* another.
LEMMA ReplayExists ==
  ASSUME NEW log
  PROVE  \A n \in Nat : \E f :
           f = [i \in 0..n |-> IF i = 0 THEN NewBreaker ELSE Replayed(f[i - 1], log[i])]
<1> DEFINE Works(f, n) ==
      f = [i \in 0..n |-> IF i = 0 THEN NewBreaker ELSE Replayed(f[i - 1], log[i])]
<1> SUFFICES ASSUME NEW n \in Nat PROVE \E f : Works(f, n)
  OBVIOUS
<1> DEFINE Good == {k \in 0..n : \E f : Works(f, k)}
<1>1. 0 \in Good
  <2>1. Works([i \in 0..0 |-> NewBreaker], 0)
    OBVIOUS
  <2> HIDE DEF Works
  <2> QED
    BY <2>1
<1>2. ASSUME NEW k \in 1..n, k - 1 \in Good PROVE k \in Good
  <2>1. PICK f : Works(f, k - 1)
    BY <1>2
  <2> DEFINE g == [i \in 0..k |-> IF i < k THEN f[i] ELSE Replayed(f[k - 1], log[k])]
  <2>2. ASSUME NEW i \in 0..k
        PROVE  g[i] = IF i = 0 THEN NewBreaker ELSE Replayed(g[i - 1], log[i])
    <3>1. CASE i = k
      <4>1. g[i] = Replayed(f[k - 1], log[k]) /\ g[i - 1] = f[k - 1]
        BY <3>1
      <4> QED
        BY <3>1, <4>1
    <3>2. CASE i < k
      <4>1. i \in 0..(k - 1) /\ g[i] = f[i]
        BY <3>2
      <4>2. f[i] = IF i = 0 THEN NewBreaker ELSE Replayed(f[i - 1], log[i])
        BY <2>1, <4>1
      <4>3. i # 0 => g[i - 1] = f[i - 1]
        BY <3>2
      <4> QED
        BY <4>1, <4>2, <4>3
    <3> QED
      BY <3>1, <3>2
  <2>3. Works(g, k)
    BY <2>2
  <2> HIDE DEF Works, g
  <2> QED
    BY <2>3
<1> HIDE DEF Works
<1>3. \A k \in 0..n : k \in Good
  BY <1>1, <1>2, UpToInduction
<1> QED
  BY <1>3

\* The crash recovery's replay always ends in a breaker object whose counters
\* are below their thresholds.
THEOREM ReplaySound ==
  ASSUME NEW log \in Seq(Row)
  PROVE  ReplayOf(log) \in Breakers /\ WithinThresholds(ReplayOf(log))
<1> DEFINE n == Len(log)
           Body(f) ==
             [i \in 0..n |-> IF i = 0 THEN NewBreaker
                             ELSE IF log[i].status \in {"failed", "frozen"}
                                  THEN Recorded(f[i - 1], log[i].code, log[i].err)
                                  ELSE f[i - 1]]
           upTo == CHOOSE f : f = Body(f)
<1>1. n \in Nat
  OBVIOUS
<1>2. \E f : f = Body(f)
  BY <1>1, ReplayExists DEF Replayed
<1>3. upTo = Body(upTo)
  BY <1>2
<1>4. ReplayOf(log) = upTo[n]
  BY DEF ReplayOf
<1> DEFINE Good == {k \in 0..n : upTo[k] \in Breakers /\ WithinThresholds(upTo[k])}
<1> HIDE DEF upTo
<1>5. 0 \in Good
  BY <1>1, <1>3, NewBreakerSound
<1>6. ASSUME NEW k \in 1..n, k - 1 \in Good PROVE k \in Good
  <2>1. upTo[k] = Body(upTo)[k]
    BY <1>3
  <2>2. k \in 0..n /\ k # 0
    BY <1>1
  <2>3. upTo[k] = Replayed(upTo[k - 1], log[k])
    BY <2>1, <2>2 DEF Replayed
  <2>4. log[k] \in Row
    OBVIOUS
  <2> QED
    BY <1>6, <2>2, <2>3, <2>4, ReplayedSound
<1> HIDE DEF Good
<1>7. \A k \in 0..n : k \in Good
  BY <1>1, <1>5, <1>6, UpToInduction
<1>8. n \in Good
  BY <1>1, <1>7
<1> QED
  BY <1>4, <1>8 DEF Good

-------------------------------------------------------------------------------
(* Inserting a row.                                                         *)

LEMMA UpToFinite ==
  ASSUME NEW n \in Nat
  PROVE  IsFiniteSet(1..n) /\ Cardinality(1..n) = n
<1>1. 1 \in Int /\ n \in Int
  OBVIOUS
<1>2. IsFiniteSet(1..n) /\ Cardinality(1..n) = IF 1 > n THEN 0 ELSE n - 1 + 1
  BY <1>1, FS_Interval
<1> QED
  BY <1>2

LEMMA TailLength ==
  ASSUME NEW n \in Nat, NEW k \in 0..n
  PROVE  (IF k + 1 <= n THEN n - (k + 1) + 1 ELSE 0) = n - k
  OBVIOUS

LEMMA InsertedSound ==
  ASSUME NEW log \in Seq(Row), NEW row \in Row
  PROVE  Inserted(log, row) \in Seq(Row) /\ Len(Inserted(log, row)) = Len(log) + 1
<1> DEFINE S == NotAfter(log, row.no)
           k == Cardinality(S)
           head == SubSeq(log, 1, k)
           tail == SubSeq(log, k + 1, Len(log))
<1>1. Len(log) \in Nat /\ DOMAIN log = 1..Len(log)
  OBVIOUS
<1>2. IsFiniteSet(1..Len(log)) /\ Cardinality(1..Len(log)) = Len(log)
  BY <1>1, FS_Interval
<1>3. k \in 0..Len(log)
  <2>1. S \in SUBSET (1..Len(log))
    BY <1>1 DEF NotAfter
  <2>2. IsFiniteSet(S) /\ k <= Len(log)
    BY <1>2, <2>1, FS_Subset
  <2> QED
    BY <1>1, <2>2, FS_CardinalityType
<1>4. Inserted(log, row) = SubSeq(log, 1, (k + 1) - 1) \o <<row>> \o SubSeq(log, k + 1, Len(log))
  BY DEF Inserted, InsertAt
<1> HIDE DEF k
<1>5. (k + 1) - 1 = k
  BY <1>3
<1>6. Inserted(log, row) = head \o <<row>> \o tail
  BY <1>4, <1>5
<1>7. \A i \in 1..Len(log) : log[i] \in Row
  BY ElementOfSeq
<1>8. head \in Seq(Row) /\ Len(head) = k
  BY <1>1, <1>3, <1>7, SubSeqProperties
<1>9. tail \in Seq(Row) /\ Len(tail) = Len(log) - k
  <2>1. k + 1 \in Int /\ Len(log) \in Int /\ \A i \in k + 1 .. Len(log) : log[i] \in Row
    BY <1>1, <1>3, <1>7
  <2>2. tail \in Seq(Row)
    BY <2>1, SubSeqProperties
  <2>3. Len(tail) = IF k + 1 <= Len(log) THEN Len(log) - (k + 1) + 1 ELSE 0
    BY <2>1, SubSeqProperties
  <2> QED
    BY <1>1, <1>3, <2>2, <2>3, TailLength
<1> HIDE DEF head, tail
<1>10. <<row>> \in Seq(Row) /\ Len(<<row>>) = 1
  OBVIOUS
<1>11. head \o <<row>> \in Seq(Row) /\ Len(head \o <<row>>) = k + 1
  BY <1>3, <1>8, <1>10, ConcatProperties
<1> DEFINE front == head \o <<row>>
<1> HIDE DEF front
<1>12. front \in Seq(Row) /\ Len(front) = k + 1
  BY <1>11 DEF front
<1>13. front \o tail \in Seq(Row) /\ Len(front \o tail) = Len(front) + Len(tail)
  BY <1>9, <1>12, ConcatProperties
<1>14. Inserted(log, row) = front \o tail
  BY <1>6 DEF front
<1>15. Len(front) + Len(tail) = Len(log) + 1
  BY <1>1, <1>3, <1>9, <1>12
<1> QED
  BY <1>13, <1>14, <1>15

\* A row numbered above all others is appended.
LEMMA InsertedLast ==
  ASSUME NEW log \in Seq(Row), NEW row \in Row,
         \A i \in DOMAIN log : log[i].no <= row.no
  PROVE  Inserted(log, row) = Append(log, row)
<1> DEFINE n == Len(log)
<1>1. n \in Nat /\ DOMAIN log = 1..n
  OBVIOUS
<1>2. NotAfter(log, row.no) = 1..n
  BY <1>1 DEF NotAfter
<1>3. Cardinality(NotAfter(log, row.no)) = n
  <2>1. Cardinality(1..n) = n
    BY <1>1, UpToFinite
  <2> QED
    BY <1>2, <2>1
<1>4. Inserted(log, row) = SubSeq(log, 1, (n + 1) - 1) \o <<row>> \o SubSeq(log, n + 1, n)
  BY <1>3 DEF Inserted, InsertAt
<1>5. (n + 1) - 1 = n /\ n < n + 1
  BY <1>1
<1>6. SubSeq(log, 1, n) = log
  BY SubSeqFull
<1>7. SubSeq(log, n + 1, n) = <<>>
  BY <1>1, <1>5, SubSeqEmpty
<1>8. log \o <<row>> = Append(log, row) /\ Append(log, row) \in Seq(Row)
  BY AppendIsConcat, AppendProperties
<1>9. Append(log, row) \o <<>> = Append(log, row)
  BY <1>8, ConcatEmptySeq
<1> QED
  BY <1>4, <1>5, <1>6, <1>7, <1>8, <1>9

-------------------------------------------------------------------------------
(* Types. A worker past its start has an entry in the sessions table, one     *)
(* that has claimed has a task, and every breaker is below its thresholds.    *)

WorkerOK(p) ==
  /\ sid[p] \in 0..Len(sessions)
  /\ pc[p] \notin {"down", "recovered"} => sid[p] # 0
  /\ Running(p) \/ pc[p] = "finished" => cur[p] \in Tasks
  /\ WithinThresholds(cb[p])

TypeInv == TypeOK /\ \A p \in Procs : WorkerOK(p)

USE DEF taskVars, workerVars, ghostVars

LEMMA CloseSessionTypes ==
  ASSUME sessions \in Seq(Session), NEW p, sid[p] \in 1..Len(sessions), CloseSession(p)
  PROVE  sessions' \in Seq(Session) /\ Len(sessions') = Len(sessions)
<1> DEFINE e == [sessions[sid[p]] EXCEPT !.stopped = TRUE]
<1>1. sessions[sid[p]] \in Session
  BY ElementOfSeq
<1>2. e \in Session
  BY <1>1 DEF Session
<1>3. sessions' = [sessions EXCEPT ![sid[p]] = e]
  BY DEF CloseSession
<1> HIDE DEF e
<1> QED
  BY <1>2, <1>3, ExceptSeq

LEMMA CountSessionTypes ==
  ASSUME sessions \in Seq(Session), NEW p, sid[p] \in 1..Len(sessions),
         sessions' = [sessions EXCEPT ![sid[p]].tasks_processed = @ + 1]
  PROVE  sessions' \in Seq(Session) /\ Len(sessions') = Len(sessions)
<1> DEFINE e == [sessions[sid[p]] EXCEPT !.tasks_processed = @ + 1]
<1>1. sessions[sid[p]] \in Session
  BY ElementOfSeq
<1>2. e \in Session
  BY <1>1 DEF Session
<1>3. sessions' = [sessions EXCEPT ![sid[p]] = e]
  OBVIOUS
<1> HIDE DEF e
<1> QED
  BY <1>2, <1>3, ExceptSeq

LEMMA InitTypes == Init => TypeInv
<1> SUFFICES ASSUME Init PROVE TypeInv
  OBVIOUS
<1> USE SchedulerAssumption, NewBreakerSound DEF Init
<1>1. TablesOK
  BY DEF TablesOK, TaskRecord, Status
<1>2. WorkersOK
  BY DEF WorkersOK, PCs
<1>3. HandlersOK
  BY DEF HandlersOK, Requests
<1>4. HistoryOK
  BY DEF HistoryOK
<1>5. \A p \in Procs : WorkerOK(p)
  BY DEF WorkerOK, Running
<1> QED
  BY <1>1, <1>2, <1>3, <1>4, <1>5 DEF TypeInv, TypeOK

LEMMA SetStatusTypes ==
  ASSUME task \in [Tasks -> TaskRecord], NEW t \in Tasks, NEW s \in Status,
         SetStatus(t, s)
  PROVE  task' \in [Tasks -> TaskRecord]
  BY DEF SetStatus, TaskRecord

\* The actions of the worker up to the attempt.
LEMMA RecoverTypes ==
  ASSUME TypeInv, NEW p \in Procs, Recover(p)
  PROVE  TypeInv'
<1> USE DEF TypeInv, TypeOK, Recover
<1>1. TablesOK'
  <2>1. \A t \in Tasks : [task[t] EXCEPT !.status = "queued", !.fresh = FALSE,
                                         !.cancel_requested = FALSE] \in TaskRecord
    BY DEF TablesOK, TaskRecord, Status
  <2> QED
    BY <2>1 DEF TablesOK
<1>2. WorkersOK'
  BY DEF WorkersOK, PCs
<1>3. HandlersOK' /\ HistoryOK'
  BY DEF HandlersOK, HistoryOK
<1>4. \A q \in Procs : WorkerOK(q)'
  BY DEF WorkerOK, Running, WorkersOK
<1> QED
  BY <1>1, <1>2, <1>3, <1>4

LEMMA StartSessionTypes ==
  ASSUME TypeInv, NEW p \in Procs, StartSession(p)
  PROVE  TypeInv'
<1> USE DEF TypeInv, TypeOK, StartSession
<1>0. [stopped |-> FALSE, tasks_processed |-> 0] \in Session
  BY DEF Session
<1>1. TablesOK' /\ Len(sessions') = Len(sessions) + 1
  BY <1>0, AppendProperties DEF TablesOK
<1>2. WorkersOK'
  BY DEF WorkersOK, PCs, TablesOK
<1>3. HandlersOK' /\ HistoryOK'
  BY DEF HandlersOK, HistoryOK
<1>4. \A q \in Procs : WorkerOK(q)'
  BY <1>1 DEF WorkerOK, Running, WorkersOK, TablesOK
<1> QED
  BY <1>1, <1>2, <1>3, <1>4

LEMMA EndSessionTypes ==
  ASSUME TypeInv, NEW p \in Procs, EndSession(p)
  PROVE  TypeInv'
<1> USE DEF TypeInv, TypeOK, EndSession
<1>0. sid[p] \in 1..Len(sessions)
  BY DEF WorkerOK, TablesOK
<1>1. TablesOK' /\ Len(sessions') = Len(sessions)
  BY <1>0, CloseSessionTypes DEF TablesOK
<1>2. WorkersOK'
  BY DEF WorkersOK, PCs
<1>3. HandlersOK' /\ HistoryOK'
  BY DEF HandlersOK, HistoryOK
<1>4. \A q \in Procs : WorkerOK(q)'
  BY <1>1 DEF WorkerOK, Running, WorkersOK
<1> QED
  BY <1>1, <1>2, <1>3, <1>4

LEMMA ClaimTypes ==
  ASSUME TypeInv, NEW p \in Procs, Claim(p)
  PROVE  TypeInv'
<1> USE DEF TypeInv, TypeOK
<1>1. PICK t \in Tasks :
        /\ SetStatus(t, "running")
        /\ cur' = [cur EXCEPT ![p] = t]
        /\ snapFresh' = [snapFresh EXCEPT ![p] = task[t].fresh]
        /\ claims' = [claims EXCEPT ![t] = @ + 1]
  BY DEF Claim
<1>2. /\ pc[p] = "loop" /\ pc' = [pc EXCEPT ![p] = "claimed"]
      /\ UNCHANGED <<rows, sessions, cb, logLen, verdict, sid, req, crashes, retries,
                     raced, base, cancelAt>>
  BY DEF Claim
<1>3. TablesOK'
  BY <1>1, <1>2, SetStatusTypes DEF TablesOK, Status
<1>4. task[t].fresh \in BOOLEAN
  BY DEF TablesOK, TaskRecord
<1>5. WorkersOK'
  BY <1>1, <1>2, <1>4 DEF WorkersOK, PCs
<1>6. HandlersOK' /\ HistoryOK'
  BY <1>1, <1>2 DEF HandlersOK, HistoryOK
<1>7. \A q \in Procs : WorkerOK(q)'
  BY <1>1, <1>2 DEF WorkerOK, Running, WorkersOK
<1> QED
  BY <1>3, <1>5, <1>6, <1>7

LEMMA DecideTypes ==
  ASSUME WorkersOK, NEW p \in Procs, NEW v \in Verdicts, Decide(p, v)
  PROVE  /\ pc' \in [Procs -> PCs]
         /\ verdict' \in [Procs -> Verdicts \cup {"none"}]
  BY DEF Decide, WorkersOK, PCs

LEMMA ReplayTypes ==
  ASSUME TypeInv, NEW p \in Procs, Replay(p)
  PROVE  TypeInv'
<1> USE DEF TypeInv, TypeOK
<1> DEFINE log == rows[cur[p]]
           b == IF snapFresh[p] THEN NewBreaker ELSE ReplayOf(log)
<1>1. /\ pc[p] = "claimed"
      /\ cb' = [cb EXCEPT ![p] = b]
      /\ logLen' = [logLen EXCEPT ![p] = Len(log)]
      /\ \/ Decide(p, "needs_review")
         \/ pc' = [pc EXCEPT ![p] = "check"] /\ UNCHANGED verdict
      /\ UNCHANGED <<taskVars, cur, snapFresh, sid, req, crashes, retries, ghostVars>>
  BY DEF Replay
<1>2. log \in Seq(Row) /\ Len(log) \in Nat
  BY <1>1 DEF TablesOK, WorkerOK, Running
<1>3. b \in Breakers /\ WithinThresholds(b)
  BY <1>2, NewBreakerSound, ReplaySound
<1> HIDE DEF log, b
<1>4. /\ pc' \in [Procs -> PCs]
      /\ verdict' \in [Procs -> Verdicts \cup {"none"}]
  BY <1>1, DecideTypes DEF WorkersOK, PCs, Verdicts
<1>5. TablesOK' /\ WorkersOK'
  BY <1>1, <1>2, <1>3, <1>4 DEF TablesOK, WorkersOK
<1>6. HandlersOK' /\ HistoryOK'
  BY <1>1 DEF HandlersOK, HistoryOK
<1>7. \A q \in Procs : WorkerOK(q)'
  <2> SUFFICES ASSUME NEW q \in Procs PROVE WorkerOK(q)'
    OBVIOUS
  <2>1. cb'[q] = IF q = p THEN b ELSE cb[q]
    BY <1>1 DEF WorkersOK
  <2>2. WithinThresholds(cb'[q])
    BY <1>3, <2>1 DEF WorkerOK
  <2> QED
    BY <1>1, <2>2 DEF WorkerOK, Running, WorkersOK, Decide, WithinThresholds
<1> QED
  BY <1>5, <1>6, <1>7

LEMMA CheckCancelTypes ==
  ASSUME TypeInv, NEW p \in Procs, CheckCancel(p)
  PROVE  TypeInv'
<1> USE DEF TypeInv, TypeOK
<1>1. /\ pc[p] = "check"
      /\ \/ Decide(p, "aborted")
         \/ pc' = [pc EXCEPT ![p] = "execute"] /\ UNCHANGED verdict
      /\ UNCHANGED <<taskVars, cur, snapFresh, cb, logLen, sid, req, crashes, retries,
                     ghostVars>>
  BY DEF CheckCancel
<1>2. TablesOK' /\ HandlersOK' /\ HistoryOK'
  BY <1>1 DEF TablesOK, HandlersOK, HistoryOK
<1>3. WorkersOK'
  BY <1>1, DecideTypes DEF WorkersOK, PCs, Verdicts
<1>4. \A q \in Procs : WorkerOK(q)'
  BY <1>1 DEF WorkerOK, Running, WorkersOK, Decide
<1> QED
  BY <1>2, <1>3, <1>4

-------------------------------------------------------------------------------
(* The attempt and what follows it.                                         *)

LEMMA StoreTypes ==
  ASSUME TypeInv, NEW p \in Procs, cur[p] \in Tasks,
         NEW s \in {"passed", "frozen", "failed"},
         NEW code \in Codes, NEW err \in Errs \cup {NoErr}, Store(p, s, code, err)
  PROVE  rows' \in [Tasks -> Seq(Row)] /\ logLen' \in [Procs -> Nat]
<1> DEFINE row == [no |-> logLen[p] + 1, status |-> s, code |-> code, err |-> err]
<1>1. rows \in [Tasks -> Seq(Row)] /\ logLen \in [Procs -> Nat]
  BY DEF TypeInv, TypeOK, TablesOK, WorkersOK
<1>2. row \in Row
  BY <1>1 DEF Row
<1>3. rows' = [rows EXCEPT ![cur[p]] = Inserted(rows[cur[p]], row)]
  BY DEF Store
<1> HIDE DEF row
<1>4. Inserted(rows[cur[p]], row) \in Seq(Row)
  BY <1>1, <1>2, InsertedSound
<1>5. Len(rows[cur[p]]) + 1 \in Nat
  BY <1>1
<1> QED
  BY <1>1, <1>3, <1>4, <1>5 DEF Store

LEMMA AttemptPassesTypes ==
  ASSUME TypeInv, NEW p \in Procs, AttemptPasses(p)
  PROVE  TypeInv'
<1> USE DEF TypeInv, TypeOK
<1>1. PICK code \in Codes :
        /\ cb' = [cb EXCEPT ![p] = Recorded(cb[p], code, NoErr)]
        /\ Store(p, "passed", code, NoErr)
  BY DEF AttemptPasses
<1>2. /\ pc[p] = "execute" /\ Decide(p, "succeeded")
      /\ UNCHANGED <<task, sessions, cur, snapFresh, sid, req, crashes, retries,
                     ghostVars>>
  BY DEF AttemptPasses
<1> DEFINE b == Recorded(cb[p], code, NoErr)
<1>3. b \in Breakers /\ WithinThresholds(b)
  BY RecordedSound DEF WorkerOK, WorkersOK
<1> HIDE DEF b
<1>4. rows' \in [Tasks -> Seq(Row)] /\ logLen' \in [Procs -> Nat]
  BY <1>1, <1>2, StoreTypes DEF WorkerOK, Running
<1>5. /\ pc' \in [Procs -> PCs]
      /\ verdict' \in [Procs -> Verdicts \cup {"none"}]
  BY <1>2, DecideTypes DEF Verdicts
<1>6. TablesOK' /\ WorkersOK'
  BY <1>1, <1>2, <1>3, <1>4, <1>5 DEF TablesOK, WorkersOK, b
<1>7. HandlersOK' /\ HistoryOK'
  BY <1>2 DEF HandlersOK, HistoryOK
<1>8. ASSUME NEW q \in Procs PROVE WorkerOK(q)'
  <2>1. cb'[q] = IF q = p THEN b ELSE cb[q]
    BY <1>1 DEF WorkersOK, b
  <2>2. WithinThresholds(cb'[q])
    BY <1>3, <2>1 DEF WorkerOK
  <2> QED
    BY <1>2, <2>2 DEF WorkerOK, Running, WorkersOK, Decide, WithinThresholds
<1> QED
  BY <1>6, <1>7, <1>8

LEMMA AttemptFailsTypes ==
  ASSUME TypeInv, NEW p \in Procs, AttemptFails(p)
  PROVE  TypeInv'
<1> USE DEF TypeInv, TypeOK
<1>1. PICK code \in Codes, err \in Errs \cup {NoErr} :
        LET b    == Recorded(cb[p], code, IF err = NoErr THEN VerifyFailed ELSE err)
            over == Stopped(b) \/ CapReached(logLen[p] + 1)
        IN  /\ cb' = [cb EXCEPT ![p] = b]
            /\ Store(p, IF b.status = Frozen THEN "frozen" ELSE "failed", code, err)
            /\ IF over THEN Decide(p, "needs_review")
               ELSE pc' = [pc EXCEPT ![p] = "check"] /\ UNCHANGED verdict
  BY DEF AttemptFails
<1>2. /\ pc[p] = "execute"
      /\ UNCHANGED <<task, sessions, cur, snapFresh, sid, req, crashes, retries,
                     ghostVars>>
  BY DEF AttemptFails
<1> DEFINE b == Recorded(cb[p], code, IF err = NoErr THEN VerifyFailed ELSE err)
<1>3. b \in Breakers /\ WithinThresholds(b)
  BY RecordedSound, SchedulerAssumption DEF WorkerOK, WorkersOK
<1>4. /\ cb' = [cb EXCEPT ![p] = b]
      /\ \E s \in {"frozen", "failed"} : Store(p, s, code, err)
      /\ \/ Decide(p, "needs_review")
         \/ pc' = [pc EXCEPT ![p] = "check"] /\ UNCHANGED verdict
  BY <1>1
<1> HIDE DEF b
<1>5. rows' \in [Tasks -> Seq(Row)] /\ logLen' \in [Procs -> Nat]
  BY <1>2, <1>4, StoreTypes DEF WorkerOK, Running
<1>6. /\ pc' \in [Procs -> PCs]
      /\ verdict' \in [Procs -> Verdicts \cup {"none"}]
  BY <1>4, DecideTypes DEF Verdicts, PCs, WorkersOK
<1>7. TablesOK' /\ WorkersOK'
  BY <1>2, <1>3, <1>4, <1>5, <1>6 DEF TablesOK, WorkersOK
<1>8. HandlersOK' /\ HistoryOK'
  BY <1>2 DEF HandlersOK, HistoryOK
<1>9. ASSUME NEW q \in Procs PROVE WorkerOK(q)'
  <2>1. cb'[q] = IF q = p THEN b ELSE cb[q]
    BY <1>4 DEF WorkersOK
  <2>2. WithinThresholds(cb'[q])
    BY <1>3, <2>1 DEF WorkerOK
  <2> QED
    BY <1>2, <1>4, <2>2 DEF WorkerOK, Running, WorkersOK, Decide, WithinThresholds
<1> QED
  BY <1>7, <1>8, <1>9

LEMMA AttemptRaisesTypes ==
  ASSUME TypeInv, NEW p \in Procs, AttemptRaises(p)
  PROVE  TypeInv'
<1> USE DEF TypeInv, TypeOK, AttemptRaises
<1>1. TablesOK' /\ HandlersOK' /\ HistoryOK'
  BY DEF TablesOK, HandlersOK, HistoryOK
<1>2. WorkersOK'
  BY DecideTypes DEF WorkersOK, Verdicts
<1>3. \A q \in Procs : WorkerOK(q)'
  BY DEF WorkerOK, Running, WorkersOK, Decide
<1> QED
  BY <1>1, <1>2, <1>3

LEMMA WriteVerdictTypes ==
  ASSUME TypeInv, NEW p \in Procs, WriteVerdict(p)
  PROVE  TypeInv'
<1> USE DEF TypeInv, TypeOK, WriteVerdict
<1>1. verdict[p] \in Status /\ cur[p] \in Tasks
  BY DEF WorkersOK, WorkerOK, Running, Status
<1>2. TablesOK' /\ HandlersOK' /\ HistoryOK'
  BY <1>1, SetStatusTypes DEF TablesOK, HandlersOK, HistoryOK
<1>3. WorkersOK'
  BY DEF WorkersOK, PCs
<1>4. \A q \in Procs : WorkerOK(q)'
  BY DEF WorkerOK, Running, WorkersOK
<1> QED
  BY <1>2, <1>3, <1>4

LEMMA ForgetRunTypes ==
  ASSUME WorkersOK, NEW p \in Procs, ForgetRun(p)
  PROVE  /\ cur' \in [Procs -> Tasks \cup {NoTask}]
         /\ snapFresh' \in [Procs -> BOOLEAN]
         /\ cb' \in [Procs -> Breakers]
         /\ logLen' \in [Procs -> Nat]
         /\ verdict' \in [Procs -> Verdicts \cup {"none"}]
         /\ \A q \in Procs : q # p => cur'[q] = cur[q] /\ cb'[q] = cb[q]
         /\ cb'[p] = NewBreaker
  BY NewBreakerSound DEF ForgetRun, WorkersOK

LEMMA CountTaskTypes ==
  ASSUME TypeInv, NEW p \in Procs, CountTask(p)
  PROVE  TypeInv'
<1>0. sid[p] \in 1..Len(sessions)
  <2>1. WorkerOK(p) /\ pc[p] = "finished" /\ sessions \in Seq(Session)
    BY DEF TypeInv, TypeOK, TablesOK, CountTask
  <2> QED
    BY <2>1 DEF WorkerOK
<1> USE DEF TypeInv, TypeOK, CountTask
<1>1. TablesOK' /\ Len(sessions') = Len(sessions)
  BY <1>0, CountSessionTypes DEF TablesOK
<1>2. HandlersOK' /\ HistoryOK'
  BY DEF HandlersOK, HistoryOK
<1>3. WorkersOK'
  BY ForgetRunTypes DEF WorkersOK, PCs
<1>4. ASSUME NEW q \in Procs PROVE WorkerOK(q)'
  <2>1. WithinThresholds(cb'[q])
    BY ForgetRunTypes, NewBreakerSound DEF WorkerOK
  <2> QED
    BY <1>1, <2>1, ForgetRunTypes
       DEF WorkerOK, Running, WorkersOK, WithinThresholds
<1> QED
  BY <1>1, <1>2, <1>3, <1>4

LEMMA DieTypes ==
  ASSUME TypeInv, NEW p \in Procs, Die(p),
         sessions' \in Seq(Session), Len(sessions') = Len(sessions)
  PROVE  TypeInv'
<1> USE DEF TypeInv, TypeOK
<1>1. TablesOK' /\ HistoryOK'
  BY DEF TablesOK, HistoryOK, Die
<1>2. HandlersOK'
  BY DEF HandlersOK, Die, Requests
<1>3. WorkersOK'
  BY ForgetRunTypes DEF WorkersOK, PCs, Die
<1>4. ASSUME NEW q \in Procs PROVE WorkerOK(q)'
  <2>1. WithinThresholds(cb'[q])
    BY ForgetRunTypes, NewBreakerSound DEF WorkerOK, Die
  <2> QED
    BY <2>1, ForgetRunTypes
       DEF WorkerOK, Running, WorkersOK, WithinThresholds, Die, TablesOK
<1> QED
  BY <1>1, <1>2, <1>3, <1>4

LEMMA DeathTypes ==
  ASSUME TypeInv, NEW p \in Procs, Crash(p) \/ Interrupt(p)
  PROVE  TypeInv'
<1>1. CASE Crash(p)
  BY <1>1, DieTypes DEF Crash, TypeInv, TypeOK, TablesOK
<1>2. CASE Interrupt(p)
  <2>1. sid[p] \in 1..Len(sessions) /\ CloseSession(p) /\ Die(p)
    BY <1>2 DEF Interrupt, TypeInv, WorkerOK, TypeOK, TablesOK
  <2> QED
    BY <2>1, CloseSessionTypes, DieTypes DEF TypeInv, TypeOK, TablesOK
<1> QED
  BY <1>1, <1>2

-------------------------------------------------------------------------------
(* The handlers leave the worker alone.                                     *)

LEMMA HandlerKeepsWorkers ==
  ASSUME TypeInv, UNCHANGED workerVars, UNCHANGED sessions
  PROVE  WorkersOK' /\ \A p \in Procs : WorkerOK(p)'
  BY DEF TypeInv, TypeOK, WorkersOK, WorkerOK, Running, WithinThresholds

LEMMA DispatchTypes ==
  ASSUME TypeInv, NEW p \in Procs, NEW t \in Tasks, NEW priority \in Priorities,
         Dispatch(p, t, priority)
  PROVE  TypeInv'
<1> USE DEF TypeInv, TypeOK, Dispatch
<1> DEFINE before == {u \in Tasks : task[u].status # "none"}
           row == [status |-> "queued", fresh |-> TRUE, cancel_requested |-> FALSE,
                   priority |-> priority, created_at |-> 1 + Cardinality(before)]
<1>1. Cardinality(before) \in Nat
  BY SchedulerAssumption, FS_Subset, FS_CardinalityType
<1>2. row \in TaskRecord
  BY <1>1 DEF TaskRecord, Status
<1>3. task' = [task EXCEPT ![t] = row]
  OBVIOUS
<1> HIDE DEF row
<1>4. TablesOK'
  BY <1>2, <1>3 DEF TablesOK
<1>5. HandlersOK' /\ HistoryOK'
  BY DEF HandlersOK, HistoryOK
<1> QED
  BY <1>4, <1>5, HandlerKeepsWorkers

LEMMA RequestTypes ==
  ASSUME TypeInv, NEW p \in Procs, NEW th \in Threads, NEW t \in Tasks,
         NEW op \in {"abort", "flag", "retry"}, Request(p, th, op, t)
  PROVE  TypeInv'
<1> USE DEF TypeInv, TypeOK, Request
<1>1. [op |-> op, task |-> t, seen |-> task[t].status] \in Requests
  BY DEF TablesOK, TaskRecord, Requests
<1>2. HandlersOK'
  BY <1>1 DEF HandlersOK
<1>3. TablesOK' /\ HistoryOK'
  BY DEF TablesOK, HistoryOK
<1> QED
  BY <1>2, <1>3, HandlerKeepsWorkers

LEMMA ReadTypes ==
  ASSUME TypeInv, NEW p \in Procs, NEW th \in Threads, NEW t \in Tasks,
         ReadForCancel(p, th, t) \/ ReadForRetry(p, th, t)
  PROVE  TypeInv'
  BY RequestTypes DEF ReadForCancel, ReadForRetry

LEMMA RequestedTask ==
  ASSUME TypeInv, NEW p \in Procs, NEW th \in Threads, req[p][th].op # "none"
  PROVE  req[p][th].task \in Tasks
<1>1. req[p][th] \in Requests
  BY DEF TypeInv, TypeOK, HandlersOK
<1> QED
  BY <1>1 DEF Requests, NoReq

LEMMA AnswerTypes ==
  ASSUME TypeInv, NEW p \in Procs, NEW th \in Threads, Answer(p, th)
  PROVE  req' \in [Procs -> [Threads -> Requests]]
  BY DEF TypeInv, TypeOK, HandlersOK, Answer, Requests

LEMMA NoteRaceTypes ==
  ASSUME TypeInv, NEW p \in Procs, NEW th \in Threads, req[p][th].op # "none",
         NoteRace(req[p][th])
  PROVE  raced' \in [Tasks -> BOOLEAN]
<1>1. raced \in [Tasks -> BOOLEAN]
  BY DEF TypeInv, TypeOK, HistoryOK
<1> QED
  BY <1>1, RequestedTask DEF NoteRace

LEMMA WriteAbortTypes ==
  ASSUME TypeInv, NEW p \in Procs, NEW th \in Threads, WriteAbort(p, th)
  PROVE  TypeInv'
<1> USE DEF TypeInv, TypeOK, WriteAbort
<1>1. req[p][th].task \in Tasks
  BY RequestedTask
<1>2. TablesOK'
  BY <1>1, SetStatusTypes DEF TablesOK, Status, Verdicts
<1>3. HandlersOK'
  BY AnswerTypes DEF HandlersOK
<1>4. HistoryOK'
  BY NoteRaceTypes DEF HistoryOK
<1> QED
  BY <1>2, <1>3, <1>4, HandlerKeepsWorkers

LEMMA WriteCancelFlagTypes ==
  ASSUME TypeInv, NEW p \in Procs, NEW th \in Threads, WriteCancelFlag(p, th)
  PROVE  TypeInv'
<1> USE DEF TypeInv, TypeOK, WriteCancelFlag
<1>1. req[p][th].task \in Tasks
  BY RequestedTask
<1>2. TablesOK'
  BY <1>1 DEF TablesOK, TaskRecord
<1>3. HandlersOK'
  BY AnswerTypes DEF HandlersOK
<1>4. HistoryOK'
  BY <1>1 DEF HistoryOK, TablesOK
<1> QED
  BY <1>2, <1>3, <1>4, HandlerKeepsWorkers

LEMMA WriteRetryTypes ==
  ASSUME TypeInv, NEW p \in Procs, NEW th \in Threads, WriteRetry(p, th)
  PROVE  TypeInv'
<1> DEFINE t == req[p][th].task
<1>1. t \in Tasks
  BY RequestedTask DEF WriteRetry
<1>2. TablesOK /\ HandlersOK /\ HistoryOK
  BY DEF TypeInv, TypeOK
<1>3. TablesOK'
  <2>1. /\ task' = [task EXCEPT ![t].status = "queued", ![t].fresh = TRUE,
                                ![t].cancel_requested = FALSE]
        /\ rows' = rows /\ sessions' = sessions
    BY DEF WriteRetry
  <2>2. task[t] \in TaskRecord
    BY <1>1, <1>2 DEF TablesOK
  <2>3. [task[t] EXCEPT !.status = "queued", !.fresh = TRUE, !.cancel_requested = FALSE]
          \in TaskRecord
    BY <2>2 DEF TaskRecord, Status
  <2>4. task' \in [Tasks -> TaskRecord]
    <3> HIDE DEF t
    <3> QED BY <1>1, <1>2, <2>1, <2>3 DEF TablesOK
  <2> QED BY <1>2, <2>1, <2>4 DEF TablesOK
<1>4. HandlersOK'
  <2>1. crashes' = crashes /\ retries' = [retries EXCEPT ![t] = @ + 1]
    BY DEF WriteRetry
  <2>2. req' \in [Procs -> [Threads -> Requests]]
    BY AnswerTypes DEF WriteRetry
  <2> HIDE DEF t
  <2> QED BY <1>1, <1>2, <2>1, <2>2 DEF HandlersOK
<1>5. HistoryOK'
  <2>1. raced' \in [Tasks -> BOOLEAN]
    BY NoteRaceTypes DEF WriteRetry
  <2>2. base' = [base EXCEPT ![t] = Len(rows[t])] /\ claims' = claims /\ cancelAt' = cancelAt
    BY DEF WriteRetry
  <2>3. Len(rows[t]) \in Nat
    <3>1. rows[t] \in Seq(Row)
      BY <1>1, <1>2 DEF TablesOK
    <3> QED BY <3>1
  <2> HIDE DEF t
  <2> QED BY <1>1, <1>2, <2>1, <2>2, <2>3 DEF HistoryOK
<1> QED
  BY <1>3, <1>4, <1>5, HandlerKeepsWorkers DEF TypeInv, TypeOK, WriteRetry

-------------------------------------------------------------------------------
LEMMA TypesPreserved ==
  ASSUME TypeInv, [Next]_vars
  PROVE  TypeInv'
<1>1. CASE UNCHANGED vars
  BY <1>1 DEF vars, TypeInv, TypeOK, TablesOK, WorkersOK, HandlersOK, HistoryOK,
              WorkerOK, Running, WithinThresholds
<1>2. ASSUME NEW p \in Procs, Worker(p) PROVE TypeInv'
  BY <1>2, RecoverTypes, StartSessionTypes, EndSessionTypes, ClaimTypes, ReplayTypes,
     CheckCancelTypes, AttemptPassesTypes, AttemptFailsTypes, AttemptRaisesTypes,
     WriteVerdictTypes, CountTaskTypes
     DEF Worker, WorkerStep
<1>3. ASSUME NEW p \in Procs, Crash(p) \/ Interrupt(p) PROVE TypeInv'
  BY <1>3, DeathTypes
<1>4. ASSUME NEW p \in Procs, NEW t \in Tasks, NEW priority \in Priorities,
             Dispatch(p, t, priority)
      PROVE  TypeInv'
  BY <1>4, DispatchTypes
<1>5. ASSUME NEW p \in Procs, NEW th \in Threads, Handler(p, th) PROVE TypeInv'
  BY <1>5, ReadTypes, WriteAbortTypes, WriteCancelFlagTypes, WriteRetryTypes
     DEF Handler
<1> QED
  BY <1>1, <1>2, <1>3, <1>4, <1>5 DEF Next

LEMMA TypeInvAlways == Spec => []TypeInv
<1>1. TypeInv /\ [Next]_vars => TypeInv'
  BY TypesPreserved
<1> QED
  BY <1>1, InitTypes, PTL DEF Spec

\* Type correctness of the scheduler: tables, workers, requests and history.
THEOREM SchedulerTypes == Spec => []TypeOK
<1>1. TypeInv => TypeOK
  BY DEF TypeInv
<1> QED
  BY <1>1, TypeInvAlways, PTL

-------------------------------------------------------------------------------
\* With any number of workers on the database, no task is left behind as
\* running: a worker is on it, or a process is dead whose restart requeues it.
THEOREM NoRunIsOrphaned == Spec => []NoOrphanedRun
<1>1. Init => NoOrphanedRun
  BY DEF Init, NoOrphanedRun
<1>2. TypeInv /\ NoOrphanedRun /\ [Next]_vars => NoOrphanedRun'
  <2> SUFFICES ASSUME TypeInv, NoOrphanedRun, [Next]_vars PROVE NoOrphanedRun'
    OBVIOUS
  <2> USE DEF NoOrphanedRun, Running
  <2>0. task \in [Tasks -> TaskRecord] /\ pc \in [Procs -> PCs]
    BY DEF TypeInv, TypeOK, TablesOK, WorkersOK
  <2>1. CASE UNCHANGED vars
    BY <2>1 DEF vars
  <2>2. ASSUME NEW p \in Procs, Recover(p) PROVE NoOrphanedRun'
    <3>1. ASSUME NEW t \in Tasks PROVE task'[t].status # "running"
      <4>1. task[t] \in TaskRecord
        BY <2>0
      <4>2. CASE task[t].status = "running"
        <5>1. task'[t] = [task[t] EXCEPT !.status = "queued", !.fresh = FALSE,
                                         !.cancel_requested = FALSE]
          BY <2>2, <4>2 DEF Recover
        <5>2. task'[t].status = "queued"
          BY <4>1, <5>1 DEF TaskRecord
        <5> QED
          BY <5>2
      <4>3. CASE task[t].status # "running"
        BY <2>2, <4>3 DEF Recover
      <4> QED
        BY <4>2, <4>3
    <3> QED
      BY <3>1
  <2>3. ASSUME NEW p \in Procs, StartSession(p) \/ EndSession(p) PROVE NoOrphanedRun'
    BY <2>0, <2>3 DEF StartSession, EndSession
  <2>4. ASSUME NEW p \in Procs, Claim(p) PROVE NoOrphanedRun'
    <3>1. PICK t \in Tasks : SetStatus(t, "running") /\ cur' = [cur EXCEPT ![p] = t]
      BY <2>4 DEF Claim
    <3>2. cur' \in [Procs -> Tasks \cup {NoTask}] /\ cur \in [Procs -> Tasks \cup {NoTask}]
      BY <2>4, ClaimTypes DEF TypeInv, TypeOK, WorkersOK
    <3> QED
      BY <2>0, <2>4, <3>1, <3>2 DEF Claim, SetStatus, TaskRecord
  <2>5. ASSUME NEW p \in Procs, Replay(p) \/ CheckCancel(p) \/ AttemptRaises(p)
        PROVE  NoOrphanedRun'
    BY <2>0, <2>5 DEF Replay, CheckCancel, AttemptRaises, Decide
  <2>6. ASSUME NEW p \in Procs, AttemptPasses(p) \/ AttemptFails(p)
        PROVE  NoOrphanedRun'
    BY <2>0, <2>6 DEF AttemptPasses, AttemptFails, Decide
  <2>7. ASSUME NEW p \in Procs, WriteVerdict(p) PROVE NoOrphanedRun'
    <3>1. verdict[p] # "running" /\ cur[p] \in Tasks
      BY <2>7 DEF WriteVerdict, TypeInv, TypeOK, WorkersOK, WorkerOK, Verdicts
    <3> QED
      BY <2>0, <2>7, <3>1 DEF WriteVerdict, SetStatus, TaskRecord
  <2>8. ASSUME NEW p \in Procs, CountTask(p) PROVE NoOrphanedRun'
    <3>1. \A q \in Procs : q # p => cur'[q] = cur[q]
      BY <2>8, ForgetRunTypes DEF CountTask, TypeInv, TypeOK
    <3> QED
      BY <2>0, <2>8, <3>1 DEF CountTask
  <2>9. ASSUME NEW p \in Procs, Crash(p) \/ Interrupt(p) PROVE NoOrphanedRun'
    BY <2>0, <2>9 DEF Crash, Interrupt, Die
  <2>10. ASSUME NEW p \in Procs, NEW t \in Tasks, NEW priority \in Priorities,
                Dispatch(p, t, priority)
         PROVE  NoOrphanedRun'
    BY <2>0, <2>10 DEF Dispatch
  <2>11. ASSUME NEW p \in Procs, NEW th \in Threads, NEW t \in Tasks,
                ReadForCancel(p, th, t) \/ ReadForRetry(p, th, t)
         PROVE  NoOrphanedRun'
    BY <2>11 DEF ReadForCancel, ReadForRetry, Request
  <2>12. ASSUME NEW p \in Procs, NEW th \in Threads,
                \/ WriteAbort(p, th) \/ WriteCancelFlag(p, th) \/ WriteRetry(p, th)
         PROVE  NoOrphanedRun'
    <3> DEFINE u == req[p][th].task
    <3>1. u \in Tasks
      BY <2>12, RequestedTask DEF WriteAbort, WriteCancelFlag, WriteRetry
    <3>2. task[u] \in TaskRecord
      BY <2>0, <3>1
    <3> HIDE DEF u
    <3>3. ASSUME NEW t \in Tasks, task'[t].status = "running"
          PROVE  task[t].status = "running"
      <4>1. CASE WriteAbort(p, th)
        <5>1. task' = [task EXCEPT ![u].status = "aborted"]
          BY <4>1 DEF WriteAbort, SetStatus, u
        <5> QED
          BY <2>0, <3>1, <3>2, <3>3, <5>1 DEF TaskRecord
      <4>2. CASE WriteCancelFlag(p, th)
        <5>1. task' = [task EXCEPT ![u].cancel_requested = TRUE]
          BY <4>2 DEF WriteCancelFlag, u
        <5> QED
          BY <2>0, <3>1, <3>2, <3>3, <5>1 DEF TaskRecord
      <4>3. CASE WriteRetry(p, th)
        <5>1. task' = [task EXCEPT ![u].status = "queued", ![u].fresh = TRUE,
                                   ![u].cancel_requested = FALSE]
          BY <4>3 DEF WriteRetry, u
        <5>2. task'[u].status = "queued" /\ (t # u => task'[t] = task[t])
          BY <2>0, <3>1, <3>2, <5>1 DEF TaskRecord
        <5> QED
          BY <3>3, <5>2
      <4> QED
        BY <2>12, <4>1, <4>2, <4>3
    <3>4. UNCHANGED <<pc, cur>>
      BY <2>12 DEF WriteAbort, WriteCancelFlag, WriteRetry, workerVars
    <3> QED
      BY <3>3, <3>4
  <2> QED
    BY <2>1, <2>2, <2>3, <2>4, <2>5, <2>6, <2>7, <2>8, <2>9, <2>10, <2>11, <2>12
       DEF Next, Worker, WorkerStep, Handler
<1> QED
  BY <1>1, <1>2, TypeInvAlways, PTL DEF Spec

-------------------------------------------------------------------------------
(* A success is earned, with any number of workers on the database.           *)

\* The row goes in at one place, the rows before and after it keep their order.
LEMMA InsertedAt ==
  ASSUME NEW log \in Seq(Row), NEW row \in Row
  PROVE  \E k \in 0..Len(log) : \A i \in 1..Len(log) + 1 :
           Inserted(log, row)[i] = IF i <= k THEN log[i]
                                   ELSE IF i = k + 1 THEN row ELSE log[i - 1]
<1> DEFINE n == Len(log)
           k == Cardinality(NotAfter(log, row.no))
           head == SubSeq(log, 1, k)
           tail == SubSeq(log, k + 1, n)
<1>0. \A i \in 1..Len(log) : log[i] \in Row
  BY ElementOfSeq
<1>1. n \in Nat /\ DOMAIN log = 1..n
  OBVIOUS
<1>2. k \in 0..n
  <2>1. IsFiniteSet(1..n) /\ Cardinality(1..n) = n
    BY <1>1, UpToFinite
  <2>2. NotAfter(log, row.no) \in SUBSET (1..n)
    BY <1>1 DEF NotAfter
  <2>3. IsFiniteSet(NotAfter(log, row.no)) /\ k <= n
    BY <2>1, <2>2, FS_Subset
  <2> QED
    BY <1>1, <2>3, FS_CardinalityType
<1>3. Inserted(log, row) = SubSeq(log, 1, (k + 1) - 1) \o <<row>> \o tail
  BY DEF Inserted, InsertAt
<1> HIDE DEF k
<1>4. (k + 1) - 1 = k
  BY <1>2
<1>5. /\ head \in Seq(Row) /\ Len(head) = k
      /\ \A i \in 1..k : head[i] = log[i]
  BY <1>0, <1>1, <1>2, SubSeqProperties
<1>6. /\ tail \in Seq(Row) /\ Len(tail) = n - k
      /\ \A i \in 1..n - k : tail[i] = log[k + i]
  <2>1. k + 1 \in Int /\ n \in Int /\ \A i \in k + 1 .. n : log[i] \in Row
    BY <1>0, <1>1, <1>2
  <2>2. /\ tail \in Seq(Row)
        /\ Len(tail) = IF k + 1 <= n THEN n - (k + 1) + 1 ELSE 0
        /\ \A i \in 1 .. n - (k + 1) + 1 : tail[i] = log[k + 1 + i - 1]
    BY <2>1, SubSeqProperties
  <2>3. \A i \in 1..n - k : i \in 1 .. n - (k + 1) + 1 /\ k + 1 + i - 1 = k + i
    BY <1>1, <1>2
  <2> QED
    BY <1>1, <1>2, <2>2, <2>3, TailLength
<1> HIDE DEF head, tail
<1> DEFINE one == <<row>>
           front == head \o one
<1>7. one \in Seq(Row) /\ Len(one) = 1 /\ one[1] = row
  OBVIOUS
<1> HIDE DEF one
<1>8. /\ front \in Seq(Row) /\ Len(front) = k + 1
      /\ \A i \in 1..k + 1 : front[i] = IF i <= k THEN head[i] ELSE one[i - k]
  <2> HIDE DEF front
  <2>1. /\ front \in Seq(Row) /\ Len(front) = Len(head) + Len(one)
        /\ \A i \in 1..Len(head) + Len(one) :
             front[i] = IF i <= Len(head) THEN head[i] ELSE one[i - Len(head)]
    BY <1>5, <1>7, ConcatProperties DEF front
  <2> QED
    BY <1>5, <1>7, <2>1
<1>9. front[k + 1] = row /\ \A i \in 1..k : front[i] = log[i]
  BY <1>2, <1>5, <1>7, <1>8
<1> HIDE DEF front
<1> DEFINE whole == front \o tail
<1>10. \A i \in 1..n + 1 :
         whole[i] = IF i <= k + 1 THEN front[i] ELSE tail[i - (k + 1)]
  <2>1. \A i \in 1..(k + 1) + (n - k) :
          (front \o tail)[i] = IF i <= k + 1 THEN front[i] ELSE tail[i - (k + 1)]
    BY <1>6, <1>8, ConcatProperties
  <2>2. (k + 1) + (n - k) = n + 1
    BY <1>1, <1>2
  <2> QED
    BY <2>1, <2>2
<1>11. Inserted(log, row) = whole
  BY <1>3, <1>4 DEF front, one, head
<1> HIDE DEF whole
<1>12. ASSUME NEW i \in 1..n + 1
       PROVE  whole[i] = IF i <= k THEN log[i]
                                   ELSE IF i = k + 1 THEN row ELSE log[i - 1]
  <2>1. CASE i <= k
    <3>1. i \in 1..k /\ i <= k + 1
      BY <1>1, <1>2, <2>1
    <3> QED
      BY <1>9, <1>10, <2>1, <3>1
  <2>2. CASE i = k + 1
    <3>1. i <= k + 1 /\ ~(i <= k)
      BY <1>2, <2>2
    <3> QED
      BY <1>9, <1>10, <2>2, <3>1
  <2>3. CASE i > k + 1
    <3>1. i - (k + 1) \in 1..n - k /\ k + (i - (k + 1)) = i - 1
      BY <1>1, <1>2, <2>3
    <3>2. ~(i <= k + 1)
      BY <1>2, <2>3
    <3> QED
      <4>1. whole[i] = tail[i - (k + 1)]
        BY <1>10, <3>2
      <4>2. tail[i - (k + 1)] = log[k + (i - (k + 1))]
        BY <1>6, <3>1
      <4> QED
        BY <1>2, <2>3, <3>1, <3>2, <4>1, <4>2
  <2> QED
    BY <1>1, <1>2, <2>1, <2>2, <2>3
<1> QED
  BY <1>2, <1>11, <1>12

LEMMA InsertedRows ==
  ASSUME NEW log \in Seq(Row), NEW row \in Row
  PROVE  /\ \A i \in DOMAIN log : \E j \in DOMAIN Inserted(log, row) :
              Inserted(log, row)[j] = log[i]
         /\ \A j \in DOMAIN Inserted(log, row) :
              \/ Inserted(log, row)[j] = row
              \/ \E i \in DOMAIN log : Inserted(log, row)[j] = log[i]
         /\ \E j \in DOMAIN Inserted(log, row) : Inserted(log, row)[j] = row
<1> DEFINE L == Inserted(log, row)
           n == Len(log)
<1>1. L \in Seq(Row) /\ Len(L) = n + 1
  BY InsertedSound
<1>2. n \in Nat /\ DOMAIN log = 1..n /\ DOMAIN L = 1..n + 1
  BY <1>1
<1>3. PICK k \in 0..n : \A i \in 1..n + 1 :
        L[i] = IF i <= k THEN log[i] ELSE IF i = k + 1 THEN row ELSE log[i - 1]
  BY InsertedAt
<1> HIDE DEF L, n
<1>4. ASSUME NEW i \in 1..n PROVE \E j \in 1..n + 1 : L[j] = log[i]
  <2>1. CASE i <= k
    <3>1. i \in 1..n + 1 /\ L[i] = log[i]
      BY <1>2, <1>3, <2>1
    <3> QED
      BY <3>1
  <2>2. CASE i > k
    <3>1. i + 1 \in 1..n + 1 /\ ~(i + 1 <= k) /\ i + 1 # k + 1 /\ (i + 1) - 1 = i
      BY <1>2, <2>2
    <3>2. L[i + 1] = log[i]
      BY <1>3, <3>1
    <3> QED
      BY <3>1, <3>2
  <2> QED
    BY <1>2, <2>1, <2>2
<1>5. ASSUME NEW j \in 1..n + 1 PROVE L[j] = row \/ \E i \in 1..n : L[j] = log[i]
  <2>1. CASE j <= k
    <3>1. j \in 1..n /\ L[j] = log[j]
      BY <1>2, <1>3, <2>1
    <3> QED
      BY <3>1
  <2>2. CASE j = k + 1
    BY <1>2, <1>3, <2>2
  <2>3. CASE j > k + 1
    <3>1. j - 1 \in 1..n /\ ~(j <= k) /\ j # k + 1
      BY <1>2, <2>3
    <3>2. L[j] = log[j - 1]
      BY <1>3, <3>1
    <3> QED
      BY <3>1, <3>2
  <2> QED
    BY <1>2, <2>1, <2>2, <2>3
<1>6. k + 1 \in 1..n + 1 /\ L[k + 1] = row
  BY <1>2, <1>3
<1> QED
  BY <1>2, <1>4, <1>5, <1>6 DEF L

\* The states in which the run of p has not reached its verdict.
BeforeVerdict(p) == pc[p] \in {"claimed", "check", "execute"}

\* A succeeded task has a stored pass, and a stored pass that did not count
\* cost the task a second claim.
EarnedTask(t) ==
  /\ task[t].status = "succeeded" => Passed(t)
  /\ Passed(t) => claims[t] >= 1
  /\ Passed(t) /\ task[t].status \in {"needs_review", "failed"} => claims[t] > 1

\* The same of the verdict a run has not written yet. A run is a claim of its
\* own, so a pass stored before it was made under another.
EarnedRun(p) ==
  Running(p) =>
    /\ claims[cur[p]] >= 1
    /\ task[cur[p]].status \in {"needs_review", "failed"} => claims[cur[p]] > 1
    /\ BeforeVerdict(p) /\ Passed(cur[p]) => claims[cur[p]] > 1
    /\ pc[p] = "decided" =>
         IF verdict[p] = "succeeded" THEN Passed(cur[p])
         ELSE Passed(cur[p]) => claims[cur[p]] > 1

TwoRunsTwoClaims ==
  \A p, q \in Procs :
    p # q /\ Running(p) /\ Running(q) /\ cur[p] = cur[q] => claims[cur[p]] > 1

EarnedInv ==
  /\ \A t \in Tasks : EarnedTask(t)
  /\ \A p \in Procs : EarnedRun(p)
  /\ TwoRunsTwoClaims

\* What most steps leave of a run: it is over, or it goes on, and if it has come
\* to a verdict then to another one than success.
RunGoesOn(q) ==
  Running(q)' =>
    /\ Running(q) /\ cur'[q] = cur[q]
    /\ \/ pc'[q] = pc[q] /\ verdict'[q] = verdict[q]
       \/ BeforeVerdict(q) /\ (BeforeVerdict(q)' \/ verdict'[q] # "succeeded")

NoNewVerdict(t) ==
  \/ task'[t].status = task[t].status
  \/ task'[t].status \notin {"succeeded", "needs_review", "failed"}

Quiet ==
  /\ rows' = rows /\ claims' = claims
  /\ \A q \in Procs : RunGoesOn(q)
  /\ \A t \in Tasks : NoNewVerdict(t)

LEMMA QuietKeepsEarned ==
  ASSUME TypeInv, EarnedInv, Quiet
  PROVE  EarnedInv'
<1>1. \A t : Passed(t)' <=> Passed(t)
  BY DEF Quiet, Passed
<1>2. ASSUME NEW t \in Tasks PROVE EarnedTask(t)'
  <2>1. EarnedTask(t) /\ NoNewVerdict(t) /\ claims' = claims
    BY DEF EarnedInv, Quiet
  <2> QED
    BY <1>1, <2>1 DEF EarnedTask, NoNewVerdict
<1>3. ASSUME NEW p \in Procs PROVE EarnedRun(p)'
  <2>1. EarnedRun(p) /\ RunGoesOn(p) /\ claims' = claims
    BY DEF EarnedInv, Quiet
  <2>2. ASSUME Running(p)'
        PROVE  Running(p) /\ cur'[p] = cur[p] /\ NoNewVerdict(cur[p])
    BY <2>1, <2>2 DEF RunGoesOn, Quiet, TypeInv, WorkerOK
  <2> QED
    BY <1>1, <2>1, <2>2 DEF EarnedRun, RunGoesOn, Running, BeforeVerdict, NoNewVerdict
<1>4. TwoRunsTwoClaims'
  BY DEF EarnedInv, Quiet, TwoRunsTwoClaims, RunGoesOn
<1> QED
  BY <1>2, <1>3, <1>4 DEF EarnedInv

LEMMA WorkerQuiet ==
  ASSUME TypeInv, NEW p \in Procs,
         \/ Recover(p) \/ StartSession(p) \/ EndSession(p) \/ Replay(p)
         \/ CheckCancel(p) \/ AttemptRaises(p) \/ CountTask(p) \/ Crash(p) \/ Interrupt(p)
  PROVE  Quiet
<1>0. /\ task \in [Tasks -> TaskRecord] /\ pc \in [Procs -> PCs]
      /\ cur \in [Procs -> Tasks \cup {NoTask}]
      /\ verdict \in [Procs -> Verdicts \cup {"none"}]
  BY DEF TypeInv, TypeOK, TablesOK, WorkersOK
<1> USE DEF RunGoesOn, Running, BeforeVerdict
<1>1. ASSUME Recover(p) PROVE Quiet
  <2>1. ASSUME NEW t \in Tasks PROVE NoNewVerdict(t)
    <3>1. task[t] \in TaskRecord
      BY <1>0
    <3>2. task'[t].status \in {task[t].status, "queued"}
      <4>1. CASE task[t].status = "running"
        <5>1. task'[t] = [task[t] EXCEPT !.status = "queued", !.fresh = FALSE,
                                         !.cancel_requested = FALSE]
          BY <1>1, <4>1 DEF Recover
        <5> QED
          BY <3>1, <5>1 DEF TaskRecord
      <4>2. CASE task[t].status # "running"
        BY <1>1, <4>2 DEF Recover
      <4> QED
        BY <4>1, <4>2
    <3> QED
      BY <3>2 DEF NoNewVerdict
  <2>2. \A q \in Procs : RunGoesOn(q)
    BY <1>0, <1>1 DEF Recover
  <2> QED
    BY <1>1, <2>1, <2>2 DEF Quiet, Recover
<1>2. ASSUME StartSession(p) \/ EndSession(p) PROVE Quiet
  BY <1>0, <1>2 DEF Quiet, StartSession, EndSession, NoNewVerdict
<1>3. ASSUME Replay(p) \/ CheckCancel(p) \/ AttemptRaises(p) PROVE Quiet
  <2>1. /\ BeforeVerdict(p) /\ UNCHANGED <<task, rows, claims, cur>>
        /\ \/ pc' = [pc EXCEPT ![p] = "check"] /\ UNCHANGED verdict
           \/ pc' = [pc EXCEPT ![p] = "execute"] /\ UNCHANGED verdict
           \/ \E v \in {"needs_review", "aborted", "failed"} : Decide(p, v)
    BY <1>3 DEF Replay, CheckCancel, AttemptRaises
  <2>2. \A q \in Procs : RunGoesOn(q)
    BY <1>0, <2>1 DEF Decide
  <2> QED
    BY <2>1, <2>2 DEF Quiet, NoNewVerdict
<1>4. ASSUME CountTask(p) \/ Crash(p) \/ Interrupt(p) PROVE Quiet
  <2>1. /\ UNCHANGED <<task, rows, claims>> /\ ForgetRun(p)
        /\ pc' = [pc EXCEPT ![p] = "loop"] \/ pc' = [pc EXCEPT ![p] = "down"]
    BY <1>4 DEF CountTask, Crash, Interrupt, Die
  <2>2. \A q \in Procs : RunGoesOn(q)
    BY <1>0, <2>1 DEF ForgetRun
  <2> QED
    BY <2>1, <2>2 DEF Quiet, NoNewVerdict
<1> QED
  BY <1>1, <1>2, <1>3, <1>4

\* What the handlers do to the tasks table: a new row, a cancel, a retry.
LEMMA HandlerWrites ==
  ASSUME TypeInv, NEW p \in Procs, NEW th \in Threads,
         WriteAbort(p, th) \/ WriteCancelFlag(p, th) \/ WriteRetry(p, th)
  PROVE  LET u == req[p][th].task IN
         /\ u \in Tasks
         /\ \A t \in Tasks : t # u => task'[t] = task[t]
         /\ WriteAbort(p, th) =>
              task'[u] = [task[u] EXCEPT !.status = "aborted"]
         /\ WriteCancelFlag(p, th) =>
              task'[u] = [task[u] EXCEPT !.cancel_requested = TRUE]
         /\ WriteRetry(p, th) =>
              task'[u] = [task[u] EXCEPT !.status = "queued", !.fresh = TRUE,
                                         !.cancel_requested = FALSE]
         /\ task[u] \in TaskRecord
<1> DEFINE u == req[p][th].task
<1>1. u \in Tasks
  BY RequestedTask DEF WriteAbort, WriteCancelFlag, WriteRetry
<1>2. task \in [Tasks -> TaskRecord]
  BY DEF TypeInv, TypeOK, TablesOK
<1>3. WriteAbort(p, th) => task' = [task EXCEPT ![u].status = "aborted"]
  BY DEF WriteAbort, SetStatus
<1>4. WriteCancelFlag(p, th) => task' = [task EXCEPT ![u].cancel_requested = TRUE]
  BY DEF WriteCancelFlag
<1>5. WriteRetry(p, th) =>
        task' = [task EXCEPT ![u].status = "queued", ![u].fresh = TRUE,
                             ![u].cancel_requested = FALSE]
  BY DEF WriteRetry
<1> HIDE DEF u
<1>6. task[u] \in TaskRecord
  BY <1>1, <1>2
<1>7. /\ \A t \in Tasks : t # u => task'[t] = task[t]
      /\ WriteAbort(p, th) =>
           task'[u] = [task[u] EXCEPT !.status = "aborted"]
      /\ WriteCancelFlag(p, th) =>
           task'[u] = [task[u] EXCEPT !.cancel_requested = TRUE]
      /\ WriteRetry(p, th) =>
           task'[u] = [task[u] EXCEPT !.status = "queued", !.fresh = TRUE,
                                      !.cancel_requested = FALSE]
  BY <1>1, <1>2, <1>3, <1>4, <1>5, <1>6 DEF TaskRecord
<1> QED
  BY <1>1, <1>6, <1>7 DEF u

LEMMA HandlerQuiet ==
  ASSUME TypeInv, NEW p \in Procs,
         \/ \E t \in Tasks, priority \in Priorities : Dispatch(p, t, priority)
         \/ \E th \in Threads : Handler(p, th)
  PROVE  Quiet /\ UNCHANGED workerVars
<1>0. task \in [Tasks -> TaskRecord]
  BY DEF TypeInv, TypeOK, TablesOK
<1>1. UNCHANGED <<rows, claims>> /\ UNCHANGED workerVars
  BY DEF Dispatch, Handler, ReadForCancel, ReadForRetry, Request, WriteAbort,
         WriteCancelFlag, WriteRetry
<1>2. \A q \in Procs : RunGoesOn(q)
  BY <1>1 DEF RunGoesOn, Running
<1>3. ASSUME NEW t \in Tasks PROVE NoNewVerdict(t)
  <2>1. ASSUME NEW u \in Tasks, NEW priority \in Priorities, Dispatch(p, u, priority)
        PROVE  NoNewVerdict(t)
    BY <1>0, <2>1 DEF Dispatch, NoNewVerdict
  <2>2. ASSUME NEW th \in Threads, NEW u \in Tasks,
               ReadForCancel(p, th, u) \/ ReadForRetry(p, th, u)
        PROVE  NoNewVerdict(t)
    BY <2>2 DEF ReadForCancel, ReadForRetry, Request, NoNewVerdict
  <2>3. ASSUME NEW th \in Threads,
               WriteAbort(p, th) \/ WriteCancelFlag(p, th) \/ WriteRetry(p, th)
        PROVE  NoNewVerdict(t)
    <3> DEFINE u == req[p][th].task
    <3>0. \A s \in Tasks : s # u => task'[s] = task[s]
      BY <2>3, HandlerWrites
    <3>1. CASE t # u
      BY <3>0, <3>1 DEF NoNewVerdict
    <3>2. CASE t = u
      <4>1. task[u] \in TaskRecord
        BY <2>3, HandlerWrites
      <4>2. \/ task'[u] = [task[u] EXCEPT !.status = "aborted"]
            \/ task'[u] = [task[u] EXCEPT !.cancel_requested = TRUE]
            \/ task'[u] = [task[u] EXCEPT !.status = "queued", !.fresh = TRUE,
                                          !.cancel_requested = FALSE]
        <5>1. WriteAbort(p, th) => task'[u] = [task[u] EXCEPT !.status = "aborted"]
          BY HandlerWrites
        <5>2. WriteCancelFlag(p, th) =>
                task'[u] = [task[u] EXCEPT !.cancel_requested = TRUE]
          BY HandlerWrites
        <5>3. WriteRetry(p, th) =>
                task'[u] = [task[u] EXCEPT !.status = "queued", !.fresh = TRUE,
                                           !.cancel_requested = FALSE]
          BY HandlerWrites
        <5> HIDE DEF u
        <5> QED
          BY <2>3, <5>1, <5>2, <5>3
      <4> HIDE DEF u
      <4>3. task'[u].status \in {task[u].status, "aborted", "queued"}
        BY <4>1, <4>2 DEF TaskRecord
      <4> QED
        BY <3>2, <4>3 DEF NoNewVerdict
    <3> QED
      BY <3>1, <3>2
  <2> QED
    BY <2>1, <2>2, <2>3 DEF Handler
<1> QED
  BY <1>1, <1>2, <1>3 DEF Quiet

\* A row stored under the task of the run p; no other row is touched.
LEMMA StoredRows ==
  ASSUME TypeInv, NEW p \in Procs, NEW u \in Tasks, cur[p] = u,
         NEW s \in {"passed", "frozen", "failed"},
         NEW code \in Codes, NEW err \in Errs \cup {NoErr}, Store(p, s, code, err)
  PROVE  /\ \A t \in Tasks : t # u => (Passed(t)' <=> Passed(t))
         /\ Passed(u)' <=> (Passed(u) \/ s = "passed")
<1> DEFINE log == rows[u]
           row == [no |-> logLen[p] + 1, status |-> s, code |-> code, err |-> err]
<1>1. log \in Seq(Row) /\ rows \in [Tasks -> Seq(Row)]
  BY DEF TypeInv, TypeOK, TablesOK
<1>2. row \in Row
  BY DEF Row, TypeInv, TypeOK, WorkersOK
<1>3. rows' = [rows EXCEPT ![u] = Inserted(log, row)]
  BY DEF Store
<1>4. row.status = s
  OBVIOUS
<1> HIDE DEF row
<1>5. rows'[u] = Inserted(log, row) /\ \A t \in Tasks : t # u => rows'[t] = rows[t]
  BY <1>1, <1>3
<1> DEFINE L == Inserted(log, row)
<1>6. /\ \A i \in DOMAIN log : \E j \in DOMAIN L : L[j] = log[i]
      /\ \A j \in DOMAIN L : L[j] = row \/ \E i \in DOMAIN log : L[j] = log[i]
      /\ \E j \in DOMAIN L : L[j] = row
  BY <1>1, <1>2, InsertedRows
<1> HIDE DEF L, log
<1>7. (\E j \in DOMAIN L : L[j].status = "passed") <=>
        ((\E i \in DOMAIN log : log[i].status = "passed") \/ s = "passed")
  BY <1>4, <1>6
<1>8. rows'[u] = L /\ rows[u] = log
  BY <1>5 DEF L, log
<1>9. Passed(u)' <=> (Passed(u) \/ s = "passed")
  BY <1>7, <1>8 DEF Passed
<1> QED
  BY <1>5, <1>9 DEF Passed

LEMMA AttemptKeepsEarned ==
  ASSUME TypeInv, EarnedInv, NEW p \in Procs, AttemptPasses(p) \/ AttemptFails(p)
  PROVE  EarnedInv'
<1>u. PICK u \in Tasks : u = cur[p]
  BY DEF TypeInv, WorkerOK, Running, AttemptPasses, AttemptFails
<1>0. /\ pc \in [Procs -> PCs] /\ verdict \in [Procs -> Verdicts \cup {"none"}]
      /\ claims \in [Tasks -> Nat]
  BY DEF TypeInv, TypeOK, WorkersOK, HistoryOK, WorkerOK, Running, AttemptPasses, AttemptFails
<1>1. PICK s \in {"passed", "frozen", "failed"} :
        /\ \E code \in Codes, err \in Errs \cup {NoErr} : Store(p, s, code, err)
        /\ \/ s = "passed" /\ Decide(p, "succeeded")
           \/ s # "passed" /\ Decide(p, "needs_review")
           \/ s # "passed" /\ pc' = [pc EXCEPT ![p] = "check"] /\ UNCHANGED verdict
  <2>1. CASE AttemptPasses(p)
    BY <2>1 DEF AttemptPasses
  <2>2. CASE AttemptFails(p)
    <3>1. PICK code \in Codes, err \in Errs \cup {NoErr} :
            LET b    == Recorded(cb[p], code, IF err = NoErr THEN VerifyFailed ELSE err)
                over == Stopped(b) \/ CapReached(logLen[p] + 1)
            IN  /\ cb' = [cb EXCEPT ![p] = b]
                /\ Store(p, IF b.status = Frozen THEN "frozen" ELSE "failed", code, err)
                /\ IF over THEN Decide(p, "needs_review")
                   ELSE pc' = [pc EXCEPT ![p] = "check"] /\ UNCHANGED verdict
      BY <2>2 DEF AttemptFails
    <3>2. \E s \in {"frozen", "failed"} : Store(p, s, code, err)
      BY <3>1
    <3>3. \/ Decide(p, "needs_review")
          \/ pc' = [pc EXCEPT ![p] = "check"] /\ UNCHANGED verdict
      BY <3>1
    <3> QED
      BY <3>2, <3>3
  <2> QED
    BY <2>1, <2>2
<1>2. pc[p] = "execute" /\ UNCHANGED <<task, cur, claims>>
  BY DEF AttemptPasses, AttemptFails
<1>3. /\ \A t \in Tasks : t # u => (Passed(t)' <=> Passed(t))
      /\ Passed(u)' <=> (Passed(u) \/ s = "passed")
  BY <1>u, <1>1, StoredRows
<1>4. /\ \A t \in Tasks : EarnedTask(t)
      /\ \A q \in Procs : EarnedRun(q)
      /\ TwoRunsTwoClaims
  BY DEF EarnedInv
<1>5. /\ claims[u] >= 1 /\ (Passed(u) => claims[u] > 1)
      /\ task[u].status \in {"needs_review", "failed"} => claims[u] > 1
  BY <1>u, <1>2, <1>4 DEF EarnedRun, Running, BeforeVerdict
<1>6. ASSUME NEW t \in Tasks PROVE EarnedTask(t)'
  <2>1. CASE t # u
    BY <1>2, <1>3, <1>4, <2>1 DEF EarnedTask
  <2>2. CASE t = u
    BY <1>0, <1>2, <1>3, <1>4, <1>5, <2>2 DEF EarnedTask
  <2> QED
    BY <2>1, <2>2
<1>7. ASSUME NEW q \in Procs PROVE EarnedRun(q)'
  <2>1. CASE q = p
    <3>1. Running(p)' => cur'[p] = u
      BY <1>u, <1>2
    <3> QED
      BY <1>0, <1>1, <1>2, <1>3, <1>5, <2>1, <3>1
         DEF EarnedRun, Running, BeforeVerdict, Decide
  <2>2. CASE q # p
    <3>1. pc'[q] = pc[q] /\ verdict'[q] = verdict[q] /\ cur'[q] = cur[q]
      BY <1>0, <1>1, <1>2, <2>2 DEF Decide
    <3>2. CASE cur[q] # u /\ Running(q)
      <4>1. cur[q] \in Tasks
        BY <3>2 DEF TypeInv, WorkerOK
      <4> QED
        BY <1>2, <1>3, <1>4, <3>1, <3>2, <4>1 DEF EarnedRun, Running, BeforeVerdict
    <3>3. CASE cur[q] = u /\ Running(q)
      <4>1. claims'[cur'[q]] > 1
        BY <1>u, <1>2, <1>4, <2>2, <3>1, <3>3 DEF TwoRunsTwoClaims, Running
      <4>2. Passed(u) => Passed(u)'
        BY <1>3
      <4> QED
        BY <1>0, <1>2, <1>4, <3>1, <3>3, <4>1, <4>2 DEF EarnedRun, Running, BeforeVerdict
    <3>4. CASE ~Running(q)
      BY <3>1, <3>4 DEF EarnedRun, Running
    <3> QED
      BY <3>2, <3>3, <3>4
  <2> QED
    BY <2>1, <2>2
<1>8. TwoRunsTwoClaims'
  BY <1>0, <1>1, <1>2, <1>4 DEF TwoRunsTwoClaims, Running, Decide
<1> QED
  BY <1>6, <1>7, <1>8 DEF EarnedInv

LEMMA ClaimKeepsEarned ==
  ASSUME TypeInv, EarnedInv, NEW p \in Procs, Claim(p)
  PROVE  EarnedInv'
<1>0. /\ pc \in [Procs -> PCs] /\ cur \in [Procs -> Tasks \cup {NoTask}]
      /\ claims \in [Tasks -> Nat] /\ task \in [Tasks -> TaskRecord]
  BY DEF TypeInv, TypeOK, TablesOK, WorkersOK, HistoryOK
<1>1. PICK t \in Tasks :
        /\ SetStatus(t, "running")
        /\ cur' = [cur EXCEPT ![p] = t]
        /\ claims' = [claims EXCEPT ![t] = @ + 1]
        /\ t \in Queued
  BY DEF Claim, NextInQueue
<1>2. /\ pc[p] = "loop" /\ pc' = [pc EXCEPT ![p] = "claimed"]
      /\ UNCHANGED <<rows, verdict>>
  BY DEF Claim
<1>3. \A u : Passed(u)' <=> Passed(u)
  BY <1>2 DEF Passed
<1>4. /\ \A u \in Tasks : EarnedTask(u)
      /\ \A q \in Procs : EarnedRun(q)
      /\ TwoRunsTwoClaims
  BY DEF EarnedInv
<1>5. /\ claims'[t] = claims[t] + 1 /\ claims[t] \in Nat
      /\ \A u \in Tasks : u # t => claims'[u] = claims[u]
      /\ \A u \in Tasks : u # t => task'[u] = task[u]
      /\ task'[t].status = "running"
  BY <1>0, <1>1 DEF SetStatus, TaskRecord
<1>6. \A u \in Tasks : EarnedTask(u)'
  BY <1>3, <1>4, <1>5 DEF EarnedTask
<1>7. ASSUME NEW q \in Procs PROVE EarnedRun(q)'
  <2>1. CASE q = p
    <3>1. pc'[p] = "claimed" /\ cur'[p] = t
      BY <1>0, <1>1, <1>2
    <3>2. Passed(t) => claims[t] >= 1
      BY <1>4 DEF EarnedTask
    <3> QED
      BY <1>3, <1>5, <2>1, <3>1, <3>2 DEF EarnedRun, Running, BeforeVerdict
  <2>2. CASE q # p /\ Running(q)
    <3>1. /\ pc'[q] = pc[q] /\ cur'[q] = cur[q] /\ verdict'[q] = verdict[q]
          /\ cur[q] \in Tasks
      BY <1>0, <1>1, <1>2, <2>2 DEF TypeInv, WorkerOK
    <3>2. CASE cur[q] = t
      <4>1. claims'[t] > 1
        BY <1>4, <1>5, <2>2, <3>2 DEF EarnedRun
      <4>2. EarnedRun(q)
        BY <1>4
      <4> QED
        BY <1>3, <1>5, <2>2, <3>1, <3>2, <4>1, <4>2 DEF EarnedRun, Running, BeforeVerdict
    <3>3. CASE cur[q] # t
      <4>1. claims'[cur[q]] = claims[cur[q]] /\ task'[cur[q]] = task[cur[q]]
        BY <1>5, <3>1, <3>3
      <4>2. EarnedRun(q)
        BY <1>4
      <4> QED
        BY <1>3, <2>2, <3>1, <4>1, <4>2 DEF EarnedRun, Running, BeforeVerdict
    <3> QED
      BY <3>2, <3>3
  <2>3. CASE q # p /\ ~Running(q)
    BY <1>0, <1>2, <2>3 DEF EarnedRun, Running
  <2> QED
    BY <2>1, <2>2, <2>3
<1>8. TwoRunsTwoClaims'
  <2> SUFFICES ASSUME NEW q \in Procs, NEW r \in Procs, q # r,
                      Running(q)', Running(r)', cur'[q] = cur'[r]
               PROVE  claims'[cur'[q]] > 1
    BY DEF TwoRunsTwoClaims
  <2>1. ASSUME NEW s \in Procs, s # p, Running(s)'
        PROVE  Running(s) /\ cur'[s] = cur[s] /\ cur[s] \in Tasks /\ claims[cur[s]] >= 1
    <3>1. Running(s) /\ cur'[s] = cur[s]
      BY <1>0, <1>1, <1>2, <2>1 DEF Running
    <3> QED
      BY <1>4, <3>1 DEF EarnedRun, TypeInv, WorkerOK
  <2>2. CASE q = p \/ r = p
    <3>1. cur'[p] = t
      BY <1>0, <1>1
    <3>2. cur'[q] = t /\ claims[t] >= 1
      BY <2>1, <2>2, <3>1
    <3> QED
      BY <1>5, <3>2
  <2>3. CASE q # p /\ r # p
    <3>1. claims[cur[q]] > 1 /\ cur'[q] = cur[q] /\ cur[q] \in Tasks
      BY <1>4, <2>1, <2>3 DEF TwoRunsTwoClaims
    <3> QED
      BY <1>5, <3>1
  <2> QED
    BY <2>2, <2>3
<1> QED
  BY <1>6, <1>7, <1>8 DEF EarnedInv

LEMMA WriteVerdictKeepsEarned ==
  ASSUME TypeInv, EarnedInv, NEW p \in Procs, WriteVerdict(p)
  PROVE  EarnedInv'
<1>u. PICK u \in Tasks : u = cur[p]
  BY DEF TypeInv, WorkerOK, Running, WriteVerdict
<1>0. /\ pc \in [Procs -> PCs] /\ task \in [Tasks -> TaskRecord]
  BY DEF TypeInv, TypeOK, TablesOK, WorkersOK
<1>1. /\ pc[p] = "decided" /\ pc' = [pc EXCEPT ![p] = "finished"]
      /\ SetStatus(u, verdict[p])
      /\ UNCHANGED <<rows, claims, verdict, cur>>
  BY <1>u DEF WriteVerdict
<1>2. \A t : Passed(t)' <=> Passed(t)
  BY <1>1 DEF Passed
<1>3. /\ \A t \in Tasks : EarnedTask(t)
      /\ \A q \in Procs : EarnedRun(q)
      /\ TwoRunsTwoClaims
  BY DEF EarnedInv
<1>4. /\ claims[u] >= 1
      /\ IF verdict[p] = "succeeded" THEN Passed(u) ELSE Passed(u) => claims[u] > 1
  BY <1>u, <1>1, <1>3 DEF EarnedRun, Running
<1>5. /\ task'[u].status = verdict[p]
      /\ \A t \in Tasks : t # u => task'[t] = task[t]
  BY <1>0, <1>1 DEF SetStatus, TaskRecord
<1>6. \A t \in Tasks : EarnedTask(t)'
  BY <1>1, <1>2, <1>3, <1>4, <1>5 DEF EarnedTask
<1>7. ASSUME NEW q \in Procs PROVE EarnedRun(q)'
  <2>1. CASE q = p
    BY <1>0, <1>1, <2>1 DEF EarnedRun, Running
  <2>2. CASE q # p /\ Running(q)
    <3>1. pc'[q] = pc[q] /\ cur'[q] = cur[q] /\ cur[q] \in Tasks
      BY <1>0, <1>1, <2>2 DEF TypeInv, WorkerOK
    <3>2. cur[q] = u => claims[u] > 1
      BY <1>u, <1>1, <1>3, <2>2 DEF TwoRunsTwoClaims, Running
    <3>3. task'[cur[q]] = task[cur[q]] \/ claims[cur[q]] > 1
      BY <1>5, <3>1, <3>2
    <3>4. EarnedRun(q)
      BY <1>3
    <3> QED
      BY <1>1, <1>2, <2>2, <3>1, <3>3, <3>4 DEF EarnedRun, Running, BeforeVerdict
  <2>3. CASE q # p /\ ~Running(q)
    BY <1>0, <1>1, <2>3 DEF EarnedRun, Running
  <2> QED
    BY <2>1, <2>2, <2>3
<1>8. TwoRunsTwoClaims'
  BY <1>0, <1>1, <1>3 DEF TwoRunsTwoClaims, Running
<1> QED
  BY <1>6, <1>7, <1>8 DEF EarnedInv

\* A task says succeeded only when a passing attempt of it is stored, and a
\* stored pass is lost only to a task that was claimed again after it, with any
\* number of workers on the database.
THEOREM SuccessesAreEarned == Spec => []SuccessIsEarned
<1>1. Init => EarnedInv
  BY DEF Init, EarnedInv, EarnedTask, EarnedRun, TwoRunsTwoClaims, Running, Passed
<1>2. TypeInv /\ EarnedInv /\ [Next]_vars => EarnedInv'
  <2> SUFFICES ASSUME TypeInv, EarnedInv, [Next]_vars PROVE EarnedInv'
    OBVIOUS
  <2>1. CASE UNCHANGED vars
    <3>1. Quiet
      BY <2>1 DEF vars, Quiet, RunGoesOn, NoNewVerdict, Running
    <3> QED
      BY <3>1, QuietKeepsEarned
  <2>2. ASSUME NEW p \in Procs, Worker(p) \/ Crash(p) \/ Interrupt(p) PROVE EarnedInv'
    BY <2>2, WorkerQuiet, QuietKeepsEarned, ClaimKeepsEarned, AttemptKeepsEarned,
       WriteVerdictKeepsEarned
       DEF Worker, WorkerStep
  <2>3. ASSUME NEW p \in Procs,
               \/ \E t \in Tasks, priority \in Priorities : Dispatch(p, t, priority)
               \/ \E th \in Threads : Handler(p, th)
        PROVE  EarnedInv'
    BY <2>3, HandlerQuiet, QuietKeepsEarned
  <2> QED
    BY <2>1, <2>2, <2>3 DEF Next
<1>3. EarnedInv => SuccessIsEarned
  BY DEF EarnedInv, EarnedTask, SuccessIsEarned
<1> QED
  BY <1>1, <1>2, <1>3, TypeInvAlways, PTL DEF Spec

-------------------------------------------------------------------------------
(* One worker on the database, as server.py starts it. A run then owns its    *)
(* task: only a write of the API decided on an older status can change it.    *)

OneWorker == \A p, q \in Procs : p = q

RunOwned(p) ==
  Running(p) =>
    /\ task[cur[p]].status # "none"
    /\ raced[cur[p]] \/ task[cur[p]].status = "running"
    /\ pc[p] = "decided" => verdict[p] # "none"

\* What a handler saw when it decided on its request.
HonestRequest(r) ==
  /\ r.op = "retry" => r.seen \in Retryable
  /\ r.op = "abort" => r.seen = "queued"

OwnInv ==
  /\ OneWorker
  /\ \A p \in Procs : RunOwned(p)
  /\ \A p \in Procs, th \in Threads : HonestRequest(req[p][th])

\* The steps between runs and at their end: no worker runs after them.
Idle(p) == StartSession(p) \/ EndSession(p) \/ CountTask(p) \/ Crash(p) \/ Interrupt(p)

\* The steps of a run that touch no table.
Advance(p) == Replay(p) \/ CheckCancel(p) \/ AttemptRaises(p)

LEMMA IdleFrame ==
  ASSUME TypeInv, OneWorker, NEW p \in Procs, Idle(p)
  PROVE  /\ \A q \in Procs : ~Running(q)'
         /\ UNCHANGED <<task, rows, retries, ghostVars>>
         /\ \/ req' = req
            \/ req' = [req EXCEPT ![p] = [th \in Threads |-> NoReq]]
<1>1. /\ \/ pc' = [pc EXCEPT ![p] = "loop"] \/ pc' = [pc EXCEPT ![p] = "stopped"]
         \/ pc' = [pc EXCEPT ![p] = "down"]
      /\ UNCHANGED <<task, rows, retries, ghostVars>>
      /\ \/ req' = req
         \/ req' = [req EXCEPT ![p] = [th \in Threads |-> NoReq]]
  BY DEF Idle, StartSession, EndSession, CountTask, Crash, Interrupt, Die
<1>2. pc \in [Procs -> PCs] /\ \A q \in Procs : q = p
  BY DEF TypeInv, TypeOK, WorkersOK, OneWorker
<1> QED
  BY <1>1, <1>2 DEF Running

LEMMA AdvanceFrame ==
  ASSUME TypeInv, NEW p \in Procs, Advance(p)
  PROVE  /\ BeforeVerdict(p) /\ UNCHANGED <<task, rows, cur, snapFresh, req, ghostVars>>
         /\ \/ pc'[p] = "decided" /\ verdict'[p] # "none"
            \/ pc[p] = "claimed" /\ pc'[p] = "check"
            \/ pc[p] = "check" /\ pc'[p] = "execute"
  BY DEF Advance, Replay, CheckCancel, AttemptRaises, BeforeVerdict, Decide,
         TypeInv, TypeOK, WorkersOK

\* An attempt stores one row under the task of the run, numbered by logLen.
LEMMA AttemptFrame ==
  ASSUME TypeInv, NEW p \in Procs, AttemptPasses(p) \/ AttemptFails(p)
  PROVE  /\ pc[p] = "execute"
         /\ UNCHANGED <<task, cur, snapFresh, req, ghostVars>>
         /\ \E s \in {"passed", "frozen", "failed"}, code \in Codes,
               err \in Errs \cup {NoErr} :
              /\ Store(p, s, code, err)
              /\ \/ pc'[p] = "decided" /\ verdict'[p] # "none"
                 \/ /\ pc'[p] = "check" /\ s # "passed"
                    /\ ~CapReached(logLen[p] + 1)
                    /\ cb'[p] = Recorded(cb[p], code,
                                         IF err = NoErr THEN VerifyFailed ELSE err)
<1>0. /\ pc \in [Procs -> PCs] /\ verdict \in [Procs -> Verdicts \cup {"none"}]
      /\ cb \in [Procs -> Breakers]
  BY DEF TypeInv, TypeOK, WorkersOK
<1>1. CASE AttemptPasses(p)
  BY <1>0, <1>1 DEF AttemptPasses, Decide
<1>2. CASE AttemptFails(p)
  <2>1. PICK code \in Codes, err \in Errs \cup {NoErr} :
          LET b    == Recorded(cb[p], code, IF err = NoErr THEN VerifyFailed ELSE err)
              over == Stopped(b) \/ CapReached(logLen[p] + 1)
          IN  /\ cb' = [cb EXCEPT ![p] = b]
              /\ Store(p, IF b.status = Frozen THEN "frozen" ELSE "failed", code, err)
              /\ IF over THEN Decide(p, "needs_review")
                 ELSE pc' = [pc EXCEPT ![p] = "check"] /\ UNCHANGED verdict
    BY <1>2 DEF AttemptFails
  <2> DEFINE b == Recorded(cb[p], code, IF err = NoErr THEN VerifyFailed ELSE err)
  <2>2. cb' = [cb EXCEPT ![p] = b]
    BY <2>1
  <2>3. PICK s \in {"frozen", "failed"} : Store(p, s, code, err)
    BY <2>1
  <2>4. \/ Decide(p, "needs_review")
        \/ pc' = [pc EXCEPT ![p] = "check"] /\ ~CapReached(logLen[p] + 1)
    BY <2>1
  <2> HIDE DEF b
  <2>5. \/ pc'[p] = "decided" /\ verdict'[p] # "none"
        \/ pc'[p] = "check" /\ ~CapReached(logLen[p] + 1)
    BY <1>0, <2>4 DEF Decide
  <2>6. cb'[p] = b
    BY <1>0, <2>2
  <2>7. pc[p] = "execute" /\ UNCHANGED <<task, cur, snapFresh, req, ghostVars>>
    BY <1>2 DEF AttemptFails
  <2> QED
    BY <2>3, <2>5, <2>6, <2>7 DEF b
<1> QED
  BY <1>1, <1>2

LEMMA ClaimFrame ==
  ASSUME TypeInv, NEW p \in Procs, Claim(p)
  PROVE  \E t \in Tasks :
           /\ task[t].status = "queued" /\ cur'[p] = t
           /\ pc'[p] = "claimed" /\ snapFresh'[p] = task[t].fresh
           /\ task' = [task EXCEPT ![t].status = "running"]
           /\ task'[t] = [task[t] EXCEPT !.status = "running"]
           /\ claims' = [claims EXCEPT ![t] = @ + 1]
           /\ UNCHANGED <<rows, req, raced, base, cancelAt>>
  BY DEF Claim, NextInQueue, Queued, SetStatus, TypeInv, TypeOK, WorkersOK, TablesOK

LEMMA WriteVerdictFrame ==
  ASSUME TypeInv, OneWorker, NEW p \in Procs, WriteVerdict(p)
  PROVE  /\ \A q \in Procs : ~Running(q)'
         /\ cur[p] \in Tasks /\ task' = [task EXCEPT ![cur[p]].status = verdict[p]]
         /\ pc[p] = "decided"
         /\ UNCHANGED <<rows, req, ghostVars>>
<1>1. /\ pc' = [pc EXCEPT ![p] = "finished"] /\ pc[p] = "decided"
      /\ task' = [task EXCEPT ![cur[p]].status = verdict[p]]
      /\ UNCHANGED <<rows, req, ghostVars>>
  BY DEF WriteVerdict, SetStatus
<1>2. pc \in [Procs -> PCs] /\ \A q \in Procs : q = p
  BY DEF TypeInv, TypeOK, WorkersOK, OneWorker
<1>3. cur[p] \in Tasks
  BY <1>1 DEF TypeInv, WorkerOK, Running
<1> QED
  BY <1>1, <1>2, <1>3 DEF Running

LEMMA OwnInvStep ==
  ASSUME TypeInv, OwnInv, [Next]_vars
  PROVE  OwnInv'
<1>0. /\ task \in [Tasks -> TaskRecord] /\ raced \in [Tasks -> BOOLEAN]
      /\ req \in [Procs -> [Threads -> Requests]] /\ pc \in [Procs -> PCs]
  BY DEF TypeInv, TypeOK, TablesOK, HandlersOK, HistoryOK, WorkersOK
<1>o. OneWorker /\ OneWorker'
  BY DEF OwnInv, OneWorker
<1>1. CASE UNCHANGED vars
  BY <1>1 DEF vars, OwnInv, RunOwned, Running, OneWorker
<1>2. ASSUME NEW p \in Procs, Idle(p) \/ Recover(p) \/ WriteVerdict(p) PROVE OwnInv'
  <2>1. \A q \in Procs : ~Running(q)'
    <3>1. CASE Recover(p)
      BY <1>0, <1>o, <3>1 DEF Recover, OneWorker, Running
    <3> QED
      BY <1>2, <1>o, <3>1, IdleFrame, WriteVerdictFrame
  <2>2. req' = req \/ req' = [req EXCEPT ![p] = [th \in Threads |-> NoReq]]
    <3>1. CASE Recover(p) \/ WriteVerdict(p)
      BY <3>1 DEF Recover, WriteVerdict
    <3> QED
      BY <1>2, <1>o, <3>1, IdleFrame
  <2>3. \A q \in Procs, th \in Threads : HonestRequest(req'[q][th])
    BY <1>0, <2>2 DEF OwnInv, HonestRequest, NoReq
  <2> QED
    BY <1>o, <2>1, <2>3 DEF OwnInv, RunOwned
<1>3. ASSUME NEW p \in Procs, Claim(p) PROVE OwnInv'
  <2>1. PICK t \in Tasks : /\ cur'[p] = t /\ pc'[p] = "claimed"
                           /\ task'[t] = [task[t] EXCEPT !.status = "running"]
                           /\ req' = req
    BY <1>3, ClaimFrame
  <2>2. task'[t].status = "running"
    BY <1>0, <2>1 DEF TaskRecord
  <2>3. \A q \in Procs : q = p
    BY <1>o DEF OneWorker
  <2> QED
    BY <1>o, <2>1, <2>2, <2>3 DEF OwnInv, RunOwned
<1>4. ASSUME NEW p \in Procs, Advance(p) \/ AttemptPasses(p) \/ AttemptFails(p)
      PROVE  OwnInv'
  <2>1. /\ Running(p) /\ UNCHANGED <<task, cur, req, raced>>
        /\ pc'[p] = "decided" => verdict'[p] # "none"
    <3>1. CASE Advance(p)
      BY <3>1, AdvanceFrame DEF Running, BeforeVerdict
    <3>2. CASE AttemptPasses(p) \/ AttemptFails(p)
      BY <3>2, AttemptFrame DEF Running
    <3> QED
      BY <1>4, <3>1, <3>2
  <2>2. \A q \in Procs : q = p
    BY <1>o DEF OneWorker
  <2> QED
    BY <1>o, <2>1, <2>2 DEF OwnInv, RunOwned
<1>5. ASSUME NEW p \in Procs, NEW t \in Tasks, NEW priority \in Priorities,
             Dispatch(p, t, priority)
      PROVE  OwnInv'
  <2>1. /\ UNCHANGED <<pc, cur, verdict, req, raced>>
        /\ task[t].status = "none" /\ \A u \in Tasks : u # t => task'[u] = task[u]
    BY <1>0, <1>5 DEF Dispatch
  <2>2. ASSUME NEW q \in Procs PROVE RunOwned(q)'
    <3>1. RunOwned(q) /\ (Running(q) => cur[q] \in Tasks)
      BY DEF OwnInv, TypeInv, WorkerOK
    <3> QED
      BY <2>1, <3>1 DEF RunOwned, Running
  <2> QED
    BY <1>o, <2>1, <2>2 DEF OwnInv
<1>6. ASSUME NEW p \in Procs, NEW th \in Threads, NEW t \in Tasks,
             ReadForCancel(p, th, t) \/ ReadForRetry(p, th, t)
      PROVE  OwnInv'
  <2>1. PICK op \in {"abort", "flag", "retry"} :
          /\ Request(p, th, op, t)
          /\ op = "retry" => task[t].status \in Retryable
          /\ op = "abort" => task[t].status = "queued"
    BY <1>6 DEF ReadForCancel, ReadForRetry
  <2> DEFINE r == [op |-> op, task |-> t, seen |-> task[t].status]
  <2>2. req' = [req EXCEPT ![p][th] = r] /\ UNCHANGED <<task, workerVars, raced>>
    BY <2>1 DEF Request
  <2>3. HonestRequest(r)
    BY <2>1 DEF HonestRequest
  <2> HIDE DEF r
  <2>4. \A q \in Procs, h \in Threads : req'[q][h] \in {req[q][h], r}
    BY <1>0, <2>2
  <2>5. \A q \in Procs, h \in Threads : HonestRequest(req'[q][h])
    BY <2>3, <2>4 DEF OwnInv
  <2> QED
    BY <1>o, <2>2, <2>5 DEF OwnInv, RunOwned, Running
<1>7. ASSUME NEW p \in Procs, NEW th \in Threads,
             WriteAbort(p, th) \/ WriteCancelFlag(p, th) \/ WriteRetry(p, th)
      PROVE  OwnInv'
  <2>1. req' = [req EXCEPT ![p][th] = NoReq] /\ UNCHANGED workerVars
    BY <1>7 DEF WriteAbort, WriteCancelFlag, WriteRetry, Answer
  <2>2. \A q \in Procs, h \in Threads : HonestRequest(req'[q][h])
    <3>1. \A q \in Procs, h \in Threads : req'[q][h] \in {req[q][h], NoReq}
      BY <1>0, <2>1
    <3>2. HonestRequest(NoReq)
      BY DEF HonestRequest, NoReq
    <3> QED
      BY <3>1, <3>2 DEF OwnInv
  <2>3. PICK u \in Tasks : u = req[p][th].task
    BY <1>7, HandlerWrites
  <2> DEFINE seen == req[p][th].seen
  <2>4. /\ \A t \in Tasks : t # u => task'[t] = task[t]
        /\ \/ task'[u].status = "aborted" /\ seen = "queued"
           \/ task'[u].status = "queued" /\ seen \in Retryable
           \/ task'[u].status = task[u].status
    <3>1. \A t \in Tasks : t # u => task'[t] = task[t]
      <4>1. \A t \in Tasks : t # req[p][th].task => task'[t] = task[t]
        BY <1>7, HandlerWrites
      <4> QED
        BY <2>3, <4>1
    <3>3. task[u] \in TaskRecord
      BY <1>0
    <3>4. WriteAbort(p, th) => task'[u] = [task[u] EXCEPT !.status = "aborted"]
      BY <2>3, HandlerWrites
    <3>5. WriteCancelFlag(p, th) =>
            task'[u] = [task[u] EXCEPT !.cancel_requested = TRUE]
      BY <2>3, HandlerWrites
    <3>6. WriteRetry(p, th) =>
            task'[u] = [task[u] EXCEPT !.status = "queued", !.fresh = TRUE,
                                       !.cancel_requested = FALSE]
      BY <2>3, HandlerWrites
    <3>2. /\ WriteAbort(p, th) => seen = "queued"
          /\ WriteRetry(p, th) => seen \in Retryable
      BY DEF OwnInv, HonestRequest, WriteAbort, WriteRetry
    <3> QED
      BY <1>7, <3>1, <3>2, <3>3, <3>4, <3>5, <3>6 DEF TaskRecord
  <2>5. /\ \A t \in Tasks : raced[t] => raced'[t]
        /\ WriteAbort(p, th) \/ WriteRetry(p, th) => raced'[u] \/ task[u].status = seen
        /\ WriteCancelFlag(p, th) => task'[u].status = task[u].status
    <3>1. WriteAbort(p, th) \/ WriteRetry(p, th) =>
            raced' = [raced EXCEPT ![u] = raced[u] \/ task[u].status # seen]
      BY <2>3 DEF WriteAbort, WriteRetry, NoteRace
    <3>2. WriteCancelFlag(p, th) => raced' = raced
      BY DEF WriteCancelFlag
    <3>3. WriteCancelFlag(p, th) => task'[u] = [task[u] EXCEPT !.cancel_requested = TRUE]
      BY <2>3, HandlerWrites
    <3>4. task[u] \in TaskRecord
      BY <1>0
    <3> QED
      BY <1>0, <1>7, <3>1, <3>2, <3>3, <3>4 DEF TaskRecord
  <2>6. ASSUME NEW q \in Procs PROVE RunOwned(q)'
    <3> SUFFICES ASSUME Running(q)' PROVE RunOwned(q)'
      BY DEF RunOwned
    <3>1. Running(q) /\ cur'[q] = cur[q] /\ verdict'[q] = verdict[q] /\ pc'[q] = pc[q]
      BY <2>1 DEF Running
    <3>2. PICK t \in Tasks : t = cur[q]
      BY <3>1 DEF TypeInv, WorkerOK
    <3>3. /\ task[t].status # "none" /\ (raced[t] \/ task[t].status = "running")
          /\ pc[q] = "decided" => verdict[q] # "none"
      BY <3>1, <3>2 DEF OwnInv, RunOwned
    <3>4. task'[t].status # "none"
      BY <2>4, <3>3
    <3>5. raced'[t] \/ task'[t].status = "running"
      BY <1>7, <2>4, <2>5, <3>3 DEF Retryable
    <3> QED
      BY <3>1, <3>2, <3>3, <3>4, <3>5 DEF RunOwned
  <2> QED
    BY <1>o, <2>2, <2>6 DEF OwnInv
<1> QED
  BY <1>1, <1>2, <1>3, <1>4, <1>5, <1>6, <1>7
     DEF Next, Worker, WorkerStep, Handler, Idle, Advance

LEMMA OwnInvAlways == OneWorker /\ Spec => []OwnInv
<1>1. OneWorker /\ Init => OwnInv
  BY DEF Init, OwnInv, RunOwned, Running, HonestRequest, NoReq
<1>2. TypeInv /\ OwnInv /\ [Next]_vars => OwnInv'
  BY OwnInvStep
<1> QED
  BY <1>1, <1>2, TypeInvAlways, PTL DEF Spec

-------------------------------------------------------------------------------
(* The lifecycle. Its status is a function of the tasks table.                *)

StatusOf == [t \in Tasks |-> task[t].status]

\* A step that changes no status is a stutter; one that changes the status of u
\* alone is a change of the function at u.
LEMMA StatusKept ==
  ASSUME \A t \in Tasks : task'[t].status = task[t].status
  PROVE  StatusOf' = StatusOf
  BY DEF StatusOf

LEMMA StatusBecomes ==
  ASSUME NEW u \in Tasks, NEW s, task'[u].status = s,
         \A t \in Tasks : t # u => task'[t] = task[t]
  PROVE  StatusOf' = [StatusOf EXCEPT ![u] = s]
  BY DEF StatusOf

LEMMA LifecycleStep ==
  ASSUME TypeInv, OwnInv, NoOrphanedRun, [Next]_vars
  PROVE  [Lifecycle!LifecycleNext]_(Lifecycle!lifecycleVars)
<1> USE DEF Lifecycle!LifecycleNext, Lifecycle!lifecycleVars, Lifecycle!Become
<1>0. /\ task \in [Tasks -> TaskRecord] /\ raced \in [Tasks -> BOOLEAN]
      /\ \A t \in Tasks : StatusOf[t] = task[t].status
  BY DEF TypeInv, TypeOK, TablesOK, HistoryOK, StatusOf
<1>o. OneWorker
  BY DEF OwnInv
<1> DEFINE Goal == [Lifecycle!LifecycleNext]_(Lifecycle!lifecycleVars)
<1>k. ASSUME raced' = raced, \A t \in Tasks : task'[t].status = task[t].status
      PROVE  Goal
  BY <1>k, StatusKept DEF StatusOf
<1>1. CASE UNCHANGED vars
  BY <1>1, <1>k DEF vars
<1>2. ASSUME NEW p \in Procs, Idle(p) PROVE Goal
  BY <1>2, <1>k, <1>o, IdleFrame
<1>3. ASSUME NEW p \in Procs, Advance(p) \/ AttemptPasses(p) \/ AttemptFails(p)
      PROVE  Goal
  BY <1>3, <1>k, AdvanceFrame, AttemptFrame
<1>4. ASSUME NEW p \in Procs, Recover(p) PROVE Lifecycle!Requeue
  <2>1. raced' = raced
    BY <1>4 DEF Recover
  <2>2. ASSUME NEW t \in Tasks
        PROVE  task'[t].status = IF task[t].status = "running" THEN "queued"
                                 ELSE task[t].status
    <3>1. task[t] \in TaskRecord
      BY <1>0
    <3>2. task'[t] = IF task[t].status = "running"
                     THEN [task[t] EXCEPT !.status = "queued", !.fresh = FALSE,
                                          !.cancel_requested = FALSE]
                     ELSE task[t]
      BY <1>4 DEF Recover
    <3> QED
      BY <3>1, <3>2 DEF TaskRecord
  <2> QED
    BY <2>1, <2>2 DEF Lifecycle!Requeue
<1>5. ASSUME NEW p \in Procs, Claim(p) PROVE \E t \in Tasks : Lifecycle!Start(t)
  <2>1. PICK t \in Tasks : /\ task[t].status = "queued" /\ raced' = raced
                           /\ task' = [task EXCEPT ![t].status = "running"]
                           /\ task'[t] = [task[t] EXCEPT !.status = "running"]
    BY <1>5, ClaimFrame
  <2>2. \A u \in Tasks : task[u].status # "running"
    <3>1. \A q \in Procs : q = p /\ pc[q] = "loop"
      BY <1>5, <1>o DEF Claim, OneWorker
    <3> QED
      BY <3>1 DEF NoOrphanedRun, Running
  <2>3. /\ task'[t].status = "running"
        /\ \A u \in Tasks : u # t => task'[u] = task[u]
    BY <1>0, <2>1 DEF TaskRecord
  <2>4. StatusOf' = [StatusOf EXCEPT ![t] = "running"]
    BY <2>3, StatusBecomes
  <2> QED
    BY <1>0, <2>1, <2>2, <2>4 DEF Lifecycle!Start, StatusOf
<1>6. ASSUME NEW p \in Procs, WriteVerdict(p)
      PROVE  \E t \in Tasks : \E v \in Lifecycle!Verdicts : Lifecycle!Settle(t, v)
  <2>1. PICK u \in Tasks : u = cur[p]
    BY <1>6, <1>o, WriteVerdictFrame
  <2>2. PICK v \in Verdicts : v = verdict[p]
    BY <1>6 DEF WriteVerdict, OwnInv, RunOwned, Running, TypeInv, TypeOK, WorkersOK
  <2>3. /\ task' = [task EXCEPT ![u].status = v] /\ raced' = raced
        /\ raced[u] \/ task[u].status = "running"
    BY <1>6, <1>o, <2>1, <2>2, WriteVerdictFrame DEF OwnInv, RunOwned, Running
  <2>4. /\ task'[u].status = v
        /\ \A t \in Tasks : t # u => task'[t] = task[t]
    BY <1>0, <2>3 DEF TaskRecord
  <2>5. StatusOf' = [StatusOf EXCEPT ![u] = v]
    BY <2>4, StatusBecomes
  <2>6. Lifecycle!Settle(u, v)
    BY <1>0, <2>3, <2>5 DEF Lifecycle!Settle, StatusOf
  <2> QED
    BY <2>6 DEF Verdicts, Lifecycle!Verdicts
<1>7. ASSUME NEW p \in Procs, NEW t \in Tasks, NEW priority \in Priorities,
             Dispatch(p, t, priority)
      PROVE  Lifecycle!Submit(t)
  <2>1. /\ task[t].status = "none" /\ raced' = raced /\ task'[t].status = "queued"
        /\ \A u \in Tasks : u # t => task'[u] = task[u]
    BY <1>0, <1>7 DEF Dispatch
  <2>2. StatusOf' = [StatusOf EXCEPT ![t] = "queued"]
    BY <2>1, StatusBecomes
  <2> QED
    BY <1>0, <2>1, <2>2 DEF Lifecycle!Submit, StatusOf
<1>8. ASSUME NEW p \in Procs, NEW th \in Threads, NEW t \in Tasks,
             ReadForCancel(p, th, t) \/ ReadForRetry(p, th, t)
      PROVE  Goal
  BY <1>8, <1>k DEF ReadForCancel, ReadForRetry, Request
<1>9. ASSUME NEW p \in Procs, NEW th \in Threads, WriteCancelFlag(p, th) PROVE Goal
  <2>1. PICK u \in Tasks : /\ \A t \in Tasks : t # u => task'[t] = task[t]
                           /\ task'[u] = [task[u] EXCEPT !.cancel_requested = TRUE]
    BY <1>9, HandlerWrites
  <2>2. \A t \in Tasks : task'[t].status = task[t].status
    BY <1>0, <2>1 DEF TaskRecord
  <2>3. raced' = raced
    BY <1>9 DEF WriteCancelFlag
  <2> QED
    BY <1>k, <2>2, <2>3
<1>10. ASSUME NEW p \in Procs, NEW th \in Threads, WriteAbort(p, th) \/ WriteRetry(p, th)
       PROVE  \E t \in Tasks :
                Lifecycle!Withdraw(t) \/ Lifecycle!Resubmit(t) \/ Lifecycle!StaleWrite(t)
  <2>1. PICK u \in Tasks : u = req[p][th].task
    <3>1. req[p][th].task \in Tasks
      BY <1>10, HandlerWrites
    <3> QED
      BY <3>1
  <2>2. PICK s \in {"aborted", "queued"} :
          /\ task'[u].status = s
          /\ s = "aborted" => req[p][th].seen = "queued"
          /\ s = "queued" => req[p][th].seen \in Retryable
    <3>1. task[u] \in TaskRecord
      BY <1>0
    <3>2. CASE WriteAbort(p, th)
      <4>1. task'[u] = [task[u] EXCEPT !.status = "aborted"]
        BY <2>1, <3>2, HandlerWrites
      <4>2. req[p][th].seen = "queued"
        BY <3>2 DEF WriteAbort, OwnInv, HonestRequest
      <4> QED
        BY <3>1, <4>1, <4>2 DEF TaskRecord
    <3>3. CASE WriteRetry(p, th)
      <4>1. task'[u] = [task[u] EXCEPT !.status = "queued", !.fresh = TRUE,
                                       !.cancel_requested = FALSE]
        BY <2>1, <3>3, HandlerWrites
      <4>2. req[p][th].seen \in Retryable
        BY <3>3 DEF WriteRetry, OwnInv, HonestRequest
      <4> QED
        BY <3>1, <4>1, <4>2 DEF TaskRecord
    <3> QED
      BY <1>10, <3>2, <3>3
  <2>3. \A t \in Tasks : t # u => task'[t] = task[t]
    <3>1. \A t \in Tasks : t # req[p][th].task => task'[t] = task[t]
      BY <1>10, HandlerWrites
    <3> QED
      BY <2>1, <3>1
  <2>4. StatusOf' = [StatusOf EXCEPT ![u] = s]
    BY <2>2, <2>3, StatusBecomes
  <2>5. raced' = [raced EXCEPT ![u] = raced[u] \/ task[u].status # req[p][th].seen]
    BY <1>10, <2>1 DEF WriteAbort, WriteRetry, NoteRace
  <2>6. CASE task[u].status = req[p][th].seen
    <3>1. raced' = raced
      BY <1>0, <2>5, <2>6
    <3>2. s = "aborted" => Lifecycle!Withdraw(u)
      BY <1>0, <2>2, <2>4, <2>6, <3>1 DEF Lifecycle!Withdraw, StatusOf
    <3>3. s = "queued" => Lifecycle!Resubmit(u)
      BY <1>0, <2>2, <2>4, <2>6, <3>1
         DEF Lifecycle!Resubmit, StatusOf, Retryable, Lifecycle!Retryable
    <3> QED
      BY <3>2, <3>3
  <2>7. CASE task[u].status # req[p][th].seen
    <3>1. raced' = [raced EXCEPT ![u] = TRUE]
      BY <1>0, <2>5, <2>7
    <3>2. Lifecycle!StaleWrite(u)
      BY <2>4, <3>1 DEF Lifecycle!StaleWrite, StatusOf
    <3> QED
      BY <3>2
  <2> QED
    BY <2>6, <2>7
<1> QED
  BY <1>1, <1>2, <1>3, <1>4, <1>5, <1>6, <1>7, <1>8, <1>9, <1>10
     DEF Next, Worker, WorkerStep, Handler, Idle, Advance

\* The scheduler with one worker implements the lifecycle its API documents: one
\* task runs at a time, a run ends in one verdict or goes back to the queue, and
\* the only way around it is a write decided on an older status.
THEOREM SchedulerRefinesLifecycle == OneWorker /\ Spec => RefinesLifecycle
<1>1. Init => Lifecycle!LifecycleInit
  BY DEF Init, Lifecycle!LifecycleInit
<1>2. TypeInv /\ OwnInv /\ NoOrphanedRun /\ [Next]_vars
        => [Lifecycle!LifecycleNext]_(Lifecycle!lifecycleVars)
  BY LifecycleStep
<1> QED
  BY <1>1, <1>2, TypeInvAlways, OwnInvAlways, NoRunIsOrphaned, PTL
     DEF Spec, RefinesLifecycle, Lifecycle!LifecycleSpec

-------------------------------------------------------------------------------
(* What a task costs. Rows are numbered in the order they are stored, and the *)
(* worker's list of them is as long as the table at every head of its loop.   *)

CostTask(t) ==
  /\ Len(rows[t]) < MAX_TOTAL_ATTEMPTS + claims[t]
  /\ task[t].cancel_requested => Len(rows[t]) <= cancelAt[t] + 1
  /\ \A i \in DOMAIN rows[t] : rows[t][i].no <= Len(rows[t])

CostRun(p) ==
  /\ Running(p) => claims[cur[p]] >= 1
  /\ BeforeVerdict(p) => Len(rows[cur[p]]) + 1 < MAX_TOTAL_ATTEMPTS + claims[cur[p]]
  /\ AtLoopHead(p) => logLen[p] = Len(rows[cur[p]])
  /\ pc[p] = "execute" /\ task[cur[p]].cancel_requested =>
       Len(rows[cur[p]]) <= cancelAt[cur[p]]

CostInv ==
  /\ OneWorker
  /\ \A t \in Tasks : CostTask(t)
  /\ \A p \in Procs : CostRun(p)

\* With one worker the row of an attempt goes to the end of the table.
LEMMA AttemptAppends ==
  ASSUME TypeInv, CostInv, NEW p \in Procs, NEW u \in Tasks, u = cur[p],
         AttemptPasses(p) \/ AttemptFails(p)
  PROVE  \E row \in Row :
           /\ rows' = [rows EXCEPT ![u] = Append(rows[u], row)]
           /\ row.no = Len(rows[u]) + 1
           /\ logLen'[p] = Len(rows[u]) + 1
           /\ \/ pc'[p] = "decided"
              \/ /\ pc'[p] = "check" /\ row.status # "passed"
                 /\ Len(rows[u]) + 1 < MAX_TOTAL_ATTEMPTS
                 /\ cb'[p] = Recorded(cb[p], row.code,
                                 IF row.err = NoErr THEN VerifyFailed ELSE row.err)
<1>1. PICK s \in {"passed", "frozen", "failed"}, code \in Codes,
           err \in Errs \cup {NoErr} :
        /\ Store(p, s, code, err)
        /\ \/ pc'[p] = "decided"
           \/ /\ pc'[p] = "check" /\ s # "passed"
              /\ ~CapReached(logLen[p] + 1)
              /\ cb'[p] = Recorded(cb[p], code, IF err = NoErr THEN VerifyFailed ELSE err)
  BY AttemptFrame
<1>2. /\ rows \in [Tasks -> Seq(Row)] /\ logLen \in [Procs -> Nat]
      /\ Len(rows[u]) \in Nat /\ rows[u] \in Seq(Row)
  BY DEF TypeInv, TypeOK, TablesOK, WorkersOK
<1>3. logLen[p] = Len(rows[u])
  <2>1. pc[p] = "execute"
    BY AttemptFrame
  <2> QED
    BY <2>1 DEF CostInv, CostRun, AtLoopHead
<1> DEFINE row == [no |-> logLen[p] + 1, status |-> s, code |-> code, err |-> err]
<1>4. /\ row \in Row /\ row.no = Len(rows[u]) + 1
      /\ row.status = s /\ row.code = code /\ row.err = err
  BY <1>2, <1>3 DEF Row
<1>5. /\ rows' = [rows EXCEPT ![u] = Inserted(rows[u], row)]
      /\ logLen' = [logLen EXCEPT ![p] = Len(rows[u]) + 1]
  BY <1>1 DEF Store
<1> HIDE DEF row
<1>6. \A i \in DOMAIN rows[u] : rows[u][i].no <= row.no
  <2>1. \A i \in DOMAIN rows[u] : rows[u][i].no <= Len(rows[u])
    BY DEF CostInv, CostTask
  <2>2. \A i \in DOMAIN rows[u] : rows[u][i].no \in Nat
    <3>1. \A i \in 1..Len(rows[u]) : rows[u][i] \in Row
      BY <1>2, ElementOfSeq
    <3>2. DOMAIN rows[u] = 1..Len(rows[u])
      BY <1>2
    <3> QED
      BY <3>1, <3>2 DEF Row
  <2> QED
    BY <1>2, <1>4, <2>1, <2>2
<1>7. Inserted(rows[u], row) = Append(rows[u], row)
  BY <1>2, <1>4, <1>6, InsertedLast
<1>8. ~CapReached(logLen[p] + 1) => Len(rows[u]) + 1 < MAX_TOTAL_ATTEMPTS
  BY <1>2, <1>3, SchedulerAssumption DEF CapReached
<1>9. logLen'[p] = Len(rows[u]) + 1
  BY <1>2, <1>5
<1> QED
  BY <1>1, <1>4, <1>5, <1>7, <1>8, <1>9

LEMMA AppendedRows ==
  ASSUME NEW log \in Seq(Row), NEW row \in Row,
         \A i \in DOMAIN log : log[i].no <= Len(log), row.no = Len(log) + 1
  PROVE  /\ Append(log, row) \in Seq(Row) /\ Len(Append(log, row)) = Len(log) + 1
         /\ \A i \in DOMAIN Append(log, row) :
              Append(log, row)[i].no <= Len(Append(log, row))
<1> DEFINE L == Append(log, row)
<1>1. /\ L \in Seq(Row) /\ Len(L) = Len(log) + 1
      /\ \A i \in 1..Len(log) : L[i] = log[i]
      /\ L[Len(log) + 1] = row
  BY AppendProperties
<1>2. Len(log) \in Nat /\ DOMAIN log = 1..Len(log) /\ DOMAIN L = 1..Len(log) + 1
  BY <1>1
<1>3. \A i \in 1..Len(log) : log[i] \in Row
  BY ElementOfSeq
<1> HIDE DEF L
<1>4. ASSUME NEW i \in DOMAIN L PROVE L[i].no <= Len(L)
  <2>1. CASE i \in 1..Len(log)
    <3>1. L[i].no <= Len(log) /\ L[i].no \in Nat
      BY <1>1, <1>2, <1>3, <2>1 DEF Row
    <3> QED
      BY <1>1, <1>2, <3>1
  <2>2. CASE i = Len(log) + 1
    BY <1>1, <1>2, <2>2
  <2> QED
    BY <1>2, <2>1, <2>2
<1> QED
  BY <1>1, <1>4 DEF L

LEMMA CostInvStep ==
  ASSUME TypeInv, CostInv, [Next]_vars
  PROVE  CostInv'
<1>0. /\ task \in [Tasks -> TaskRecord] /\ claims \in [Tasks -> Nat]
      /\ rows \in [Tasks -> Seq(Row)] /\ cancelAt \in [Tasks -> Nat]
      /\ pc \in [Procs -> PCs]
  BY DEF TypeInv, TypeOK, TablesOK, HandlersOK, HistoryOK, WorkersOK
<1>o. OneWorker /\ OneWorker'
  BY DEF CostInv, OneWorker
<1>n. \A t \in Tasks : Len(rows[t]) \in Nat
  BY <1>0
<1>t. \A t \in Tasks : CostTask(t)
  BY DEF CostInv
<1>1. CASE UNCHANGED vars
  BY <1>1, <1>o DEF vars, CostInv, CostTask, CostRun, Running, BeforeVerdict, AtLoopHead
<1>2. ASSUME NEW p \in Procs, Idle(p) \/ Recover(p) \/ WriteVerdict(p) PROVE CostInv'
  <2>1. \A q \in Procs : ~Running(q)'
    <3>1. CASE Recover(p)
      BY <1>0, <1>o, <3>1 DEF Recover, OneWorker, Running
    <3> QED
      BY <1>2, <1>o, <3>1, IdleFrame, WriteVerdictFrame
  <2>2. UNCHANGED <<rows, claims, cancelAt>>
    <3>1. CASE Recover(p) \/ WriteVerdict(p)
      BY <3>1 DEF Recover, WriteVerdict
    <3> QED
      BY <1>2, <1>o, <3>1, IdleFrame
  <2>3. ASSUME NEW t \in Tasks, task'[t].cancel_requested PROVE task[t].cancel_requested
    <3>1. task[t] \in TaskRecord
      BY <1>0
    <3>2. CASE Recover(p)
      <4>1. task'[t] = IF task[t].status = "running"
                       THEN [task[t] EXCEPT !.status = "queued", !.fresh = FALSE,
                                            !.cancel_requested = FALSE]
                       ELSE task[t]
        BY <3>2 DEF Recover
      <4> QED
        BY <2>3, <3>1, <4>1 DEF TaskRecord
    <3>3. CASE WriteVerdict(p)
      <4>1. task' = [task EXCEPT ![cur[p]].status = verdict[p]]
        BY <3>3 DEF WriteVerdict, SetStatus
      <4> QED
        BY <1>0, <2>3, <3>1, <4>1 DEF TaskRecord
    <3>4. CASE Idle(p)
      BY <1>o, <2>3, <3>4, IdleFrame
    <3> QED
      BY <1>2, <3>2, <3>3, <3>4
  <2>4. ASSUME NEW t \in Tasks PROVE CostTask(t)'
    BY <1>t, <2>2, <2>3 DEF CostTask
  <2>5. ASSUME NEW q \in Procs PROVE CostRun(q)'
    BY <2>1 DEF CostRun, Running, BeforeVerdict, AtLoopHead
  <2> QED
    BY <1>o, <2>4, <2>5 DEF CostInv
<1>3. ASSUME NEW p \in Procs, Claim(p) PROVE CostInv'
  <2>1. PICK t \in Tasks : /\ cur'[p] = t /\ pc'[p] = "claimed"
                           /\ task' = [task EXCEPT ![t].status = "running"]
                           /\ claims' = [claims EXCEPT ![t] = @ + 1]
                           /\ UNCHANGED <<rows, cancelAt>>
    BY <1>3, ClaimFrame
  <2>2. /\ claims'[t] = claims[t] + 1
        /\ \A u \in Tasks : claims'[u] \in Nat /\ claims'[u] >= claims[u]
        /\ \A u \in Tasks : task'[u].cancel_requested = task[u].cancel_requested
    BY <1>0, <2>1 DEF TaskRecord
  <2>3. ASSUME NEW u \in Tasks PROVE CostTask(u)'
    <3>1. Len(rows[u]) < MAX_TOTAL_ATTEMPTS + claims'[u]
      BY <1>0, <1>n, <1>t, <2>2, SchedulerAssumption DEF CostTask
    <3> QED
      BY <1>t, <2>1, <2>2, <3>1 DEF CostTask
  <2>4. ASSUME NEW q \in Procs PROVE CostRun(q)'
    <3>1. q = p
      BY <1>o DEF OneWorker
    <3>2. claims'[t] >= 1 /\ Len(rows[t]) + 1 < MAX_TOTAL_ATTEMPTS + claims'[t]
      BY <1>0, <1>n, <1>t, <2>2, SchedulerAssumption DEF CostTask
    <3> QED
      BY <2>1, <3>1, <3>2 DEF CostRun, Running, BeforeVerdict, AtLoopHead
  <2> QED
    BY <1>o, <2>3, <2>4 DEF CostInv
<1>4. ASSUME NEW p \in Procs, Advance(p) PROVE CostInv'
  <2>1. /\ BeforeVerdict(p) /\ UNCHANGED <<task, rows, cur, claims, cancelAt>>
        /\ \/ pc'[p] = "decided"
           \/ pc[p] = "claimed" /\ pc'[p] = "check"
           \/ pc[p] = "check" /\ pc'[p] = "execute"
    BY <1>4, AdvanceFrame
  <2>2. \A t \in Tasks : CostTask(t)'
    BY <1>t, <2>1 DEF CostTask
  <2>3. pc'[p] = "check" => logLen'[p] = Len(rows[cur[p]])
    BY <1>4, <2>1 DEF Advance, Replay, CheckCancel, AttemptRaises, Decide, TypeInv,
                      TypeOK, WorkersOK
  <2>4. pc'[p] = "execute" => ~task[cur[p]].cancel_requested /\ logLen' = logLen
    BY <1>0, <1>4 DEF Advance, Replay, CheckCancel, AttemptRaises, Decide
  <2>5. CostRun(p)
    BY DEF CostInv
  <2>6. CostRun(p)'
    BY <2>1, <2>3, <2>4, <2>5 DEF CostRun, Running, BeforeVerdict, AtLoopHead
  <2>7. \A q \in Procs : q = p
    BY <1>o DEF OneWorker
  <2> QED
    BY <1>o, <2>2, <2>6, <2>7 DEF CostInv
<1>5. ASSUME NEW p \in Procs, AttemptPasses(p) \/ AttemptFails(p) PROVE CostInv'
  <2>1. /\ pc[p] = "execute" /\ UNCHANGED <<task, cur, claims, cancelAt>>
    BY <1>5, AttemptFrame
  <2>2. PICK u \in Tasks : u = cur[p]
    BY <2>1 DEF TypeInv, WorkerOK, Running
  <2>3. PICK row \in Row :
          /\ rows' = [rows EXCEPT ![u] = Append(rows[u], row)]
          /\ row.no = Len(rows[u]) + 1
          /\ logLen'[p] = Len(rows[u]) + 1
          /\ \/ pc'[p] = "decided"
             \/ pc'[p] = "check" /\ Len(rows[u]) + 1 < MAX_TOTAL_ATTEMPTS
    BY <1>5, <2>2, AttemptAppends
  <2>4. /\ claims[u] >= 1 /\ Len(rows[u]) + 1 < MAX_TOTAL_ATTEMPTS + claims[u]
        /\ task[u].cancel_requested => Len(rows[u]) <= cancelAt[u]
    BY <2>1, <2>2 DEF CostInv, CostRun, Running, BeforeVerdict
  <2>5. rows[u] \in Seq(Row) /\ \A i \in DOMAIN rows[u] : rows[u][i].no <= Len(rows[u])
    BY <1>0, <1>t DEF CostTask
  <2>6. /\ rows'[u] = Append(rows[u], row)
        /\ \A t \in Tasks : t # u => rows'[t] = rows[t]
    BY <1>0, <2>3
  <2>7. /\ Len(rows'[u]) = Len(rows[u]) + 1
        /\ \A i \in DOMAIN rows'[u] : rows'[u][i].no <= Len(rows'[u])
    BY <2>3, <2>5, <2>6, AppendedRows
  <2>8. ASSUME NEW t \in Tasks PROVE CostTask(t)'
    <3>1. CASE t # u
      BY <1>t, <2>1, <2>6, <3>1 DEF CostTask
    <3>2. CASE t = u
      <4>1. task[u].cancel_requested => Len(rows[u]) + 1 <= cancelAt[u] + 1
        BY <1>0, <1>n, <2>4
      <4> QED
        BY <2>1, <2>4, <2>7, <3>2, <4>1 DEF CostTask
    <3> QED
      BY <3>1, <3>2
  <2>9. ASSUME NEW q \in Procs PROVE CostRun(q)'
    <3>1. q = p
      BY <1>o DEF OneWorker
    <3>2. cur'[p] = u
      BY <2>1, <2>2
    <3>3. pc'[p] = "check" =>
            /\ logLen'[p] = Len(rows'[u])
            /\ Len(rows'[u]) + 1 < MAX_TOTAL_ATTEMPTS + claims'[u]
      <4>1. ASSUME pc'[p] = "check"
            PROVE  (Len(rows[u]) + 1) + 1 < MAX_TOTAL_ATTEMPTS + claims[u]
        <5>1. Len(rows[u]) + 1 < MAX_TOTAL_ATTEMPTS
          BY <2>3, <4>1
        <5>2. claims[u] \in Nat /\ Len(rows[u]) \in Nat
          BY <1>0, <1>n
        <5> QED
          BY <2>4, <5>1, <5>2, SchedulerAssumption
      <4> QED
        BY <2>1, <2>3, <2>7, <4>1
    <3>4. pc'[p] \in {"decided", "check"} /\ claims'[u] >= 1
      BY <2>1, <2>3, <2>4
    <3> QED
      BY <3>1, <3>2, <3>3, <3>4 DEF CostRun, Running, BeforeVerdict, AtLoopHead
  <2> QED
    BY <1>o, <2>8, <2>9 DEF CostInv
<1>6. ASSUME NEW p \in Procs, NEW t \in Tasks, NEW priority \in Priorities,
             Dispatch(p, t, priority)
      PROVE  CostInv'
  <2>1. /\ UNCHANGED <<rows, claims, cancelAt, workerVars>>
        /\ ~task'[t].cancel_requested
        /\ \A u \in Tasks : u # t => task'[u] = task[u]
    BY <1>0, <1>6 DEF Dispatch
  <2>2. \A u \in Tasks : CostTask(u)'
    BY <1>t, <2>1 DEF CostTask
  <2>3. ASSUME NEW q \in Procs PROVE CostRun(q)'
    <3>1. CostRun(q)
      BY DEF CostInv
    <3>2. pc[q] = "execute" => cur[q] \in Tasks
      BY DEF TypeInv, WorkerOK, Running
    <3> QED
      BY <2>1, <3>1, <3>2 DEF CostRun, Running, BeforeVerdict, AtLoopHead
  <2> QED
    BY <1>o, <2>2, <2>3 DEF CostInv
<1>7. ASSUME NEW p \in Procs, NEW th \in Threads, NEW t \in Tasks,
             ReadForCancel(p, th, t) \/ ReadForRetry(p, th, t)
      PROVE  CostInv'
  <2>1. UNCHANGED <<task, rows, claims, cancelAt, workerVars>>
    BY <1>7 DEF ReadForCancel, ReadForRetry, Request
  <2> QED
    BY <1>o, <2>1 DEF CostInv, CostTask, CostRun, Running, BeforeVerdict, AtLoopHead
<1>8. ASSUME NEW p \in Procs, NEW th \in Threads,
             WriteAbort(p, th) \/ WriteCancelFlag(p, th) \/ WriteRetry(p, th)
      PROVE  CostInv'
  <2>1. UNCHANGED <<rows, claims, workerVars>>
    BY <1>8 DEF WriteAbort, WriteCancelFlag, WriteRetry
  <2>2. PICK u \in Tasks : u = req[p][th].task
    BY <1>8, HandlerWrites
  <2>3. \A t \in Tasks : t # u => task'[t] = task[t] /\ cancelAt'[t] = cancelAt[t]
    <3>1. \A t \in Tasks : t # req[p][th].task => task'[t] = task[t]
      BY <1>8, HandlerWrites
    <3>2. \A t \in Tasks : t # u => cancelAt'[t] = cancelAt[t]
      BY <1>0, <1>8, <2>2 DEF WriteAbort, WriteCancelFlag, WriteRetry
    <3> QED
      BY <2>2, <3>1, <3>2
  <2>4. \/ task'[u].cancel_requested => task[u].cancel_requested /\ cancelAt'[u] = cancelAt[u]
        \/ cancelAt'[u] = Len(rows[u])
    <3>1. task[u] \in TaskRecord
      BY <1>0
    <3>2. CASE WriteAbort(p, th)
      <4>1. task'[u] = [task[u] EXCEPT !.status = "aborted"] /\ cancelAt' = cancelAt
        BY <2>2, <3>2, HandlerWrites DEF WriteAbort
      <4> QED
        BY <3>1, <4>1 DEF TaskRecord
    <3>3. CASE WriteRetry(p, th)
      <4>1. task'[u] = [task[u] EXCEPT !.status = "queued", !.fresh = TRUE,
                                       !.cancel_requested = FALSE]
        BY <2>2, <3>3, HandlerWrites
      <4> QED
        BY <3>1, <4>1 DEF TaskRecord
    <3>4. CASE WriteCancelFlag(p, th)
      <4>1. cancelAt' = [cancelAt EXCEPT ![u] =
                           IF task[u].cancel_requested THEN cancelAt[u] ELSE Len(rows[u])]
        BY <2>2, <3>4 DEF WriteCancelFlag
      <4>2. cancelAt'[u] = IF task[u].cancel_requested THEN cancelAt[u] ELSE Len(rows[u])
        BY <1>0, <4>1
      <4> QED
        BY <4>2
    <3> QED
      BY <1>8, <3>2, <3>3, <3>4
  <2>5. ASSUME NEW t \in Tasks PROVE CostTask(t)'
    <3>1. CASE t # u
      BY <1>t, <2>1, <2>3, <3>1 DEF CostTask
    <3>2. CASE t = u
      <4>1. Len(rows[u]) <= Len(rows[u]) + 1
        BY <1>n
      <4> QED
        BY <1>t, <2>1, <2>4, <3>2, <4>1 DEF CostTask
    <3> QED
      BY <3>1, <3>2
  <2>6. ASSUME NEW q \in Procs PROVE CostRun(q)'
    <3>1. CostRun(q)
      BY DEF CostInv
    <3>2. pc[q] = "execute" => cur[q] \in Tasks
      BY DEF TypeInv, WorkerOK, Running
    <3>3. CASE cur[q] = u
      <4>1. Len(rows[u]) <= Len(rows[u])
        BY <1>n
      <4> QED
        BY <2>1, <2>4, <3>1, <3>3, <4>1
           DEF CostRun, Running, BeforeVerdict, AtLoopHead
    <3>4. CASE cur[q] # u
      BY <2>1, <2>3, <3>1, <3>2, <3>4 DEF CostRun, Running, BeforeVerdict, AtLoopHead
    <3> QED
      BY <3>3, <3>4
  <2> QED
    BY <1>o, <2>5, <2>6 DEF CostInv
<1> QED
  BY <1>1, <1>2, <1>3, <1>4, <1>5, <1>6, <1>7, <1>8
     DEF Next, Worker, WorkerStep, Handler, Idle, Advance

LEMMA CostInvAlways == OneWorker /\ Spec => []CostInv
<1>1. OneWorker /\ Init => CostInv
  <2> SUFFICES ASSUME OneWorker, Init PROVE CostInv
    OBVIOUS
  <2>1. \A t \in Tasks : /\ rows[t] = <<>> /\ claims[t] = 0 /\ ~task[t].cancel_requested
    BY DEF Init
  <2>2. Len(<<>>) = 0 /\ DOMAIN <<>> = {}
    OBVIOUS
  <2>3. \A t \in Tasks : CostTask(t)
    BY <2>1, <2>2, SchedulerAssumption DEF CostTask
  <2>4. \A p \in Procs : CostRun(p)
    BY DEF Init, CostRun, Running, BeforeVerdict, AtLoopHead
  <2> QED
    BY <2>3, <2>4 DEF CostInv
<1>2. TypeInv /\ CostInv /\ [Next]_vars => CostInv'
  BY CostInvStep
<1> QED
  BY <1>1, <1>2, TypeInvAlways, PTL DEF Spec

\* One run never takes a task past MAX_TOTAL_ATTEMPTS: every attempt beyond it
\* was made under a claim of its own, whatever crashes, cancels and retries.
THEOREM AttemptsAreBounded == OneWorker /\ Spec => []AttemptCeiling
<1>1. CostInv => AttemptCeiling
  BY DEF CostInv, CostTask, AttemptCeiling
<1> QED
  BY <1>1, CostInvAlways, PTL

\* Once a task is flagged for cancelling, at most the attempt under way is made.
THEOREM CancelEndsWork == OneWorker /\ Spec => []CancelBoundsWork
<1>1. CostInv => CancelBoundsWork
  BY DEF CostInv, CostTask, CancelBoundsWork
<1> QED
  BY <1>1, CostInvAlways, PTL

-------------------------------------------------------------------------------
(* Replaying the rows of a cycle, one row at a time.                          *)

ReplayBody(log, f) ==
  [i \in 0..Len(log) |-> IF i = 0 THEN NewBreaker ELSE Replayed(f[i - 1], log[i])]

LEMMA ReplayUnfolds ==
  ASSUME NEW log \in Seq(Row)
  PROVE  \E f : f = ReplayBody(log, f) /\ ReplayOf(log) = f[Len(log)]
<1> DEFINE n == Len(log)
           Body(f) ==
             [i \in 0..n |-> IF i = 0 THEN NewBreaker
                             ELSE IF log[i].status \in {"failed", "frozen"}
                                  THEN Recorded(f[i - 1], log[i].code, log[i].err)
                                  ELSE f[i - 1]]
           upTo == CHOOSE f : f = Body(f)
<1>1. n \in Nat
  OBVIOUS
<1>2. \E f : f = Body(f)
  BY <1>1, ReplayExists DEF Replayed
<1>3. upTo = Body(upTo)
  BY <1>2
<1>4. ReplayOf(log) = upTo[n]
  BY DEF ReplayOf
<1>5. \A f : Body(f) = ReplayBody(log, f)
  BY DEF ReplayBody, Replayed
<1> HIDE DEF upTo, Body
<1> QED
  BY <1>3, <1>4, <1>5

\* The rows after the first b of a longer table.
LEMMA TailOfAppended ==
  ASSUME NEW log \in Seq(Row), NEW row \in Row, NEW b \in 0..Len(log)
  PROVE  /\ SubSeq(log, b + 1, Len(log)) \in Seq(Row)
         /\ SubSeq(Append(log, row), b + 1, Len(log) + 1)
              = Append(SubSeq(log, b + 1, Len(log)), row)
<1> DEFINE n == Len(log)
           L == Append(log, row)
           short == SubSeq(log, b + 1, n)
           long == SubSeq(L, b + 1, n + 1)
<1>1. n \in Nat /\ b \in Nat /\ b <= n
  OBVIOUS
<1>2. /\ L \in Seq(Row) /\ Len(L) = n + 1
      /\ \A i \in 1..n : L[i] = log[i]
      /\ L[n + 1] = row
  BY AppendProperties
<1>3. \A i \in 1..n : log[i] \in Row
  BY ElementOfSeq
<1> HIDE DEF L, n
<1>4. /\ short \in Seq(Row) /\ Len(short) = n - b
      /\ \A i \in 1..n - b : short[i] = log[b + i]
  <2>1. b + 1 \in Int /\ n \in Int /\ \A i \in b + 1 .. n : log[i] \in Row
    BY <1>1, <1>3
  <2>2. /\ short \in Seq(Row)
        /\ Len(short) = IF b + 1 <= n THEN n - (b + 1) + 1 ELSE 0
        /\ \A i \in 1 .. n - (b + 1) + 1 : short[i] = log[b + 1 + i - 1]
    BY <2>1, SubSeqProperties
  <2>3. \A i \in 1..n - b : i \in 1 .. n - (b + 1) + 1 /\ b + 1 + i - 1 = b + i
    BY <1>1
  <2> QED
    BY <1>1, <2>2, <2>3, TailLength
<1>5. /\ long \in Seq(Row) /\ Len(long) = n - b + 1
      /\ \A i \in 1..n - b + 1 : long[i] = L[b + i]
  <2>1. b + 1 \in Int /\ n + 1 \in Int /\ \A i \in b + 1 .. n + 1 : L[i] \in Row
    BY <1>1, <1>2, <1>3
  <2>2. /\ long \in Seq(Row)
        /\ Len(long) = IF b + 1 <= n + 1 THEN (n + 1) - (b + 1) + 1 ELSE 0
        /\ \A i \in 1 .. (n + 1) - (b + 1) + 1 : long[i] = L[b + 1 + i - 1]
    BY <2>1, SubSeqProperties
  <2>3. \A i \in 1..n - b + 1 : i \in 1 .. (n + 1) - (b + 1) + 1 /\ b + 1 + i - 1 = b + i
    BY <1>1
  <2>4. b + 1 <= n + 1 /\ (n + 1) - (b + 1) + 1 = n - b + 1
    BY <1>1
  <2> QED
    BY <2>2, <2>3, <2>4
<1> HIDE DEF short, long
<1> DEFINE both == Append(short, row)
<1>6. /\ both \in Seq(Row) /\ Len(both) = n - b + 1
      /\ \A i \in 1..n - b : both[i] = short[i]
      /\ both[n - b + 1] = row
  <2>1. /\ both \in Seq(Row) /\ Len(both) = Len(short) + 1
        /\ \A i \in 1..Len(short) : both[i] = short[i]
        /\ both[Len(short) + 1] = row
    BY <1>4, AppendProperties
  <2> HIDE DEF both
  <2> QED
    BY <1>4, <2>1
<1> HIDE DEF both
<1>7. ASSUME NEW i \in 1..Len(long) PROVE long[i] = both[i]
  <2>1. CASE i \in 1..n - b
    <3>1. b + i \in 1..n
      BY <1>1, <2>1
    <3> QED
      BY <1>1, <1>2, <1>4, <1>5, <1>6, <2>1, <3>1
  <2>2. CASE i = n - b + 1
    <3>1. b + (n - b + 1) = n + 1 /\ i \in 1..n - b + 1
      BY <1>1, <2>2
    <3> QED
      BY <1>2, <1>5, <1>6, <2>2, <3>1
  <2> QED
    BY <1>1, <1>5, <2>1, <2>2
<1>8. long = both
  BY <1>5, <1>6, <1>7, SeqEqual
<1> QED
  BY <1>4, <1>8 DEF long, both, short, L, n

LEMMA OthersSpread ==
  ASSUME NEW log \in Seq(Row), NEW row \in Row, ~ReplayedOtherwise(Append(log, row))
  PROVE  ~ReplayedOtherwise(log)
<1>1. /\ DOMAIN log = 1..Len(log)
      /\ \A i \in 1..Len(log) : i \in DOMAIN Append(log, row) /\ Append(log, row)[i] = log[i]
  BY AppendProperties
<1> QED
  BY <1>1 DEF ReplayedOtherwise

-------------------------------------------------------------------------------
(* The breaker that lived through the attempts.                              *)

\* One attempt as the breaker b is told of it.
Lived(b, row) == Recorded(b, row.code, Told(row))

LiveBody(log, f) ==
  [i \in 0..Len(log) |-> IF i = 0 THEN NewBreaker ELSE Lived(f[i - 1], log[i])]

LEMMA LiveExists ==
  ASSUME NEW log
  PROVE  \A n \in Nat : \E f :
           f = [i \in 0..n |-> IF i = 0 THEN NewBreaker ELSE Lived(f[i - 1], log[i])]
<1> DEFINE Works(f, n) ==
      f = [i \in 0..n |-> IF i = 0 THEN NewBreaker ELSE Lived(f[i - 1], log[i])]
<1> SUFFICES ASSUME NEW n \in Nat PROVE \E f : Works(f, n)
  OBVIOUS
<1> DEFINE Good == {k \in 0..n : \E f : Works(f, k)}
<1>1. 0 \in Good
  <2>1. Works([i \in 0..0 |-> NewBreaker], 0)
    OBVIOUS
  <2> HIDE DEF Works
  <2> QED
    BY <2>1
<1>2. ASSUME NEW k \in 1..n, k - 1 \in Good PROVE k \in Good
  <2>1. PICK f : Works(f, k - 1)
    BY <1>2
  <2> DEFINE g == [i \in 0..k |-> IF i < k THEN f[i] ELSE Lived(f[k - 1], log[k])]
  <2>2. ASSUME NEW i \in 0..k
        PROVE  g[i] = IF i = 0 THEN NewBreaker ELSE Lived(g[i - 1], log[i])
    <3>1. CASE i = k
      <4>1. g[i] = Lived(f[k - 1], log[k]) /\ g[i - 1] = f[k - 1]
        BY <3>1
      <4> QED
        BY <3>1, <4>1
    <3>2. CASE i < k
      <4>1. i \in 0..(k - 1) /\ g[i] = f[i]
        BY <3>2
      <4>2. f[i] = IF i = 0 THEN NewBreaker ELSE Lived(f[i - 1], log[i])
        BY <2>1, <4>1
      <4>3. i # 0 => g[i - 1] = f[i - 1]
        BY <3>2
      <4> QED
        BY <4>1, <4>2, <4>3
    <3> QED
      BY <3>1, <3>2
  <2>3. Works(g, k)
    BY <2>2
  <2> HIDE DEF Works, g
  <2> QED
    BY <2>3
<1> HIDE DEF Works
<1>3. \A k \in 0..n : k \in Good
  BY <1>1, <1>2, UpToInduction
<1> QED
  BY <1>3

LEMMA LiveUnfolds ==
  ASSUME NEW log \in Seq(Row)
  PROVE  \E f : f = LiveBody(log, f) /\ LiveOf(log) = f[Len(log)]
<1> DEFINE n == Len(log)
           Body(f) ==
             [i \in 0..n |-> IF i = 0 THEN NewBreaker
                             ELSE Recorded(f[i - 1], log[i].code, Told(log[i]))]
           upTo == CHOOSE f : f = Body(f)
<1>1. n \in Nat
  OBVIOUS
<1>2. \E f : f = Body(f)
  BY <1>1, LiveExists DEF Lived
<1>3. upTo = Body(upTo)
  BY <1>2
<1>4. LiveOf(log) = upTo[n]
  BY DEF LiveOf
<1>5. \A f : Body(f) = LiveBody(log, f)
  BY DEF LiveBody, Lived
<1> HIDE DEF upTo, Body
<1> QED
  BY <1>3, <1>4, <1>5

LEMMA LiveEmpty == LiveOf(<<>>) = NewBreaker
<1>1. <<>> \in Seq(Row) /\ Len(<<>>) = 0
  OBVIOUS
<1>2. PICK f : f = LiveBody(<<>>, f) /\ LiveOf(<<>>) = f[Len(<<>>)]
  BY <1>1, LiveUnfolds
<1> QED
  BY <1>1, <1>2 DEF LiveBody

LEMMA LiveAppend ==
  ASSUME NEW log \in Seq(Row), NEW row \in Row
  PROVE  LiveOf(Append(log, row)) = Lived(LiveOf(log), row)
<1> DEFINE n == Len(log)
           L == Append(log, row)
<1>1. /\ n \in Nat /\ L \in Seq(Row) /\ Len(L) = n + 1
      /\ \A i \in 1..n : L[i] = log[i]
      /\ L[n + 1] = row
  BY AppendProperties
<1> HIDE DEF L
<1>2. PICK f : f = LiveBody(log, f) /\ LiveOf(log) = f[n]
  BY LiveUnfolds
<1>3. PICK g : g = LiveBody(L, g) /\ LiveOf(L) = g[n + 1]
  BY <1>1, LiveUnfolds
<1>4. \A i \in 0..n : f[i] = IF i = 0 THEN NewBreaker ELSE Lived(f[i - 1], log[i])
  BY <1>1, <1>2 DEF LiveBody
<1>5. \A i \in 0..n + 1 : g[i] = IF i = 0 THEN NewBreaker ELSE Lived(g[i - 1], L[i])
  BY <1>1, <1>3 DEF LiveBody
<1> HIDE DEF n
<1> DEFINE Same == {k \in 0..n : f[k] = g[k]}
<1>6. 0 \in Same
  <2>1. 0 \in 0..n /\ 0 \in 0..n + 1
    BY <1>1
  <2> QED
    BY <1>4, <1>5, <2>1
<1>7. ASSUME NEW k \in 1..n, k - 1 \in Same PROVE k \in Same
  <2>1. k \in 0..n /\ k \in 0..n + 1 /\ k # 0 /\ k \in 1..n
    BY <1>1
  <2>2. f[k] = Lived(f[k - 1], log[k]) /\ g[k] = Lived(g[k - 1], L[k])
    BY <1>4, <1>5, <2>1
  <2>3. f[k - 1] = g[k - 1]
    BY <1>7
  <2> QED
    BY <1>1, <2>1, <2>2, <2>3
<1> HIDE DEF Same
<1>8. \A k \in 0..n : k \in Same
  BY <1>1, <1>6, <1>7, UpToInduction
<1>9. f[n] = g[n]
  BY <1>1, <1>8 DEF Same
<1>10. g[n + 1] = Lived(g[n], row)
  <2>1. n + 1 \in 0..n + 1 /\ n + 1 # 0 /\ (n + 1) - 1 = n
    BY <1>1
  <2> QED
    BY <1>1, <1>5, <2>1
<1> QED
  BY <1>2, <1>3, <1>9, <1>10 DEF L

\* Where no attempt was silent or passed, the replay tells the breaker what the run did.
LEMMA ReplayLives ==
  ASSUME NEW log \in Seq(Row), ~ReplayedOtherwise(log)
  PROVE  ReplayOf(log) = LiveOf(log)
<1> DEFINE n == Len(log)
<1>1. n \in Nat /\ DOMAIN log = 1..n /\ \A i \in 1..n : log[i] \in Row
  BY ElementOfSeq
<1>2. PICK f : f = ReplayBody(log, f) /\ ReplayOf(log) = f[n]
  BY ReplayUnfolds
<1>3. PICK g : g = LiveBody(log, g) /\ LiveOf(log) = g[n]
  BY LiveUnfolds
<1>4. \A i \in 0..n : f[i] = IF i = 0 THEN NewBreaker ELSE Replayed(f[i - 1], log[i])
  BY <1>1, <1>2 DEF ReplayBody
<1>5. \A i \in 0..n : g[i] = IF i = 0 THEN NewBreaker ELSE Lived(g[i - 1], log[i])
  BY <1>1, <1>3 DEF LiveBody
<1>6. ASSUME NEW b, NEW i \in 1..n PROVE Replayed(b, log[i]) = Lived(b, log[i])
  <2>1. log[i] \in Row /\ log[i].err # NoErr /\ log[i].status # "passed"
    BY <1>1 DEF ReplayedOtherwise
  <2>2. log[i].status \in {"failed", "frozen"} /\ Told(log[i]) = log[i].err
    BY <2>1 DEF Row, Told
  <2> QED
    BY <2>2 DEF Replayed, Lived
<1> HIDE DEF n
<1> DEFINE Same == {k \in 0..n : f[k] = g[k]}
<1>7. 0 \in Same
  BY <1>1, <1>4, <1>5
<1>8. ASSUME NEW k \in 1..n, k - 1 \in Same PROVE k \in Same
  <2>1. k \in 0..n /\ k # 0 /\ f[k - 1] = g[k - 1]
    BY <1>1, <1>8
  <2> QED
    BY <1>4, <1>5, <1>6, <2>1
<1> HIDE DEF Same
<1>9. \A k \in 0..n : k \in Same
  BY <1>1, <1>7, <1>8, UpToInduction
<1>10. f[n] = g[n]
  BY <1>1, <1>9 DEF Same
<1> QED
  BY <1>2, <1>3, <1>10

-------------------------------------------------------------------------------
(* The breaker of a run is the one that saw the whole cycle.                  *)

\* Where a cycle begins: a fresh task in the queue has no row of its cycle yet.
CycleTask(t) ==
  /\ base[t] <= Len(rows[t])
  /\ task[t].status = "none" => rows[t] = <<>>
  /\ task[t].status = "queued" /\ task[t].fresh /\ ~raced[t] => base[t] = Len(rows[t])

SawCycle(p) ==
  AtLoopHead(p) =>
    LET t == cur[p]  log == CycleRows(t) IN
    ~raced[t] /\ (snapFresh[p] \/ (base[t] = 0 /\ ~ReplayedOtherwise(log)))
      => cb[p] = LiveOf(log)

CycleRun(p) ==
  /\ pc[p] = "claimed" /\ snapFresh[p] /\ ~raced[cur[p]] =>
       base[cur[p]] = Len(rows[cur[p]])
  /\ SawCycle(p)

CycleInv ==
  /\ \A t \in Tasks : CycleTask(t)
  /\ \A p \in Procs : CycleRun(p)

LEMMA ReplaySawCycle ==
  ASSUME TypeInv, CycleInv, NEW p \in Procs, Replay(p), pc'[p] = "check"
  PROVE  SawCycle(p)'
<1>1. PICK u \in Tasks : u = cur[p]
  BY DEF Replay, TypeInv, WorkerOK, Running
<1> DEFINE n == Len(rows[u])
<1>2. /\ rows[u] \in Seq(Row) /\ n \in Nat /\ base[u] \in Nat
      /\ cb \in [Procs -> Breakers]
  BY DEF TypeInv, TypeOK, TablesOK, HistoryOK, WorkersOK
<1>3. /\ pc[p] = "claimed" /\ UNCHANGED <<rows, cur, snapFresh, raced, base>>
      /\ cb' = [cb EXCEPT ![p] = IF snapFresh[p] THEN NewBreaker ELSE ReplayOf(rows[u])]
  BY <1>1 DEF Replay
<1>4. cb'[p] = IF snapFresh[p] THEN NewBreaker ELSE ReplayOf(rows[u])
  BY <1>2, <1>3
<1>5. snapFresh[p] /\ ~raced[u] => base[u] = n
  BY <1>1, <1>3 DEF CycleInv, CycleRun
<1>6. CASE snapFresh[p] /\ ~raced[u]
  <2>1. CycleRows(u) = <<>>
    <3>1. base[u] + 1 \in Int /\ n \in Int /\ n < base[u] + 1
      BY <1>2, <1>5, <1>6
    <3> QED
      BY <3>1, SubSeqEmpty DEF CycleRows
  <2>2. CycleRows(u)' = CycleRows(u)
    BY <1>3 DEF CycleRows
  <2>3. cb'[p] = LiveOf(CycleRows(u))
    BY <1>4, <1>6, <2>1, LiveEmpty
  <2> QED
    BY <1>1, <1>3, <2>2, <2>3 DEF SawCycle
<1>7. CASE ~snapFresh[p] /\ base[u] = 0
  <2>1. CycleRows(u) = rows[u]
    <3>1. base[u] + 1 = 1
      BY <1>7
    <3> QED
      BY <1>2, <3>1, SubSeqFull DEF CycleRows
  <2>2. CycleRows(u)' = CycleRows(u)
    BY <1>3 DEF CycleRows
  <2>3. ~ReplayedOtherwise(CycleRows(u)) => cb'[p] = LiveOf(CycleRows(u))
    BY <1>2, <1>4, <1>7, <2>1, ReplayLives
  <2> QED
    BY <1>1, <1>3, <1>7, <2>2, <2>3 DEF SawCycle, ReplayedOtherwise
<1>8. CASE raced[u] \/ (~snapFresh[p] /\ base[u] # 0)
  BY <1>1, <1>3, <1>8 DEF SawCycle
<1> QED
  BY <1>6, <1>7, <1>8

LEMMA AttemptSawCycle ==
  ASSUME TypeInv, CostInv, CycleInv, NEW p \in Procs, AttemptPasses(p) \/ AttemptFails(p)
  PROVE  SawCycle(p)'
<1>1. pc[p] = "execute" /\ UNCHANGED <<cur, snapFresh, raced, base>>
  BY AttemptFrame
<1>2. PICK u \in Tasks : u = cur[p]
  BY <1>1 DEF TypeInv, WorkerOK, Running
<1>3. PICK row \in Row :
        /\ rows' = [rows EXCEPT ![u] = Append(rows[u], row)]
        /\ \/ pc'[p] = "decided"
           \/ /\ pc'[p] = "check" /\ row.status # "passed"
              /\ cb'[p] = Recorded(cb[p], row.code,
                                   IF row.err = NoErr THEN VerifyFailed ELSE row.err)
  BY <1>2, AttemptAppends
<1>4. /\ rows[u] \in Seq(Row) /\ base[u] \in 0..Len(rows[u])
      /\ rows \in [Tasks -> Seq(Row)]
  <2>1. rows \in [Tasks -> Seq(Row)] /\ base[u] \in Nat
    BY DEF TypeInv, TypeOK, TablesOK, HistoryOK
  <2>2. base[u] <= Len(rows[u])
    BY DEF CycleInv, CycleTask
  <2> QED
    BY <2>1, <2>2
<1> DEFINE log == SubSeq(rows[u], base[u] + 1, Len(rows[u]))
<1>5. /\ log \in Seq(Row)
      /\ SubSeq(Append(rows[u], row), base[u] + 1, Len(rows[u]) + 1) = Append(log, row)
  BY <1>4, TailOfAppended
<1>6. rows'[u] = Append(rows[u], row) /\ Len(rows'[u]) = Len(rows[u]) + 1
  <2>1. rows'[u] = Append(rows[u], row)
    BY <1>3, <1>4
  <2> QED
    BY <1>4, <2>1, AppendProperties
<1>7. CycleRows(u)' = Append(log, row) /\ CycleRows(u) = log
  BY <1>1, <1>5, <1>6 DEF CycleRows
<1> HIDE DEF log
<1>8. CASE pc'[p] = "decided"
  BY <1>8 DEF SawCycle, AtLoopHead
<1>9. ASSUME row.status # "passed",
             cb'[p] = Recorded(cb[p], row.code,
                               IF row.err = NoErr THEN VerifyFailed ELSE row.err),
             ~raced[u],
             snapFresh[p] \/ (base[u] = 0 /\ ~ReplayedOtherwise(Append(log, row)))
      PROVE  cb'[p] = LiveOf(Append(log, row))
  <2>1. snapFresh[p] \/ (base[u] = 0 /\ ~ReplayedOtherwise(log))
    BY <1>5, <1>9, OthersSpread
  <2>2. cb[p] = LiveOf(log)
    BY <1>1, <1>2, <1>7, <1>9, <2>1 DEF CycleInv, CycleRun, SawCycle, AtLoopHead, ReplayedOtherwise
  <2>3. cb'[p] = Lived(LiveOf(log), row)
    BY <1>9, <2>2 DEF Lived, Told
  <2> QED
    BY <1>5, <2>3, LiveAppend
<1>10. CASE pc'[p] # "decided"
  <2>1. /\ pc'[p] = "check" /\ row.status # "passed"
        /\ cb'[p] = Recorded(cb[p], row.code,
                             IF row.err = NoErr THEN VerifyFailed ELSE row.err)
    BY <1>3, <1>10
  <2>2. /\ cur'[p] = u /\ raced'[u] = raced[u] /\ base'[u] = base[u]
        /\ snapFresh'[p] = snapFresh[p]
    BY <1>1, <1>2
  <2> QED
    BY <1>7, <1>9, <2>1, <2>2 DEF SawCycle, ReplayedOtherwise
<1> QED
  BY <1>8, <1>10

LEMMA CycleInvStep ==
  ASSUME TypeInv, OwnInv, CostInv, CycleInv, [Next]_vars
  PROVE  CycleInv'
<1>0. /\ task \in [Tasks -> TaskRecord] /\ rows \in [Tasks -> Seq(Row)]
      /\ base \in [Tasks -> Nat] /\ raced \in [Tasks -> BOOLEAN]
      /\ pc \in [Procs -> PCs] /\ snapFresh \in [Procs -> BOOLEAN]
  BY DEF TypeInv, TypeOK, TablesOK, WorkersOK, HistoryOK
<1>o. OneWorker
  BY DEF OwnInv
<1>t. \A t \in Tasks : CycleTask(t)
  BY DEF CycleInv
<1>r. \A p \in Procs : CycleRun(p)
  BY DEF CycleInv
<1>1. CASE UNCHANGED vars
  BY <1>1 DEF vars, CycleInv, CycleTask, CycleRun, SawCycle, AtLoopHead, CycleRows
<1>2. ASSUME NEW p \in Procs, Idle(p) \/ Recover(p) \/ WriteVerdict(p) PROVE CycleInv'
  <2>1. \A q \in Procs : ~Running(q)'
    <3>1. CASE Recover(p)
      BY <1>0, <1>o, <3>1 DEF Recover, OneWorker, Running
    <3> QED
      BY <1>2, <1>o, <3>1, IdleFrame, WriteVerdictFrame
  <2>2. UNCHANGED <<rows, base, raced>>
    <3>1. CASE Recover(p) \/ WriteVerdict(p)
      BY <3>1 DEF Recover, WriteVerdict
    <3> QED
      BY <1>2, <1>o, <3>1, IdleFrame
  <2>3. ASSUME NEW t \in Tasks
        PROVE  \/ task'[t] = task[t]
               \/ task'[t].status # "none" /\ (task'[t].status # "queued" \/ ~task'[t].fresh)
    <3>1. task[t] \in TaskRecord
      BY <1>0
    <3>2. CASE Recover(p)
      <4>1. task'[t] = IF task[t].status = "running"
                       THEN [task[t] EXCEPT !.status = "queued", !.fresh = FALSE,
                                            !.cancel_requested = FALSE]
                       ELSE task[t]
        BY <3>2 DEF Recover
      <4> QED
        BY <3>1, <4>1 DEF TaskRecord
    <3>3. CASE WriteVerdict(p)
      <4>1. task' = [task EXCEPT ![cur[p]].status = verdict[p]]
        BY <3>3 DEF WriteVerdict, SetStatus
      <4>2. verdict[p] \in Verdicts
        BY <3>3 DEF WriteVerdict, OwnInv, RunOwned, Running, TypeInv, TypeOK, WorkersOK
      <4> QED
        BY <1>0, <3>1, <4>1, <4>2 DEF TaskRecord, Verdicts
    <3>4. CASE Idle(p)
      BY <1>o, <3>4, IdleFrame
    <3> QED
      BY <1>2, <3>2, <3>3, <3>4
  <2>4. ASSUME NEW t \in Tasks PROVE CycleTask(t)'
    BY <1>t, <2>2, <2>3 DEF CycleTask
  <2>5. ASSUME NEW q \in Procs PROVE CycleRun(q)'
    BY <2>1 DEF CycleRun, SawCycle, Running, AtLoopHead
  <2> QED
    BY <2>4, <2>5 DEF CycleInv
<1>3. ASSUME NEW p \in Procs, Claim(p) PROVE CycleInv'
  <2>1. PICK t \in Tasks : /\ task[t].status = "queued" /\ cur'[p] = t
                           /\ pc'[p] = "claimed" /\ snapFresh'[p] = task[t].fresh
                           /\ task' = [task EXCEPT ![t].status = "running"]
                           /\ UNCHANGED <<rows, raced, base>>
    BY <1>3, ClaimFrame
  <2>2. /\ task'[t].status = "running"
        /\ \A u \in Tasks : u # t => task'[u] = task[u]
    BY <1>0, <2>1 DEF TaskRecord
  <2>3. ASSUME NEW u \in Tasks PROVE CycleTask(u)'
    BY <1>t, <2>1, <2>2 DEF CycleTask
  <2>4. ASSUME NEW q \in Procs PROVE CycleRun(q)'
    <3>1. q = p
      BY <1>o DEF OneWorker
    <3>2. task[t].fresh /\ ~raced[t] => base[t] = Len(rows[t])
      BY <1>t, <2>1 DEF CycleTask
    <3> QED
      BY <2>1, <3>1, <3>2 DEF CycleRun, SawCycle, AtLoopHead
  <2> QED
    BY <2>3, <2>4 DEF CycleInv
<1>4. ASSUME NEW p \in Procs, Advance(p) PROVE CycleInv'
  <2>1. /\ UNCHANGED <<task, rows, cur, snapFresh, base, raced>>
        /\ \/ pc'[p] = "decided"
           \/ pc[p] = "claimed" /\ pc'[p] = "check"
           \/ pc[p] = "check" /\ pc'[p] = "execute"
    BY <1>4, AdvanceFrame
  <2>2. \A t \in Tasks : CycleTask(t)'
    BY <1>t, <2>1 DEF CycleTask
  <2>6. CycleRun(p)'
    <3>3. CASE pc'[p] = "decided"
      BY <3>3 DEF CycleRun, SawCycle, AtLoopHead
    <3>4. CASE pc[p] = "claimed" /\ pc'[p] = "check"
      <4>1. Replay(p)
        BY <1>4, <3>4 DEF Advance, CheckCancel, AttemptRaises
      <4> QED
        BY <3>4, <4>1, ReplaySawCycle DEF CycleRun
    <3>5. CASE pc[p] = "check" /\ pc'[p] = "execute"
      <4>1. cb' = cb
        BY <1>4, <3>5 DEF Advance, Replay, CheckCancel, AttemptRaises
      <4>2. CycleRun(p)
        BY <1>r
      <4> QED
        BY <2>1, <3>5, <4>1, <4>2 DEF CycleRun, SawCycle, AtLoopHead, CycleRows
    <3> QED
      BY <2>1, <3>3, <3>4, <3>5
  <2>7. \A q \in Procs : q = p
    BY <1>o DEF OneWorker
  <2> QED
    BY <2>2, <2>6, <2>7 DEF CycleInv
<1>5. ASSUME NEW p \in Procs, AttemptPasses(p) \/ AttemptFails(p) PROVE CycleInv'
  <2>1. /\ pc[p] = "execute" /\ UNCHANGED <<task, cur, raced, base>>
    BY <1>5, AttemptFrame
  <2>2. PICK u \in Tasks : u = cur[p]
    BY <2>1 DEF TypeInv, WorkerOK, Running
  <2>3. PICK row \in Row :
          /\ rows' = [rows EXCEPT ![u] = Append(rows[u], row)]
          /\ pc'[p] \in {"decided", "check"}
    BY <1>5, <2>2, AttemptAppends
  <2>4. /\ Len(rows'[u]) = Len(rows[u]) + 1
        /\ \A t \in Tasks : t # u => rows'[t] = rows[t]
    <3>1. rows'[u] = Append(rows[u], row) /\ rows[u] \in Seq(Row)
      BY <1>0, <2>3
    <3>2. Len(rows'[u]) = Len(rows[u]) + 1
      BY <3>1, AppendProperties
    <3> QED
      BY <1>0, <2>3, <3>2
  <2>5. task[u].status # "none" /\ (raced[u] \/ task[u].status = "running")
    BY <2>1, <2>2 DEF OwnInv, RunOwned, Running
  <2>6. ASSUME NEW t \in Tasks PROVE CycleTask(t)'
    <3>1. CASE t # u
      BY <1>t, <2>1, <2>4, <3>1 DEF CycleTask
    <3>2. CASE t = u
      <4>1. base[u] <= Len(rows[u]) + 1
        <5>1. base[u] <= Len(rows[u]) /\ base[u] \in Nat /\ Len(rows[u]) \in Nat
          BY <1>0, <1>t DEF CycleTask
        <5> QED
          BY <5>1
      <4> QED
        BY <2>1, <2>4, <2>5, <3>2, <4>1 DEF CycleTask
    <3> QED
      BY <3>1, <3>2
  <2>7. CycleRun(p)'
    BY <1>5, <2>3, AttemptSawCycle DEF CycleRun
  <2>8. \A q \in Procs : q = p
    BY <1>o DEF OneWorker
  <2> QED
    BY <2>6, <2>7, <2>8 DEF CycleInv
<1>6. ASSUME NEW p \in Procs, NEW t \in Tasks, NEW priority \in Priorities,
             Dispatch(p, t, priority)
      PROVE  CycleInv'
  <2>1. /\ UNCHANGED <<rows, raced, base, workerVars>> /\ task[t].status = "none"
        /\ \A u \in Tasks : u # t => task'[u] = task[u]
        /\ task'[t].status = "queued"
    BY <1>0, <1>6 DEF Dispatch
  <2>2. base[t] = Len(rows[t])
    <3>1. rows[t] = <<>> /\ base[t] <= Len(rows[t]) /\ base[t] \in Nat
      BY <1>0, <1>t, <2>1 DEF CycleTask
    <3> QED
      BY <3>1
  <2>3. \A u \in Tasks : CycleTask(u)'
    BY <1>t, <2>1, <2>2 DEF CycleTask
  <2>4. \A q \in Procs : CycleRun(q)'
    BY <1>r, <2>1 DEF CycleRun, SawCycle, AtLoopHead, CycleRows
  <2> QED
    BY <2>3, <2>4 DEF CycleInv
<1>7. ASSUME NEW p \in Procs, NEW th \in Threads, NEW t \in Tasks,
             ReadForCancel(p, th, t) \/ ReadForRetry(p, th, t)
      PROVE  CycleInv'
  <2>1. UNCHANGED <<task, rows, raced, base, workerVars>>
    BY <1>7 DEF ReadForCancel, ReadForRetry, Request
  <2> QED
    BY <1>t, <1>r, <2>1
       DEF CycleInv, CycleTask, CycleRun, SawCycle, AtLoopHead, CycleRows
<1>8. ASSUME NEW p \in Procs, NEW th \in Threads,
             WriteAbort(p, th) \/ WriteCancelFlag(p, th)
      PROVE  CycleInv'
  <2>1. UNCHANGED <<rows, base, workerVars>>
    BY <1>8 DEF WriteAbort, WriteCancelFlag
  <2>2. PICK u \in Tasks : u = req[p][th].task
    <3>1. req[p][th].task \in Tasks
      BY <1>8, HandlerWrites
    <3> QED
      BY <3>1
  <2>3. \A t \in Tasks : t # u => task'[t] = task[t]
    <3>1. \A t \in Tasks : t # req[p][th].task => task'[t] = task[t]
      BY <1>8, HandlerWrites
    <3> QED
      BY <2>2, <3>1
  <2>4. \/ task'[u].status = "aborted"
        \/ task'[u].status = task[u].status /\ task'[u].fresh = task[u].fresh
    <3>1. \/ task'[u] = [task[u] EXCEPT !.status = "aborted"]
          \/ task'[u] = [task[u] EXCEPT !.cancel_requested = TRUE]
      BY <1>8, <2>2, HandlerWrites
    <3>2. task[u] \in TaskRecord
      BY <1>0
    <3> QED
      BY <3>1, <3>2 DEF TaskRecord
  <2>5. \A t \in Tasks : raced[t] => raced'[t]
    <3>1. \/ raced' = raced
          \/ raced' = [raced EXCEPT ![u] = raced[u] \/ task[u].status # req[p][th].seen]
      BY <1>8, <2>2 DEF WriteAbort, WriteCancelFlag, NoteRace
    <3> QED
      BY <1>0, <3>1
  <2>6. ASSUME NEW t \in Tasks PROVE CycleTask(t)'
    BY <1>t, <2>1, <2>3, <2>4, <2>5 DEF CycleTask
  <2>7. ASSUME NEW q \in Procs PROVE CycleRun(q)'
    <3> SUFFICES ASSUME Running(q) PROVE CycleRun(q)'
      BY <2>1 DEF CycleRun, SawCycle, AtLoopHead, Running
    <3>1. cur[q] \in Tasks
      BY DEF TypeInv, WorkerOK
    <3>2. raced[cur[q]] => raced'[cur[q]]
      BY <2>5, <3>1
    <3> QED
      BY <1>r, <2>1, <3>2 DEF CycleRun, SawCycle, AtLoopHead, CycleRows
  <2> QED
    BY <2>6, <2>7 DEF CycleInv
<1>9. ASSUME NEW p \in Procs, NEW th \in Threads, WriteRetry(p, th) PROVE CycleInv'
  <2>1. UNCHANGED <<rows, workerVars>>
    BY <1>9 DEF WriteRetry
  <2>2. PICK u \in Tasks : u = req[p][th].task
    <3>1. req[p][th].task \in Tasks
      BY <1>9, HandlerWrites
    <3> QED
      BY <3>1
  <2>3. \A t \in Tasks : t # u => task'[t] = task[t]
    <3>1. \A t \in Tasks : t # req[p][th].task => task'[t] = task[t]
      BY <1>9, HandlerWrites
    <3> QED
      BY <2>2, <3>1
  <2>4. task'[u].status = "queued"
    <3>1. /\ task'[u] = [task[u] EXCEPT !.status = "queued", !.fresh = TRUE,
                                        !.cancel_requested = FALSE]
          /\ task[u] \in TaskRecord
      BY <1>9, <2>2, HandlerWrites
    <3> QED
      BY <3>1 DEF TaskRecord
  <2>5. /\ base' = [base EXCEPT ![u] = Len(rows[u])]
        /\ raced' = [raced EXCEPT ![u] = raced[u] \/ task[u].status # req[p][th].seen]
        /\ req[p][th].seen \in Retryable
    BY <1>9, <2>2 DEF WriteRetry, NoteRace, OwnInv, HonestRequest
  <2>6. /\ base'[u] = Len(rows[u]) /\ \A t \in Tasks : t # u => base'[t] = base[t]
        /\ \A t \in Tasks : t # u => raced'[t] = raced[t]
        /\ raced'[u] \/ task[u].status \in Retryable
        /\ raced[u] => raced'[u]
    BY <1>0, <2>5
  <2>7. ASSUME NEW t \in Tasks PROVE CycleTask(t)'
    <3>1. CASE t # u
      BY <1>t, <2>1, <2>3, <2>6, <3>1 DEF CycleTask
    <3>2. CASE t = u
      <4>1. Len(rows[u]) <= Len(rows[u])
        BY <1>0
      <4> QED
        BY <2>1, <2>4, <2>6, <3>2, <4>1 DEF CycleTask
    <3> QED
      BY <3>1, <3>2
  <2>8. ASSUME NEW q \in Procs PROVE CycleRun(q)'
    <3> SUFFICES ASSUME Running(q) PROVE CycleRun(q)'
      BY <2>1 DEF CycleRun, SawCycle, AtLoopHead, Running
    <3>1. cur[q] \in Tasks /\ (raced[cur[q]] \/ task[cur[q]].status = "running")
      BY DEF TypeInv, WorkerOK, OwnInv, RunOwned
    <3>2. CASE cur[q] = u
      <4>1. raced'[u]
        BY <2>6, <3>1, <3>2 DEF Retryable
      <4> QED
        BY <2>1, <3>2, <4>1 DEF CycleRun, SawCycle
    <3>3. CASE cur[q] # u
      BY <1>r, <2>1, <2>6, <3>1, <3>3 DEF CycleRun, SawCycle, AtLoopHead, CycleRows
    <3> QED
      BY <3>2, <3>3
  <2> QED
    BY <2>7, <2>8 DEF CycleInv
<1> QED
  BY <1>1, <1>2, <1>3, <1>4, <1>5, <1>6, <1>7, <1>8, <1>9
     DEF Next, Worker, WorkerStep, Handler, Idle, Advance

\* The breaker the worker goes on with is the one that saw every attempt of the cycle,
\* restarted or not, with the exceptions ReplayFaithful states, for any number of
\* attempts, crashes, cancels and retries.
THEOREM ReplayIsFaithful == OneWorker /\ Spec => []ReplayFaithful
<1>1. Init => CycleInv
  <2> SUFFICES ASSUME Init PROVE CycleInv
    OBVIOUS
  <2>1. \A t \in Tasks : rows[t] = <<>> /\ base[t] = 0
    BY DEF Init
  <2>2. \A t \in Tasks : CycleTask(t)
    BY <2>1 DEF CycleTask
  <2>3. \A p \in Procs : CycleRun(p)
    BY DEF Init, CycleRun, SawCycle, AtLoopHead
  <2> QED
    BY <2>2, <2>3 DEF CycleInv
<1>2. TypeInv /\ OwnInv /\ CostInv /\ CycleInv /\ [Next]_vars => CycleInv'
  BY CycleInvStep
<1>3. CycleInv => ReplayFaithful
  BY DEF CycleInv, CycleRun, SawCycle, ReplayFaithful
<1> QED
  BY <1>1, <1>2, <1>3, TypeInvAlways, OwnInvAlways, CostInvAlways, PTL DEF Spec
===============================================================================
