------------------------------- MODULE Scheduler ------------------------------
(***************************************************************************)
(* The overnight batch scheduler of job_runner/scheduler: the task, attempt *)
(* and session tables (db.py), the worker thread that claims and runs tasks *)
(* (worker.py) and the handlers of the REST API (api.py). server.py runs    *)
(* one worker and the API in one process; Procs is the set of processes on  *)
(* the one database, each with its own handler Threads.                     *)
(*                                                                         *)
(* One action is one SQL statement or transaction together with the code    *)
(* that runs before the next one. Model generation, verification and the    *)
(* text of prompts and reports are abstracted to the attempt's result: the  *)
(* class of the code and of the error, or a pass.                           *)
(***************************************************************************)
EXTENDS BreakerOps, SequencesExt

CONSTANTS
  Tasks, NoTask,       \* identities the dispatched tasks can get; no task
  Procs, Threads,      \* server processes; request handlers of each
  Priorities,          \* task priorities, higher first
  VerifyFailed,        \* the error class of the literal "verify failed"
  MAX_TOTAL_ATTEMPTS,  \* config.py: absolute ceiling
  SESSION_MAX_TASKS,   \* config.py: 0 disables the limit
  MaxCrashes, MaxRetries   \* bounds of the model on process deaths and retries

ASSUME SchedulerAssumption ==
  /\ VerifyFailed \in Errs
  /\ NoTask \notin Tasks /\ IsFiniteSet(Tasks)
  /\ MAX_TOTAL_ATTEMPTS \in Nat \ {0}
  /\ SESSION_MAX_TASKS \in Nat
  /\ Priorities \subseteq Int /\ Priorities # {}
  /\ MaxCrashes \in Nat /\ MaxRetries \in Nat

VARIABLES
  task,      \* tasks table: status, fresh, cancel_requested, priority, created_at
  rows,      \* attempts table: the rows of each task in attempt_no order
  sessions,  \* sessions table: stop_reason set?, tasks_processed
  pc, cur, snapFresh, cb, logLen, verdict, sid,  \* locals of each worker
  req,       \* the request each API handler has decided on and not yet written
  crashes, retries,
  raced, base, claims, cancelAt   \* history: see below

taskVars   == <<task, rows, sessions>>
workerVars == <<pc, cur, snapFresh, cb, logLen, verdict, sid>>
ghostVars  == <<raced, base, claims, cancelAt>>
vars == <<taskVars, workerVars, req, crashes, retries, ghostVars>>

Verdicts  == {"succeeded", "needs_review", "failed", "aborted"}
\* Mutant of Retryable: a task that succeeded can be retried.
RetryableOrSucceeded == Verdicts
Retryable == {"needs_review", "failed", "aborted"}
Status    == {"none", "queued", "running"} \cup Verdicts

NoReq  == [op |-> "none"]

Row == [no : Nat \ {0}, status : {"passed", "frozen", "failed"},
        code : Codes, err : Errs \cup {NoErr}]

Session == [stopped : BOOLEAN, tasks_processed : Nat]

TaskRecord ==
  [status : Status, fresh : BOOLEAN, cancel_requested : BOOLEAN,
   priority : Priorities, created_at : Nat]

Init ==
  /\ task = [t \in Tasks |->
       [status |-> "none", fresh |-> TRUE, cancel_requested |-> FALSE,
        priority |-> CHOOSE p \in Priorities : TRUE, created_at |-> 0]]
  /\ rows = [t \in Tasks |-> <<>>]
  /\ sessions = <<>>
  /\ pc = [p \in Procs |-> "down"]
  /\ cur = [p \in Procs |-> NoTask]
  /\ snapFresh = [p \in Procs |-> FALSE]
  /\ cb = [p \in Procs |-> NewBreaker]
  /\ logLen = [p \in Procs |-> 0]
  /\ verdict = [p \in Procs |-> "none"]
  /\ sid = [p \in Procs |-> 0]
  /\ req = [p \in Procs |-> [th \in Threads |-> NoReq]]
  /\ crashes = 0
  /\ retries = [t \in Tasks |-> 0]
  /\ raced = [t \in Tasks |-> FALSE]
  /\ base = [t \in Tasks |-> 0]
  /\ claims = [t \in Tasks |-> 0]
  /\ cancelAt = [t \in Tasks |-> 0]

-------------------------------------------------------------------------------
(* The attempts table and the replay of it.                                 *)

\* ORDER BY attempt_no, rows of equal number in the order of their insertion.
NotAfter(log, no) == {i \in DOMAIN log : log[i].no <= no}
Inserted(log, row) == InsertAt(log, Cardinality(NotAfter(log, row.no)) + 1, row)

\* Mutant of ReplayOf: the rows of attempts that froze the task are skipped.
ReplayOfFailedOnly(log) ==
  LET upTo[i \in 0..Len(log)] ==
        IF i = 0 THEN NewBreaker
        ELSE IF log[i].status = "failed"
             THEN Recorded(upTo[i - 1], log[i].code, log[i].err)
             ELSE upTo[i - 1]
  IN  upTo[Len(log)]

\* run_task's crash recovery: the failed and frozen rows, in order, recorded in
\* a new breaker. After a hard stop Recorded changes nothing, which is where the
\* loop of the code returns.
ReplayOf(log) ==
  LET upTo[i \in 0..Len(log)] ==
        IF i = 0 THEN NewBreaker
        ELSE IF log[i].status \in {"failed", "frozen"}
             THEN Recorded(upTo[i - 1], log[i].code, log[i].err)
             ELSE upTo[i - 1]
  IN  upTo[Len(log)]

-------------------------------------------------------------------------------
(* The worker thread.                                                       *)

SetStatus(t, s) == task' = [task EXCEPT ![t].status = s]

\* Mutant of Recover: the running tasks are not requeued.
RecoverWithoutRequeue(p) ==
  /\ pc[p] = "down"
  /\ pc' = [pc EXCEPT ![p] = "recovered"]
  /\ UNCHANGED <<taskVars, cur, snapFresh, cb, logLen, verdict, sid, req, crashes,
                 retries, ghostVars>>

\* Restart of a dead process: run_forever first requeues every running task.
Recover(p) ==
  /\ pc[p] = "down"
  /\ task' = [t \in Tasks |->
       IF task[t].status = "running"
       THEN [task[t] EXCEPT !.status = "queued", !.fresh = FALSE,
                            !.cancel_requested = FALSE]
       ELSE task[t]]
  /\ pc' = [pc EXCEPT ![p] = "recovered"]
  /\ UNCHANGED <<rows, sessions, cur, snapFresh, cb, logLen, verdict, sid, req,
                 crashes, retries, ghostVars>>

StartSession(p) ==
  /\ pc[p] = "recovered"
  /\ sessions' = Append(sessions, [stopped |-> FALSE, tasks_processed |-> 0])
  /\ sid' = [sid EXCEPT ![p] = Len(sessions) + 1]
  /\ pc' = [pc EXCEPT ![p] = "loop"]
  /\ UNCHANGED <<task, rows, cur, snapFresh, cb, logLen, verdict, req, crashes,
                 retries, ghostVars>>

TaskLimitReached(p) ==
  /\ SESSION_MAX_TASKS > 0
  /\ sessions[sid[p]].tasks_processed >= SESSION_MAX_TASKS

CloseSession(p) == sessions' = [sessions EXCEPT ![sid[p]].stopped = TRUE]

\* _limit_reason found the task limit or the wall-clock limit reached; the
\* clock is not modelled, it may run out whenever the loop looks.
EndSession(p) ==
  /\ pc[p] = "loop"
  /\ CloseSession(p)
  /\ pc' = [pc EXCEPT ![p] = "stopped"]
  /\ UNCHANGED <<task, rows, cur, snapFresh, cb, logLen, verdict, sid, req,
                 crashes, retries, ghostVars>>

Queued == {t \in Tasks : task[t].status = "queued"}

\* t is the row of ORDER BY priority DESC, created_at ASC LIMIT 1.
NextInQueue(t) ==
  /\ t \in Queued
  /\ \A u \in Queued \ {t} :
       \/ task[t].priority > task[u].priority
       \/ /\ task[t].priority = task[u].priority
          /\ task[t].created_at <= task[u].created_at

\* claim_next: one immediate transaction. The worker keeps the row as it was.
Claim(p) ==
  /\ pc[p] = "loop"
  /\ ~TaskLimitReached(p)
  /\ \E t \in Tasks :
       /\ NextInQueue(t)
       /\ SetStatus(t, "running")
       /\ cur' = [cur EXCEPT ![p] = t]
       /\ snapFresh' = [snapFresh EXCEPT ![p] = task[t].fresh]
       /\ claims' = [claims EXCEPT ![t] = @ + 1]
  /\ pc' = [pc EXCEPT ![p] = "claimed"]
  /\ UNCHANGED <<rows, sessions, cb, logLen, verdict, sid, req, crashes, retries,
                 raced, base, cancelAt>>

Decide(p, v) ==
  /\ pc' = [pc EXCEPT ![p] = "decided"]
  /\ verdict' = [verdict EXCEPT ![p] = v]

\* run_task reads the attempts and, unless the claimed row said fresh, replays
\* them; a replay that ends in a hard stop ends the run.
Replay(p) ==
  /\ pc[p] = "claimed"
  /\ LET log == rows[cur[p]]
         b   == IF snapFresh[p] THEN NewBreaker ELSE ReplayOf(log)
     IN  /\ cb' = [cb EXCEPT ![p] = b]
         /\ logLen' = [logLen EXCEPT ![p] = Len(log)]
         /\ IF Stopped(b) THEN Decide(p, "needs_review")
            ELSE pc' = [pc EXCEPT ![p] = "check"] /\ UNCHANGED verdict
  /\ UNCHANGED <<taskVars, cur, snapFresh, sid, req, crashes, retries, ghostVars>>

\* Mutant of CheckCancel: the flag is not looked at.
CheckNothing(p) ==
  /\ pc[p] = "check"
  /\ pc' = [pc EXCEPT ![p] = "execute"]
  /\ UNCHANGED <<taskVars, cur, snapFresh, cb, logLen, verdict, sid, req, crashes,
                 retries, ghostVars>>

CheckCancel(p) ==
  /\ pc[p] = "check"
  /\ IF task[cur[p]].cancel_requested THEN Decide(p, "aborted")
     ELSE pc' = [pc EXCEPT ![p] = "execute"] /\ UNCHANGED verdict
  /\ UNCHANGED <<taskVars, cur, snapFresh, cb, logLen, sid, req, crashes, retries,
                 ghostVars>>

\* add_attempt, and the list_attempts that follows it.
Store(p, status, code, err) ==
  LET t == cur[p] IN
  /\ rows' = [rows EXCEPT ![t] = Inserted(@,
       [no |-> logLen[p] + 1, status |-> status, code |-> code, err |-> err])]
  /\ logLen' = [logLen EXCEPT ![p] = Len(rows[t]) + 1]

\* Mutant of AttemptPasses: the verdict is reached before the row is stored.
AttemptPassesUnstored(p) ==
  /\ pc[p] = "execute"
  /\ Decide(p, "succeeded")
  /\ UNCHANGED <<taskVars, cur, snapFresh, cb, logLen, sid, req, crashes, retries,
                 ghostVars>>

AttemptPasses(p) ==
  /\ pc[p] = "execute"
  /\ \E code \in Codes :
       /\ cb' = [cb EXCEPT ![p] = Recorded(@, code, NoErr)]
       /\ Store(p, "passed", code, NoErr)
  /\ Decide(p, "succeeded")
  /\ UNCHANGED <<task, sessions, cur, snapFresh, sid, req, crashes, retries,
                 ghostVars>>

\* Mutant of CapReached: compared after one attempt too many.
CapExceeded(attempt_no) == attempt_no > MAX_TOTAL_ATTEMPTS
CapReached(attempt_no) == attempt_no >= MAX_TOTAL_ATTEMPTS

\* The breaker is told "verify failed" when the check failed without a word; the
\* row keeps the empty text.
AttemptFails(p) ==
  /\ pc[p] = "execute"
  /\ \E code \in Codes, err \in Errs \cup {NoErr} :
       LET b    == Recorded(cb[p], code, IF err = NoErr THEN VerifyFailed ELSE err)
           over == Stopped(b) \/ CapReached(logLen[p] + 1)
       IN  /\ cb' = [cb EXCEPT ![p] = b]
           /\ Store(p, IF b.status = Frozen THEN "frozen" ELSE "failed", code, err)
           /\ IF over THEN Decide(p, "needs_review")
              ELSE pc' = [pc EXCEPT ![p] = "check"] /\ UNCHANGED verdict
  /\ UNCHANGED <<task, sessions, cur, snapFresh, sid, req, crashes, retries,
                 ghostVars>>

\* An exception of the executor (sandbox missing, malformed answer) reaches the
\* loop of run_forever before anything is stored.
AttemptRaises(p) ==
  /\ pc[p] = "execute"
  /\ Decide(p, "failed")
  /\ UNCHANGED <<taskVars, cur, snapFresh, cb, logLen, sid, req, crashes, retries,
                 ghostVars>>

\* finish and set_status write the verdict whatever the row says by now.
WriteVerdict(p) ==
  /\ pc[p] = "decided"
  /\ SetStatus(cur[p], verdict[p])
  /\ pc' = [pc EXCEPT ![p] = "finished"]
  /\ UNCHANGED <<rows, sessions, cur, snapFresh, cb, logLen, verdict, sid, req,
                 crashes, retries, ghostVars>>

ForgetRun(p) ==
  /\ cur' = [cur EXCEPT ![p] = NoTask]
  /\ snapFresh' = [snapFresh EXCEPT ![p] = FALSE]
  /\ cb' = [cb EXCEPT ![p] = NewBreaker]
  /\ logLen' = [logLen EXCEPT ![p] = 0]
  /\ verdict' = [verdict EXCEPT ![p] = "none"]

CountTask(p) ==
  /\ pc[p] = "finished"
  /\ sessions' = [sessions EXCEPT ![sid[p]].tasks_processed = @ + 1]
  /\ pc' = [pc EXCEPT ![p] = "loop"]
  /\ ForgetRun(p)
  /\ UNCHANGED <<task, rows, sid, req, crashes, retries, ghostVars>>

\* The process dies: the worker's locals and the requests under way are gone.
Die(p) ==
  /\ crashes < MaxCrashes
  /\ crashes' = crashes + 1
  /\ pc[p] # "down"
  /\ pc' = [pc EXCEPT ![p] = "down"]
  /\ ForgetRun(p)
  /\ sid' = [sid EXCEPT ![p] = 0]
  /\ req' = [req EXCEPT ![p] = [th \in Threads |-> NoReq]]
  /\ UNCHANGED <<task, rows, retries, ghostVars>>

Crash(p) == Die(p) /\ UNCHANGED sessions

\* Ctrl-C in worker.main: the session is closed, the running task is left.
Interrupt(p) == sid[p] # 0 /\ pc[p] # "stopped" /\ CloseSession(p) /\ Die(p)

-------------------------------------------------------------------------------
(* The API handlers. create_task is one INSERT; cancel and retry SELECT the *)
(* status and UPDATE in a second statement, on what they saw.               *)

Dispatch(p, t, priority) ==
  /\ pc[p] # "down"
  /\ task[t].status = "none"
  /\ task' = [task EXCEPT ![t] =
       [status |-> "queued", fresh |-> TRUE, cancel_requested |-> FALSE,
        priority |-> priority,
        created_at |-> 1 + Cardinality({u \in Tasks : task[u].status # "none"})]]
  /\ UNCHANGED <<rows, sessions, workerVars, req, crashes, retries, ghostVars>>

Request(p, th, op, t) ==
  /\ pc[p] # "down"
  /\ req[p][th] = NoReq
  /\ req' = [req EXCEPT ![p][th] = [op |-> op, task |-> t, seen |-> task[t].status]]
  /\ UNCHANGED <<taskVars, workerVars, crashes, retries, ghostVars>>

ReadForCancel(p, th, t) ==
  \/ task[t].status = "queued"  /\ Request(p, th, "abort", t)
  \/ task[t].status = "running" /\ Request(p, th, "flag", t)

ReadForRetry(p, th, t) ==
  /\ task[t].status \in Retryable
  /\ retries[t] < MaxRetries
  /\ Request(p, th, "retry", t)

Answer(p, th) == req' = [req EXCEPT ![p][th] = NoReq]

NoteRace(r) ==
  raced' = [raced EXCEPT ![r.task] = @ \/ task[r.task].status # r.seen]

WriteAbort(p, th) ==
  LET r == req[p][th] IN
  /\ r.op = "abort"
  /\ SetStatus(r.task, "aborted")
  /\ NoteRace(r)
  /\ Answer(p, th)
  /\ UNCHANGED <<rows, sessions, workerVars, crashes, retries, base, claims,
                 cancelAt>>

WriteCancelFlag(p, th) ==
  LET r == req[p][th] IN
  /\ r.op = "flag"
  /\ task' = [task EXCEPT ![r.task].cancel_requested = TRUE]
  /\ cancelAt' = [cancelAt EXCEPT ![r.task] =
       IF task[r.task].cancel_requested THEN @ ELSE Len(rows[r.task])]
  /\ Answer(p, th)
  /\ UNCHANGED <<rows, sessions, workerVars, crashes, retries, raced, base, claims>>

WriteRetry(p, th) ==
  LET r == req[p][th] IN
  /\ r.op = "retry"
  /\ task' = [task EXCEPT ![r.task].status = "queued", ![r.task].fresh = TRUE,
                          ![r.task].cancel_requested = FALSE]
  /\ retries' = [retries EXCEPT ![r.task] = @ + 1]
  /\ base' = [base EXCEPT ![r.task] = Len(rows[r.task])]
  /\ NoteRace(r)
  /\ Answer(p, th)
  /\ UNCHANGED <<rows, sessions, workerVars, crashes, claims, cancelAt>>

-------------------------------------------------------------------------------
WorkerStep(p) ==
  \/ Recover(p) \/ StartSession(p) \/ Claim(p) \/ Replay(p) \/ CheckCancel(p)
  \/ AttemptPasses(p) \/ AttemptFails(p) \/ AttemptRaises(p) \/ WriteVerdict(p)
  \/ CountTask(p)

Worker(p) == WorkerStep(p) \/ EndSession(p)

Handler(p, th) ==
  \/ \E t \in Tasks : ReadForCancel(p, th, t) \/ ReadForRetry(p, th, t)
  \/ WriteAbort(p, th) \/ WriteCancelFlag(p, th) \/ WriteRetry(p, th)

Next ==
  \E p \in Procs :
    \/ Worker(p)
    \/ Crash(p)
    \/ Interrupt(p)
    \/ \E t \in Tasks, priority \in Priorities : Dispatch(p, t, priority)
    \/ \E th \in Threads : Handler(p, th)

Spec == Init /\ [][Next]_vars

\* Every step of the worker ends: generation and verification have timeouts, the
\* database answers, and a supervisor restarts a dead process. The session ends
\* when its task limit is reached; its wall clock need not run out, and clients
\* owe nothing.
FairSpec ==
  /\ Spec
  /\ \A p \in Procs :
       WF_vars(WorkerStep(p) \/ (EndSession(p) /\ TaskLimitReached(p)))

-------------------------------------------------------------------------------
PCs == {"down", "recovered", "loop", "claimed", "check", "execute", "decided",
        "finished", "stopped"}

\* Program points at which the worker owns the task cur[p].
Running(p) == pc[p] \in {"claimed", "check", "execute", "decided"}

Requests == {NoReq} \cup
  [op : {"abort", "flag", "retry"}, task : Tasks, seen : Status]

TablesOK ==
  /\ task \in [Tasks -> TaskRecord]
  /\ rows \in [Tasks -> Seq(Row)]
  /\ sessions \in Seq(Session)

WorkersOK ==
  /\ pc \in [Procs -> PCs]
  /\ cur \in [Procs -> Tasks \cup {NoTask}]
  /\ snapFresh \in [Procs -> BOOLEAN]
  /\ cb \in [Procs -> Breakers]
  /\ logLen \in [Procs -> Nat]
  /\ verdict \in [Procs -> Verdicts \cup {"none"}]
  /\ sid \in [Procs -> Nat]

HandlersOK ==
  /\ req \in [Procs -> [Threads -> Requests]]
  /\ crashes \in Nat
  /\ retries \in [Tasks -> Nat]

HistoryOK ==
  /\ raced \in [Tasks -> BOOLEAN]
  /\ base \in [Tasks -> Nat]
  /\ claims \in [Tasks -> Nat]
  /\ cancelAt \in [Tasks -> Nat]

\* Every reachable value has its declared shape.
TypeOK == TablesOK /\ WorkersOK /\ HandlersOK /\ HistoryOK

\* No task is left behind as running: with one process, a row that says running
\* is the one the worker is working on, or the worker is dead and its restart
\* will requeue the row.
NoOrphanedRun ==
  \A t \in Tasks : task[t].status = "running" =>
    \E p \in Procs : pc[p] = "down" \/ (Running(p) /\ cur[p] = t)

\* The attempts of the cycle under way: those after the last human retry.
CycleRows(t) == SubSeq(rows[t], base[t] + 1, Len(rows[t]))

\* What record_attempt was told of the attempt of a row when it was made.
Told(row) ==
  IF row.status = "passed" THEN NoErr ELSE IF row.err = NoErr THEN VerifyFailed ELSE row.err

\* The reference for the replay: a breaker that has lived through all attempts of log.
LiveOf(log) ==
  LET upTo[i \in 0..Len(log)] ==
        IF i = 0 THEN NewBreaker ELSE Recorded(upTo[i - 1], log[i].code, Told(log[i]))
  IN  upTo[Len(log)]

\* Attempts the replay takes otherwise: a failure whose text is empty in the row and was
\* "verify failed" to the breaker; a pass, which it leaves out.
ReplayedOtherwise(log) ==
  \E i \in DOMAIN log : log[i].status = "passed" \/ log[i].err = NoErr

AtLoopHead(p) == pc[p] \in {"check", "execute"}

\* worker.py's "GUARANTEED PROPERTY": the breaker the worker goes on with is the
\* one that saw every attempt of this cycle, whether the process lived through
\* the cycle or was restarted. A restarted run is excepted when the cycle has a failure
\* without output or a stored pass (a death before the verdict), and when the task had
\* been retried by hand, which the recovery forgets.
ReplayFaithful ==
  \A p \in Procs : AtLoopHead(p) =>
    LET t == cur[p]  log == CycleRows(t) IN
    ~raced[t] /\ (snapFresh[p] \/ (base[t] = 0 /\ ~ReplayedOtherwise(log)))
      => cb[p] = LiveOf(log)

\* MAX_TOTAL_ATTEMPTS bounds what a task costs: one run never takes a task past
\* it, and every attempt beyond it has its own claim (a retry or a crash).
AttemptCeiling ==
  \A t \in Tasks : claims[t] > 0 =>
    Len(rows[t]) < MAX_TOTAL_ATTEMPTS + claims[t]

\* A cancel of a running task is honoured between attempts: once the flag is
\* set at most the attempt under way is still made.
CancelBoundsWork ==
  \A t \in Tasks : task[t].cancel_requested => Len(rows[t]) <= cancelAt[t] + 1

Passed(t) == \E i \in DOMAIN rows[t] : rows[t][i].status = "passed"

\* A task is reported succeeded only on the strength of a stored passing
\* attempt, and a stored pass is lost (the task ends otherwise) only if the task
\* was claimed again after it.
SuccessIsEarned ==
  \A t \in Tasks :
    /\ task[t].status = "succeeded" => Passed(t)
    /\ Passed(t) /\ task[t].status \in {"needs_review", "failed"} => claims[t] > 1

Lifecycle == INSTANCE TaskLifecycle WITH
  status <- [t \in Tasks |-> task[t].status]

\* The scheduler implements the lifecycle its API documents.
RefinesLifecycle == Lifecycle!LifecycleSpec

Settled(t) == task[t].status \in Verdicts

\* No task waits for ever: a queued or running task reaches a verdict unless the
\* session limit has stopped the worker.
EveryTaskSettles ==
  \A t \in Tasks : task[t].status \in {"queued", "running"} ~>
    (Settled(t) \/ \E p \in Procs : pc[p] = "stopped")
===============================================================================
