------------------------------- MODULE Knowledge ------------------------------
(***************************************************************************)
(* error_distill.py and the part of worker.py that asks it: what a failed     *)
(* attempt teaches the next one. A process builds its index of known fixes   *)
(* from the database, and its copy of the lessons from their file, the first *)
(* time an attempt of its fails; the file is rewritten from that copy. The   *)
(* processes are the worker and `run_once`, which an operator starts for any  *)
(* task, whatever its status and whoever is at it.                           *)
(*                                                                         *)
(* An attempt is reduced to its outcome: the signature of its error, or a    *)
(* pass; its code is its place in the log. The circuit breaker, its replay   *)
(* and a cancel are any decision to stop. The statuses needs_review, failed  *)
(* and aborted are one, "ended": people may retry from them, and the scan    *)
(* reads none. A lesson is the signature it is about; the worker gives the   *)
(* distiller no model, so that a new one is always found.                    *)
(***************************************************************************)
EXTENDS Integers, Sequences, FiniteSets

CONSTANTS
  Tasks, Sigs,           \* tasks; signatures of errors
  Worker, Cli,           \* the two processes
  Passed, None,
  MaxAttempts,           \* MAX_TOTAL_ATTEMPTS
  MaxReruns, MaxFaults   \* bounds of the model on runs people start; on failures, deaths

ASSUME KnowledgeAssumption ==
  /\ Worker # Cli /\ {Passed, None} \cap Sigs = {} /\ Passed # None
  /\ MaxAttempts \in Nat \ {0} /\ MaxReruns \in Nat /\ MaxFaults \in Nat

VARIABLES
  status, attempts,   \* tables tasks and attempts
  file, tmp,          \* distill_lessons.json and its .tmp
  pc, task, last,     \* each process: step, task, outcome of the attempt in hand
  count,              \* the attempts it knows of, those of the other since left out
  guidance,           \* _guidance: a fix, a lesson, or none
  known, lessons,     \* its index of fixes and its copy of the lessons, None until built
  reruns, faults,     \* what the bounds have used up
  shared,             \* history: two processes had a copy of the lessons at a time
  twice, again        \* history: tasks two processes were at at a time; taken up after success

tables == <<status, attempts>>
disk   == <<file, tmp>>
run    == <<task, last, count>>
memory == <<known, lessons>>
bounds == <<reruns, faults>>
vars   == <<tables, disk, pc, run, guidance, memory, bounds, shared, twice, again>>

Procs    == {Worker, Cli}
Outcomes == Sigs \cup {Passed}
Code     == Tasks \X (Nat \ {0})
Guidance == [sig : Sigs, fix : Code \cup {None}]
Fixes    == [Sigs -> Code \cup {None}]

ASSUME NoneAssumption == None \notin Fixes /\ \A copy \in SUBSET Sigs : copy # None

TypeOK ==
  /\ status \in [Tasks -> {"queued", "running", "succeeded", "ended"}]
  /\ attempts \in [Tasks -> Seq(Outcomes)]
  /\ file \subseteq Sigs /\ (tmp = None \/ tmp \subseteq Sigs)
  /\ pc \in [Procs -> {"down", "idle", "ready", "failed", "replace", "store", "finish"}]
  /\ task \in [Procs -> Tasks \cup {None}] /\ last \in [Procs -> Outcomes \cup {None}]
  /\ count \in [Procs -> Nat]
  /\ guidance \in [Procs -> Guidance \cup {None}]
  /\ known \in [Procs -> Fixes \cup {None}] /\ lessons \in [Procs -> (SUBSET Sigs) \cup {None}]
  /\ reruns \in 0..MaxReruns /\ faults \in 0..MaxFaults
  /\ shared \in BOOLEAN /\ twice \subseteq Tasks /\ again \subseteq Tasks

Init ==
  /\ status = [t \in Tasks |-> "queued"] /\ attempts = [t \in Tasks |-> <<>>]
  /\ file = {} /\ tmp = None
  /\ pc = [p \in Procs |-> "down"]
  /\ task = [p \in Procs |-> None] /\ last = task /\ guidance = task
  /\ count = [p \in Procs |-> 0]
  /\ known = task /\ lessons = task
  /\ reruns = 0 /\ faults = 0
  /\ shared = FALSE /\ twice = {} /\ again = {}

Goto(p, from, to) == pc[p] = from /\ pc' = [pc EXCEPT ![p] = to]
Set(f, p, v) == [f EXCEPT ![p] = v]
Busy(p) == pc[p] \notin {"down", "idle"}
Rest(p) == IF p = Worker THEN "idle" ELSE "down"
Rerun   == reruns < MaxReruns /\ reruns' = reruns + 1
Fault   == faults < MaxFaults /\ faults' = faults + 1

\* run_forever, recover_stale_running.
WorkerStarts ==
  /\ Goto(Worker, "down", "idle")
  /\ status' = [t \in Tasks |-> IF status[t] = "running" THEN "queued" ELSE status[t]]
  /\ UNCHANGED <<attempts, disk, run, guidance, memory, bounds, shared, twice, again>>

\* People (the API, whose races Scheduler has). A task cancelled before its run is one
\* that is never claimed.
Retry(t) ==
  /\ status[t] = "ended"
  /\ Rerun
  /\ status' = [status EXCEPT ![t] = "queued"]
  /\ UNCHANGED <<attempts, disk, pc, run, guidance, memory, faults, shared, twice, again>>

Take(p, t) ==
  /\ task' = Set(task, p, t)
  /\ count' = Set(count, p, Len(attempts[t]))
  /\ twice' = IF \E q \in Procs \ {p} : Busy(q) /\ task[q] = t THEN twice \cup {t} ELSE twice
  /\ again' = IF status[t] = "succeeded" THEN again \cup {t} ELSE again
  /\ UNCHANGED <<attempts, disk, last, memory, faults, shared>>

\* Mutant of Begin: what the task before left behind is not reset.
BeginAsIs(p, t) == Take(p, t) /\ UNCHANGED guidance

\* run_task: guidance of the task before is dropped.
Begin(p, t) == Take(p, t) /\ guidance' = Set(guidance, p, None)

Claim(t) ==
  /\ Goto(Worker, "idle", "ready")
  /\ status[t] = "queued"
  /\ status' = [status EXCEPT ![t] = "running"]
  /\ Begin(Worker, t)
  /\ UNCHANGED reruns

\* run_once: no status is looked at or set.
RunOnce(t) ==
  /\ Goto(Cli, "down", "ready")
  /\ Rerun
  /\ Begin(Cli, t)
  /\ UNCHANGED status

\* A cancel is honoured, or the breaker stops the task, in the replay or later.
Stop(p) ==
  /\ Goto(p, "ready", "finish")
  /\ last' = Set(last, p, None)
  /\ UNCHANGED <<tables, disk, task, count, guidance, memory, bounds, shared, twice, again>>

\* execute_once: the prompt takes the guidance; the outcome is the model's (external).
Attempt(p, outcome) ==
  /\ Goto(p, "ready", IF outcome = Passed THEN "store" ELSE "failed")
  /\ last' = Set(last, p, outcome)
  /\ guidance' = Set(guidance, p, None)
  /\ UNCHANGED <<tables, disk, task, count, memory, bounds, shared, twice, again>>

Met(t, s) == \E n \in DOMAIN attempts[t] : attempts[t][n] = s

\* Mutant of Scanned: the tasks still under way are read as well.
ScannedAll == {t \in Tasks : Met(t, Passed)}

\* KnownFixIndex.scan reads the tasks that succeeded ...
Scanned == {t \in Tasks : status[t] = "succeeded" /\ Met(t, Passed)}

\* The place of the last code that passed; of a task two processes were at, whose rows
\* are not numbered as they came, of any.
LastPass(t) == {n \in DOMAIN attempts[t] :
  /\ attempts[t][n] = Passed
  /\ t \in twice \/ \A m \in DOMAIN attempts[t] : attempts[t][m] = Passed => m <= n}

\* ... and takes the last code that passed for every error its task has met.
FixesFor(s) == UNION {{t} \X LastPass(t) : t \in {u \in Scanned : Met(u, s)}}

\* Mutant of Build: the file is not read.
BuildEmpty(p) ==
  /\ pc[p] = "failed" /\ known[p] = None
  /\ known' = Set(known, p, [s \in Sigs |-> None])
  /\ lessons' = Set(lessons, p, {})
  /\ shared' = (shared \/ \E q \in Procs \ {p} : lessons[q] # None)
  /\ UNCHANGED <<tables, disk, pc, run, guidance, bounds, twice, again>>

\* ErrorDistiller.__init__: both caches, once per process. The tasks come newest first
\* and the first fix of a signature stays; which one that is is left open.
Build(p) ==
  /\ pc[p] = "failed" /\ known[p] = None
  /\ \E fixes \in [Sigs -> UNION {FixesFor(s) : s \in Sigs} \cup {None}] :
       /\ \A s \in Sigs :
            IF FixesFor(s) = {} THEN fixes[s] = None ELSE fixes[s] \in FixesFor(s)
       /\ known' = Set(known, p, fixes)
  /\ lessons' = Set(lessons, p, file)
  /\ shared' = (shared \/ \E q \in Procs \ {p} : lessons[q] # None)
  /\ UNCHANGED <<tables, disk, pc, run, guidance, bounds, twice, again>>

\* guidance_for: a known fix first, then a lesson already there.
Advise(p) ==
  /\ Goto(p, "failed", "store") /\ known[p] # None
  /\ known[p][last[p]] # None \/ last[p] \in lessons[p]
  /\ guidance' = Set(guidance, p, [sig |-> last[p], fix |-> known[p][last[p]]])
  /\ UNCHANGED <<tables, disk, run, memory, bounds, shared, twice, again>>

\* A new error: its lesson enters the copy, then the whole copy the temporary file ...
Put(p) ==
  /\ Goto(p, "failed", "replace") /\ known[p] # None
  /\ known[p][last[p]] = None /\ last[p] \notin lessons[p]
  /\ lessons' = Set(lessons, p, lessons[p] \cup {last[p]})
  /\ tmp' = lessons'[p]
  /\ UNCHANGED <<tables, file, run, guidance, known, bounds, shared, twice, again>>

\* ... which takes the place of the file.
Replace(p) ==
  /\ Goto(p, "replace", "store")
  /\ tmp # None
  /\ file' = tmp /\ tmp' = None
  /\ guidance' = Set(guidance, p, [sig |-> last[p], fix |-> None])
  /\ UNCHANGED <<tables, run, memory, bounds, shared, twice, again>>

\* The other process has taken the temporary file away: no guidance this time.
ReplaceFails(p) ==
  /\ Goto(p, "replace", "store")
  /\ tmp = None
  /\ UNCHANGED <<tables, disk, run, guidance, memory, bounds, shared, twice, again>>

\* add_attempt; a failure may be the last one the breaker allows.
Store(p) ==
  /\ \E next \in {"ready", "finish"} :
       /\ Goto(p, "store", next)
       /\ last[p] = Passed \/ count[p] + 1 >= MaxAttempts => next = "finish"
  /\ attempts' = [attempts EXCEPT ![task[p]] = Append(@, last[p])]
  /\ count' = Set(count, p, Len(attempts'[task[p]]))
  /\ UNCHANGED <<status, disk, task, last, guidance, memory, bounds, shared, twice, again>>

Leave(p) ==
  /\ task' = Set(task, p, None) /\ last' = Set(last, p, None) /\ count' = Set(count, p, 0)

Exit(p) ==
  /\ known' = Set(known, p, None)
  /\ lessons' = Set(lessons, p, None)
  /\ guidance' = Set(guidance, p, None)

\* run_once is over with its task; the worker goes on with what it has in memory.
GoOn(p) == IF p = Cli THEN Exit(p) ELSE UNCHANGED <<guidance, memory>>

\* finish, whatever the status is by now.
Finish(p) ==
  /\ Goto(p, "finish", Rest(p))
  /\ status' = [status EXCEPT ![task[p]] = IF last[p] = Passed THEN "succeeded" ELSE "ended"]
  /\ Leave(p) /\ GoOn(p)
  /\ UNCHANGED <<attempts, disk, bounds, shared, twice, again>>

\* The executor raises, or the database does when an attempt or a verdict is to be stored:
\* it is not; the worker's loop writes "failed", run_once ends with the exception.
Raise(p) ==
  /\ pc[p] \in {"ready", "store", "finish"}
  /\ Fault
  /\ pc' = Set(pc, p, Rest(p))
  /\ status' = IF p = Worker THEN [status EXCEPT ![task[p]] = "ended"] ELSE status
  /\ Leave(p) /\ GoOn(p)
  /\ UNCHANGED <<attempts, disk, reruns, shared, twice, again>>

\* Deaths between any two steps; the database and the files stay.
Die(p) ==
  /\ pc[p] # "down"
  /\ Fault
  /\ pc' = Set(pc, p, "down")
  /\ Leave(p) /\ Exit(p)
  /\ UNCHANGED <<tables, disk, reruns, shared, twice, again>>

Next ==
  \/ WorkerStarts
  \/ \E t \in Tasks : Claim(t) \/ RunOnce(t) \/ Retry(t)
  \/ \E p \in Procs : \/ \E o \in Outcomes : Attempt(p, o)
                      \/ Build(p) \/ Advise(p) \/ Put(p) \/ Replace(p) \/ ReplaceFails(p)
                      \/ Stop(p) \/ Store(p) \/ Finish(p) \/ Raise(p) \/ Die(p)

Spec == Init /\ [][Next]_vars

-------------------------------------------------------------------------------
\* The guidance a prompt takes is about an error of the same task, the one of the attempt
\* just before it unless a second process has been at the task: nothing is carried into
\* another task, over a death or an exception, or from one process to the other.
GuidanceIsForLastError ==
  \A p \in Procs : pc[p] = "ready" /\ guidance[p] # None =>
    LET log == attempts[task[p]]
    IN  /\ Met(task[p], guidance[p].sig)
        /\ task[p] \in twice \/ log[Len(log)] = guidance[p].sig

\* A fix handed out as known passed in a task that has met that very error, and met it
\* before. The order is not kept for a task that run_once took up after its success or
\* while the worker was at it: the scan takes its later failures for fixed as well.
KnownFixesFixed ==
  \A p \in Procs : guidance[p] # None /\ guidance[p].fix # None =>
    LET t == guidance[p].fix[1]  n == guidance[p].fix[2]
    IN  /\ n \in DOMAIN attempts[t] /\ attempts[t][n] = Passed
        /\ Met(t, guidance[p].sig)
        /\ t \in twice \cup again \/ \E k \in 1..n : attempts[t][k] = guidance[p].sig

\* A lesson once in the file stays there, over deaths and restarts, as long as no two
\* processes have held copies at a time: each writes its own copy over the file.
LessonsStay == [][~shared => file \subseteq file']_vars
===============================================================================
