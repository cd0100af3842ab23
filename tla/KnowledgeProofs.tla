---------------------------- MODULE KnowledgeProofs ----------------------------
(***************************************************************************)
(* What the distiller hands to a prompt, for any tasks, signatures, limits   *)
(* and deaths: guidance is about the last error, a known fix did fix it, and *)
(* the lessons stay while one process at a time has a copy of them.          *)
(***************************************************************************)
EXTENDS Knowledge, SequenceTheorems, TLAPS

\* A process at work has a task; a second one at it, or a success before, is on record.
TaskInv ==
  /\ \A p \in Procs : Busy(p) =>
       /\ task[p] \in Tasks
       /\ task[p] \in twice \cup again \/ status[task[p]] # "succeeded"
       /\ \A q \in Procs \ {p} : Busy(q) /\ task[q] = task[p] => task[p] \in twice
  /\ pc[Cli] # "idle"

EndsWith(log, outcome) == log # <<>> /\ log[Len(log)] = outcome

\* What a process knows of the outcome in hand at each step.
StepInv(p) ==
  /\ pc[p] \in {"failed", "replace"} => last[p] \in Sigs /\ guidance[p] = None
  /\ pc[p] = "store" => /\ last[p] \in Outcomes
                        /\ guidance[p] # None => guidance[p].sig = last[p]
  /\ pc[p] = "finish" /\ last[p] = Passed =>
       task[p] \in twice \/ EndsWith(attempts[task[p]], Passed)
  /\ pc[p] = "ready" /\ guidance[p] # None =>
       /\ Met(task[p], guidance[p].sig)
       /\ task[p] \in twice \/ EndsWith(attempts[task[p]], guidance[p].sig)
  /\ pc[p] = "replace" => lessons[p] # None
  /\ known[p] = None <=> lessons[p] = None

\* The attempt a code was taken from passed, and its task had met the error.
Fixed(fix, sig) ==
  LET t == fix[1]  n == fix[2]
  IN  /\ n \in DOMAIN attempts[t] /\ attempts[t][n] = Passed
      /\ Met(t, sig)
      /\ t \in twice \cup again \/ \E k \in 1..n : attempts[t][k] = sig

KnownInv(p) ==
  known[p] # None => \A s \in Sigs : known[p][s] # None => Fixed(known[p][s], s)

GuidanceInv(p) ==
  guidance[p] # None /\ guidance[p].fix # None => Fixed(guidance[p].fix, guidance[p].sig)

\* A task that succeeded has been left alone since, or its rerun is on record.
VerdictInv ==
  \A t \in Tasks \ (twice \cup again) :
    status[t] = "succeeded" => EndsWith(attempts[t], Passed)

\* Without a second copy around, the one there is holds all the file does, and the
\* temporary file is its own.
LessonsInv ==
  ~shared => \A p \in Procs :
    /\ lessons[p] # None => /\ file \subseteq lessons[p]
                            /\ \A q \in Procs \ {p} : lessons[q] = None
    /\ pc[p] = "replace" => tmp = lessons[p]

IInv ==
  /\ TypeOK /\ TaskInv /\ VerdictInv /\ LessonsInv
  /\ \A p \in Procs : StepInv(p) /\ KnownInv(p) /\ GuidanceInv(p)

-------------------------------------------------------------------------------
(* What steps leave alone.                                                   *)

\* The attempt tables and the record of reruns only grow.
Grows ==
  /\ \A t \in Tasks : \/ attempts'[t] = attempts[t]
                       \/ \E o \in Outcomes : attempts'[t] = Append(attempts[t], o)
  /\ twice \subseteq twice' /\ again \subseteq again'

LEMMA LogGrows ==
  ASSUME TypeOK, Grows, NEW t \in Tasks
  PROVE  /\ DOMAIN attempts[t] = 1..Len(attempts[t]) /\ Len(attempts[t]) \in Nat
         /\ DOMAIN attempts[t] \subseteq DOMAIN attempts'[t]
         /\ \A n \in DOMAIN attempts[t] : attempts'[t][n] = attempts[t][n]
<1>1. attempts[t] \in Seq(Outcomes)
  BY DEF TypeOK
<1>2. ASSUME NEW o \in Outcomes, attempts'[t] = Append(attempts[t], o)
      PROVE  /\ DOMAIN attempts[t] \subseteq DOMAIN attempts'[t]
             /\ \A n \in DOMAIN attempts[t] : attempts'[t][n] = attempts[t][n]
  BY <1>1, <1>2
<1> QED
  BY <1>1, <1>2 DEF Grows

LEMMA MetStays ==
  ASSUME TypeOK, Grows, NEW t \in Tasks, NEW sig, Met(t, sig)
  PROVE  Met(t, sig)'
BY LogGrows DEF Met

LEMMA FixStays ==
  ASSUME TypeOK, Grows, NEW fix \in Code, NEW sig, Fixed(fix, sig)
  PROVE  Fixed(fix, sig)'
<1> DEFINE t == fix[1]
           n == fix[2]
<1>1. t \in Tasks
  BY DEF Code
<1>2. n \in DOMAIN attempts[t] /\ attempts[t][n] = Passed /\ Met(t, sig)
  BY DEF Fixed
<1>3. n \in DOMAIN attempts'[t] /\ attempts'[t][n] = Passed
  BY <1>1, <1>2, LogGrows
<1>4. Met(t, sig)'
  BY <1>1, <1>2, MetStays
<1>5. ASSUME NEW k \in 1..n, attempts[t][k] = sig
      PROVE  attempts'[t][k] = sig
  BY <1>1, <1>2, <1>5, LogGrows
<1>6. t \in twice' \cup again' \/ \E k \in 1..n : attempts'[t][k] = sig
  BY <1>5 DEF Fixed, Grows
<1> QED
  BY <1>3, <1>4, <1>6 DEF Fixed

LEMMA KnownKept ==
  ASSUME IInv, Grows, NEW p \in Procs, known'[p] \in {known[p], None}
  PROVE  KnownInv(p)'
<1> SUFFICES ASSUME known'[p] # None, NEW s \in Sigs, known[p][s] # None
             PROVE  Fixed(known[p][s], s)'
  BY DEF KnownInv, Fixed
<1>1. known[p][s] \in Code
  BY DEF IInv, TypeOK, Fixes
<1>2. Fixed(known[p][s], s)
  BY DEF IInv, KnownInv
<1> QED
  BY <1>1, <1>2, FixStays DEF IInv

LEMMA GuidanceKept ==
  ASSUME IInv, Grows, NEW p \in Procs, guidance'[p] \in {guidance[p], None}
  PROVE  GuidanceInv(p)'
<1> SUFFICES ASSUME guidance'[p] # None, guidance[p].fix # None
             PROVE  Fixed(guidance[p].fix, guidance[p].sig)'
  BY DEF GuidanceInv, Fixed
<1>1. guidance[p].fix \in Code
  BY DEF IInv, TypeOK, Guidance
<1>2. Fixed(guidance[p].fix, guidance[p].sig)
  BY DEF IInv, GuidanceInv
<1> QED
  BY <1>1, <1>2, FixStays DEF IInv

LEMMA VerdictKept ==
  ASSUME VerdictInv, Grows, UNCHANGED attempts,
         \A t \in Tasks : status'[t] = "succeeded" => status[t] = "succeeded"
  PROVE  VerdictInv'
BY DEF VerdictInv, Grows, EndsWith

LEMMA Bystander ==
  ASSUME IInv, Grows, NEW p \in Procs, pc'[p] = pc[p],
         Busy(p) => /\ task'[p] = task[p] /\ last'[p] = last[p] /\ guidance'[p] = guidance[p]
                    /\ task[p] \in twice \/ attempts'[task[p]] = attempts[task[p]],
         known'[p] = known[p], lessons'[p] = lessons[p]
  PROVE  StepInv(p)'
<1>1. StepInv(p) /\ (Busy(p) => task[p] \in Tasks)
  BY DEF IInv, TaskInv
<1>2. ASSUME Busy(p), Met(task[p], guidance[p].sig)
      PROVE  Met(task[p], guidance[p].sig)'
  BY <1>1, <1>2, MetStays DEF IInv, Met
<1>3. pc'[p] = "ready" /\ guidance'[p] # None =>
        /\ Met(task[p], guidance[p].sig)'
        /\ task'[p] \in twice' \/ EndsWith(attempts'[task'[p]], guidance'[p].sig)
  BY <1>1, <1>2 DEF StepInv, Busy, Grows
<1>4. pc'[p] = "finish" /\ last'[p] = Passed =>
        task'[p] \in twice' \/ EndsWith(attempts'[task'[p]], Passed)
  BY <1>1 DEF StepInv, Busy, Grows
<1> QED
  BY <1>1, <1>3, <1>4 DEF StepInv, Busy, Met

LEMMA UnchangedGrows == UNCHANGED <<attempts, twice, again>> => Grows
  BY DEF Grows

LEMMA WorkerStartsStep ==
  ASSUME IInv, WorkerStarts
  PROVE  IInv'
<1> USE DEF WorkerStarts, Goto, Set, tables, disk, run, memory, bounds, Procs
<1>1. TypeOK'
  BY DEF IInv, TypeOK
<1>2. TaskInv'
  BY KnowledgeAssumption DEF IInv, TypeOK, TaskInv, Busy
<1>4. StepInv(Worker)'
  BY DEF IInv, StepInv
<1>5. Grows
  BY UnchangedGrows
<1>6. \A q \in Procs \ {Worker} : StepInv(q)'
  BY <1>5, Bystander
<1>7. \A q \in Procs : KnownInv(q)'
  BY <1>5, KnownKept
<1>8. \A q \in Procs : GuidanceInv(q)'
  BY <1>5, GuidanceKept
<1>9. VerdictInv'
  BY <1>5, VerdictKept DEF IInv, TypeOK
<1>10. LessonsInv'
  BY DEF IInv, LessonsInv
<1> QED
  BY <1>1, <1>2, <1>4, <1>6, <1>7, <1>8, <1>9, <1>10 DEF IInv

LEMMA ClaimStep ==
  ASSUME IInv, NEW t \in Tasks, Claim(t)
  PROVE  IInv'
<1> USE DEF Claim, Goto, Set, tables, disk, run, memory, bounds, Begin, Take, Rerun, Procs
<1>1. TypeOK'
  BY DEF IInv, TypeOK
<1>2. TaskInv'
  BY DEF IInv, TypeOK, TaskInv, Busy
<1>4. StepInv(Worker)'
  BY DEF IInv, TypeOK, StepInv
<1>5. Grows
  BY DEF Grows
<1>6. \A q \in Procs \ {Worker} : StepInv(q)'
  BY <1>5, Bystander
<1>7. \A q \in Procs : KnownInv(q)'
  BY <1>5, KnownKept
<1>8. \A q \in Procs : GuidanceInv(q)'
  BY <1>5, GuidanceKept
<1>9. VerdictInv'
  BY <1>5, VerdictKept DEF IInv, TypeOK
<1>10. LessonsInv'
  BY DEF IInv, LessonsInv
<1> QED
  BY <1>1, <1>2, <1>4, <1>6, <1>7, <1>8, <1>9, <1>10 DEF IInv

LEMMA RunOnceStep ==
  ASSUME IInv, NEW t \in Tasks, RunOnce(t)
  PROVE  IInv'
<1> USE DEF RunOnce, Goto, Set, tables, disk, run, memory, bounds, Begin, Take, Rerun, Procs
<1>1. TypeOK'
  BY KnowledgeAssumption DEF IInv, TypeOK
<1>2. TaskInv'
  BY KnowledgeAssumption DEF IInv, TypeOK, TaskInv, Busy
<1>4. StepInv(Cli)'
  BY DEF IInv, TypeOK, StepInv
<1>5. Grows
  BY DEF Grows
<1>6. \A q \in Procs \ {Cli} : StepInv(q)'
  BY <1>5, Bystander
<1>7. \A q \in Procs : KnownInv(q)'
  BY <1>5, KnownKept
<1>8. \A q \in Procs : GuidanceInv(q)'
  BY <1>5, GuidanceKept
<1>9. VerdictInv'
  BY <1>5, VerdictKept DEF IInv, TypeOK
<1>10. LessonsInv'
  BY DEF IInv, LessonsInv
<1> QED
  BY <1>1, <1>2, <1>4, <1>6, <1>7, <1>8, <1>9, <1>10 DEF IInv

LEMMA RetryStep ==
  ASSUME IInv, NEW t \in Tasks, Retry(t)
  PROVE  IInv'
<1> USE DEF Retry, disk, run, memory, Rerun
<1>1. TypeOK'
  BY KnowledgeAssumption DEF IInv, TypeOK
<1>2. TaskInv'
  BY DEF IInv, TypeOK, TaskInv, Busy
<1>5. Grows
  BY UnchangedGrows
<1>6. \A q \in Procs : StepInv(q)'
  BY <1>5, Bystander
<1>7. \A q \in Procs : KnownInv(q)'
  BY <1>5, KnownKept
<1>8. \A q \in Procs : GuidanceInv(q)'
  BY <1>5, GuidanceKept
<1>9. VerdictInv'
  BY <1>5, VerdictKept DEF IInv, TypeOK
<1>10. LessonsInv'
  BY DEF IInv, LessonsInv
<1> QED
  BY <1>1, <1>2, <1>6, <1>7, <1>8, <1>9, <1>10 DEF IInv

LEMMA StopStep ==
  ASSUME IInv, NEW p \in Procs, Stop(p)
  PROVE  IInv'
<1> USE DEF Stop, Goto, Set, tables, disk, memory, bounds, Procs
<1>1. TypeOK'
  BY DEF IInv, TypeOK
<1>2. TaskInv'
  BY DEF IInv, TypeOK, TaskInv, Busy
<1>4. StepInv(p)'
  BY KnowledgeAssumption DEF IInv, TypeOK, StepInv
<1>5. Grows
  BY UnchangedGrows
<1>6. \A q \in Procs \ {p} : StepInv(q)'
  BY <1>5, Bystander
<1>7. \A q \in Procs : KnownInv(q)'
  BY <1>5, KnownKept
<1>8. \A q \in Procs : GuidanceInv(q)'
  BY <1>5, GuidanceKept
<1>9. VerdictInv'
  BY <1>5, VerdictKept DEF IInv, TypeOK
<1>10. LessonsInv'
  BY DEF IInv, LessonsInv
<1> QED
  BY <1>1, <1>2, <1>4, <1>6, <1>7, <1>8, <1>9, <1>10 DEF IInv

LEMMA AttemptStep ==
  ASSUME IInv, NEW p \in Procs, NEW o \in Outcomes, Attempt(p, o)
  PROVE  IInv'
<1> USE DEF Attempt, Goto, Set, tables, disk, run, memory, bounds, Procs
<1>1. TypeOK'
  BY DEF IInv, TypeOK
<1>2. TaskInv'
  BY DEF IInv, TypeOK, TaskInv, Busy
<1>4. StepInv(p)'
  BY DEF IInv, TypeOK, StepInv, Outcomes
<1>5. Grows
  BY UnchangedGrows
<1>6. \A q \in Procs \ {p} : StepInv(q)'
  BY <1>5, Bystander
<1>7. \A q \in Procs : KnownInv(q)'
  BY <1>5, KnownKept
<1>8. \A q \in Procs : GuidanceInv(q)'
  BY <1>5, GuidanceKept
<1>9. VerdictInv'
  BY <1>5, VerdictKept DEF IInv, TypeOK
<1>10. LessonsInv'
  BY DEF IInv, LessonsInv
<1> QED
  BY <1>1, <1>2, <1>4, <1>6, <1>7, <1>8, <1>9, <1>10 DEF IInv

\* The last attempt of a task that succeeded and was left alone is the one that passed.
LEMMA FixesWork ==
  ASSUME TypeOK, VerdictInv, NEW s \in Sigs, NEW fix \in FixesFor(s)
  PROVE  fix \in Code /\ Fixed(fix, s)
<1>1. PICK t \in Scanned : Met(t, s) /\ fix \in {t} \X LastPass(t)
  BY DEF FixesFor
<1>2. PICK n \in LastPass(t) : fix = <<t, n>>
  BY <1>1
<1> DEFINE log == attempts[t]
<1>3. /\ t \in Tasks /\ log \in Seq(Outcomes) /\ status[t] = "succeeded"
      /\ n \in DOMAIN log /\ log[n] = Passed
      /\ t \in twice \/ \A m \in DOMAIN log : log[m] = Passed => m <= n
  BY <1>1, <1>2 DEF Scanned, TypeOK, LastPass
<1>4. DOMAIN log = 1..Len(log) /\ Len(log) \in Nat
  BY <1>3
<1>5. fix \in Code
  BY <1>2, <1>3, <1>4 DEF Code
<1>6. ASSUME t \notin twice \cup again
      PROVE  \E k \in 1..n : log[k] = s
  <2>1. log # <<>> /\ log[Len(log)] = Passed
    BY <1>3, <1>6 DEF VerdictInv, EndsWith
  <2>2. Len(log) \in DOMAIN log
    BY <1>3, <1>4, <2>1
  <2>3. n = Len(log)
    BY <1>3, <1>4, <1>6, <2>1, <2>2
  <2> QED
    BY <1>1, <1>4, <2>3 DEF Met
<1> QED
  BY <1>1, <1>2, <1>3, <1>5, <1>6 DEF Fixed

LEMMA BuildStep ==
  ASSUME IInv, NEW p \in Procs, Build(p)
  PROVE  IInv'
<1> USE DEF Build, Goto, Set, tables, disk, run, memory, bounds, Procs
<1>0. PICK fixes \in [Sigs -> UNION {FixesFor(s) : s \in Sigs} \cup {None}] :
        /\ \A s \in Sigs :
             IF FixesFor(s) = {} THEN fixes[s] = None ELSE fixes[s] \in FixesFor(s)
        /\ known' = [known EXCEPT ![p] = fixes]
  OBVIOUS
<1>01. \A s \in Sigs : fixes[s] # None => fixes[s] \in Code /\ Fixed(fixes[s], s)
  <2> SUFFICES ASSUME NEW s \in Sigs, fixes[s] # None
               PROVE  fixes[s] \in Code /\ Fixed(fixes[s], s)
    OBVIOUS
  <2>1. fixes[s] \in FixesFor(s)
    BY <1>0
  <2> QED
    BY <2>1, FixesWork DEF IInv
<1>02. fixes \in Fixes
  BY <1>01 DEF Fixes
<1>1. TypeOK'
  BY <1>0, <1>02 DEF IInv, TypeOK
<1>2. TaskInv'
  BY DEF IInv, TypeOK, TaskInv, Busy
<1>4. StepInv(p)'
  <2>1. known'[p] \in Fixes /\ lessons'[p] \in SUBSET Sigs
    BY <1>0, <1>02 DEF IInv, TypeOK
  <2>2. pc'[p] = "failed" /\ last'[p] \in Sigs /\ guidance'[p] = None
    BY DEF IInv, StepInv
  <2> QED
    BY <2>1, <2>2, NoneAssumption DEF StepInv
<1>5. Grows
  BY UnchangedGrows
<1>6. \A q \in Procs \ {p} : StepInv(q)'
  BY <1>5, Bystander
<1>7. \A q \in Procs \ {p} : KnownInv(q)'
  BY <1>5, KnownKept
<1>71. KnownInv(p)'
  <2>1. known'[p] = fixes
    BY <1>0 DEF IInv, TypeOK
  <2>2. \A s \in Sigs : Fixed(fixes[s], s)' <=> Fixed(fixes[s], s)
    BY DEF Fixed, Met
  <2> QED
    BY <1>01, <2>1, <2>2 DEF KnownInv
<1>8. \A q \in Procs : GuidanceInv(q)'
  BY <1>5, GuidanceKept
<1>9. VerdictInv'
  BY <1>5, VerdictKept DEF IInv, TypeOK
<1>10. LessonsInv'
  BY DEF IInv, TypeOK, LessonsInv
<1> QED
  BY <1>1, <1>2, <1>4, <1>6, <1>7, <1>71, <1>8, <1>9, <1>10 DEF IInv

LEMMA AdviseStep ==
  ASSUME IInv, NEW p \in Procs, Advise(p)
  PROVE  IInv'
<1> USE DEF Advise, Goto, Set, tables, disk, run, memory, bounds, Procs
<1>0. last[p] \in Sigs /\ known[p] \in Fixes
  BY DEF IInv, TypeOK, StepInv
<1>1. TypeOK'
  <2>1. [sig |-> last[p], fix |-> known[p][last[p]]] \in Guidance
    BY <1>0 DEF Guidance, Fixes
  <2> QED
    BY <2>1 DEF IInv, TypeOK
<1>2. TaskInv'
  BY DEF IInv, TypeOK, TaskInv, Busy
<1>4. StepInv(p)'
  BY KnowledgeAssumption DEF IInv, TypeOK, StepInv
<1>5. Grows
  BY UnchangedGrows
<1>6. \A q \in Procs \ {p} : StepInv(q)'
  BY <1>5, Bystander
<1>7. \A q \in Procs : KnownInv(q)'
  BY <1>5, KnownKept
<1>8. \A q \in Procs \ {p} : GuidanceInv(q)'
  BY <1>5, GuidanceKept
<1>81. GuidanceInv(p)'
  <2>1. guidance'[p] = [sig |-> last[p], fix |-> known[p][last[p]]]
    BY DEF IInv, TypeOK
  <2>2. known[p][last[p]] # None => Fixed(known[p][last[p]], last[p])
    BY <1>0 DEF IInv, KnownInv
  <2>3. known' = known /\ last' = last /\ attempts' = attempts /\ twice' = twice /\ again' = again
    OBVIOUS
  <2>4. Fixed(known[p][last[p]], last[p])' <=> Fixed(known[p][last[p]], last[p])
    BY <2>3 DEF Fixed, Met
  <2> QED
    BY <2>1, <2>2, <2>3, <2>4 DEF GuidanceInv
<1>9. VerdictInv'
  BY <1>5, VerdictKept DEF IInv, TypeOK
<1>10. LessonsInv'
  BY DEF IInv, LessonsInv
<1> QED
  BY <1>1, <1>2, <1>4, <1>6, <1>7, <1>8, <1>81, <1>9, <1>10 DEF IInv

LEMMA PutStep ==
  ASSUME IInv, NEW p \in Procs, Put(p)
  PROVE  IInv'
<1> USE DEF Put, Goto, Set, tables, disk, run, memory, bounds, Procs
<1>0. last[p] \in Sigs /\ lessons[p] \in SUBSET Sigs
  BY DEF IInv, TypeOK, StepInv
<1>1. TypeOK'
  <2>1. lessons[p] \cup {last[p]} \in SUBSET Sigs
    BY <1>0
  <2>2. lessons' = [lessons EXCEPT ![p] = lessons[p] \cup {last[p]}]
    OBVIOUS
  <2>3. lessons' \in [Procs -> (SUBSET Sigs) \cup {None}]
    BY <2>1, <2>2 DEF IInv, TypeOK
  <2>4. tmp' \subseteq Sigs
    BY <2>1, <2>2
  <2> QED
    BY <2>3, <2>4 DEF IInv, TypeOK
<1>2. TaskInv'
  BY DEF IInv, TypeOK, TaskInv, Busy
<1>4. StepInv(p)'
  <2>1. lessons'[p] \in SUBSET Sigs /\ known'[p] # None
    BY <1>0
  <2>2. pc'[p] = "replace" /\ last'[p] \in Sigs /\ guidance'[p] = None
    BY <1>0 DEF IInv, TypeOK, StepInv
  <2> QED
    BY <2>1, <2>2, NoneAssumption DEF StepInv
<1>5. Grows
  BY UnchangedGrows
<1>6. \A q \in Procs \ {p} : StepInv(q)'
  BY <1>5, Bystander
<1>7. \A q \in Procs : KnownInv(q)'
  BY <1>5, KnownKept
<1>8. \A q \in Procs : GuidanceInv(q)'
  BY <1>5, GuidanceKept
<1>9. VerdictInv'
  BY <1>5, VerdictKept DEF IInv, TypeOK
<1>10. LessonsInv'
  BY KnowledgeAssumption DEF IInv, StepInv, LessonsInv
<1> QED
  BY <1>1, <1>2, <1>4, <1>6, <1>7, <1>8, <1>9, <1>10 DEF IInv

LEMMA ReplaceStep ==
  ASSUME IInv, NEW p \in Procs, Replace(p)
  PROVE  IInv'
<1> USE DEF Replace, Goto, Set, tables, disk, run, memory, bounds, Procs
<1>0. last[p] \in Sigs
  BY DEF IInv, StepInv
<1>1. TypeOK'
  <2>1. [sig |-> last[p], fix |-> None] \in Guidance
    BY <1>0 DEF Guidance
  <2>2. file' \subseteq Sigs
    BY DEF IInv, TypeOK
  <2> QED
    BY <2>1, <2>2 DEF IInv, TypeOK
<1>2. TaskInv'
  BY DEF IInv, TypeOK, TaskInv, Busy
<1>4. StepInv(p)'
  BY KnowledgeAssumption DEF IInv, TypeOK, StepInv
<1>5. Grows
  BY UnchangedGrows
<1>6. \A q \in Procs \ {p} : StepInv(q)'
  BY <1>5, Bystander
<1>7. \A q \in Procs : KnownInv(q)'
  BY <1>5, KnownKept
<1>8. \A q \in Procs \ {p} : GuidanceInv(q)'
  BY <1>5, GuidanceKept
<1>81. GuidanceInv(p)'
  <2>1. guidance'[p] = [sig |-> last[p], fix |-> None]
    BY DEF IInv, TypeOK
  <2> QED
    BY <2>1 DEF GuidanceInv
<1>9. VerdictInv'
  BY <1>5, VerdictKept DEF IInv, TypeOK
<1>10. LessonsInv'
  BY DEF IInv, TypeOK, LessonsInv
<1> QED
  BY <1>1, <1>2, <1>4, <1>6, <1>7, <1>8, <1>81, <1>9, <1>10 DEF IInv

LEMMA ReplaceFailsStep ==
  ASSUME IInv, NEW p \in Procs, ReplaceFails(p)
  PROVE  IInv'
<1> USE DEF ReplaceFails, Goto, Set, tables, disk, run, memory, bounds, Procs
<1>1. TypeOK'
  BY DEF IInv, TypeOK
<1>2. TaskInv'
  BY DEF IInv, TypeOK, TaskInv, Busy
<1>4. StepInv(p)'
  BY DEF IInv, StepInv, Outcomes
<1>5. Grows
  BY UnchangedGrows
<1>6. \A q \in Procs \ {p} : StepInv(q)'
  BY <1>5, Bystander
<1>7. \A q \in Procs : KnownInv(q)'
  BY <1>5, KnownKept
<1>8. \A q \in Procs : GuidanceInv(q)'
  BY <1>5, GuidanceKept
<1>9. VerdictInv'
  BY <1>5, VerdictKept DEF IInv, TypeOK
<1>10. LessonsInv'
  BY DEF IInv, LessonsInv
<1> QED
  BY <1>1, <1>2, <1>4, <1>6, <1>7, <1>8, <1>9, <1>10 DEF IInv

LEMMA StoreStep ==
  ASSUME IInv, NEW p \in Procs, Store(p)
  PROVE  IInv'
<1> USE DEF Store, Goto, Set, tables, disk, memory, bounds, Procs
<1> DEFINE t == task[p]
           log == attempts[t]
<1>0. /\ t \in Tasks /\ log \in Seq(Outcomes) /\ last[p] \in Outcomes
      /\ attempts' = [attempts EXCEPT ![t] = Append(log, last[p])]
      /\ attempts'[t] = Append(log, last[p])
  BY DEF IInv, TypeOK, TaskInv, StepInv, Busy
<1>01. /\ Append(log, last[p]) \in Seq(Outcomes)
       /\ Len(Append(log, last[p])) \in DOMAIN Append(log, last[p])
       /\ Len(Append(log, last[p])) \in Nat
       /\ EndsWith(Append(log, last[p]), last[p])
  BY <1>0, AppendProperties DEF EndsWith
<1>1. TypeOK'
  <2>1. attempts' \in [Tasks -> Seq(Outcomes)]
    BY <1>0, <1>01 DEF IInv, TypeOK
  <2>2. count' \in [Procs -> Nat]
    BY <1>0, <1>01 DEF IInv, TypeOK
  <2>3. pc' \in [Procs -> {"down", "idle", "ready", "failed", "replace", "store", "finish"}]
    BY DEF IInv, TypeOK
  <2> QED
    BY <2>1, <2>2, <2>3 DEF IInv, TypeOK
<1>2. TaskInv'
  BY DEF IInv, TypeOK, TaskInv, Busy
<1>4. StepInv(p)'
  <2>1. /\ pc'[p] \in {"ready", "finish"} /\ task'[p] = t /\ last'[p] = last[p]
        /\ guidance'[p] # None => guidance'[p].sig = last[p]
    BY <1>0 DEF IInv, TypeOK, StepInv
  <2>2. known'[p] = None <=> lessons'[p] = None
    BY DEF IInv, StepInv
  <2>3. Met(t, last[p])'
    BY <1>0, <1>01 DEF Met, EndsWith
  <2>4. guidance'[p] # None => Met(task[p], guidance[p].sig)'
    BY <2>1, <2>3 DEF Met
  <2> QED
    BY <1>0, <1>01, <2>1, <2>2, <2>4 DEF StepInv, Met
<1>5. Grows
  BY <1>0 DEF Grows, IInv
<1>6. \A q \in Procs \ {p} : StepInv(q)'
  <2> SUFFICES ASSUME NEW q \in Procs \ {p} PROVE StepInv(q)'
    OBVIOUS
  <2>1. Busy(q) => task[q] \in twice \/ attempts'[task[q]] = attempts[task[q]]
    <3>1. Busy(q) => task[q] \in Tasks /\ (task[q] = t => task[q] \in twice)
      BY DEF IInv, TaskInv, Busy
    <3> QED
      BY <1>0, <3>1
  <2>2. pc'[q] = pc[q]
    OBVIOUS
  <2> QED
    BY <1>5, <2>1, <2>2, Bystander
<1>7. \A q \in Procs : KnownInv(q)'
  BY <1>5, KnownKept
<1>8. \A q \in Procs : GuidanceInv(q)'
  BY <1>5, GuidanceKept
<1>9. VerdictInv'
  <2>1. t \in twice \cup again \/ status[t] # "succeeded"
    BY DEF IInv, TaskInv, Busy
  <2> QED
    BY <1>0, <2>1 DEF IInv, VerdictInv
<1>10. LessonsInv'
  BY DEF IInv, LessonsInv
<1> QED
  BY <1>1, <1>2, <1>4, <1>6, <1>7, <1>8, <1>9, <1>10 DEF IInv

LEMMA FinishStep ==
  ASSUME IInv, NEW p \in Procs, Finish(p)
  PROVE  IInv'
<1> USE DEF Finish, Goto, Set, tables, disk, run, memory, bounds, Leave, GoOn, Exit, Rest, Fault, Procs
<1>1. TypeOK'
  <2>1. status' \in [Tasks -> {"queued", "running", "succeeded", "ended"}]
    BY DEF IInv, TypeOK
  <2>2. pc' \in [Procs -> {"down", "idle", "ready", "failed", "replace", "store", "finish"}]
    BY DEF IInv, TypeOK
  <2>3. /\ guidance' \in [Procs -> Guidance \cup {None}]
        /\ known' \in [Procs -> Fixes \cup {None}]
        /\ lessons' \in [Procs -> (SUBSET Sigs) \cup {None}]
        /\ task' \in [Procs -> Tasks \cup {None}] /\ last' \in [Procs -> Outcomes \cup {None}]
        /\ count' \in [Procs -> Nat]
    BY DEF IInv, TypeOK
  <2> QED
    BY <2>1, <2>2, <2>3 DEF IInv, TypeOK
<1>2. TaskInv'
  <2>1. pc'[p] = Rest(p) /\ ~Busy(p)'
    BY DEF IInv, TypeOK, Busy
  <2>2. pc'[Cli] # "idle"
    BY <2>1, KnowledgeAssumption DEF IInv, TypeOK, TaskInv
  <2>3. ASSUME NEW q \in Procs \ {p}, Busy(q)'
        PROVE  /\ Busy(q) /\ task'[q] = task[q]
               /\ task[q] \in twice \/ status'[task[q]] = status[task[q]]
    BY <2>3 DEF IInv, TypeOK, TaskInv, Busy
  <2> QED
    BY <2>1, <2>2, <2>3 DEF IInv, TaskInv, Busy
<1>4. StepInv(p)'
  BY DEF IInv, TypeOK, StepInv
<1>5. Grows
  BY UnchangedGrows
<1>6. \A q \in Procs \ {p} : StepInv(q)'
  BY <1>5, Bystander DEF IInv, TypeOK
<1>7. \A q \in Procs : KnownInv(q)'
  BY <1>5, KnownKept DEF IInv, TypeOK
<1>8. \A q \in Procs : GuidanceInv(q)'
  BY <1>5, GuidanceKept DEF IInv, TypeOK
<1>9. VerdictInv'
  <2>1. task[p] \in Tasks
    BY DEF IInv, TaskInv, Busy
  <2>2. last[p] = Passed => task[p] \in twice \/ EndsWith(attempts[task[p]], Passed)
    BY DEF IInv, StepInv
  <2> QED
    BY <2>1, <2>2 DEF IInv, TypeOK, VerdictInv
<1>10. LessonsInv'
  BY DEF IInv, TypeOK, LessonsInv
<1> QED
  BY <1>1, <1>2, <1>4, <1>6, <1>7, <1>8, <1>9, <1>10 DEF IInv

LEMMA RaiseStep ==
  ASSUME IInv, NEW p \in Procs, Raise(p)
  PROVE  IInv'
<1> USE DEF Raise, Goto, Set, tables, disk, run, memory, bounds, Leave, GoOn, Exit, Rest, Fault, Procs
<1>1. TypeOK'
  <2>1. /\ guidance' \in [Procs -> Guidance \cup {None}]
        /\ known' \in [Procs -> Fixes \cup {None}]
        /\ lessons' \in [Procs -> (SUBSET Sigs) \cup {None}]
        /\ task' \in [Procs -> Tasks \cup {None}] /\ last' \in [Procs -> Outcomes \cup {None}]
        /\ count' \in [Procs -> Nat]
    BY DEF IInv, TypeOK
  <2>2. faults' \in 0..MaxFaults
    BY KnowledgeAssumption DEF IInv, TypeOK
  <2>3. /\ status' \in [Tasks -> {"queued", "running", "succeeded", "ended"}]
        /\ pc' \in [Procs -> {"down", "idle", "ready", "failed", "replace", "store", "finish"}]
    BY DEF IInv, TypeOK
  <2> QED
    BY <2>1, <2>2, <2>3 DEF IInv, TypeOK
<1>2. TaskInv'
  <2>1. pc'[p] = Rest(p) /\ ~Busy(p)'
    BY DEF IInv, TypeOK, Busy
  <2>2. pc'[Cli] # "idle"
    BY <2>1, KnowledgeAssumption DEF IInv, TypeOK, TaskInv
  <2>3. ASSUME NEW q \in Procs \ {p}, Busy(q)'
        PROVE  /\ Busy(q) /\ task'[q] = task[q]
               /\ task[q] \in twice \/ status'[task[q]] = status[task[q]]
    BY <2>3 DEF IInv, TypeOK, TaskInv, Busy
  <2> QED
    BY <2>1, <2>2, <2>3 DEF IInv, TaskInv, Busy
<1>4. StepInv(p)'
  BY DEF IInv, TypeOK, StepInv
<1>5. Grows
  BY UnchangedGrows
<1>6. \A q \in Procs \ {p} : StepInv(q)'
  BY <1>5, Bystander DEF IInv, TypeOK
<1>7. \A q \in Procs : KnownInv(q)'
  BY <1>5, KnownKept DEF IInv, TypeOK
<1>8. \A q \in Procs : GuidanceInv(q)'
  BY <1>5, GuidanceKept DEF IInv, TypeOK
<1>9. VerdictInv'
  BY <1>5, VerdictKept DEF IInv, TypeOK
<1>10. LessonsInv'
  BY DEF IInv, TypeOK, LessonsInv
<1> QED
  BY <1>1, <1>2, <1>4, <1>6, <1>7, <1>8, <1>9, <1>10 DEF IInv

LEMMA DieStep ==
  ASSUME IInv, NEW p \in Procs, Die(p)
  PROVE  IInv'
<1> USE DEF Die, Goto, Set, tables, disk, run, memory, bounds, Leave, GoOn, Exit, Rest, Fault, Procs
<1>1. TypeOK'
  <2>1. /\ guidance' \in [Procs -> Guidance \cup {None}]
        /\ known' \in [Procs -> Fixes \cup {None}]
        /\ lessons' \in [Procs -> (SUBSET Sigs) \cup {None}]
        /\ task' \in [Procs -> Tasks \cup {None}] /\ last' \in [Procs -> Outcomes \cup {None}]
        /\ count' \in [Procs -> Nat]
    BY DEF IInv, TypeOK
  <2>2. faults' \in 0..MaxFaults
    BY KnowledgeAssumption DEF IInv, TypeOK
  <2> QED
    BY <2>1, <2>2 DEF IInv, TypeOK
<1>2. TaskInv'
  BY DEF IInv, TypeOK, TaskInv, Busy
<1>4. StepInv(p)'
  BY DEF IInv, TypeOK, StepInv
<1>5. Grows
  BY UnchangedGrows
<1>6. \A q \in Procs \ {p} : StepInv(q)'
  BY <1>5, Bystander DEF IInv, TypeOK
<1>7. \A q \in Procs : KnownInv(q)'
  BY <1>5, KnownKept DEF IInv, TypeOK
<1>8. \A q \in Procs : GuidanceInv(q)'
  BY <1>5, GuidanceKept DEF IInv, TypeOK
<1>9. VerdictInv'
  BY <1>5, VerdictKept DEF IInv, TypeOK
<1>10. LessonsInv'
  BY DEF IInv, TypeOK, LessonsInv
<1> QED
  BY <1>1, <1>2, <1>4, <1>6, <1>7, <1>8, <1>9, <1>10 DEF IInv

-------------------------------------------------------------------------------
(* The theorems.                                                             *)

LEMMA IInvInit == Init => IInv
<1> SUFFICES ASSUME Init PROVE IInv
  OBVIOUS
<1>1. TypeOK
  <2>1. attempts \in [Tasks -> Seq(Outcomes)]
    BY DEF Init
  <2>2. 0 \in 0..MaxFaults /\ 0 \in 0..MaxReruns
    BY KnowledgeAssumption
  <2> QED
    BY <2>1, <2>2 DEF Init, TypeOK
<1>2. TaskInv
  BY DEF Init, TaskInv, Busy, Procs
<1>3. VerdictInv /\ LessonsInv
  BY DEF Init, VerdictInv, LessonsInv
<1>4. \A p \in Procs : StepInv(p) /\ KnownInv(p) /\ GuidanceInv(p)
  BY DEF Init, StepInv, KnownInv, GuidanceInv
<1> QED
  BY <1>1, <1>2, <1>3, <1>4 DEF IInv

LEMMA IInvStutter == IInv /\ UNCHANGED vars => IInv'
  BY DEF IInv, vars, tables, disk, run, memory, bounds, TypeOK, TaskInv,
         VerdictInv, LessonsInv, StepInv, KnownInv, GuidanceInv, Busy, Fixed, Met

LEMMA IInvAlways == Spec => []IInv
<1>1. IInv /\ [Next]_vars => IInv'
  BY IInvStutter, WorkerStartsStep, ClaimStep, RunOnceStep, RetryStep, StopStep, AttemptStep, BuildStep,
     AdviseStep, PutStep, ReplaceStep, ReplaceFailsStep, StoreStep, FinishStep, RaiseStep, DieStep
     DEF Next
<1> QED
  BY <1>1, IInvInit, PTL DEF Spec

\* Type correctness.
THEOREM KnowledgeTypes == Spec => []TypeOK
<1>1. IInv => TypeOK
  BY DEF IInv
<1> QED
  BY <1>1, IInvAlways, PTL

\* The guidance in a prompt is about an error of the same task, the last one unless a
\* second process has been at it, wherever either process has died or was refused.
THEOREM GuidanceFits == Spec => []GuidanceIsForLastError
<1>1. IInv => GuidanceIsForLastError
  BY DEF IInv, StepInv, EndsWith, Met, GuidanceIsForLastError
<1> QED
  BY <1>1, IInvAlways, PTL

\* A known fix passed in a task that has met the error, and met it before, except for
\* tasks run again after their success or by two processes at a time.
THEOREM FixesAreKnownToWork == Spec => []KnownFixesFixed
<1>1. IInv => KnownFixesFixed
  BY DEF IInv, GuidanceInv, Fixed, KnownFixesFixed
<1> QED
  BY <1>1, IInvAlways, PTL

\* A rewrite of the lessons' file keeps what was in it, as long as no two processes
\* have held copies at a time.
THEOREM LessonsAreKept == Spec => LessonsStay
<1>1. IInv /\ [Next]_vars => [~shared => file \subseteq file']_vars
  <2> SUFFICES ASSUME IInv, Next, ~shared PROVE file \subseteq file'
    OBVIOUS
  <2>1. ASSUME NEW p \in Procs, Replace(p) PROVE file \subseteq file'
    <3>1. lessons[p] # None /\ tmp = lessons[p]
      BY <2>1 DEF IInv, LessonsInv, Replace, Goto
    <3> QED
      BY <2>1, <3>1 DEF IInv, LessonsInv, Replace
  <2>2. (\E p \in Procs : Replace(p)) \/ UNCHANGED file
    BY DEF Next, WorkerStarts, Claim, RunOnce, Retry, Begin, Take, Stop, Attempt, Build, Advise, Put,
           ReplaceFails, Store, Finish, Raise, Die, disk
  <2> QED
    BY <2>1, <2>2
<1> QED
  BY <1>1, IInvAlways, PTL DEF Spec, LessonsStay
===============================================================================
