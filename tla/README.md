# Verification of the Taza OS control programs

TLA+ models of the concurrent and stateful programs of this repository, model-checked with
TLC and, where it pays, proved with TLAPS. `PROJECT.json` lists components, runs, mutants,
the source lines each definition stands for, hazards and theorems.

## The system

The repository runs a small food business from a few machines. Most of its Python, TypeScript
and shell is one of four kinds of program: long-running loops (scheduler worker, watchers,
watchdogs), timer jobs that read and write files, request handlers, and an agent harness that
drives child processes. Nothing here is a distributed protocol; what is hard is processes that
die between two steps, handlers that decide on state another thread is changing, and files that
several programs read, modify and write.

| component | state it keeps | operations | what is hard |
|---|---|---|---|
| `job_runner/circuit_breaker.py` | attempts, per-cycle counters, freeze cycles, status | `record_attempt`, `retry_context` | counters that must find exactly the loops of the attempt list |
| `job_runner/scheduler` (`db`, `worker`, `api`, `server`) | tables of tasks, attempts, sessions; the worker's locals | dispatch, cancel, retry, claim, attempt, finish, recover, session limits | crash between any two statements; handlers that SELECT and UPDATE in two statements; replay after a restart |
| `scheduler/error_distill`, `controller`, `research` | index of known fixes and lessons per process, the lessons' file, guidance of the worker, window of generation times | guidance, build, cooldown | caches older than the tables, one file rewritten by two processes |
| fusion harness, `writer-lease.ts` | a lock file named by the checkout | acquire, release, take over a stale lock | system calls of several processes interleaving, dead holders |
| fusion harness, `/fh-collaborate` (`cmd-build.ts`, `collaboration-graph.ts`) | plan, task states, busy slots, writer token, children | plan validation, launch, end, save, drain, integrate, stop | awaits in any order, failures of one step, Escape at any moment |
| fusion harness, `/fh-auto-validate`, `/fh-fusion`, `/fh-team`, child runner | gate, rounds, sessions, child processes | build, gate, triage, repair; fan-out, merge, ACK; kill and timeout | repairs per run, retries, processes that do not close |
| invoice synchronisation (`square_invoice_sync.py`) | stored invoices, event bus, deposit table, log of runs, lock file | fetch, guard, upsert, emit, refresh | four transactions of one run, truncated answers, runs without the lock |
| order pipeline (`order_ingest.py`, `checklist_app.py`, `printer-selfheal.sh`) | order files, event bus, print spool, printer state | capture, post, render, print, spool, flush | torn files, rows read long ago, two self-heals over one spool |
| local model failover (`llama-failover.sh`, `llama-watchdog.sh`) | mode file, systemd drop-in, fail count | fail over, recover, watch | three concurrent writers, sleeps between steps |
| alarm delivery (`notify.py`, `ntfy-ack-watcher.py`) | the topic, cursor, alarms and acknowledgements, their file | publish, poll, clear, acknowledge | deaths inside a batch, refused clears |
| sprint tracker (`pm_web/service.py`, `templates/kanban.html`) | columns and cards in a database, a copy of the board in each browser | create, save, move, swap, reorder, delete, load | boards sent and not waited for, requests that overtake each other, columns deleted meanwhile |
| tablet watchdog (`adb_watchdog.py`) | streaks | probe, alarm | one loop |
| kitchen board (`server_kanban.py`) | log and board files | add, move, reset | unlocked read-modify-write in request threads |
| door watch and architecture pages (`pm_web`), camera QC (`gflip`), dashboards, exporters, documents | reports, images, text | rendering, conversion | little state of their own |

Interactions: `server.py` runs the worker thread and the API over one SQLite (or Postgres)
database; the worker owns a `CircuitBreaker` per run of a task. Each fusion command acquires the
writer lease, runs children through the child runner and releases the lease in a `finally`.
The invoice sync writes the rows order ingest reads; ingest and checklist meet on the event bus,
checklist and self-heal in the spool. The failover scripts meet in the mode
file and in systemd.

## Modules

| module | what it models | source |
|---|---|---|
| `BreakerOps` | the value of a circuit breaker and `record_attempt` as operators | `circuit_breaker.py` |
| `CircuitBreaker` | one breaker object under an arbitrary caller | `circuit_breaker.py` |
| `TaskLifecycle` | abstract: what the API promises of a task's status | (abstract) |
| `Scheduler` | tables, worker, handlers, crashes; implements `TaskLifecycle` | `scheduler/*.py` |
| `Knowledge` | what a failed attempt teaches the next one, in the worker and in `run_once` | `error_distill.py`, `worker.py`, `executor.py` |
| `WriterLease` | the lock file, one action per system call | `writer-lease.ts` |
| `CollaborationPlan` | which plans `validateCollaborationPlan` accepts | `collaboration-graph.ts` |
| `CollabScheduler` | `/fh-collaborate`, from the proposals to the integration | `cmd-build.ts` |
| `AutoValidate` | `/fh-auto-validate`: gate, builder rounds, triage, repair | `cmd-build.ts`, `child-runner.ts` |
| `LlamaFailover` | the failover scripts as concurrent writers | `llama-failover.sh`, `llama-watchdog.sh` |
| `InvoiceSync` | the runs of the invoice sync over rows, bus, deposits and log | `square_invoice_sync.py` |
| `PrintPath` | ingest, checklist and self-heal composed, from row to paper | `order_ingest.py`, `checklist_app.py`, `printer-selfheal.sh` |
| `AckWatcher` | alarms, replies, the watcher and its file | `notify.py`, `ntfy-ack-watcher.py` |
| `Board` | the sprint tracker: database, browsers and the requests between them | `service.py`, `kanban.html` |
| `CircuitBreakerProofs`, `SchedulerProofs` | theorems: the breaker, then the scheduler over it | |
| `FactoryProofs` | theorems: `/fh-collaborate`, the writer lease, the sprint tracker | |
| `N100Proofs` | theorems: the failover scripts, the print path | |
| `AutoValidateProofs`, `InvoiceSyncProofs`, `AckWatcherProofs`, `KnowledgeProofs` | theorems, one component each | |
| `MC*` | instances for TLC | |

`BreakerOps` is extended both by `CircuitBreaker` (the object alone) and by `Scheduler` (the
object as the worker drives it), so the lemmas about `Recorded` serve both. `WriterLease`, `Board` and `LlamaFailover`
name their parts apart (`LeaseSpec`, `BoardSpec`, `FailoverSpec`), because their theorems share a module with those of another program.

### Circuit breaker

A code is the class of texts with one AST hash, an error the class of texts with one normalised
signature. `FreezesExactlyTheLoops` compares the counters with a definition on the attempt list
that uses no counter (and is proved for every list). The shipped thresholds are 3, 2 and 2; the run takes 2, 2 and 2 because
cycles are then short enough to take three codes and two errors, which an interrupted run of
errors needs. The theorems hold for all thresholds of at least 2 (cycles: at least 1).

### Scheduler

One action is one SQL statement or transaction with the code up to the next one. `pc[p]` is the
program point of the worker of process `p`; `req[p][th]` is what an API handler decided on a
status it read and has not written yet. Generation and verification are the choice of a code
class, an error class or a pass. `Crash` may happen anywhere; `Interrupt` is Ctrl-C, which closes
the session. Wall-clock session limits are the nondeterministic `EndSession`.
History variables: `raced[t]` (a handler wrote on a status that had changed), `base[t]` (rows
before the last retry), `claims[t]`, `cancelAt[t]`.
`ReplayFaithful` compares the breaker a run goes on with not with the replay but with `LiveOf`: a breaker that is told of every attempt of
the cycle as the worker tells it (`Told`), passes and silent failures included. A run under which the process did not change agrees always. After a restart, a
stored pass whose verdict was not reached and a failure without output are replayed otherwise than they were told (`ReplayedOtherwise`), and
a crash after a human retry replays too much; those runs are excepted.

`TaskLifecycle` has no process, table or handler, only statuses. `RefinesLifecycle` shows each
step of the scheduler to be a lifecycle step or a stutter. The lifecycle states the race of the
two-statement handlers openly: after a stale write a task may run under any status until the
verdict of the run under way lands.

Left out: `run_once` (in `Knowledge`, where it runs any task whatever its status), `requeue_recovery` (by hand), telemetry, reports, the
`attempts` and `freeze_cycles` columns of `finish`, database errors, response codes.

### Writer lease

One action per system call; `overlap` remembers that two processes were once in
`acquireWriterLease` together. Without overlap the lease excludes (`ExclusiveWhenSequential`);
with it, it does not (see divergences). A pid is never reused.

### Collaborate

What the thread does between awaits is one step; the pass over the plan is taken task by task
with everything else disabled. `phase` is the await the command is in. Planners run and are saved at once, and a
rejected save rejects `Promise.all` while the others go on; the architect has three attempts at a plan, which must pass
`validateCollaborationPlan` (`ValidPlan`), be written, and leave no slot without work. The run goes on with every such plan of the
bound. Escape may come at any await, the write of the plan included. The texts of prompts and reports are left out; the first
failure's text is a flag.

### Auto-validate

The command is one asynchronous function, so an action is what it does between two awaits that
last; Escape and failing saves fall between them. A gate is a model value; of the project the model
keeps which gates it satisfies, so a gate run is determined by both, apart from gates that time out.
A child may write its files before it fails: a triage that rewrites the gate and then fails, or that
empties the file, is not noticed by the repair detector. `hidden` remembers that this has happened;
`PassIsEarned`, `BuilderKnowsTheGate`, `OneRepair` and `EveryJudgeIsKept` hold without it. It is assumed that the builder does not write the gate,
whose path it is not told, and that the validator writes nothing else (its prompt).

### Local model failover

One action is one command of a script; `pc[s]` is the command script `s` comes to. The scripts share
no lock, so any two may interleave; systemd runs one watchdog and one recovery at a time. `loaded` is
the drop-in as of the last `daemon-reload`, which is what a restart obeys. Time is counted in quarters
of a minute and passes when all scripts are idle or asleep: the only duration that matters is the age
of the unit against the trial of `recover`, to which notification and health request may add 21 s.
`torn` remembers a collision: then mode file, drop-in and unit may disagree for good, since the watchdog does
nothing about a stopped unit and `recover` does nothing in mode GPU. The notice says "Root-cause session required
before GPU restore", and the daily recovery restores the GPU and removes the notice by itself; the model
follows the script. The watchdog's timer unit is not in the repository; it is taken to fire again and again.
Left out: the CPU governor, the status page, the log and the reaping of stale benchmarks.

### Knowledge

One action is what a process does between two accesses to the database or to the lessons' file. `run_once` looks at no status, so it
may run a task that has succeeded, is at its cap, or is under way in the worker; a human may retry one, the breaker or a cancel may stop it, and the executor
or a statement may raise at any step. `count` is the number of attempts a run goes on from, `twice` remembers tasks two processes were at, `again` those
run again after their success. The worker and
`run_once` each build the index of fixes from the tables and their copy of the lessons when an attempt of theirs first fails,
and never again; each rewrites the file from its copy through the one temporary name. The worker gives the distiller no model, so a
lesson is always found. The breaker is any decision to stop, which admits more runs than the code; a cancelled task in the queue is one no process takes. `shared` remembers
that two processes held a copy at a time: then a lesson can be lost, which the property excludes and nothing in the code prevents.

### Invoice sync

`pc[r]` is the transaction run `r` has behind it. Square changes while a run fetches, an answer may be truncated (pages that
end early), a run may fail or die between any two steps. Any run may be refused the lock file and go on without it (`StartUnlocked`); from then on
`unlocked` holds and the properties claim nothing. `gap` is what a death between the rows and the events leaves behind. Of an
invoice the model keeps status, amount paid, terms (the other fields `invoice.changed` compares) and the date of the event, which `upsert` drops (`Stored`): a dated
invoice is announced as changed in every run. Such a repetition is marked on the event it repeats (`again`) and not appended, so that the bus stays finite; `ChainUnbroken` says
that no other event is repeated. An amount that grows while nothing less is due differs in none of the fields compared, so the bus may tell of less money than is stored (`Agrees`).
Invoices may disappear from Square's answer; their rows stay, and a list that is truly shorter than half is refused for ever, which `Converges` excepts.

### Print path

Order ingest works from the rows it selected (`snap`), the checklist from the sheets it computed (`made`), a self-heal from the
list of files it globbed (`left`) and the one lp has accepted but that is not yet moved (`moving`). The order file is opened
before the answer is read, so a death leaves it `Torn`, and it is never fetched again. `lp` and `mv` are two steps, and
so are lp's refusal (`refused`), the opening of the spool's file, which is `Broken` until it is filled, and its filling (`copying`). A checklist that dies before the copy is
done has lost the sheet, and so has one whose file a self-heal moves as its own: `lost` remembers the days, and `RefusedSheetWaits` excepts them. The timer's self-heal and the one the checklist calls share the spool. `past` remembers the rows an invoice has had: content the bus has once
carried is not posted again.

### Alarm watcher

Messages are positions in the topic; the time of one is its second, which it may share with the next. The newest alarm is the first recorded of those of the
latest second, as `max()` takes it. The state file is written after each clear with the cursor of the batch before, and after each
batch; `SaveAck`, `EndBatch` and `Die` are apart, and a death may tear the file. `astray` names what has happened that a property must
except: a death inside a batch (replies read again), a warm-up that passed messages over, a refused clear, an identity raised again.

### Sprint tracker

The service handles one request at a time (`_DB_LOCK`), so a request is one action of `Service`; what a person does in a browser is another,
and the answer that reaches it a third. A rearranged board is shown at once and sent without waiting; any other request is followed by a load. Requests and
answers travel in a set and may overtake each other or be lost. Of a card the model keeps column and position; forms, names and priorities are left out. `ORDER BY position, id` is
the order of ranks: the rank of a row is how many rows come before it.

## Runs

| run | bounds | why they are enough |
|---|---|---|
| `breaker` | 3 codes, 2 errors, thresholds 2/2/2 | two full cycles to the hard stop, at most 8 attempts; all interleavings of repeated code, repeated error and no error |
| `scheduler` | 1 task, 1 handler, ceiling 3, 1 crash, 1 retry, 2 error classes | a crash after the third attempt buys a fourth, which is the second freeze; crash before and after the retry; one error class is the silent failure |
| `scheduler_queue` | 3 tasks, session limit 2, 1 attempt, 1 crash, no handlers | a third task meets the limit; the crash opens a second session |
| `collab` | 2 slots, 3 tasks, 3 attempts at a plan | one task queued behind a slot and a writer while another ends; chains, forks and joins of dependencies; a slot with two tasks |
| `lease` | 3 processes | holder, taker-over and third party |
| `failover` | shipped threshold and times, 1 manual command, 1 reboot | the three failures, two modes and a trial; servers that hang or exit; one more actor than the two timers, one cut |
| `auto_validate` | 3 gates, up to 3 validations, every escalation point | two triages in a run; designed gate, repair, and one more |
| `invoice_sync` | 2 invoices of two contents, the timer's run and one by hand, 3 changes in Square, 1 fault | a row that goes back and forth, one invoice missing or missing from a truncated answer, two runs that want the lock; `canceled` and `paid` are left to the theorems |
| `print_path` | 1 invoice, 2 days, 3 changes, 2 faults, both self-heals | an order that moves from a day to another and back; two refusals, or a refusal and a death |
| `ack_watcher` | 2 alarms, 5 messages, 2 faults | both alarms, a reply for each, and one more of either |
| `knowledge` | 2 tasks, 2 signatures, 2 attempts and 1 rerun, 1 fault, both processes; symmetry in tasks and signatures | fail, pass, and a run of what has passed; a fix learnt by one process while the other holds its index |
| `board` | 2 browsers, 3 requests, 1 lost message, 2 to 3 columns and cards; symmetry in browsers | two browsers in each other's way and one more request; a column deleted under a board on its way |

Fairness. `Scheduler!FairSpec`: weak fairness of the worker's steps, which the code justifies by
`GENERATION_TIMEOUT_S` and `VERIFY_TIMEOUT_S`, the polling loop and the supervisor that restarts the process; ending
the session is fair only when the task limit is reached (the wall clock owes nothing) and clients
owe nothing. `CollabScheduler!FairSpec`: the thread runs on, a child ends by `childTimeoutMs` at the
latest, a file write ends. `AutoValidate!FairSpec`: the same; gates end by `GATE_TIMEOUT_MS`.
`FailoverFairSpec`: timers fire, scripts end, time passes; hardware, administrator, and systemd with a server that has exited, owe nothing. `InvoiceSync`, `PrintPath`:
their systemd timers start the units again and again and each request, subprocess and transaction ends (all have timeouts); faults are bounded in number, so that
runs are in the end undisturbed, and Square, customers and the printer's probes owe nothing. `AckWatcher`: systemd restarts it, it polls every 20 s. `Knowledge` and
`Board` have no liveness property and no fairness. Deadlock checking is off where the program stops by itself (session
stopped, command over), or where the bounds on people, messages and faults are used up and nothing is left to do.

## Proofs

Every safety property of the runs is a theorem, for every value of the constants; so is the refinement of `TaskLifecycle`.
Each rests on an inductive invariant, which the runs confirmed before it was proved.

**Circuit breaker.** `BreakerInv` keeps a breaker well formed with its counters below the thresholds. For
`FreezesExactlyTheLoops` the definitions on the attempt list are first shown to depend on the part of the list before the
position they speak of (`TripsKept`, `StartsKept`), so that appending an attempt leaves the past as it was. `LoopInv` then
says of the cycle the next attempt belongs to: each code counter is the number of attempts of the cycle with that code,
the run of errors ends with the last attempt and cannot be made longer, and `freeze_cycles` is the number of freezes in the list.

**Scheduler.** Replaying a table of any length gives a well-formed breaker: `ReplayOf` is a
recursive function, and since an induction theorem with an operator parameter cannot be
instantiated here, `UpToInduction` argues by the least counterexample (`LeastNat`, from the
well-foundedness of `<`), `ReplayExists` that the recursive function exists, and `ReplaySound`
puts the two together. `TypeInv` adds to the types that the worker's session
exists and its task is set where the program point says so; `NoRunIsOrphaned` needs
nothing more: the worker is the only one that makes a task running, and each way it lets go of one
writes a verdict first or leaves the process down. `EarnedInv` counts claims: of a task claimed once, one run exists and its verdict
is about its last row; this holds for any number of processes. The rest is proved under `OneWorker` (`\A p, q \in Procs : p = q`), which the code
justifies by `server.py` starting one worker thread per database, and which the runs take too: two processes over one database do exceed
`AttemptCeiling`, because each recovers the task of the other and both append rows. `OwnInv` (a run under way owns its task, and what a handler has seen
was true when it saw it) gives `RefinesLifecycle` step by step. `CostInv` adds what a run has still to spend: each claim beyond
the first buys one attempt over the ceiling, and a cancel asked of a running task lets it finish the attempt in hand at most. `CycleInv` says that the breaker of the
run is `LiveOf` the attempts of the cycle, by `LiveAppend` (one attempt more is one thing more told) and, where a run begins with a replay, by `ReplayLives`:
replay and `LiveOf` agree unless `ReplayedOtherwise`.

**Factory.** For `/fh-collaborate`, `IInv` says where children may be at each await (`FlightInv`), what the harness and the child of a task
know of each other (`TaskInv`), and what a pass that launched nothing has looked at (`LoopInv`). That the loop leaves no task behind needs the plan to be without cycles: the
model, as `validateCollaborationPlan`, checks this by taking tasks away in waves, and `WavesReachAll` shows that a set of tasks closed under the waves is all of them, so while one waits one is ready.
The writer token is counted: `OneWriterAtATime` is a cardinality, kept by lemmas on entering and leaving the set of writers. The lease strengthens mutual exclusion by what each program
point knows about the file: a process past `openSync` has its own file on disk unless overlap.
For the sprint tracker the ranks of n rows are shown to be an injection into `0..n-1`, hence onto, so that `Sorted` lists every row once, in order, and is the only such list (`SortedUnique`). What a person may do to a board
regroups it (`Regrouped`: same columns, same cards, other lists); storing a regrouping and reading it back gives it again (`ReorderedBoard`). `SureInv` says of a browser nobody has crossed that it has one
request under way at most, and that this carries what the screen shows or the database holds.

**Auto-validate.** The invariant says which gate is on disk, in the script and in the builder's
session at each program point, and what became of the gates that have judged; that two gates at most
judge a run follows because all of them but the one in force are archived and one at most is.

**Knowledge.** `TaskInv` says that a task two processes are at, or one that runs again after its success, is on record (`twice`, `again`), `VerdictInv` that any other
that has succeeded ends with the attempt that passed, `StepInv` what a process has in hand at each step: the guidance it stores is about the outcome
it stores with it. `KnownInv` and `GuidanceInv` keep for every fix, in an index or in a prompt, the attempt that passed and the error met before it; tables only grow. `LessonsInv`: the only copy around holds all that the file does.

**Alarms, invoices, print path, failover.** `InvoiceSyncProofs` shows first that, while nobody has gone on without the lock, at most one run is under way (`Alone`); then what
a run has compared with is still stored when it stores, and announced up to there when it announces (`Known`), and what it has
fetched is no older than what it replaces (`Ahead`). From this follow that the last event agrees with the row (`AgreesFacts`), that publishing keeps the chain joined (`PublishFacts`), and, the
chain having no gap, that between two deposits an event shows none.
`AckWatcherProofs` relates file and memory to the messages read so far: each recalls the alarms up to its cursor, unless something was passed over, and has
acknowledged what the replies up to there have cleared; a reply past the cursor has cleared nothing. A death between batches restores
such a state, one inside a batch does not, which is where the two properties make their exception.
`RefusedSheetsWait` needs to know that what a self-heal is about to move has been accepted by lp, unless the checklist has put another sheet there since, and that a sheet refused and not yet copied is the one owed (`SpoolInv`). The failover proofs
say of each stage of a script what the files and the unit are, given that nobody else is under way, and of the
trial that age and time left never exceed it; the watchdog looks only at units older than that, and a pass that had looked before the recovery restarted the unit makes it `torn`.

Assumptions: those named in the modules (`BreakerAssumption`, `SchedulerAssumption`, `LeaseAssumption`, `PlanAssumption`, `NoPlanAssumption`,
`ValidateAssumption`, `FailoverAssumption`: among them that the trial is shorter than the grace, `InvoiceSyncAssumption`, `PrintPathAssumption`,
`AckWatcherAssumption`, `KnowledgeAssumption`, `NoneAssumption`, `BoardAssumption`) and `OneWorker` where a theorem states it, nothing else. TLC evaluates them in the runs.
Theorems of types, of `HardStopIsFinal`, `LockBacked`, `DownOnlyFromCpu`, `NothingStartsAfterEscape` and `StopIsReported` have no run: what they say was model-checked
before it was proved, and the theorem says it of every instance.

Only model-checked: liveness (`EveryTaskSettles`, `CommandEnds`, `DegradesToCpu`, `RestoresGpu`, `NewestIsCaptured`, `Converges`, `PaperFollowsBus`,
`SpoolDrains`, `FallsSilent`), because fairness and ENABLED are beyond the prover, and by what steps a recursive definition computes its value.

## Divergences

What the models showed of the code that a document or comment says otherwise, or that its reader would not expect. The properties state their exceptions openly
(`raced`, `overlap`, `hidden`, `gap`, `astray`, `torn`, `exited`, `lost`, `twice`, `again`, `shared`, `unsure`, ...), so that each holds of the code as it is.

- "Replay reconstructs the EXACT pre-crash breaker state" (`worker.py:25`): a failing check without output counts as an error for the live breaker and as
  none when replayed (`worker.py:316`), and a pass stored before a crash is recorded by the live breaker (`:314`) and skipped by the replay (`:235`).
- `run_once` looks at no status and takes no lock (`worker.py:361`): it may run a task that has succeeded, or one the worker is at. The index of fixes then reads
  attempts after the success too (`error_distill.py:116`), though its docstring says "every failure it logged before the success".
- A crash after a human retry clears `fresh`, and the attempts before the retry come back (`db.py:300`).
- Between open and write the lock file is empty: two processes that acquire together may both hold the lease (`writer-lease.ts:60`).
- A rejected save ends `/fh-collaborate` and releases the lease while children still run (`cmd-build.ts:226`).
- A triage that rewrites the gate and then fails leaves a gate the repair detector does not see (`cmd-build.ts:622`).
- The worker's distiller has no model and does not look at `DISTILL_LESSONS_PATH`; the controller's comment asks for "a stall signal" its condition does not (`controller.py:137`).
- "Emit ONLY on genuine transitions" (`square_invoice_sync.py:269`): `upsert` stores no `event_date` though the comparison looks at it (`:325`), so an
  invoice with a date is announced as changed in every run. `refresh_deposit_table` does not use `min_expected` (`:341`).
- A list of invoices that is truly shorter than half of the last one is refused for ever (`square_invoice_sync.py:444`): the refused run does not become the last good one.
- Of two alarms in one second a reply clears the older, which `max()` finds first (`ntfy-ack-watcher.py:160`, `:171`).
- A server that exits is never counted: the watchdog leaves at a unit that is not active (`llama-watchdog.sh:10`) or that is young (`:14`), so the CPU is not
  reached; nor does `recover` start it in mode GPU. A pass that has looked before a recovery restarts the unit may still act during its trial.
- A checklist that dies between lp's refusal and the end of the copy has lost the sheet (`checklist_app.py:207`, `:212`).
- An order that is withdrawn keeps its last event, and its sheet is printed on (`checklist_app.py:56`).
- Self-heal says it only touches what it has just probed OK (`printer-selfheal.sh:25`); a printer that stays down falls through to the repairs (`:137`).
- Deleting a column: the page says its cards move to the first column (`kanban.html`), the service moves them to the oldest (`service.py:395`), and
  deleting the oldest while it has cards is answered with an error.
- `step()` leaves the card's `column_id` as it was (`kanban.html:307`): saving its form unchanged moves the card back.

## Not modelled

The architecture page and its scanner, dashboards, emergency pages, exporters, index, documents and conversion tools read and render, and keep nothing between
two calls. Camera quality control is image arithmetic on frames the models would have to invent; its patrol is one loop that steps aside while a lock file exists. The door
watch has no state, and `adb_watchdog.py` is one timer job whose streaks are in a file it replaces in one step. The kitchen board rewrites its files in request threads without a lock, and makes no promise that
could be kept about concurrent writers. The catalogue sync replaces rows by key in one transaction. `/fh-fusion`, `/fh-team` and the read-only
commands fan out children and collect their answers; they take the same lease and child runner as the two commands modelled. Under
`fusion-harness/live_final_generation` and `tools/n100-household` are outputs and an older copy of the invoice sync.

## Plan

1. `ChildRunner`: SIGTERM, grace, SIGKILL, close and timeout of one child as the detailed form of the child steps of
   `AutoValidate` and `CollabScheduler`, proved to implement them; the fan-out commands over it (`cmd-fusion.ts`, `cmd-team.ts`).
2. `InvoiceSync` and `PrintPath` composed, the rows of the one being those of the other; the deposit table as the trigger.
3. Several workers over one database: the weaker bounds on attempts and cancels that do hold without `OneWorker`, checked and proved.
4. Tablet watchdog and alarms composed: streaks, re-alarms and acknowledgements.
