------------------------------ MODULE AutoValidate ------------------------------
(***************************************************************************)
(* /fh-auto-validate (cmd-build.ts): the VALIDATOR writes an acceptance gate *)
(* to disk, the BUILDER works, the gate on disk judges the project; from the *)
(* escalateAt-th failure on the validator diagnoses, and may repair the gate *)
(* once. Escape may come at any time.                                        *)
(*                                                                         *)
(* The command is one asynchronous function; an action is what it does       *)
(* between two awaits that last. A gate is a model value, and of the project *)
(* it is kept which gates it satisfies. The header that is added to a gate   *)
(* without one changes no check and is left out.                             *)
(***************************************************************************)
EXTENDS Integers, FiniteSets

CONSTANTS
  Gates,            \* the gates the validator can think of
  NoGate, Blank,    \* no script; an empty file
  MaxValidations    \* bound of the model: --max-validations

ASSUME ValidateAssumption ==
  /\ NoGate \notin Gates /\ Blank \notin Gates /\ NoGate # Blank
  /\ MaxValidations \in Nat \ {0}

VARIABLES
  maxV, escalateAt,   \* the two options of this call
  pc, round, lease, outcome,
  running,     \* the child that is running, or "none"
  result,      \* how the last child ended
  code,        \* how the last gate run ended
  disk,        \* gate.py
  script,      \* the command's copy: the gate in force
  before,      \* the snapshot taken before a triage
  told,        \* the gate in the builder's session
  update,      \* pendingGateUpdate: the builder is to be told
  repairUsed,
  archived,    \* the gates saved as gate.py.r<round>
  work,        \* the gates the project satisfies
  stopped,     \* escape was pressed
  judges,      \* history: the gates that have judged the project
  hidden       \* history: a triage changed the gate unnoticed

options == <<maxV, escalateAt>>
gate    == <<disk, script, before, told, update, repairUsed, archived>>
history == <<judges, hidden>>
vars == <<options, pc, round, lease, outcome, running, result, code, gate, work,
          stopped, history>>

Verdicts == {"pass", "halted", "builderFailed", "noGate", "gateError", "refused",
             "stopped", "thrown"}
Turns    == {"design", "build", "triage"}
GateRuns == {"baseline", "gate", "rerun"}

Init ==
  /\ maxV \in 1..MaxValidations /\ escalateAt \in 1..MaxValidations
  /\ pc = "lease" /\ round = 0 /\ lease = FALSE /\ outcome = "none"
  /\ running = "none" /\ result = "none" /\ code = "none"
  /\ disk = NoGate /\ script = NoGate /\ before = NoGate /\ told = NoGate
  /\ update = FALSE /\ repairUsed = FALSE /\ archived = {}
  /\ work \in SUBSET Gates
  /\ stopped = FALSE
  /\ judges = {} /\ hidden = FALSE

End(o) == pc' = "finally" /\ outcome' = o

\* acquireWriterLease: a lease held by another session refuses the command.
Acquire ==
  /\ pc = "lease"
  /\ \/ lease' = TRUE /\ pc' = "design" /\ UNCHANGED outcome
     \/ End("refused") /\ UNCHANGED lease
  /\ UNCHANGED <<options, round, running, result, code, gate, work, stopped, history>>

-------------------------------------------------------------------------------
(* A turn of a child (runChild). After escape nothing is started, and a child *)
(* that runs is killed.                                                      *)

Agent == IF pc = "build" THEN "builder" ELSE "validator"

\* The prompt of round 1, and of the round after a repair, carries the gate.
Spawn ==
  /\ pc \in Turns /\ running = "none" /\ result = "none"
  /\ update' = (update /\ pc # "build")
  /\ IF stopped
     THEN result' = "aborted" /\ UNCHANGED <<running, told>>
     ELSE /\ running' = Agent
          /\ told' = IF pc = "build" /\ (round = 1 \/ update) THEN script ELSE told
          /\ UNCHANGED result
  /\ UNCHANGED <<options, pc, round, lease, outcome, code, disk, script, before,
                 repairUsed, archived, work, stopped, history>>

BuilderWorks ==
  /\ running = "builder"
  /\ work' \in SUBSET Gates
  /\ UNCHANGED <<options, pc, round, lease, outcome, running, result, code, gate, stopped,
                 history>>

\* The validator holds the write tool in its design turn and, until the repair
\* is used, in triage.
ValidatorWrites ==
  /\ running = "validator"
  /\ pc = "design" \/ ~repairUsed
  /\ disk' \in Gates \cup {Blank}
  /\ UNCHANGED <<options, pc, round, lease, outcome, running, result, code, script, before,
                 told, update, repairUsed, archived, work, stopped, history>>

\* It exits, fails or is killed by its timeout, or by escape.
ChildEnds ==
  /\ running # "none"
  /\ running' = "none"
  /\ IF stopped THEN result' = "aborted" ELSE result' \in {"ok", "failed"}
  /\ UNCHANGED <<options, pc, round, lease, outcome, code, gate, work, stopped, history>>

Ended(turn) == pc = turn /\ result # "none"

\* The gate on disk judges the project (runProc): an empty script exits with 0;
\* a gate that times out or cannot be started is an error.
RunGate ==
  /\ pc \in GateRuns /\ code = "none"
  /\ IF stopped THEN code' = "stopped" /\ UNCHANGED judges
     ELSE /\ \/ code' = IF disk \in work \cup {Blank} THEN "pass" ELSE "fail"
             \/ code' = "error"
          /\ judges' = judges \cup {disk}
  /\ UNCHANGED <<options, pc, round, lease, outcome, running, result, gate, work, stopped,
                 hidden>>

Judged(run) == pc = run /\ code # "none"

Clear == result' = "none" /\ code' = "none"

-------------------------------------------------------------------------------
(* What the command does when a turn or a gate run is over. Each begins by   *)
(* saving a file, which may fail: the command is left by the exception.      *)

SaveFails ==
  /\ (\E turn \in Turns : Ended(turn)) \/ (\E run \in GateRuns : Judged(run))
  /\ Clear
  /\ End("thrown")
  /\ UNCHANGED <<options, round, lease, running, gate, work, stopped, history>>

Designed == result = "ok" /\ disk \in Gates

\* The file the validator wrote, or the script in its reply; the file is made
\* to be the script.
AfterDesign ==
  /\ Ended("design")
  /\ Clear
  /\ script' \in IF Designed THEN {disk}
                 ELSE IF result = "ok" THEN Gates \cup {NoGate} ELSE {NoGate}
  /\ IF stopped THEN End("stopped") /\ UNCHANGED disk
     ELSE IF script' = NoGate THEN End("noGate") /\ UNCHANGED disk
     ELSE disk' = script' /\ pc' = "baseline" /\ UNCHANGED outcome
  /\ UNCHANGED <<options, round, lease, running, before, told, update, repairUsed, archived,
                 work, stopped, history>>

\* A gate that passes at once is warned about and built against all the same.
AfterBaseline ==
  /\ Judged("baseline")
  /\ Clear
  /\ IF stopped THEN End("stopped") /\ UNCHANGED round
     ELSE IF code = "error" THEN End("gateError") /\ UNCHANGED round
     ELSE pc' = "build" /\ round' = 1 /\ UNCHANGED outcome
  /\ UNCHANGED <<options, lease, running, gate, work, stopped, history>>

AfterBuild ==
  /\ Ended("build")
  /\ Clear
  /\ IF stopped THEN End("stopped")
     ELSE IF result # "ok" THEN End("builderFailed")
     ELSE pc' = "gate" /\ UNCHANGED outcome
  /\ UNCHANGED <<options, round, lease, running, gate, work, stopped, history>>

NextRound == pc' = "build" /\ round' = round + 1 /\ UNCHANGED outcome

\* What a gate run decides by itself; "none": the gate has failed.
Ruling ==
  IF stopped THEN "stopped"
  ELSE IF code = "error" THEN "gateError"
  ELSE IF code = "pass" THEN "pass" ELSE "none"

GateVerdict ==
  /\ Judged("gate")
  /\ Clear
  /\ \/ Ruling # "none" /\ End(Ruling) /\ UNCHANGED <<round, before>>
     \/ Ruling = "none" /\ round = maxV /\ End("halted") /\ UNCHANGED <<round, before>>
     \/ Ruling = "none" /\ round < maxV /\ round < escalateAt /\ NextRound /\ UNCHANGED before
     \/ /\ Ruling = "none" /\ round < maxV /\ round >= escalateAt
        /\ pc' = "triage" /\ before' = disk
        /\ UNCHANGED <<round, outcome>>
  /\ UNCHANGED <<options, lease, running, disk, script, told, update, repairUsed, archived,
                 work, stopped, history>>

Repaired == result = "ok" /\ ~repairUsed /\ disk \in Gates /\ disk # before

Unnoticed == ~Repaired /\ disk # before

\* Mutants of AfterTriage: the repair is not marked as used; the repaired gate
\* is archived in place of the old one; the builder is not told.
RepairUnmarked ==
  /\ Ended("triage")
  /\ Clear
  /\ hidden' = (hidden \/ Unnoticed)
  /\ IF Repaired
     THEN /\ archived' = archived \cup {before} /\ script' = disk
          /\ update' = TRUE /\ pc' = "rerun" /\ UNCHANGED <<round, outcome>>
     ELSE NextRound /\ UNCHANGED <<archived, script, update>>
  /\ UNCHANGED <<options, lease, running, disk, before, told, repairUsed, work, stopped, judges>>
ArchiveNew ==
  /\ Ended("triage")
  /\ Clear
  /\ hidden' = (hidden \/ Unnoticed)
  /\ IF Repaired
     THEN /\ repairUsed' = TRUE /\ archived' = archived \cup {disk} /\ script' = disk
          /\ update' = TRUE /\ pc' = "rerun" /\ UNCHANGED <<round, outcome>>
     ELSE NextRound /\ UNCHANGED <<repairUsed, archived, script, update>>
  /\ UNCHANGED <<options, lease, running, disk, before, told, work, stopped, judges>>
RepairUntold ==
  /\ Ended("triage")
  /\ Clear
  /\ hidden' = (hidden \/ Unnoticed)
  /\ IF Repaired
     THEN /\ repairUsed' = TRUE /\ archived' = archived \cup {before} /\ script' = disk
          /\ pc' = "rerun" /\ UNCHANGED <<round, outcome>>
     ELSE NextRound /\ UNCHANGED <<repairUsed, archived, script>>
  /\ UNCHANGED <<options, lease, running, disk, before, told, update, work, stopped, judges>>

\* A repair is a changed, nonempty gate after a triage that ended well; what a
\* failed triage has written is not looked at. Escape is not looked at here:
\* what comes next is not started.
AfterTriage ==
  /\ Ended("triage")
  /\ Clear
  /\ hidden' = (hidden \/ Unnoticed)
  /\ IF Repaired
     THEN /\ repairUsed' = TRUE /\ archived' = archived \cup {before} /\ script' = disk
          /\ update' = TRUE /\ pc' = "rerun" /\ UNCHANGED <<round, outcome>>
     ELSE NextRound /\ UNCHANGED <<repairUsed, archived, script, update>>
  /\ UNCHANGED <<options, lease, running, disk, before, told, work, stopped, judges>>

\* Mutants of RerunVerdict: a repaired gate is taken to be satisfied; it is run
\* until it passes.
RerunTrusted ==
  /\ Judged("rerun")
  /\ Clear
  /\ End(IF Ruling = "none" THEN "pass" ELSE Ruling)
  /\ UNCHANGED <<options, round, lease, running, gate, work, stopped, history>>
RerunAgain ==
  /\ Judged("rerun")
  /\ Clear
  /\ \/ Ruling # "none" /\ End(Ruling)
     \/ Ruling = "none" /\ pc' = "rerun" /\ UNCHANGED outcome
  /\ UNCHANGED <<options, round, lease, running, gate, work, stopped, history>>

\* The repaired gate judges at once, without a round of the builder.
RerunVerdict ==
  /\ Judged("rerun")
  /\ Clear
  /\ \/ Ruling # "none" /\ End(Ruling) /\ UNCHANGED round
     \/ Ruling = "none" /\ NextRound
  /\ UNCHANGED <<options, lease, running, gate, work, stopped, history>>

\* The summary is written, the lease released.
Finally ==
  /\ pc = "finally"
  /\ pc' = "done" /\ lease' = FALSE
  /\ UNCHANGED <<options, round, outcome, running, result, code, gate, work, stopped, history>>

Escape ==
  /\ ~stopped /\ pc \notin {"finally", "done"}
  /\ stopped' = TRUE
  /\ UNCHANGED <<options, pc, round, lease, outcome, running, result, code, gate, work, history>>

Done == pc = "done" /\ UNCHANGED vars

Continue ==
  \/ Acquire \/ Spawn \/ ChildEnds \/ RunGate
  \/ AfterDesign \/ AfterBaseline \/ AfterBuild \/ GateVerdict \/ AfterTriage \/ RerunVerdict
  \/ Finally

Next == Continue \/ SaveFails \/ BuilderWorks \/ ValidatorWrites \/ Escape \/ Done

\* Every await ends (children and gates have timeouts).
AwaitsEnd == WF_vars(Continue)

Spec     == Init /\ [][Next]_vars
FairSpec == Spec /\ AwaitsEnd

-------------------------------------------------------------------------------
\* Every reachable value has its declared shape; in particular no round beyond
\* the cap is begun, and no triage follows the last one.
TypeOK ==
  /\ maxV \in 1..MaxValidations /\ escalateAt \in 1..MaxValidations
  /\ pc \in {"lease", "finally", "done"} \cup Turns \cup GateRuns
  /\ round \in 0..maxV
  /\ lease \in BOOLEAN /\ outcome \in Verdicts \cup {"none"}
  /\ running \in {"builder", "validator", "none"}
  /\ result \in {"none", "ok", "failed", "aborted"}
  /\ code \in {"none", "pass", "fail", "error", "stopped"}
  /\ {disk, before} \subseteq Gates \cup {NoGate, Blank}
  /\ {script, told} \subseteq Gates \cup {NoGate}
  /\ update \in BOOLEAN /\ repairUsed \in BOOLEAN /\ archived \subseteq Gates \cup {NoGate, Blank}
  /\ work \subseteq Gates /\ stopped \in BOOLEAN
  /\ judges \subseteq Gates \cup {NoGate, Blank} /\ hidden \in BOOLEAN

\* A green end is earned: the project as it now stands satisfies the gate in
\* force, whatever was repaired, rerun or built since that gate was written.
PassIsEarned ==
  outcome = "pass" /\ ~hidden => script \in work

\* The builder never works against a stale gate: while it runs, the gate in its
\* session is the one on disk that will judge it, also after a repair.
BuilderKnowsTheGate ==
  running = "builder" /\ ~hidden => told = disk /\ disk = script

\* No moving goalposts: at most two gates ever judge a run, the designed one
\* and one repair of it, however many triages there are.
OneRepair ==
  ~hidden => Cardinality(judges) <= 2

\* The audit trail is complete: a gate that has judged and is no longer in force
\* is kept beside the gate.
EveryJudgeIsKept ==
  ~hidden => judges \subseteq archived \cup {script}

\* After escape no child is started.
NothingStartsAfterEscape ==
  [][stopped => running' \in {running, "none"}]_vars

\* A stop is never reported as somebody's failure, nor as a success.
StopIsReported ==
  [][outcome' # outcome /\ stopped => outcome' \in {"stopped", "refused", "thrown"}]_vars

\* The loop ends, with the lease released, however turns and gates end.
CommandEnds == <>(pc = "done" /\ ~lease)

================================================================================
