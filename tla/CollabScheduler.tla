---------------------------- MODULE CollabScheduler ----------------------------
(***************************************************************************)
(* /fh-collaborate (modules/cmd-build.ts): every slot proposes how to do    *)
(* the work (phase 1), the architect merges the proposals into a plan       *)
(* (phase 2), the harness executes it with one child process per running    *)
(* task, the tasks of a slot one at a time and the write-enabled children    *)
(* one at a time (phase 3), and the architect integrates (phase 4).         *)
(*                                                                         *)
(* The code is one JavaScript thread: what it does between two awaits is    *)
(* one step, except that a pass over the plan is taken task by task (pass   *)
(* counts them) with nothing else enabled. The awaits are the children's    *)
(* ends, the saves of what they wrote, the race of the running tasks and    *)
(* the drain. The plans of the model all have NumTasks tasks.               *)
(***************************************************************************)
EXTENDS CollaborationPlan

CONSTANT NoPlan
ASSUME NoPlanAssumption == NoPlan \notin [Tasks -> PlanTask]

VARIABLES
  proposal, \* per slot: its planner waits, runs, is being saved, or is over
  planned,  \* slots whose proposal is ok
  merges,   \* the architect's attempts at a plan
  plan,
  taskState, busySlots, inFlight, activeWriters, executionFailure,
  phase,    \* the await the command is in, or "pass" while it launches tasks
  pass,     \* the task the pass is about to consider
  child,    \* per task: no child yet, running, report being saved, over
  ok,       \* the outcome executeTask computed when its child ended
  stopped,  \* Escape was pressed
  lease,    \* this command holds the writer lease
  thrown    \* a failed save rejected Promise.race: the command is unwinding

planning == <<proposal, planned, merges>>
vars == <<planning, plan, taskState, busySlots, inFlight, activeWriters, executionFailure,
          phase, pass, child, ok, stopped, lease, thrown>>

control == <<executionFailure, stopped, lease, thrown>>

Writes(t) == plan[t].mode = "write"

execution == <<taskState, busySlots, inFlight, activeWriters, executionFailure,
               pass, child, ok>>

Init ==
  /\ proposal = [s \in Slots |-> "none"] /\ planned = {} /\ merges = 0
  /\ plan = NoPlan
  /\ taskState = [t \in Tasks |-> "blocked"]
  /\ busySlots = {} /\ inFlight = {}
  /\ activeWriters = 0
  /\ executionFailure = FALSE
  /\ phase = "begin" /\ pass = 1
  /\ child = [t \in Tasks |-> "none"]
  /\ ok = [t \in Tasks |-> FALSE]
  /\ stopped = FALSE /\ lease = FALSE /\ thrown = FALSE

-------------------------------------------------------------------------------
(* Phase 1: every slot plans.                                               *)

\* The proposals directory is made and the planners start, or that fails.
Propose ==
  /\ phase = "begin"
  /\ \/ /\ phase' = "propose"
        /\ proposal' = [s \in Slots |-> "running"]
        /\ UNCHANGED thrown
     \/ phase' = "unwind" /\ thrown' = TRUE /\ UNCHANGED proposal
  /\ UNCHANGED <<planned, merges, plan, execution, stopped, lease>>

ProposalEnds(s) ==
  /\ phase # "pass" /\ proposal[s] = "running"
  /\ proposal' = [proposal EXCEPT ![s] = "saving"]
  /\ \/ ~stopped /\ planned' = planned \cup {s}
     \/ UNCHANGED planned
  /\ UNCHANGED <<merges, plan, execution, phase, stopped, lease, thrown>>

\* The last proposal that is saved ends Promise.all.
ProposalSaved(s) ==
  /\ phase # "pass" /\ proposal[s] = "saving"
  /\ proposal' = [proposal EXCEPT ![s] = "over"]
  /\ IF phase = "propose" /\ \A r \in Slots \ {s} : proposal[r] = "over"
     THEN IF stopped \/ Cardinality(planned) < 2
          THEN phase' = "unwind" /\ UNCHANGED merges
          ELSE phase' = "merge" /\ merges' = 1
     ELSE UNCHANGED <<phase, merges>>
  /\ UNCHANGED <<planned, plan, execution, stopped, lease, thrown>>

\* Promise.all is rejected; the other planners are left to themselves.
ProposalSaveFails(s) ==
  /\ phase # "pass" /\ proposal[s] = "saving"
  /\ proposal' = [proposal EXCEPT ![s] = "over"]
  /\ IF phase = "propose" THEN phase' = "unwind" /\ thrown' = TRUE
     ELSE UNCHANGED <<phase, thrown>>
  /\ UNCHANGED <<planned, merges, plan, execution, stopped, lease>>

Proposal(s) == ProposalEnds(s) \/ ProposalSaved(s) \/ ProposalSaveFails(s)

-------------------------------------------------------------------------------
(* Phase 2: the architect merges, in three attempts at most.                *)

MergeAgain ==
  /\ plan' = NoPlan
  /\ IF merges < 3 THEN phase' = "merge" /\ merges' = merges + 1
     ELSE phase' = "unwind" /\ UNCHANGED merges

\* The architect's child ends. Its answer is a plan that passes
\* validateCollaborationPlan and is being written, or it is asked again.
MergeEnds ==
  /\ phase = "merge"
  /\ IF stopped THEN phase' = "unwind" /\ UNCHANGED <<planning, plan, merges>>
     ELSE \/ MergeAgain
          \/ /\ phase' = "write" /\ UNCHANGED merges
             /\ plan' \in {pl \in [Tasks -> PlanTask] : ValidPlan(pl)}
  /\ UNCHANGED <<proposal, planned, execution, stopped, lease, thrown>>

\* The plan is written; one that cannot be, or that leaves a slot without work, is
\* asked for again. The lease is taken, or refused because another command has it.
PlanWritten ==
  /\ phase = "write"
  /\ \/ MergeAgain /\ UNCHANGED lease
     \/ /\ EverySlotWorks(plan)
        /\ \/ phase' = "start" /\ lease' = TRUE
           \/ phase' = "unwind" /\ UNCHANGED lease
        /\ UNCHANGED <<planning, plan, merges>>
  /\ UNCHANGED <<proposal, planned, execution, stopped, thrown>>

-------------------------------------------------------------------------------
(* The loop of phase 3.                                                     *)

\* while (!stopper.stopped()): a new pass, none after a failure, or the drain.
LoopHead(inFlightNow, failure) ==
  /\ pass' = 1
  /\ phase' = IF stopped THEN "drain"
              ELSE IF ~failure THEN "pass"
              ELSE IF inFlightNow = {} THEN "drain" ELSE "race"

\* The reports directory is made, or that fails and the command unwinds.
Begin ==
  /\ phase = "start"
  /\ \/ LoopHead(inFlight, executionFailure) /\ UNCHANGED thrown
     \/ phase' = "unwind" /\ thrown' = TRUE /\ UNCHANGED pass
  /\ UNCHANGED <<planning, plan, taskState, busySlots, inFlight, activeWriters,
                 executionFailure, child, ok, stopped, lease>>

Waiting(t) == taskState[t] \in {"blocked", "queued"}

DepsDone(t) == \A d \in plan[t].depends_on : taskState[d] = "done"

\* Mutant of MustQueue: the writer token is not asked for.
MustQueueForSlot(t) == plan[t].assignee \in busySlots

MustQueue(t) ==
  \/ plan[t].assignee \in busySlots
  \/ Writes(t) /\ activeWriters > 0

PassOver(t) ==
  /\ phase = "pass" /\ pass = t
  /\ ~(Waiting(t) /\ DepsDone(t))
  /\ pass' = pass + 1
  /\ UNCHANGED <<planning, plan, taskState, busySlots, inFlight, activeWriters, phase, child,
                 ok, control>>

Queue(t) ==
  /\ phase = "pass" /\ pass = t
  /\ Waiting(t) /\ DepsDone(t) /\ MustQueue(t)
  /\ taskState' = [taskState EXCEPT ![t] = "queued"]
  /\ pass' = pass + 1
  /\ UNCHANGED <<planning, plan, busySlots, inFlight, activeWriters, phase, child, ok, control>>

\* executeTask up to its first await.
Launch(t) ==
  /\ phase = "pass" /\ pass = t
  /\ Waiting(t) /\ DepsDone(t) /\ ~MustQueue(t)
  /\ busySlots' = busySlots \cup {plan[t].assignee}
  /\ taskState' = [taskState EXCEPT ![t] = IF Writes(t) THEN "writing" ELSE "reading"]
  /\ inFlight' = inFlight \cup {t}
  /\ activeWriters' = activeWriters + (IF Writes(t) THEN 1 ELSE 0)
  /\ child' = [child EXCEPT ![t] = "running"]
  /\ pass' = pass + 1
  /\ UNCHANGED <<planning, plan, phase, ok, control>>

\* Mutant of EndPass: the race of no tasks is awaited.
EndPassWithoutBreak ==
  /\ phase = "pass" /\ pass = NumTasks + 1
  /\ phase' = "race"
  /\ UNCHANGED <<planning, plan, taskState, busySlots, inFlight, activeWriters, pass, child,
                 ok, control>>

EndPass ==
  /\ phase = "pass" /\ pass = NumTasks + 1
  /\ phase' = IF inFlight = {} THEN "drain" ELSE "race"
  /\ UNCHANGED <<planning, plan, taskState, busySlots, inFlight, activeWriters, pass, child,
                 ok, control>>

-------------------------------------------------------------------------------
(* executeTask after its awaits.                                            *)

\* The child process ended by itself, by its timeout or by the stop.
ChildEnds(t) ==
  /\ phase # "pass"
  /\ child[t] = "running"
  /\ child' = [child EXCEPT ![t] = "saving"]
  /\ activeWriters' = activeWriters - (IF Writes(t) THEN 1 ELSE 0)
  /\ \E succeeded \in BOOLEAN : ok' = [ok EXCEPT ![t] = succeeded /\ ~stopped]
  /\ UNCHANGED <<planning, plan, taskState, busySlots, inFlight, phase, pass, control>>

\* running's finally clause.
Leave(t) ==
  /\ busySlots' = busySlots \ {plan[t].assignee}
  /\ inFlight' = inFlight \ {t}
  /\ child' = [child EXCEPT ![t] = "over"]

\* The report is on disk; if the command waits in Promise.race it goes on.
Saved(t) ==
  /\ phase # "pass"
  /\ child[t] = "saving"
  /\ Leave(t)
  /\ taskState' = [taskState EXCEPT ![t] = IF ok[t] THEN "done" ELSE "failed"]
  /\ executionFailure' = (executionFailure \/ (~stopped /\ ~ok[t]))
  /\ IF phase = "race" THEN LoopHead(inFlight \ {t}, executionFailure')
     ELSE UNCHANGED <<phase, pass>>
  /\ UNCHANGED <<planning, plan, activeWriters, ok, stopped, lease, thrown>>

\* The save is rejected: so is the race, and the command unwinds; in the drain
\* Promise.allSettled takes the rejection. The task keeps its state.
SaveFails(t) ==
  /\ phase # "pass"
  /\ child[t] = "saving"
  /\ Leave(t)
  /\ IF phase = "race" THEN phase' = "unwind" /\ thrown' = TRUE
     ELSE UNCHANGED <<phase, thrown>>
  /\ UNCHANGED <<planning, plan, taskState, activeWriters, executionFailure, pass, ok, stopped,
                 lease>>

-------------------------------------------------------------------------------
(* After the loop.                                                          *)

\* Mutant of Drained: the running tasks are not waited for.
DrainedAtOnce ==
  /\ phase = "drain"
  /\ IF stopped \/ executionFailure
     THEN phase' = "unwind" /\ UNCHANGED activeWriters
     ELSE phase' = "final" /\ activeWriters' = activeWriters + 1
  /\ UNCHANGED <<planning, plan, taskState, busySlots, inFlight, pass, child, ok, control>>

\* Promise.allSettled: return when stopped or failed, else the architect's turn.
Drained ==
  /\ phase = "drain" /\ inFlight = {}
  /\ IF stopped \/ executionFailure
     THEN phase' = "unwind" /\ UNCHANGED activeWriters
     ELSE phase' = "final" /\ activeWriters' = activeWriters + 1
  /\ UNCHANGED <<planning, plan, taskState, busySlots, inFlight, pass, child, ok, control>>

FinalEnds ==
  /\ phase = "final"
  /\ activeWriters' = activeWriters - 1
  /\ phase' = "unwind"
  /\ UNCHANGED <<planning, plan, taskState, busySlots, inFlight, pass, child, ok, control>>

\* finally: the summary is written and the lease released.
Release ==
  /\ phase = "unwind"
  /\ lease' = FALSE
  /\ phase' = "over"
  /\ UNCHANGED <<planning, plan, taskState, busySlots, inFlight, activeWriters,
                 executionFailure, pass, child, ok, stopped, thrown>>

\* Escape, or the end of the session, before the stopper is released.
Stop ==
  /\ phase \notin {"pass", "over"} /\ ~stopped
  /\ stopped' = TRUE
  /\ UNCHANGED <<planning, plan, taskState, busySlots, inFlight, activeWriters,
                 executionFailure, phase, pass, child, ok, lease, thrown>>

-------------------------------------------------------------------------------
Command ==
  \/ Propose \/ MergeEnds \/ PlanWritten
  \/ Begin \/ EndPass \/ Drained \/ FinalEnds \/ Release

Step(t) ==
  PassOver(t) \/ Queue(t) \/ Launch(t) \/ ChildEnds(t) \/ Saved(t) \/ SaveFails(t)

Next == Command \/ Stop \/ (\E s \in Slots : Proposal(s)) \/ \E t \in Tasks : Step(t)

Spec == Init /\ [][Next]_vars

\* The thread runs on, a child ends by its timeout at the latest, and a save ends.
FairSpec ==
  /\ Spec /\ WF_vars(Command)
  /\ \A s \in Slots : WF_vars(Proposal(s))
  /\ \A t \in Tasks : WF_vars(Step(t))

-------------------------------------------------------------------------------
Planners  == {s \in Slots : proposal[s] \in {"running", "saving"}}
Children  == {t \in Tasks : child[t] \in {"running", "saving"}}
Writers   == {t \in Tasks : child[t] = "running" /\ Writes(t)}
Finalists == IF phase = "final" THEN 1 ELSE 0

\* Every reachable value has its declared shape.
TypeOK ==
  /\ proposal \in [Slots -> {"none", "running", "saving", "over"}]
  /\ planned \subseteq Slots /\ merges \in 0..3
  /\ plan \in [Tasks -> PlanTask] \cup {NoPlan}
  /\ taskState \in
       [Tasks -> {"blocked", "queued", "reading", "writing", "done", "failed"}]
  /\ busySlots \subseteq Slots /\ inFlight \subseteq Tasks
  /\ activeWriters \in Nat
  /\ executionFailure \in BOOLEAN
  /\ phase \in {"begin", "propose", "merge", "write", "start", "pass", "race", "drain",
               "final", "unwind", "over"}
  /\ pass \in 1..NumTasks + 1
  /\ child \in [Tasks -> {"none", "running", "saving", "over"}]
  /\ ok \in [Tasks -> BOOLEAN]
  /\ stopped \in BOOLEAN /\ lease \in BOOLEAN /\ thrown \in BOOLEAN

\* "Exactly one shared-CWD writer at a time": within the command at most one
\* write-enabled child runs, the architect's final turn included, and
\* activeWriters, which the launch decision reads, counts exactly these.
OneWriterAtATime ==
  /\ activeWriters = Cardinality(Writers) + Finalists
  /\ activeWriters <= 1

\* The architect integrates only when every task of the plan is done and every
\* slot has done one: the loop never gives up while a task could still be
\* launched, whatever plan two good proposals and three attempts have led to.
FinalHasEverything ==
  phase = "final" =>
    /\ \A t \in Tasks : taskState[t] = "done"
    /\ \A s \in Slots : \E t \in Tasks : ok[t] /\ plan[t].assignee = s
    /\ Cardinality(planned) > 1

\* The command returns only after all its children, planners and executors alike,
\* whenever it is stopped, except when the save of what one wrote was rejected.
ChildrenReaped ==
  phase \in {"unwind", "over"} /\ ~thrown => Children = {} /\ Planners = {}

\* The command ends and gives the lease back.
CommandEnds == <>(phase = "over" /\ ~lease)

===============================================================================
