--------------------------- MODULE CollaborationPlan ---------------------------
(***************************************************************************)
(* collaboration-graph.ts: which delegation plans /fh-collaborate executes. *)
(* A plan gives each task its assignee (a slot), its mode and the tasks it  *)
(* depends on. The tasks are 1..NumTasks in plan order; identities, texts   *)
(* and outputs are left out.                                                *)
(***************************************************************************)
EXTENDS Integers, FiniteSets

CONSTANTS NumTasks, Slots

ASSUME PlanAssumption == NumTasks \in Nat \ {0} /\ Slots # {} /\ IsFiniteSet(Slots)

Tasks == 1..NumTasks

PlanTask == [assignee : Slots, mode : {"read", "write"}, depends_on : SUBSET Tasks]

\* The tasks completed after k waves: each wave takes every remaining task
\* whose dependencies were completed by the waves before it.
CompletedAfter(plan) ==
  LET completed[k \in 0..NumTasks] ==
        IF k = 0 THEN {}
        ELSE {t \in Tasks : plan[t].depends_on \subseteq completed[k - 1]}
  IN  completed

\* The waves end when none is left or an empty wave shows a cycle; there are at
\* most as many as tasks.
Acyclic(plan) == CompletedAfter(plan)[NumTasks] = Tasks

\* Mutant of ValidPlan: a cycle among other tasks is not looked for.
ValidPlanWithCycles(plan) == \A t \in Tasks : t \notin plan[t].depends_on

\* validateCollaborationPlan.
ValidPlan(plan) ==
  /\ \A t \in Tasks : t \notin plan[t].depends_on
  /\ Acyclic(plan)

\* The check after it: no slot is left out.
EverySlotWorks(plan) == {plan[t].assignee : t \in Tasks} = Slots
===============================================================================
