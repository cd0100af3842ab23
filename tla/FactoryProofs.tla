----------------------------- MODULE FactoryProofs -----------------------------
(***************************************************************************)
(* Safety of the programs of src/factory: /fh-collaborate, for any number of *)
(* tasks, any slots, every plan the architect may come up with and every     *)
(* order in which children end, saves fail and Escape is pressed; the writer *)
(* lease under it, for any number of processes; the sprint tracker, for any  *)
(* number of browsers, columns and cards.                                    *)
(***************************************************************************)
EXTENDS CollabScheduler, WriterLease, Board, FiniteSetTheorems, SequenceTheorems,
        NaturalsInduction, WellFoundedInduction, TLAPS

Delegated == {"start", "pass", "race", "drain", "final"}

\* Planning is over, in one way or the other, and so are the planners.
PlanningInv ==
  /\ phase = "begin" => \A s \in Slots : proposal[s] = "none"
  /\ phase \in Delegated \cup {"merge", "write"} =>
       /\ \A s \in Slots : proposal[s] = "over"
       /\ Cardinality(planned) > 1
  /\ phase \in {"unwind", "over"} /\ ~thrown => Planners = {}
  /\ phase \in Delegated \cup {"write"} => plan # NoPlan /\ ValidPlan(plan)
  /\ phase \in Delegated => EverySlotWorks(plan)
  /\ thrown => phase \in {"unwind", "over"}

\* What the harness and the child of a task know of each other.
TaskInv(t) ==
  /\ t \in inFlight <=> child[t] \in {"running", "saving"}
  /\ Waiting(t) <=> child[t] = "none"
  /\ taskState[t] = "done" => ok[t] /\ child[t] = "over"
  /\ taskState[t] = "failed" => executionFailure \/ stopped
  /\ child[t] = "over" => taskState[t] \in {"done", "failed"} \/ thrown \/ stopped

\* Where children may be about, and that a busy slot is busy with one of them.
FlightInv ==
  /\ inFlight # {} => /\ plan # NoPlan
                      /\ phase \in {"pass", "race", "drain"} \/ thrown
  /\ phase \in {"begin", "propose", "merge", "write", "start"} =>
       \A t \in Tasks : child[t] = "none"
  /\ phase = "drain" /\ inFlight # {} => stopped
  /\ \A s \in busySlots : \E t \in inFlight : plan[t].assignee = s

\* A task the loop could launch.
Ready(t) == Waiting(t) /\ DepsDone(t)

\* A pass that has launched nothing, with nothing under way, has found nothing to launch.
LoopInv ==
  /\ phase = "pass" /\ inFlight = {} => \A t \in 1..(pass - 1) : ~Ready(t)
  /\ phase = "drain" /\ ~stopped /\ ~executionFailure => \A t \in Tasks : ~Ready(t)
  /\ phase = "final" => \A t \in Tasks : taskState[t] = "done"

IInv ==
  /\ TypeOK /\ PlanningInv /\ FlightInv /\ LoopInv /\ OneWriterAtATime
  /\ \A t \in Tasks : TaskInv(t)

-------------------------------------------------------------------------------
(* The waves of a plan without cycles reach every task.                      *)

LEMMA LeastNat ==
  ASSUME NEW S, S \subseteq Nat, S # {}
  PROVE  \E x \in S : \A y \in S : x <= y
<1>1. PICK x \in S : \A y \in S : ~ (<<y, x>> \in OpToRel(<, Nat))
  BY WFMin, NatLessThanWellFounded
<1>2. \A y \in S : y < x => <<y, x>> \in OpToRel(<, Nat)
  BY DEF OpToRel
<1>3. \A y \in S : ~(y < x)
  BY <1>1, <1>2
<1> QED
  BY <1>3

LEMMA UpToInduction ==
  ASSUME NEW n \in Nat, NEW S, 0 \in S,
         \A k \in 1..n : k - 1 \in S => k \in S
  PROVE  \A k \in 0..n : k \in S
<1> DEFINE Out == {k \in 0..n : k \notin S}
<1> SUFFICES ASSUME Out # {} PROVE FALSE
  OBVIOUS
<1>0. Out \subseteq Nat
  OBVIOUS
<1> HIDE DEF Out
<1>1. PICK k \in Out : \A j \in Out : k <= j
  BY <1>0, LeastNat
<1> USE DEF Out
<1>2. k \in 1..n /\ k - 1 \in 0..n
  BY <1>1
<1>3. k - 1 \notin Out
  BY <1>1, <1>2
<1> QED
  BY <1>1, <1>2, <1>3

\* The tasks a wave can take when those of done are over.
Wave(pl, done) == {t \in Tasks : pl[t].depends_on \subseteq done}

\* The recursive function of CompletedAfter exists: the functions on 0..k extend
\* one another.
LEMMA WavesExist ==
  ASSUME NEW pl
  PROVE  \A n \in Nat : \E f :
           f = [k \in 0..n |-> IF k = 0 THEN {} ELSE Wave(pl, f[k - 1])]
<1> DEFINE Works(f, n) == f = [k \in 0..n |-> IF k = 0 THEN {} ELSE Wave(pl, f[k - 1])]
<1> SUFFICES ASSUME NEW n \in Nat PROVE \E f : Works(f, n)
  OBVIOUS
<1> DEFINE Good == {k \in 0..n : \E f : Works(f, k)}
<1>1. 0 \in Good
  <2>1. Works([k \in 0..0 |-> {}], 0)
    OBVIOUS
  <2> HIDE DEF Works
  <2> QED
    BY <2>1
<1>2. ASSUME NEW k \in 1..n, k - 1 \in Good PROVE k \in Good
  <2>1. PICK f : Works(f, k - 1)
    BY <1>2
  <2> DEFINE g == [i \in 0..k |-> IF i < k THEN f[i] ELSE Wave(pl, f[k - 1])]
  <2>2. ASSUME NEW i \in 0..k
        PROVE  g[i] = IF i = 0 THEN {} ELSE Wave(pl, g[i - 1])
    <3>1. CASE i = k
      <4>1. g[i] = Wave(pl, f[k - 1]) /\ g[i - 1] = f[k - 1]
        BY <3>1
      <4> QED
        BY <3>1, <4>1
    <3>2. CASE i < k
      <4>1. i \in 0..(k - 1) /\ g[i] = f[i]
        BY <3>2
      <4>2. f[i] = IF i = 0 THEN {} ELSE Wave(pl, f[i - 1])
        BY <2>1, <4>1
      <4>3. i # 0 => g[i - 1] = f[i - 1]
        BY <3>2
      <4> QED
        BY <4>1, <4>2, <4>3
    <3> QED
      BY <3>1, <3>2
  <2>3. Works(g, k)
    BY <2>2
  <2> HIDE DEF Works, g
  <2> QED
    BY <2>3
<1> HIDE DEF Works
<1>3. \A k \in 0..n : k \in Good
  BY <1>1, <1>2, UpToInduction
<1> QED
  BY <1>3

\* In a plan that passes validateCollaborationPlan, a set of tasks that contains
\* each task all of whose dependencies it contains is the set of all tasks.
LEMMA WavesReachAll ==
  ASSUME NEW pl, ValidPlan(pl), NEW Done,
         \A t \in Tasks : pl[t].depends_on \subseteq Done => t \in Done
  PROVE  Tasks \subseteq Done
<1> DEFINE Body(f) == [k \in 0..NumTasks |-> IF k = 0 THEN {} ELSE Wave(pl, f[k - 1])]
           completed == CHOOSE f : f = Body(f)
<1>1. NumTasks \in Nat
  BY PlanAssumption
<1>2. \E f : f = Body(f)
  BY <1>1, WavesExist
<1>3. completed = Body(completed)
  BY <1>2
<1>4. completed[NumTasks] = Tasks
  BY DEF ValidPlan, Acyclic, CompletedAfter, Wave
<1> DEFINE Good == {k \in 0..NumTasks : completed[k] \subseteq Done}
<1> HIDE DEF completed
<1>5. 0 \in Good
  BY <1>1, <1>3
<1>6. ASSUME NEW k \in 1..NumTasks, k - 1 \in Good PROVE k \in Good
  <2>1. k \in 0..NumTasks /\ k # 0
    BY <1>1
  <2>2. completed[k] = {t \in Tasks : pl[t].depends_on \subseteq completed[k - 1]}
    BY <1>3, <2>1 DEF Wave
  <2>3. completed[k] \subseteq Done
    BY <1>6, <2>2
  <2> QED
    BY <2>1, <2>3
<1>7. NumTasks \in Good
  <2>1. \A k \in 0..NumTasks : k \in Good
    <3> HIDE DEF Good
    <3> QED
      BY <1>1, <1>5, <1>6, UpToInduction
  <2> QED
    BY <1>1, <2>1
<1> QED
  BY <1>4, <1>7

-------------------------------------------------------------------------------
(* Counting the writers.                                                     *)

LEMMA TasksFinite == IsFiniteSet(Tasks)
  BY PlanAssumption, FS_Interval DEF Tasks

LEMMA WritersFinite == IsFiniteSet(Writers) /\ Cardinality(Writers) \in Nat
<1>1. IsFiniteSet(Writers)
  BY TasksFinite, FS_Subset DEF Writers
<1> QED
  BY <1>1, FS_CardinalityType

\* While a child is about, the plan is one.
LEMMA PlanIsSet ==
  ASSUME TypeOK, plan # NoPlan
  PROVE  /\ plan \in [Tasks -> PlanTask]
         /\ \A t \in Tasks : plan[t].assignee \in Slots /\ plan[t].depends_on \subseteq Tasks
  BY DEF TypeOK, PlanTask

LEMMA WritersKept ==
  ASSUME UNCHANGED <<child, plan>>
  PROVE  Writers' = Writers
  BY DEF Writers, Writes

LEMMA NobodyWrites ==
  ASSUME \A t \in Tasks : child[t] # "running"
  PROVE  Writers = {} /\ Cardinality(Writers) = 0
  BY FS_EmptySet DEF Writers

LEMMA WriterEnters ==
  ASSUME NEW t \in Tasks, child \in [Tasks -> {"none", "running", "saving", "over"}],
         child[t] = "none", child' = [child EXCEPT ![t] = "running"], plan' = plan
  PROVE  Cardinality(Writers') = Cardinality(Writers) + (IF Writes(t) THEN 1 ELSE 0)
<1>1. t \notin Writers
  BY DEF Writers
<1>2. CASE Writes(t)
  <2>1. Writers' = Writers \cup {t}
    BY <1>2 DEF Writers, Writes
  <2> QED
    BY <1>1, <1>2, <2>1, WritersFinite, FS_AddElement
<1>3. CASE ~Writes(t)
  <2>1. Writers' = Writers
    BY <1>3 DEF Writers, Writes
  <2> QED
    BY <1>3, <2>1, WritersFinite
<1> QED
  BY <1>2, <1>3

LEMMA WriterLeaves ==
  ASSUME NEW t \in Tasks, child \in [Tasks -> {"none", "running", "saving", "over"}],
         child[t] = "running", child' = [child EXCEPT ![t] = "saving"], plan' = plan
  PROVE  /\ Cardinality(Writers') = Cardinality(Writers) - (IF Writes(t) THEN 1 ELSE 0)
         /\ Writes(t) => Cardinality(Writers) > 0
<1>1. CASE Writes(t)
  <2>1. Writers' = Writers \ {t} /\ t \in Writers
    BY <1>1 DEF Writers, Writes
  <2>2. Cardinality(Writers \ {t}) = Cardinality(Writers) - 1
    BY <2>1, WritersFinite, FS_RemoveElement
  <2>3. Cardinality(Writers \ {t}) \in Nat
    BY WritersFinite, FS_Subset, FS_CardinalityType
  <2> QED
    BY <1>1, <2>1, <2>2, <2>3, WritersFinite
<1>2. CASE ~Writes(t)
  <2>1. Writers' = Writers
    BY <1>2 DEF Writers, Writes
  <2> QED
    BY <1>2, <2>1, WritersFinite
<1> QED
  BY <1>1, <1>2

\* A step that leaves the children alone keeps the count.
LEMMA CountKept ==
  ASSUME OneWriterAtATime, UNCHANGED <<child, plan, activeWriters>>,
         phase' = "final" <=> phase = "final"
  PROVE  OneWriterAtATime'
  BY WritersKept DEF OneWriterAtATime, Finalists

-------------------------------------------------------------------------------
(* Planning.                                                                 *)

\* No child is about yet, and nothing that tells of one has been touched.
LEMMA BeforeExecution ==
  ASSUME IInv, UNCHANGED execution, \A t \in Tasks : child[t] = "none",
         phase' \notin {"pass", "race", "drain", "final"},
         phase # "final", stopped => stopped'
  PROVE  /\ FlightInv' /\ LoopInv' /\ OneWriterAtATime'
         /\ \A t \in Tasks : TaskInv(t)'
<1> USE DEF execution
<1>1. inFlight = {}
  BY DEF IInv, TaskInv, TypeOK
<1>2. busySlots = {}
  BY <1>1 DEF IInv, FlightInv
<1>3. FlightInv'
  BY <1>1, <1>2 DEF FlightInv
<1>4. LoopInv'
  BY DEF LoopInv
<1>5. OneWriterAtATime'
  <2>1. Writers = {} /\ Cardinality(Writers) = 0
    BY NobodyWrites
  <2>2. Writers' = {}
    BY DEF Writers
  <2>3. activeWriters = 0
    BY <2>1, PlanAssumption DEF IInv, OneWriterAtATime, Finalists
  <2> QED
    BY <2>1, <2>2, <2>3 DEF OneWriterAtATime, Finalists
<1>6. ASSUME NEW t \in Tasks PROVE TaskInv(t)'
  BY DEF IInv, TaskInv, Waiting
<1> QED
  BY <1>3, <1>4, <1>5, <1>6

LEMMA ProposeStep == ASSUME IInv, Propose PROVE IInv'
<1> USE DEF Propose
<1>1. TypeOK'
  BY DEF IInv, TypeOK, execution
<1>2. PlanningInv'
  BY DEF IInv, PlanningInv, Delegated, Planners, TypeOK
<1>3. \A t \in Tasks : child[t] = "none"
  BY DEF IInv, FlightInv
<1>4. /\ FlightInv' /\ LoopInv' /\ OneWriterAtATime'
      /\ \A t \in Tasks : TaskInv(t)'
  BY <1>3, BeforeExecution
<1> QED
  BY <1>1, <1>2, <1>4 DEF IInv

\* What a proposal's end, save or failed save leaves of the execution: all of it.
LEMMA ExecutionKept ==
  ASSUME IInv, UNCHANGED <<execution, plan, stopped>>, thrown => thrown',
         \/ UNCHANGED phase
         \/ phase = "propose" /\ phase' \in {"merge", "unwind"}
  PROVE  /\ FlightInv' /\ LoopInv' /\ OneWriterAtATime'
         /\ \A t \in Tasks : TaskInv(t)'
<1>1. CASE phase = "propose"
  <2>1. \A t \in Tasks : child[t] = "none"
    BY <1>1 DEF IInv, FlightInv
  <2> QED
    BY <1>1, <2>1, BeforeExecution
<1>2. CASE UNCHANGED phase
  <2> USE <1>2 DEF execution
  <2>1. FlightInv'
    BY DEF IInv, FlightInv
  <2>2. LoopInv'
    BY DEF IInv, LoopInv, Ready, Waiting, DepsDone
  <2>3. OneWriterAtATime'
    BY CountKept DEF IInv
  <2>4. ASSUME NEW t \in Tasks PROVE TaskInv(t)'
    BY DEF IInv, TaskInv, Waiting
  <2> QED
    BY <2>1, <2>2, <2>3, <2>4
<1> QED
  BY <1>1, <1>2

LEMMA ProposalStep == ASSUME IInv, NEW s \in Slots, Proposal(s) PROVE IInv'
<1> USE DEF Proposal, ProposalEnds, ProposalSaved, ProposalSaveFails
<1>1. TypeOK'
  <2>1. /\ UNCHANGED <<plan, execution, stopped, lease>>
        /\ proposal' \in [Slots -> {"none", "running", "saving", "over"}]
        /\ planned' \subseteq Slots
        /\ merges' \in 0..3
    BY DEF IInv, TypeOK
  <2>2. /\ phase' \in {phase, "merge", "unwind"}
        /\ thrown' \in BOOLEAN
    BY DEF IInv, TypeOK
  <2> QED
    BY <2>1, <2>2 DEF IInv, TypeOK, execution
<1>2. /\ UNCHANGED <<execution, plan, stopped>> /\ thrown => thrown'
      /\ \/ UNCHANGED phase
         \/ phase = "propose" /\ phase' \in {"merge", "unwind"}
  BY DEF IInv, TypeOK
<1>3. PlanningInv'
  <2>1. /\ proposal[s] \in {"running", "saving"}
        /\ \A r \in Slots : r # s => proposal'[r] = proposal[r]
    BY DEF IInv, TypeOK
  <2>2. phase \notin Delegated \cup {"merge", "write", "begin"}
    BY <2>1 DEF IInv, PlanningInv
  <2>3. phase \in {"unwind", "over"} => thrown
    BY <2>1 DEF IInv, PlanningInv, Planners
  <2>4. phase \in {"propose", "unwind", "over"}
    BY <2>2 DEF Delegated, IInv, TypeOK
  <2>5. CASE UNCHANGED phase
    BY <1>2, <2>2, <2>3, <2>5 DEF PlanningInv, IInv, Delegated
  <2>6. CASE phase' # phase
    <3>1. phase = "propose" /\ proposal[s] = "saving" /\ proposal'[s] = "over"
      BY <2>4, <2>6 DEF IInv, TypeOK
    <3>2. ~thrown
      BY <3>1 DEF IInv, PlanningInv
    <3>3. CASE thrown'
      <4>1. phase' = "unwind"
        BY <2>6, <3>1, <3>2, <3>3
      <4> QED
        BY <3>3, <4>1 DEF PlanningInv, Delegated
    <3>4. CASE ~thrown'
      <4>1. /\ \A r \in Slots : proposal'[r] = "over"
            /\ planned' = planned
            /\ phase' = "merge" => ~(Cardinality(planned) < 2)
        BY <2>1, <2>6, <3>1, <3>2, <3>4
      <4>2. Cardinality(planned) \in Nat
        BY PlanAssumption, FS_Subset, FS_CardinalityType DEF IInv, TypeOK
      <4>3. phase' = "merge" => Cardinality(planned') > 1
        BY <4>1, <4>2
      <4> QED
        BY <1>2, <2>6, <3>4, <4>1, <4>3 DEF PlanningInv, Delegated, Planners
    <3> QED
      BY <3>3, <3>4
  <2> QED
    BY <2>5, <2>6
<1>4. /\ FlightInv' /\ LoopInv' /\ OneWriterAtATime'
      /\ \A t \in Tasks : TaskInv(t)'
  BY <1>2, ExecutionKept
<1> QED
  BY <1>1, <1>3, <1>4 DEF IInv

LEMMA MergeStep == ASSUME IInv, MergeEnds \/ PlanWritten PROVE IInv'
<1> USE DEF MergeEnds, PlanWritten, MergeAgain, planning
<1>1. /\ phase \in {"merge", "write"}
      /\ phase' \in {"merge", "write", "start", "unwind"}
      /\ UNCHANGED <<proposal, planned, execution, stopped, thrown>>
      /\ merges' = merges \/ (merges < 3 /\ merges' = merges + 1)
      /\ lease' \in BOOLEAN
      /\ phase' = "write" => /\ plan' \in [Tasks -> PlanTask]
                             /\ ValidPlan(plan')
      /\ phase' = "start" => /\ phase = "write" /\ plan' = plan
                             /\ EverySlotWorks(plan)
      /\ plan' \in [Tasks -> PlanTask] \cup {NoPlan}
  BY DEF IInv, TypeOK
<1>2. TypeOK'
  BY <1>1 DEF IInv, TypeOK, execution
<1>3. PlanningInv'
  BY <1>1, NoPlanAssumption DEF IInv, PlanningInv, Delegated, Planners
<1>4. \A t \in Tasks : child[t] = "none"
  BY <1>1 DEF IInv, FlightInv
<1>5. /\ FlightInv' /\ LoopInv' /\ OneWriterAtATime'
      /\ \A t \in Tasks : TaskInv(t)'
  BY <1>1, <1>4, BeforeExecution
<1> QED
  BY <1>2, <1>3, <1>5 DEF IInv

-------------------------------------------------------------------------------
(* Executing.                                                                *)

\* A step that neither starts nor ends nor saves a task.
LEMMA TasksKept ==
  ASSUME IInv, UNCHANGED <<taskState, inFlight, child, ok, executionFailure>>,
         stopped => stopped', thrown => thrown'
  PROVE  \A t \in Tasks : TaskInv(t)'
  BY DEF IInv, TaskInv, Waiting

\* A step of phase 3 as planning sees it.
LEMMA PlanKept ==
  ASSUME IInv, UNCHANGED <<planning, plan, thrown>>,
         \/ phase' = phase
         \/ phase' \in Delegated /\ phase \in Delegated
         \/ phase' = "unwind" /\ phase \in Delegated
         \/ phase' = "over" /\ phase = "unwind"
  PROVE  PlanningInv'
<1> USE DEF IInv, PlanningInv, Delegated, planning, Planners
<1>1. CASE phase' = phase
  BY <1>1
<1>2. CASE phase' \in Delegated /\ phase \in Delegated
  BY <1>2
<1>3. CASE phase' = "unwind" /\ phase \in Delegated
  BY <1>3
<1>4. CASE phase' = "over" /\ phase = "unwind"
  BY <1>4
<1> QED
  BY <1>1, <1>2, <1>3, <1>4

LEMMA BeginStep == ASSUME IInv, Begin PROVE IInv'
<1>1. /\ phase = "start" /\ phase' \in {"drain", "pass", "race", "unwind"}
      /\ UNCHANGED <<planning, plan, taskState, busySlots, inFlight, activeWriters,
                     executionFailure, child, ok, stopped, lease>>
      /\ pass' \in {1, pass}
      /\ phase' = "unwind" => thrown' = TRUE /\ pass' = pass
      /\ phase' # "unwind" => thrown' = thrown /\ pass' = 1
      /\ phase' = "drain" => stopped \/ executionFailure
      /\ phase' = "race" => inFlight # {}
  BY DEF Begin, LoopHead
<1>2. inFlight = {}
  BY <1>1 DEF IInv, FlightInv, TaskInv, TypeOK
<1>3. TypeOK'
  <2>1. pass' \in 1..NumTasks + 1
    <3>1. 1 \in 1..NumTasks + 1
      BY PlanAssumption
    <3> QED
      BY <1>1, <3>1 DEF IInv, TypeOK
  <2>2. thrown' \in BOOLEAN
    BY <1>1 DEF IInv, TypeOK
  <2> QED
    BY <1>1, <2>1, <2>2 DEF IInv, TypeOK, planning
<1>4. PlanningInv'
  <2>1. CASE phase' = "unwind"
    BY <1>1, <2>1 DEF PlanningInv, Delegated
  <2>2. CASE phase' # "unwind"
    BY <1>1, <2>2, PlanKept DEF Delegated
  <2> QED
    BY <2>1, <2>2
<1>5. FlightInv'
  BY <1>1, <1>2 DEF FlightInv, IInv
<1>6. LoopInv'
  <2>1. phase' = "pass" => 1..(pass' - 1) = {}
    BY <1>1
  <2> QED
    BY <1>1, <2>1 DEF LoopInv
<1>7. OneWriterAtATime'
  BY <1>1, CountKept DEF IInv
<1>8. \A t \in Tasks : TaskInv(t)'
  BY <1>1, TasksKept
<1> QED
  BY <1>3, <1>4, <1>5, <1>6, <1>7, <1>8 DEF IInv

\* With nothing under way no task has to wait for a slot or for the writer token.
LEMMA NothingMustQueue ==
  ASSUME IInv, inFlight = {}, phase # "final"
  PROVE  busySlots = {} /\ activeWriters = 0
<1>1. \A t \in Tasks : child[t] # "running"
  BY DEF IInv, TaskInv
<1>2. Cardinality(Writers) = 0
  BY <1>1, NobodyWrites
<1>3. activeWriters = 0
  BY <1>2 DEF IInv, OneWriterAtATime, Finalists
<1> QED
  BY <1>3 DEF IInv, FlightInv

LEMMA PassOverStep == ASSUME IInv, NEW t \in Tasks, PassOver(t) PROVE IInv'
<1>1. /\ phase = "pass" /\ pass = t /\ ~Ready(t) /\ pass' = pass + 1
      /\ UNCHANGED <<planning, plan, taskState, busySlots, inFlight, activeWriters,
                     phase, child, ok, executionFailure, stopped, lease, thrown>>
  BY DEF PassOver, Ready, control
<1>2. TypeOK'
  <2>1. pass' \in 1..NumTasks + 1
    BY <1>1, PlanAssumption DEF Tasks
  <2> QED
    BY <1>1, <2>1 DEF IInv, TypeOK, planning
<1>3. PlanningInv'
  BY <1>1, PlanKept
<1>4. FlightInv'
  BY <1>1 DEF IInv, FlightInv
<1>5. LoopInv'
  <2>1. ASSUME inFlight = {}, NEW u \in 1..(pass' - 1) PROVE ~Ready(u)'
    <3>1. u \in 1..(pass - 1) \/ u = t
      BY <1>1, <2>1, PlanAssumption DEF Tasks
    <3>2. ~Ready(u)
      BY <1>1, <2>1, <3>1 DEF IInv, LoopInv
    <3> QED
      BY <1>1, <3>2 DEF Ready, Waiting, DepsDone
  <2> QED
    BY <1>1, <2>1 DEF LoopInv
<1>6. OneWriterAtATime'
  BY <1>1, CountKept DEF IInv
<1>7. \A u \in Tasks : TaskInv(u)'
  BY <1>1, TasksKept
<1> QED
  BY <1>2, <1>3, <1>4, <1>5, <1>6, <1>7 DEF IInv

LEMMA QueueStep == ASSUME IInv, NEW t \in Tasks, Queue(t) PROVE IInv'
<1>1. /\ phase = "pass" /\ pass = t /\ Waiting(t) /\ pass' = pass + 1
      /\ taskState' = [taskState EXCEPT ![t] = "queued"]
      /\ UNCHANGED <<planning, plan, busySlots, inFlight, activeWriters,
                     phase, child, ok, executionFailure, stopped, lease, thrown>>
  BY DEF Queue, control
<1>2. TypeOK'
  <2>1. pass' \in 1..NumTasks + 1
    BY <1>1, PlanAssumption DEF Tasks
  <2>2. taskState' \in [Tasks -> {"blocked", "queued", "reading", "writing", "done", "failed"}]
    BY <1>1 DEF IInv, TypeOK
  <2> QED
    BY <1>1, <2>1, <2>2 DEF IInv, TypeOK, planning
<1>3. PlanningInv'
  BY <1>1, PlanKept
<1>4. FlightInv'
  BY <1>1 DEF IInv, FlightInv
<1>5. inFlight # {}
  <2> SUFFICES ASSUME inFlight = {} PROVE FALSE
    OBVIOUS
  <2>1. busySlots = {} /\ activeWriters = 0
    BY <1>1, NothingMustQueue
  <2> QED
    BY <2>1 DEF Queue, MustQueue
<1>6. LoopInv'
  BY <1>1, <1>5 DEF LoopInv
<1>7. OneWriterAtATime'
  BY <1>1, CountKept DEF IInv
<1>8. ASSUME NEW u \in Tasks PROVE TaskInv(u)'
  BY <1>1 DEF IInv, TaskInv, Waiting, TypeOK
<1> QED
  BY <1>2, <1>3, <1>4, <1>6, <1>7, <1>8 DEF IInv

LEMMA LaunchStep == ASSUME IInv, NEW t \in Tasks, Launch(t) PROVE IInv'
<1>1. /\ phase = "pass" /\ pass = t /\ Waiting(t) /\ pass' = pass + 1
      /\ busySlots' = busySlots \cup {plan[t].assignee}
      /\ taskState' = [taskState EXCEPT ![t] = IF Writes(t) THEN "writing" ELSE "reading"]
      /\ inFlight' = inFlight \cup {t}
      /\ activeWriters' = activeWriters + (IF Writes(t) THEN 1 ELSE 0)
      /\ child' = [child EXCEPT ![t] = "running"]
      /\ UNCHANGED <<planning, plan, phase, ok, executionFailure, stopped, lease, thrown>>
  BY DEF Launch, control
<1>2. /\ child \in [Tasks -> {"none", "running", "saving", "over"}] /\ child[t] = "none"
      /\ plan # NoPlan
  BY <1>1 DEF IInv, TypeOK, TaskInv, PlanningInv, Delegated
<1>3. plan[t].assignee \in Slots
  BY <1>2, PlanIsSet DEF IInv
<1>4. TypeOK'
  <2>1. pass' \in 1..NumTasks + 1
    BY <1>1, PlanAssumption DEF Tasks
  <2>2. /\ taskState' \in
             [Tasks -> {"blocked", "queued", "reading", "writing", "done", "failed"}]
        /\ child' \in [Tasks -> {"none", "running", "saving", "over"}]
    BY <1>1 DEF IInv, TypeOK
  <2>3. activeWriters' \in Nat
    BY <1>1 DEF IInv, TypeOK
  <2>4. busySlots' \subseteq Slots /\ inFlight' \subseteq Tasks
    BY <1>1, <1>3 DEF IInv, TypeOK
  <2> QED
    BY <1>1, <2>1, <2>2, <2>3, <2>4 DEF IInv, TypeOK, planning
<1>5. PlanningInv'
  BY <1>1, PlanKept
<1>6. FlightInv'
  <2>1. \A s \in busySlots' : \E u \in inFlight' : plan'[u].assignee = s
    BY <1>1 DEF IInv, FlightInv
  <2> QED
    BY <1>1, <1>2, <2>1 DEF FlightInv
<1>7. LoopInv'
  BY <1>1 DEF LoopInv
<1>8. OneWriterAtATime'
  <2>1. Cardinality(Writers') = Cardinality(Writers) + (IF Writes(t) THEN 1 ELSE 0)
    BY <1>1, <1>2, WriterEnters
  <2>2. Writes(t) => activeWriters = 0
    BY DEF Launch, MustQueue, IInv, TypeOK
  <2>3. activeWriters = Cardinality(Writers) /\ activeWriters <= 1 /\ Finalists' = 0
    BY <1>1, WritersFinite DEF IInv, OneWriterAtATime, Finalists
  <2> QED
    BY <1>1, <2>1, <2>2, <2>3, WritersFinite DEF OneWriterAtATime
<1>9. ASSUME NEW u \in Tasks PROVE TaskInv(u)'
  BY <1>1 DEF IInv, TaskInv, Waiting, TypeOK
<1> QED
  BY <1>4, <1>5, <1>6, <1>7, <1>8, <1>9 DEF IInv

LEMMA EndPassStep == ASSUME IInv, EndPass PROVE IInv'
<1>1. /\ phase = "pass" /\ pass = NumTasks + 1
      /\ phase' = IF inFlight = {} THEN "drain" ELSE "race"
      /\ UNCHANGED <<planning, plan, taskState, busySlots, inFlight, activeWriters, pass,
                     child, ok, executionFailure, stopped, lease, thrown>>
  BY DEF EndPass, control
<1>2. TypeOK'
  BY <1>1 DEF IInv, TypeOK, planning
<1>3. PlanningInv'
  BY <1>1, PlanKept DEF Delegated
<1>4. FlightInv'
  BY <1>1 DEF IInv, FlightInv
<1>5. LoopInv'
  <2>1. ASSUME inFlight = {}, NEW u \in Tasks PROVE ~Ready(u)'
    <3>1. u \in 1..(pass - 1)
      BY <1>1, PlanAssumption DEF Tasks
    <3>2. ~Ready(u)
      BY <1>1, <2>1, <3>1 DEF IInv, LoopInv
    <3> QED
      BY <1>1, <3>2 DEF Ready, Waiting, DepsDone
  <2> QED
    BY <1>1, <2>1 DEF LoopInv
<1>6. OneWriterAtATime'
  BY <1>1, CountKept DEF IInv
<1>7. \A u \in Tasks : TaskInv(u)'
  BY <1>1, TasksKept
<1> QED
  BY <1>2, <1>3, <1>4, <1>5, <1>6, <1>7 DEF IInv

LEMMA ChildEndsStep == ASSUME IInv, NEW t \in Tasks, ChildEnds(t) PROVE IInv'
<1>1. /\ phase # "pass" /\ child[t] = "running"
      /\ child' = [child EXCEPT ![t] = "saving"]
      /\ activeWriters' = activeWriters - (IF Writes(t) THEN 1 ELSE 0)
      /\ \E succeeded \in BOOLEAN : ok' = [ok EXCEPT ![t] = succeeded /\ ~stopped]
      /\ UNCHANGED <<planning, plan, taskState, busySlots, inFlight, phase, pass,
                     executionFailure, stopped, lease, thrown>>
  BY DEF ChildEnds, control
<1>2. child \in [Tasks -> {"none", "running", "saving", "over"}]
  BY DEF IInv, TypeOK
<1>3. /\ Cardinality(Writers') = Cardinality(Writers) - (IF Writes(t) THEN 1 ELSE 0)
      /\ Writes(t) => Cardinality(Writers) > 0
  BY <1>1, <1>2, WriterLeaves
<1>4. OneWriterAtATime'
  <2>1. Finalists' = Finalists /\ Finalists \in 0..1
    BY <1>1 DEF Finalists
  <2> QED
    BY <1>1, <1>3, <2>1, WritersFinite DEF IInv, OneWriterAtATime
<1>5. TypeOK'
  <2>1. activeWriters' \in Nat
    <3>1. Finalists \in 0..1
      BY DEF Finalists
    <3> QED
      BY <1>1, <1>3, <3>1, WritersFinite DEF IInv, OneWriterAtATime
  <2>2. child' \in [Tasks -> {"none", "running", "saving", "over"}]
    BY <1>1, <1>2
  <2>3. ok' \in [Tasks -> BOOLEAN]
    <3>1. PICK succeeded \in BOOLEAN : ok' = [ok EXCEPT ![t] = succeeded /\ ~stopped]
      BY <1>1
    <3>2. (succeeded /\ ~stopped) \in BOOLEAN
      OBVIOUS
    <3> QED
      BY <3>1, <3>2 DEF IInv, TypeOK
  <2> QED
    BY <1>1, <2>1, <2>2, <2>3 DEF IInv, TypeOK, planning
<1>6. PlanningInv'
  BY <1>1, PlanKept
<1>7. FlightInv'
  BY <1>1 DEF IInv, FlightInv, TypeOK
<1>8. LoopInv'
  BY <1>1 DEF IInv, LoopInv, Ready, Waiting, DepsDone
<1>9. ASSUME NEW u \in Tasks PROVE TaskInv(u)'
  <2>1. CASE u = t
    BY <1>1, <1>2, <2>1 DEF IInv, TaskInv, Waiting
  <2>2. CASE u # t
    <3>1. child'[u] = child[u]
      BY <1>1, <1>2, <2>2
    <3>2. ok'[u] = ok[u]
      BY <1>1, <2>2 DEF IInv, TypeOK
    <3> QED
      BY <1>1, <3>1, <3>2 DEF IInv, TaskInv, Waiting
  <2> QED
    BY <2>1, <2>2
<1> QED
  BY <1>4, <1>5, <1>6, <1>7, <1>8, <1>9 DEF IInv

\* What the end of a task leaves of slots and children.
LEMMA Left ==
  ASSUME IInv, NEW t \in Tasks, child[t] = "saving", Leave(t), plan' = plan,
         activeWriters' = activeWriters
  PROVE  /\ busySlots' \subseteq Slots /\ inFlight' \subseteq Tasks
         /\ child' \in [Tasks -> {"none", "running", "saving", "over"}]
         /\ t \in inFlight /\ inFlight' = inFlight \ {t}
         /\ child'[t] = "over" /\ \A u \in Tasks : u # t => child'[u] = child[u]
         /\ \A s \in busySlots' : \E u \in inFlight' : plan'[u].assignee = s
         /\ phase # "final" /\ phase' # "final" => OneWriterAtATime'
<1>1. /\ busySlots' = busySlots \ {plan[t].assignee}
      /\ inFlight' = inFlight \ {t}
      /\ child' = [child EXCEPT ![t] = "over"]
  BY DEF Leave
<1>2. child \in [Tasks -> {"none", "running", "saving", "over"}]
  BY DEF IInv, TypeOK
<1>3. child'[t] = "over" /\ \A u \in Tasks : u # t => child'[u] = child[u]
  BY <1>1, <1>2
<1>4. Writers' = Writers
  BY <1>3 DEF Writers, Writes
<1> QED
  BY <1>1, <1>2, <1>3, <1>4 DEF IInv, TypeOK, FlightInv, TaskInv, OneWriterAtATime, Finalists

LEMMA SavedStep == ASSUME IInv, NEW t \in Tasks, Saved(t) PROVE IInv'
<1>1. /\ phase # "pass" /\ child[t] = "saving" /\ Leave(t)
      /\ taskState' = [taskState EXCEPT ![t] = IF ok[t] THEN "done" ELSE "failed"]
      /\ executionFailure' = (executionFailure \/ (~stopped /\ ~ok[t]))
      /\ UNCHANGED <<planning, plan, activeWriters, ok, stopped, lease, thrown>>
  BY DEF Saved
<1>2. /\ phase # "race" => UNCHANGED <<phase, pass>>
      /\ phase = "race" =>
           /\ pass' = 1 /\ phase' \in {"drain", "pass", "race"}
           /\ phase' = "drain" => stopped \/ (executionFailure' /\ inFlight \ {t} = {})
  BY DEF Saved, LoopHead
<1>3. /\ busySlots' \subseteq Slots /\ inFlight' \subseteq Tasks
      /\ child' \in [Tasks -> {"none", "running", "saving", "over"}]
      /\ t \in inFlight /\ inFlight' = inFlight \ {t}
      /\ child'[t] = "over" /\ \A u \in Tasks : u # t => child'[u] = child[u]
      /\ \A s \in busySlots' : \E u \in inFlight' : plan'[u].assignee = s
      /\ phase # "final" /\ phase' # "final" => OneWriterAtATime'
  BY <1>1, Left
<1>4. /\ plan # NoPlan
      /\ phase \in {"race", "drain"} \/ (thrown /\ phase \in {"unwind", "over"})
      /\ phase = "drain" => stopped
  BY <1>1, <1>3 DEF IInv, FlightInv, PlanningInv
<1>5. TypeOK'
  <2>1. taskState' \in
          [Tasks -> {"blocked", "queued", "reading", "writing", "done", "failed"}]
    BY <1>1 DEF IInv, TypeOK
  <2>2. executionFailure' \in BOOLEAN
    BY <1>1 DEF IInv, TypeOK
  <2>3. pass' \in 1..NumTasks + 1
    <3>1. 1 \in 1..NumTasks + 1
      BY PlanAssumption
    <3> QED
      BY <1>2, <3>1 DEF IInv, TypeOK
  <2>4. phase' \in {"begin", "propose", "merge", "write", "start", "pass", "race", "drain",
                    "final", "unwind", "over"}
    BY <1>2 DEF IInv, TypeOK
  <2> QED
    BY <1>1, <1>3, <2>1, <2>2, <2>3, <2>4 DEF IInv, TypeOK, planning
<1>6. PlanningInv'
  BY <1>1, <1>2, PlanKept DEF Delegated
<1>7. FlightInv'
  BY <1>1, <1>2, <1>3, <1>4 DEF FlightInv
<1>8. LoopInv'
  <2>1. phase' = "pass" => 1..(pass' - 1) = {}
    BY <1>1, <1>2
  <2>2. phase' = "drain" => stopped' \/ executionFailure'
    BY <1>1, <1>2, <1>4
  <2>3. phase' # "final"
    BY <1>2, <1>4
  <2> QED
    BY <2>1, <2>2, <2>3 DEF LoopInv
<1>9. OneWriterAtATime'
  BY <1>2, <1>3, <1>4
<1>10. ASSUME NEW u \in Tasks PROVE TaskInv(u)'
  <2>1. taskState'[u] = IF u = t THEN (IF ok[t] THEN "done" ELSE "failed") ELSE taskState[u]
    BY <1>1 DEF IInv, TypeOK
  <2>2. /\ executionFailure \/ (~stopped /\ ~ok[t]) => executionFailure'
        /\ UNCHANGED <<ok, stopped, thrown>>
    BY <1>1
  <2>3. CASE u = t
    BY <1>3, <2>1, <2>2, <2>3 DEF TaskInv, Waiting
  <2>4. CASE u # t
    <3>1. TaskInv(u)
      BY DEF IInv
    <3> QED
      BY <1>3, <2>1, <2>2, <2>4, <3>1 DEF TaskInv, Waiting
  <2> QED
    BY <2>3, <2>4
<1> QED
  BY <1>5, <1>6, <1>7, <1>8, <1>9, <1>10 DEF IInv

LEMMA SaveFailsStep == ASSUME IInv, NEW t \in Tasks, SaveFails(t) PROVE IInv'
<1>1. /\ phase # "pass" /\ child[t] = "saving" /\ Leave(t)
      /\ \/ phase = "race" /\ phase' = "unwind" /\ thrown' = TRUE
         \/ phase # "race" /\ UNCHANGED <<phase, thrown>>
      /\ UNCHANGED <<planning, plan, taskState, activeWriters, executionFailure, pass, ok,
                     stopped, lease>>
  BY DEF SaveFails
<1>2. /\ busySlots' \subseteq Slots /\ inFlight' \subseteq Tasks
      /\ child' \in [Tasks -> {"none", "running", "saving", "over"}]
      /\ t \in inFlight /\ inFlight' = inFlight \ {t}
      /\ child'[t] = "over" /\ \A u \in Tasks : u # t => child'[u] = child[u]
      /\ \A s \in busySlots' : \E u \in inFlight' : plan'[u].assignee = s
      /\ phase # "final" /\ phase' # "final" => OneWriterAtATime'
  BY <1>1, Left
<1>3. /\ plan # NoPlan
      /\ phase \in {"race", "drain"} \/ (thrown /\ phase \in {"unwind", "over"})
      /\ phase = "drain" => stopped
  BY <1>1, <1>2 DEF IInv, FlightInv, PlanningInv
<1>4. TypeOK'
  BY <1>1, <1>2 DEF IInv, TypeOK, planning
<1>5. PlanningInv'
  <2>1. CASE phase = "race"
    BY <1>1, <2>1 DEF PlanningInv, Delegated
  <2>2. CASE phase # "race"
    BY <1>1, <2>2, PlanKept
  <2> QED
    BY <2>1, <2>2
<1>6. FlightInv'
  BY <1>1, <1>2, <1>3 DEF FlightInv
<1>7. LoopInv'
  BY <1>1, <1>3 DEF LoopInv
<1>8. OneWriterAtATime'
  BY <1>1, <1>2, <1>3
<1>9. thrown' \/ stopped'
  BY <1>1, <1>3
<1>10. ASSUME NEW u \in Tasks PROVE TaskInv(u)'
  <2>1. CASE u = t
    BY <1>1, <1>2, <1>9, <2>1 DEF IInv, TaskInv, Waiting
  <2>2. CASE u # t
    BY <1>1, <1>2, <1>9, <2>2 DEF IInv, TaskInv, Waiting
  <2> QED
    BY <2>1, <2>2
<1> QED
  BY <1>4, <1>5, <1>6, <1>7, <1>8, <1>10 DEF IInv

\* With nothing to launch and nothing lost, every task of a valid plan is done.
LEMMA NothingLeft ==
  ASSUME IInv, phase = "drain", inFlight = {}, ~stopped, ~executionFailure
  PROVE  \A t \in Tasks : taskState[t] = "done"
<1> DEFINE Done == {t \in Tasks : taskState[t] = "done"}
<1>1. ~thrown /\ ValidPlan(plan) /\ plan # NoPlan
  BY DEF IInv, PlanningInv, Delegated
<1>2. ASSUME NEW t \in Tasks, plan[t].depends_on \subseteq Done PROVE t \in Done
  <2>1. DepsDone(t)
    BY <1>2 DEF DepsDone
  <2>2. ~Waiting(t)
    BY <2>1 DEF IInv, LoopInv, Ready
  <2>3. TaskInv(t) /\ child[t] \in {"none", "running", "saving", "over"}
    BY DEF IInv, TypeOK
  <2> QED
    BY <1>1, <2>2, <2>3 DEF TaskInv
<1>3. Tasks \subseteq Done
  <2> HIDE DEF Done
  <2> QED
    BY <1>1, <1>2, WavesReachAll
<1> QED
  BY <1>3

LEMMA DrainedStep == ASSUME IInv, Drained PROVE IInv'
<1>1. /\ phase = "drain" /\ inFlight = {}
      /\ \/ phase' = "unwind" /\ activeWriters' = activeWriters
         \/ /\ ~stopped /\ ~executionFailure
            /\ phase' = "final" /\ activeWriters' = activeWriters + 1
      /\ UNCHANGED <<planning, plan, taskState, busySlots, inFlight, pass, child, ok,
                     executionFailure, stopped, lease, thrown>>
  BY DEF Drained, control
<1>2. TypeOK'
  <2>1. activeWriters' \in Nat
    BY <1>1 DEF IInv, TypeOK
  <2> QED
    BY <1>1, <2>1 DEF IInv, TypeOK, planning
<1>3. PlanningInv'
  BY <1>1, PlanKept DEF Delegated
<1>4. FlightInv'
  BY <1>1 DEF IInv, FlightInv
<1>5. LoopInv'
  <2>1. CASE phase' = "unwind"
    BY <2>1 DEF LoopInv
  <2>2. CASE phase' = "final"
    <3>1. \A t \in Tasks : taskState[t] = "done"
      BY <1>1, <2>2, NothingLeft
    <3> QED
      BY <1>1, <2>2, <3>1 DEF LoopInv
  <2> QED
    BY <1>1, <2>1, <2>2
<1>6. OneWriterAtATime'
  <2>1. Writers' = Writers
    BY <1>1, WritersKept
  <2>2. activeWriters = 0 /\ Cardinality(Writers) = 0
    <3>1. \A t \in Tasks : child[t] # "running"
      BY <1>1 DEF IInv, TaskInv
    <3> QED
      BY <1>1, <3>1, NobodyWrites, NothingMustQueue
  <2> QED
    BY <1>1, <2>1, <2>2 DEF OneWriterAtATime, Finalists
<1>7. \A u \in Tasks : TaskInv(u)'
  BY <1>1, TasksKept
<1> QED
  BY <1>2, <1>3, <1>4, <1>5, <1>6, <1>7 DEF IInv

LEMMA FinalEndsStep == ASSUME IInv, FinalEnds PROVE IInv'
<1>1. /\ phase = "final" /\ phase' = "unwind" /\ activeWriters' = activeWriters - 1
      /\ UNCHANGED <<planning, plan, taskState, busySlots, inFlight, pass, child, ok,
                     executionFailure, stopped, lease, thrown>>
  BY DEF FinalEnds, control
<1>2. inFlight = {}
  BY <1>1 DEF IInv, FlightInv, PlanningInv
<1>3. OneWriterAtATime'
  BY <1>1, WritersKept, WritersFinite DEF IInv, OneWriterAtATime, Finalists
<1>4. TypeOK'
  <2>1. activeWriters' \in Nat
    BY <1>1, WritersFinite DEF IInv, OneWriterAtATime, Finalists
  <2> QED
    BY <1>1, <2>1 DEF IInv, TypeOK, planning
<1>5. PlanningInv'
  BY <1>1, PlanKept DEF Delegated
<1>6. FlightInv'
  BY <1>1, <1>2 DEF IInv, FlightInv
<1>7. LoopInv'
  BY <1>1 DEF LoopInv
<1>8. \A u \in Tasks : TaskInv(u)'
  BY <1>1, TasksKept
<1> QED
  BY <1>3, <1>4, <1>5, <1>6, <1>7, <1>8 DEF IInv

LEMMA ReleaseStep == ASSUME IInv, Release PROVE IInv'
<1>1. /\ phase = "unwind" /\ phase' = "over" /\ lease' = FALSE
      /\ UNCHANGED <<planning, plan, taskState, busySlots, inFlight, activeWriters,
                     executionFailure, pass, child, ok, stopped, thrown>>
  BY DEF Release
<1>2. TypeOK'
  BY <1>1 DEF IInv, TypeOK, planning
<1>3. PlanningInv'
  BY <1>1, PlanKept
<1>4. FlightInv'
  BY <1>1 DEF IInv, FlightInv
<1>5. LoopInv'
  BY <1>1 DEF LoopInv
<1>6. OneWriterAtATime'
  BY <1>1, CountKept DEF IInv
<1>7. \A u \in Tasks : TaskInv(u)'
  BY <1>1, TasksKept
<1> QED
  BY <1>2, <1>3, <1>4, <1>5, <1>6, <1>7 DEF IInv

LEMMA StopStep == ASSUME IInv, Stop PROVE IInv'
<1>1. /\ phase # "pass" /\ stopped' = TRUE
      /\ UNCHANGED <<planning, plan, taskState, busySlots, inFlight, activeWriters,
                     executionFailure, phase, pass, child, ok, lease, thrown>>
  BY DEF Stop
<1>2. TypeOK'
  BY <1>1 DEF IInv, TypeOK, planning
<1>3. PlanningInv'
  BY <1>1, PlanKept
<1>4. FlightInv'
  BY <1>1 DEF IInv, FlightInv
<1>5. LoopInv'
  BY <1>1 DEF IInv, LoopInv
<1>6. OneWriterAtATime'
  BY <1>1, CountKept DEF IInv
<1>7. \A u \in Tasks : TaskInv(u)'
  BY <1>1, TasksKept
<1> QED
  BY <1>2, <1>3, <1>4, <1>5, <1>6, <1>7 DEF IInv

-------------------------------------------------------------------------------
(* The invariant, and what it is for.                                        *)

LEMMA IInvInit == Init => IInv
<1> SUFFICES ASSUME Init PROVE IInv
  OBVIOUS
<1> USE DEF Init
<1>1. TypeOK
  <2>1. 1 \in 1..NumTasks + 1 /\ 0 \in 0..3 /\ 0 \in Nat
    BY PlanAssumption
  <2> QED
    BY <2>1 DEF TypeOK
<1>2. PlanningInv
  BY DEF PlanningInv, Delegated
<1>3. FlightInv /\ LoopInv
  BY DEF FlightInv, LoopInv
<1>4. OneWriterAtATime
  BY NobodyWrites DEF OneWriterAtATime, Finalists
<1>5. \A t \in Tasks : TaskInv(t)
  BY DEF TaskInv, Waiting
<1> QED
  BY <1>1, <1>2, <1>3, <1>4, <1>5 DEF IInv

LEMMA IInvStutter == ASSUME IInv, UNCHANGED vars PROVE IInv'
<1> USE DEF vars, IInv
<1>1. TypeOK'
  BY DEF TypeOK, planning
<1>2. PlanningInv'
  BY PlanKept
<1>3. FlightInv'
  BY DEF FlightInv
<1>4. LoopInv'
  BY DEF LoopInv, Ready, Waiting, DepsDone
<1>5. OneWriterAtATime'
  BY CountKept
<1>6. \A t \in Tasks : TaskInv(t)'
  BY TasksKept
<1> QED
  BY <1>1, <1>2, <1>3, <1>4, <1>5, <1>6

LEMMA IInvAlways == Spec => []IInv
<1>1. IInv /\ [Next]_vars => IInv'
  <2> SUFFICES ASSUME IInv, [Next]_vars PROVE IInv'
    OBVIOUS
  <2>1. CASE Command
    BY <2>1, ProposeStep, MergeStep, BeginStep, EndPassStep, DrainedStep, FinalEndsStep,
       ReleaseStep DEF Command
  <2>2. ASSUME NEW t \in Tasks, Step(t) PROVE IInv'
    BY <2>2, PassOverStep, QueueStep, LaunchStep, ChildEndsStep, SavedStep, SaveFailsStep
       DEF Step
  <2> QED
    BY <2>1, <2>2, ProposalStep, StopStep, IInvStutter DEF Next
<1> QED
  BY <1>1, IInvInit, PTL DEF Spec

\* Type correctness of the command, whatever plan it executes.
THEOREM CollabTypes == Spec => []TypeOK
<1>1. IInv => TypeOK
  BY DEF IInv
<1> QED
  BY <1>1, IInvAlways, PTL

\* One write-enabled child at a time, the architect's final turn included, for any
\* number of slots and tasks; the counter the launch looks at is exact.
THEOREM CollabOneWriter == Spec => []OneWriterAtATime
<1>1. IInv => OneWriterAtATime
  BY DEF IInv
<1> QED
  BY <1>1, IInvAlways, PTL

\* The architect's final turn comes only when every task is done, every slot has
\* done one and two proposals were good: a plan without cycles never gets stuck.
THEOREM CollabFinalHasEverything == Spec => []FinalHasEverything
<1>1. IInv => FinalHasEverything
  <2> SUFFICES ASSUME IInv, phase = "final" PROVE FinalHasEverything
    BY DEF FinalHasEverything
  <2>1. \A t \in Tasks : taskState[t] = "done" /\ ok[t]
    BY DEF IInv, LoopInv, TaskInv
  <2>2. \A s \in Slots : \E t \in Tasks : plan[t].assignee = s
    BY DEF IInv, PlanningInv, Delegated, EverySlotWorks
  <2> QED
    BY <2>1, <2>2 DEF IInv, PlanningInv, Delegated, FinalHasEverything
<1> QED
  BY <1>1, IInvAlways, PTL

\* The command ends with no child behind it, however it is stopped, unless a failed
\* save threw it out of its loop.
THEOREM CollabChildrenReaped == Spec => []ChildrenReaped
<1>1. IInv => ChildrenReaped
  <2> SUFFICES ASSUME IInv, phase \in {"unwind", "over"}, ~thrown
               PROVE  Children = {} /\ Planners = {}
    BY DEF ChildrenReaped
  <2>1. inFlight = {}
    BY DEF IInv, FlightInv
  <2> QED
    BY <2>1 DEF IInv, TaskInv, PlanningInv, Children
<1> QED
  BY <1>1, IInvAlways, PTL

-------------------------------------------------------------------------------
(* The writer lease.                                                         *)

USE DEF Acquiring, NoFile, Lock

\* The declared shape of every variable is kept by every step.
LEMMA LeaseTypePreserved == LeaseTypeOK /\ [LeaseNext]_leaseVars => LeaseTypeOK'
<1> SUFFICES ASSUME LeaseTypeOK, [LeaseNext]_leaseVars PROVE LeaseTypeOK'
  OBVIOUS
<1> USE LeaseAssumption DEF LeaseTypeOK, Goto
<1>1. CASE UNCHANGED leaseVars
  BY <1>1 DEF leaseVars
<1>2. ASSUME NEW p \in Procs, Acquire(p) PROVE LeaseTypeOK'
  BY <1>2 DEF Acquire
<1>3. ASSUME NEW p \in Procs, Open(p) PROVE LeaseTypeOK'
  BY <1>3 DEF Open
<1>4. ASSUME NEW p \in Procs, Write(p) PROVE LeaseTypeOK'
  BY <1>4 DEF Write
<1>5. ASSUME NEW p \in Procs, WriteFails(p) PROVE LeaseTypeOK'
  BY <1>5 DEF WriteFails
<1>6. ASSUME NEW p \in Procs, Read(p) PROVE LeaseTypeOK'
  BY <1>6 DEF Read
<1>7. ASSUME NEW p \in Procs, Check(p) PROVE LeaseTypeOK'
  BY <1>7 DEF Check
<1>8. ASSUME NEW p \in Procs, Unlink(p) PROVE LeaseTypeOK'
  BY <1>8 DEF Unlink
<1>9. ASSUME NEW p \in Procs, ReleaseRead(p) PROVE LeaseTypeOK'
  BY <1>9 DEF ReleaseRead
<1>10. ASSUME NEW p \in Procs, ReleaseUnlink(p) PROVE LeaseTypeOK'
  BY <1>10 DEF ReleaseUnlink
<1>11. ASSUME NEW p \in Procs, Die(p) PROVE LeaseTypeOK'
  BY <1>11 DEF Die
<1> QED
  BY <1>1, <1>2, <1>3, <1>4, <1>5, <1>6, <1>7, <1>8, <1>9, <1>10, <1>11 DEF LeaseNext

\* Every reachable state of the lease has its declared shape; the loop of
\* acquireWriterLease makes at most two attempts.
THEOREM LeaseTypes == LeaseSpec => []LeaseTypeOK
<1>1. ASSUME LeaseInit PROVE LeaseTypeOK
  <2>1. file \in {NoFile} \cup [by : Procs, text : {"empty", "written"}]
    BY <1>1 DEF LeaseInit
  <2>2. overlap \in BOOLEAN
    BY <1>1 DEF LeaseInit
  <2>3. pc \in [Procs -> Acquiring \cup {"idle", "held", "release", "dead"}]
    BY <1>1 DEF LeaseInit
  <2> QED
    BY <1>1, <2>1, <2>2, <2>3 DEF LeaseInit, LeaseTypeOK
<1> QED
  BY <1>1, LeaseTypePreserved, PTL DEF LeaseSpec

-------------------------------------------------------------------------------
\* A live process that finds its pid in a written lock is using that lock, with
\* any number of processes in acquireWriterLease at once.
THEOREM LockIsBacked == LeaseSpec => []LockBacked
<1>1. LeaseInit => LockBacked
  BY LeaseAssumption DEF LeaseInit, LockBacked
<1>2. LeaseTypeOK /\ LockBacked /\ [LeaseNext]_leaseVars => LockBacked'
  <2> SUFFICES ASSUME LeaseTypeOK, LockBacked, [LeaseNext]_leaseVars PROVE LockBacked'
    OBVIOUS
  <2> USE LeaseAssumption DEF LeaseTypeOK, LockBacked, Goto
  <2>1. CASE UNCHANGED leaseVars
    BY <2>1 DEF leaseVars
  <2>2. ASSUME NEW p \in Procs, Acquire(p) \/ Read(p) \/ Check(p) PROVE LockBacked'
    BY <2>2 DEF Acquire, Read, Check
  <2>3. ASSUME NEW p \in Procs, Open(p) PROVE LockBacked'
    BY <2>3 DEF Open
  <2>4. ASSUME NEW p \in Procs, Write(p) PROVE LockBacked'
    BY <2>4 DEF Write
  <2>5. ASSUME NEW p \in Procs, WriteFails(p) \/ Die(p) PROVE LockBacked'
    BY <2>5 DEF WriteFails, Die
  <2>6. ASSUME NEW p \in Procs, Unlink(p) \/ ReleaseUnlink(p) PROVE LockBacked'
    BY <2>6 DEF Unlink, ReleaseUnlink
  <2>7. ASSUME NEW p \in Procs, ReleaseRead(p) PROVE LockBacked'
    BY <2>7 DEF ReleaseRead
  <2> QED
    BY <2>1, <2>2, <2>3, <2>4, <2>5, <2>6, <2>7 DEF LeaseNext
<1> QED
  BY <1>1, <1>2, LeaseTypes, PTL DEF LeaseSpec

-------------------------------------------------------------------------------
(* While acquisitions do not overlap: what the process that is acquiring      *)
(* knows of the file, and what a holder can rely on.                          *)

Removable == file = NoFile \/ file.text = "empty" \/ ~Alive(file.by)

Alone ==
  \A p, q \in Procs : pc[p] \in Acquiring /\ pc[q] \in Acquiring => p = q

Owned ==
  \A p \in Procs :
    /\ pc[p] = "write" => file = Lock(p, "empty")
    /\ pc[p] \in {"held", "release"} => file = Lock(p, "written")

Knows(p) ==
  /\ pc[p] = "check" =>
       IF seen[p] = NoProc THEN file.text = "empty"
       ELSE file = NoFile \/ file = Lock(seen[p], "written")
  /\ pc[p] = "unlink" => Removable
  /\ try[p] = 2 /\ pc[p] = "open" => file = NoFile
  /\ try[p] = 2 => pc[p] \notin {"read", "check", "unlink"}

SequentialInv == ~overlap => Alone /\ Owned /\ \A p \in Procs : Knows(p)

LEMMA SequentialPreserved ==
  LeaseTypeOK /\ SequentialInv /\ [LeaseNext]_leaseVars => SequentialInv'
<1> SUFFICES ASSUME LeaseTypeOK, SequentialInv, [LeaseNext]_leaseVars, ~overlap'
             PROVE  (Alone /\ Owned /\ \A p \in Procs : Knows(p))'
  BY DEF SequentialInv
<1>0. ~overlap
  BY DEF LeaseNext, leaseVars, Acquire, Open, Write, WriteFails, Read, Check, Unlink,
         ReleaseRead, ReleaseUnlink, Die
<1> Alone /\ Owned /\ \A p \in Procs : Knows(p)
  BY <1>0 DEF SequentialInv
<1> USE LeaseAssumption DEF LeaseTypeOK, Goto, Alone, Owned, Knows, Removable, Alive
<1>1. CASE UNCHANGED leaseVars
  BY <1>1 DEF leaseVars
<1>2. ASSUME NEW p \in Procs, Acquire(p)
      PROVE (Alone /\ Owned /\ \A q \in Procs : Knows(q))'
  <2>1. \A q \in Procs : pc[q] \notin Acquiring
    BY <1>2, Zenon DEF Acquire
  <2>2. /\ pc[p] = "idle" /\ pc' = [pc EXCEPT ![p] = "open"]
        /\ try' = [try EXCEPT ![p] = 1] /\ UNCHANGED <<file, seen>>
    BY <1>2 DEF Acquire
  <2>3. Alone' /\ Owned'
    BY <2>1, <2>2
  <2>4. ASSUME NEW q \in Procs PROVE Knows(q)'
    BY <2>1, <2>2
  <2> QED
    BY <2>3, <2>4
<1>3. ASSUME NEW p \in Procs, Open(p)
      PROVE (Alone /\ Owned /\ \A q \in Procs : Knows(q))'
  BY <1>3 DEF Open
<1>4. ASSUME NEW p \in Procs, Write(p)
      PROVE (Alone /\ Owned /\ \A q \in Procs : Knows(q))'
  BY <1>4 DEF Write
<1>5. ASSUME NEW p \in Procs, WriteFails(p) \/ Die(p)
      PROVE (Alone /\ Owned /\ \A q \in Procs : Knows(q))'
  BY <1>5 DEF WriteFails, Die
<1>6. ASSUME NEW p \in Procs, Read(p)
      PROVE (Alone /\ Owned /\ \A q \in Procs : Knows(q))'
  BY <1>6 DEF Read
<1>7. ASSUME NEW p \in Procs, Check(p)
      PROVE (Alone /\ Owned /\ \A q \in Procs : Knows(q))'
  BY <1>7 DEF Check
<1>8. ASSUME NEW p \in Procs, Unlink(p)
      PROVE (Alone /\ Owned /\ \A q \in Procs : Knows(q))'
  BY <1>8 DEF Unlink
<1>9. ASSUME NEW p \in Procs, ReleaseRead(p)
      PROVE (Alone /\ Owned /\ \A q \in Procs : Knows(q))'
  BY <1>9 DEF ReleaseRead
<1>10. ASSUME NEW p \in Procs, ReleaseUnlink(p)
      PROVE (Alone /\ Owned /\ \A q \in Procs : Knows(q))'
  BY <1>10 DEF ReleaseUnlink
<1> QED
  BY <1>1, <1>2, <1>3, <1>4, <1>5, <1>6, <1>7, <1>8, <1>9, <1>10 DEF LeaseNext

LEMMA SequentialAlways == LeaseSpec => []SequentialInv
<1>1. LeaseInit => SequentialInv
  BY LeaseAssumption
     DEF LeaseInit, SequentialInv, Alone, Owned, Knows
<1> QED
  BY <1>1, SequentialPreserved, LeaseTypes, PTL DEF LeaseSpec

\* Without overlapping acquisitions the lease excludes a second writer, through
\* crashes and failed writes, and the file names the holder.
THEOREM LeaseExcludes == LeaseSpec => []ExclusiveWhenSequential
<1>1. SequentialInv => ExclusiveWhenSequential
  BY LeaseAssumption
     DEF SequentialInv, Owned, ExclusiveWhenSequential, AtMostOneHolder
<1> QED
  BY <1>1, SequentialAlways, PTL

\* A stale or unreadable lock costs a lone acquirer one attempt.
THEOREM StaleLockIsTakenOver == LeaseSpec => []StaleLockTakenOver
<1>1. SequentialInv => StaleLockTakenOver
  BY DEF SequentialInv, Knows, StaleLockTakenOver
<1> QED
  BY <1>1, SequentialAlways, PTL

HIDE DEF Acquiring, NoFile, Lock

-------------------------------------------------------------------------------
(* The sprint tracker: ORDER BY.                                             *)

NoDup(s) == \A p, q \in DOMAIN s : s[p] = s[q] => p = q

\* What comes before another has the smaller rank.
LEMMA RankOrder ==
  ASSUME NEW S \in SUBSET Nat, IsFiniteSet(S), NEW h \in [S -> Int],
         NEW a \in S, NEW b \in S, Before(h, a, b)
  PROVE  Rank(h, a) < Rank(h, b)
<1> DEFINE A == {x \in S : Before(h, x, a)}
           B == {x \in S : Before(h, x, b)}
<1>1. ASSUME NEW x \in A PROVE x \in B
  <2>1. x \in S /\ x \in Int /\ a \in Int /\ b \in Int
    OBVIOUS
  <2>2. h[x] \in Int /\ h[a] \in Int /\ h[b] \in Int
    BY <2>1
  <2>3. Before(h, x, a)
    OBVIOUS
  <2>4. Before(h, x, b)
    BY <2>1, <2>2, <2>3 DEF Before
  <2> QED
    BY <2>1, <2>4
<1>2. a \in B /\ a \notin A
  BY DEF Before
<1>3. IsFiniteSet(B) /\ IsFiniteSet(A)
  BY FS_Subset
<1>4. Cardinality(A) <= Cardinality(B) /\ Cardinality(B) # Cardinality(A)
  BY <1>1, <1>2, <1>3, FS_Subset
<1>5. Cardinality(A) \in Nat /\ Cardinality(B) \in Nat
  BY <1>3, FS_CardinalityType
<1>6. Rank(h, a) = Cardinality(A) /\ Rank(h, b) = Cardinality(B)
  BY DEF Rank
<1> HIDE DEF A, B
<1> QED
  BY <1>4, <1>5, <1>6

LEMMA RankRange ==
  ASSUME NEW S \in SUBSET Nat, IsFiniteSet(S), NEW h \in [S -> Int], NEW a \in S
  PROVE  Rank(h, a) \in 0..Cardinality(S) - 1
<1> DEFINE A == {x \in S : Before(h, x, a)}
<1>1. A \subseteq S /\ a \notin A
  BY DEF Before
<1>2. IsFiniteSet(A) /\ Cardinality(A) <= Cardinality(S) /\ Cardinality(S) # Cardinality(A)
  BY <1>1, FS_Subset
<1>3. Cardinality(A) \in Nat /\ Cardinality(S) \in Nat
  BY <1>2, FS_CardinalityType
<1>4. Rank(h, a) = Cardinality(A)
  BY DEF Rank
<1> HIDE DEF A
<1> QED
  BY <1>2, <1>3, <1>4

LEMMA RankInjective ==
  ASSUME NEW S \in SUBSET Nat, IsFiniteSet(S), NEW h \in [S -> Int],
         NEW a \in S, NEW b \in S, Rank(h, a) = Rank(h, b)
  PROVE  a = b
<1>1. SUFFICES ASSUME a # b PROVE FALSE
  OBVIOUS
<1>2. Before(h, a, b) \/ Before(h, b, a)
  BY <1>1 DEF Before
<1>3. Rank(h, a) < Rank(h, b) \/ Rank(h, b) < Rank(h, a)
  BY <1>2, RankOrder
<1>4. Rank(h, a) \in Int
  BY RankRange
<1> QED
  BY <1>3, <1>4

LEMMA RankOnto ==
  ASSUME NEW S \in SUBSET Nat, IsFiniteSet(S), NEW h \in [S -> Int],
         NEW i \in 0..Cardinality(S) - 1
  PROVE  \E a \in S : Rank(h, a) = i
<1> DEFINE n == Cardinality(S)
           f == [a \in S |-> Rank(h, a)]
<1>1. n \in Nat
  BY FS_CardinalityType
<1>2. IsFiniteSet(0..n - 1) /\ Cardinality(0..n - 1) = n
  BY <1>1, FS_Interval
<1>3. f \in [S -> 0..n - 1]
  BY RankRange
<1>4. \A a, b \in S : f[a] = f[b] => a = b
  BY RankInjective
<1>5. f \in Injection(S, 0..n - 1)
  BY <1>3, <1>4 DEF Injection, IsInjective
<1>6. f \in Surjection(S, 0..n - 1)
  BY <1>2, <1>5, FS_Injection
<1> QED
  BY <1>6 DEF Surjection

\* Sorting loses nothing, lists nothing twice, and lists by rank.
LEMMA SortedProperties ==
  ASSUME NEW S \in SUBSET Nat, IsFiniteSet(S), NEW h \in [S -> Int]
  PROVE  /\ Sorted(h) \in Seq(S) /\ Len(Sorted(h)) = Cardinality(S)
         /\ \A i \in DOMAIN Sorted(h) : Rank(h, Sorted(h)[i]) = i - 1
         /\ ToSet(Sorted(h)) = S /\ NoDup(Sorted(h))
<1> DEFINE n == Cardinality(S)
           s == Sorted(h)
<1>1. n \in Nat
  BY FS_CardinalityType
<1>2. s = [i \in 1..n |-> CHOOSE a \in S : Rank(h, a) = i - 1]
  BY DEF Sorted
<1>3. \A i \in 1..n : s[i] \in S /\ Rank(h, s[i]) = i - 1
  <2> TAKE i \in 1..n
  <2>1. i - 1 \in 0..n - 1
    BY <1>1
  <2>2. \E a \in S : Rank(h, a) = i - 1
    BY <2>1, RankOnto
  <2> QED
    BY <1>2, <2>2
<1>4. s \in Seq(S) /\ Len(s) = n /\ DOMAIN s = 1..n
  BY <1>1, <1>2, <1>3
<1>5. ASSUME NEW a \in S PROVE \E i \in 1..n : s[i] = a
  <2> DEFINE i == Rank(h, a) + 1
  <2>1. Rank(h, a) \in 0..n - 1
    BY RankRange
  <2>2. i \in 1..n /\ i - 1 = Rank(h, a)
    BY <1>1, <2>1
  <2>3. Rank(h, s[i]) = Rank(h, a) /\ s[i] \in S
    BY <1>3, <2>2
  <2>4. \A x, y \in S : Rank(h, x) = Rank(h, y) => x = y
    BY RankInjective
  <2> HIDE DEF s, i
  <2>5. s[i] = a
    BY <2>3, <2>4
  <2> QED
    BY <2>2, <2>5
<1>6. ToSet(s) = S
  BY <1>3, <1>4, <1>5 DEF ToSet
<1>7. NoDup(s)
  BY <1>1, <1>3, <1>4 DEF NoDup
<1> QED
  BY <1>3, <1>4, <1>6, <1>7

\* A sequence that gives its elements their indices as heights is the sorted one.
LEMMA SortedUnique ==
  ASSUME NEW S \in SUBSET Nat, NEW s \in Seq(S), NoDup(s), ToSet(s) = S,
         NEW h \in [S -> Int], \A p \in DOMAIN s : h[s[p]] = p - 1
  PROVE  IsFiniteSet(S) /\ Sorted(h) = s
<1> DEFINE n == Len(s)
<1>1. n \in Nat /\ DOMAIN s = 1..n /\ s \in [1..n -> S]
  OBVIOUS
<1>2. s \in Bijection(1..n, S)
  BY <1>1 DEF NoDup, ToSet, Bijection, Injection, Surjection, IsInjective
<1>3. IsFiniteSet(S) /\ Cardinality(S) = n
  BY <1>1, <1>2, FS_NatBijection, FS_CountingElements DEF ExistsBijection
<1>4. ASSUME NEW p \in 1..n PROVE Rank(h, s[p]) = p - 1
  <2> DEFINE B == {b \in S : Before(h, b, s[p])}
             f == [q \in 1..p - 1 |-> s[q]]
  <2>1. ASSUME NEW q \in 1..n PROVE Before(h, s[q], s[p]) <=> q < p
    <3>1. h[s[q]] = q - 1 /\ h[s[p]] = p - 1
      BY <1>1
    <3>2. q = p => s[q] = s[p]
      OBVIOUS
    <3>3. s[q] \in Int /\ s[p] \in Int
      BY <1>1
    <3> QED
      BY <3>1, <3>2, <3>3 DEF Before
  <2>2. \A q \in 1..p - 1 : q \in 1..n /\ s[q] \in B
    BY <1>1, <2>1
  <2>3. \A b \in B : \E q \in 1..p - 1 : s[q] = b
    BY <1>1, <2>1 DEF ToSet
  <2>4. \A q, r \in 1..p - 1 : s[q] = s[r] => q = r
    BY <1>1 DEF NoDup
  <2>5. f \in Bijection(1..p - 1, B)
    BY <2>2, <2>3, <2>4 DEF Bijection, Injection, Surjection, IsInjective
  <2> HIDE DEF f, B
  <2>6. p - 1 \in Nat /\ ExistsBijection(1..p - 1, B)
    BY <1>1, <2>5 DEF ExistsBijection
  <2>7. Cardinality(B) = p - 1
    BY <2>6, FS_CountingElements
  <2> QED
    BY <2>7 DEF Rank, B
<1>5. ASSUME NEW p \in 1..n PROVE Sorted(h)[p] = s[p]
  <2>1. Sorted(h)[p] \in S /\ Rank(h, Sorted(h)[p]) = p - 1
    BY <1>3, SortedProperties
  <2>2. Rank(h, Sorted(h)[p]) = Rank(h, s[p]) /\ s[p] \in S
    BY <1>1, <1>4, <2>1
  <2> QED
    BY <1>3, <2>1, <2>2, RankInjective
<1>6. Sorted(h) = [i \in 1..n |-> Sorted(h)[i]]
  BY <1>3 DEF Sorted
<1>7. s = [i \in 1..n |-> s[i]]
  BY <1>1
<1> QED
  BY <1>3, <1>5, <1>6, <1>7

\* Some element is lowest, some is highest.
LEMMA Lowest ==
  ASSUME NEW S \in SUBSET Nat, IsFiniteSet(S), S # {}, NEW h \in [S -> Int]
  PROVE  \E a \in S : \A b \in S : h[a] <= h[b]
<1> DEFINE n == Cardinality(S)
           a == Sorted(h)[1]
<1>1. n \in Nat /\ n # 0
  BY FS_CardinalityType, FS_EmptySet
<1>2. a \in S /\ Rank(h, a) = 0
  <2>1. 1 \in DOMAIN Sorted(h) /\ Sorted(h) \in Seq(S)
    BY <1>1, SortedProperties
  <2> QED
    BY <2>1, SortedProperties
<1>3. {b \in S : Before(h, b, a)} = {}
  <2>1. IsFiniteSet({b \in S : Before(h, b, a)})
    BY FS_Subset
  <2>2. Cardinality({b \in S : Before(h, b, a)}) = 0
    BY <1>2 DEF Rank
  <2> QED
    BY <2>1, <2>2, FS_EmptySet
<1> HIDE DEF a
<1>4. \A b \in S : ~(h[b] < h[a])
  BY <1>3 DEF Before
<1>5. \A b \in S : h[a] \in Int /\ h[b] \in Int
  BY <1>2
<1> QED
  BY <1>2, <1>4, <1>5

LEMMA Highest ==
  ASSUME NEW S \in SUBSET Nat, IsFiniteSet(S), S # {}, NEW h \in [S -> Int]
  PROVE  \E a \in S : \A b \in S : h[a] >= h[b]
<1> DEFINE g == [x \in S |-> -h[x]]
<1>1. g \in [S -> Int]
  OBVIOUS
<1>2. PICK a \in S : \A b \in S : g[a] <= g[b]
  BY <1>1, Lowest
<1> QED
  BY <1>2

-------------------------------------------------------------------------------
(* Boards.                                                                   *)

Lists == [id : Nat, cards : Seq(Nat)]

\* No column and no card is on the board twice.
Tidy(board) ==
  /\ board \in Seq(Lists)
  /\ \A i, j \in DOMAIN board :
       /\ board[i].id = board[j].id => i = j
       /\ \A p \in DOMAIN board[i].cards, q \in DOMAIN board[j].cards :
            board[i].cards[p] = board[j].cards[q] => i = j /\ p = q

\* The same columns and the same cards, the cards anywhere.
Regrouped(o, board) ==
  /\ Tidy(o) /\ DOMAIN o = DOMAIN board
  /\ \A i \in DOMAIN board : o[i].id = board[i].id
  /\ Shown(o) = Shown(board)

LEMMA TidyParts ==
  ASSUME NEW board, Tidy(board), NEW i \in DOMAIN board
  PROVE  /\ board[i] \in Lists /\ board[i].id \in Nat /\ board[i].cards \in Seq(Nat)
         /\ board[i] = [id |-> board[i].id, cards |-> board[i].cards]
<1>1. board \in Seq(Lists)
  BY DEF Tidy
<1>2. board[i] \in Lists
  BY <1>1
<1> QED
  BY <1>2 DEF Lists

LEMMA ShownWhere ==
  \A board, c : c \in Shown(board) <=>
    \E i \in DOMAIN board : \E p \in DOMAIN board[i].cards : board[i].cards[p] = c
  BY DEF Shown, ToSet

LEMMA ShownAt ==
  ASSUME NEW board, NEW i \in DOMAIN board, NEW p \in DOMAIN board[i].cards
  PROVE  board[i].cards[p] \in Shown(board)
  BY ShownWhere

LEMMA BoardShape ==
  ASSUME NEW K \in SUBSET Nat, IsFiniteSet(K), NEW cs \in [K -> Int],
         NEW C \in SUBSET Nat, IsFiniteSet(C), NEW ks \in [C -> [column : K, position : Int]]
  PROVE  /\ Tidy(Board(cs, ks))
         /\ DOMAIN Board(cs, ks) = DOMAIN Sorted(cs)
         /\ \A i \in DOMAIN Sorted(cs) : Board(cs, ks)[i].id = Sorted(cs)[i]
         /\ Shown(Board(cs, ks)) = C
<1> DEFINE order == Sorted(cs)
           board == Board(cs, ks)
           X(k) == {c \in C : ks[c].column = k}
<1>1. /\ order \in Seq(K) /\ NoDup(order) /\ ToSet(order) = K
  BY SortedProperties
<1>2. board = [i \in DOMAIN order |-> [id |-> order[i], cards |-> Sorted(In(ks, order[i]))]]
  BY DEF Board
<1>3. ASSUME NEW k \in K
      PROVE  /\ Sorted(In(ks, k)) \in Seq(X(k)) /\ NoDup(Sorted(In(ks, k)))
             /\ ToSet(Sorted(In(ks, k))) = X(k)
  <2>1. X(k) \in SUBSET Nat /\ IsFiniteSet(X(k))
    BY FS_Subset
  <2>2. In(ks, k) \in [X(k) -> Int]
    BY DEF In
  <2> HIDE DEF X
  <2> QED
    BY <2>1, <2>2, SortedProperties
<1>4. \A i \in DOMAIN order : order[i] \in K
  BY <1>1
<1>5. ASSUME NEW i \in DOMAIN order
      PROVE  /\ board[i].id = order[i]
             /\ board[i].cards = Sorted(In(ks, order[i]))
             /\ board[i].cards \in Seq(X(order[i]))
             /\ NoDup(board[i].cards) /\ ToSet(board[i].cards) = X(order[i])
  <2>1. board[i] = [id |-> order[i], cards |-> Sorted(In(ks, order[i]))]
    BY <1>2
  <2> HIDE DEF board
  <2>2. board[i].id = order[i] /\ board[i].cards = Sorted(In(ks, order[i]))
    BY <2>1
  <2>3. order[i] \in K
    BY <1>4
  <2> HIDE DEF X
  <2> QED
    BY <1>3, <2>2, <2>3
<1>6. board \in Seq(Lists) /\ DOMAIN board = DOMAIN order
  <2>1. \A i \in DOMAIN order : board[i] \in Lists
    <3> TAKE i \in DOMAIN order
    <3>1. board[i].cards \in Seq(Nat)
      <4>1. X(order[i]) \subseteq Nat
        OBVIOUS
      <4>2. board[i].cards \in Seq(X(order[i]))
        BY <1>5
      <4> HIDE DEF X, board
      <4> QED
        BY <4>1, <4>2
    <3>2. board[i].id \in Nat
      BY <1>4, <1>5
    <3>3. board[i] = [id |-> board[i].id, cards |-> board[i].cards]
      BY <1>2
    <3> QED
      BY <3>1, <3>2, <3>3 DEF Lists
  <2>2. Len(order) \in Nat /\ DOMAIN order = 1..Len(order)
    BY <1>1
  <2>3. board \in [1..Len(order) -> Lists]
    BY <1>2, <2>1, <2>2
  <2> QED
    BY <1>2, <2>2, <2>3
<1>7. ASSUME NEW i \in DOMAIN order, NEW j \in DOMAIN order,
             NEW p \in DOMAIN board[i].cards, NEW q \in DOMAIN board[j].cards,
             board[i].cards[p] = board[j].cards[q]
      PROVE  i = j /\ p = q
  <2>1. board[i].cards[p] \in X(order[i]) /\ board[j].cards[q] \in X(order[j])
    BY <1>5 DEF ToSet
  <2>2. order[i] = order[j]
    BY <1>7, <2>1
  <2>3. i = j
    BY <1>1, <2>2 DEF NoDup
  <2> QED
    BY <1>5, <1>7, <2>3 DEF NoDup
<1>8. ASSUME NEW i \in DOMAIN order, NEW j \in DOMAIN order, board[i].id = board[j].id
      PROVE  i = j
  <2> HIDE DEF board
  <2>1. order[i] = order[j]
    BY <1>5, <1>8
  <2> HIDE DEF order
  <2> QED
    BY <1>1, <2>1 DEF NoDup
<1>9. Tidy(board)
  BY <1>6, <1>7, <1>8 DEF Tidy
<1>10. Shown(board) = C
  <2>1. ASSUME NEW c \in Shown(board) PROVE c \in C
    <3>1. PICK i \in DOMAIN order : c \in ToSet(board[i].cards)
      BY <1>6 DEF Shown
    <3> QED
      BY <1>5, <3>1
  <2>2. ASSUME NEW c \in C PROVE c \in Shown(board)
    <3>1. PICK i \in DOMAIN order : order[i] = ks[c].column
      BY <1>1 DEF ToSet
    <3>2. c \in ToSet(board[i].cards)
      BY <1>5, <3>1
    <3> QED
      BY <1>6, <3>2 DEF Shown
  <2> QED
    BY <2>1, <2>2
<1> QED
  BY <1>5, <1>6, <1>9, <1>10

\* Each listed card is placed where it is listed.
LEMMA PlaceListed ==
  ASSUME NEW o, Tidy(o), NEW i \in DOMAIN o, NEW p \in DOMAIN o[i].cards
  PROVE  Place(o, o[i].cards[p]) = [column |-> o[i].id, position |-> p - 1]
<1> DEFINE c == o[i].cards[p]
           j == CHOOSE k \in DOMAIN o : c \in ToSet(o[k].cards)
           q == CHOOSE r \in DOMAIN o[j].cards : o[j].cards[r] = c
<1>1. c \in ToSet(o[i].cards)
  BY DEF ToSet
<1>2. j \in DOMAIN o /\ c \in ToSet(o[j].cards)
  BY <1>1
<1>3. q \in DOMAIN o[j].cards /\ o[j].cards[q] = c
  BY <1>2 DEF ToSet
<1> HIDE DEF j, q
<1>4. j = i /\ q = p
  BY <1>2, <1>3 DEF Tidy
<1>5. Place(o, c) = [column |-> o[j].id, position |-> q - 1]
  BY DEF Place, j, q
<1> QED
  BY <1>4, <1>5

\* A sequence is one over the set of its elements.
LEMMA OverItsElements == ASSUME NEW s \in Seq(Nat) PROVE s \in Seq(ToSet(s))
<1>1. Len(s) \in Nat /\ s \in [1..Len(s) -> Nat] /\ DOMAIN s = 1..Len(s)
  OBVIOUS
<1>2. \A p \in 1..Len(s) : s[p] \in ToSet(s)
  BY <1>1 DEF ToSet
<1>3. s \in [1..Len(s) -> ToSet(s)]
  BY <1>1, <1>2
<1> QED
  BY <1>1, <1>3, SeqDef

\* Storing a regrouped board and reading it back gives that board.
LEMMA ReorderedBoard ==
  ASSUME NEW K \in SUBSET Nat, IsFiniteSet(K), NEW cs \in [K -> Int],
         NEW C \in SUBSET Nat, IsFiniteSet(C), NEW ks \in [C -> [column : K, position : Int]],
         NEW o, Regrouped(o, Board(cs, ks)),
         NEW new, new = [c \in C |-> IF c \in Shown(o) \cap C THEN Place(o, c) ELSE ks[c]]
  PROVE  Board(cs, new) = o
<1> DEFINE order == Sorted(cs)
<1>1. /\ Tidy(o) /\ DOMAIN o = DOMAIN order /\ Shown(o) = C
      /\ \A i \in DOMAIN order : o[i].id = order[i]
  BY BoardShape DEF Regrouped
<1>2. \A i \in DOMAIN o : \A p \in DOMAIN o[i].cards :
        /\ o[i].cards[p] \in C
        /\ new[o[i].cards[p]] = [column |-> o[i].id, position |-> p - 1]
  BY <1>1, ShownWhere, PlaceListed
<1>3. ASSUME NEW i \in DOMAIN o PROVE Sorted(In(new, o[i].id)) = o[i].cards
  <2> DEFINE S == ToSet(o[i].cards)
             h == In(new, o[i].id)
  <2>1. o[i].cards \in Seq(Nat) /\ o[i].id \in Nat
    BY <1>1, TidyParts
  <2>2. S \in SUBSET Nat /\ o[i].cards \in Seq(S) /\ NoDup(o[i].cards)
    <3>1. S \subseteq Nat /\ \A p \in DOMAIN o[i].cards : o[i].cards[p] \in S
      BY <2>1 DEF ToSet
    <3>2. NoDup(o[i].cards)
      BY <1>1 DEF NoDup, Tidy
    <3> HIDE DEF S
    <3>3. o[i].cards \in Seq(S)
      BY <2>1, OverItsElements DEF S
    <3> QED
      BY <3>1, <3>2, <3>3
  <2>3. S = {c \in C : new[c].column = o[i].id}
    <3>1. ASSUME NEW c \in S PROVE c \in C /\ new[c].column = o[i].id
      <4>1. PICK p \in DOMAIN o[i].cards : o[i].cards[p] = c
        BY DEF ToSet
      <4>2. c \in C /\ new[c] = [column |-> o[i].id, position |-> p - 1]
        BY <1>2, <4>1
      <4> QED
        BY <4>2
    <3>2. ASSUME NEW c \in C, new[c].column = o[i].id PROVE c \in S
      <4>1. PICK j \in DOMAIN o : \E p \in DOMAIN o[j].cards : o[j].cards[p] = c
        BY <1>1, ShownWhere
      <4>2. PICK p \in DOMAIN o[j].cards : o[j].cards[p] = c
        BY <4>1
      <4>3. new[c] = [column |-> o[j].id, position |-> p - 1]
        BY <1>2, <4>2
      <4>4. o[j].id = o[i].id
        BY <3>2, <4>3
      <4>5. j = i
        BY <1>1, <4>4 DEF Tidy
      <4> QED
        BY <4>2, <4>5 DEF ToSet
    <3> QED
      BY <3>1, <3>2
  <2>4. DOMAIN new = C
    OBVIOUS
  <2>5. h = [c \in S |-> new[c].position]
    BY <2>3, <2>4 DEF In
  <2>6. ASSUME NEW p \in DOMAIN o[i].cards PROVE h[o[i].cards[p]] = p - 1
    <3>1. o[i].cards[p] \in S
      BY DEF ToSet
    <3>2. new[o[i].cards[p]] = [column |-> o[i].id, position |-> p - 1]
      BY <1>2
    <3> HIDE DEF S, h
    <3>3. h[o[i].cards[p]] = new[o[i].cards[p]].position
      BY <2>5, <3>1
    <3> QED
      BY <3>2, <3>3
  <2>7. h \in [S -> Int]
    <3>1. \A c \in S : \E p \in DOMAIN o[i].cards : c = o[i].cards[p]
      BY DEF ToSet
    <3>2. \A p \in DOMAIN o[i].cards : p - 1 \in Int
      BY <2>1
    <3> HIDE DEF S, h
    <3>3. \A c \in S : h[c] \in Int
      BY <2>6, <3>1, <3>2
    <3> QED
      BY <2>5, <3>3
  <2> HIDE DEF S, h
  <2>8. \A p \in DOMAIN o[i].cards : h[o[i].cards[p]] = p - 1
    BY <2>6
  <2>9. S = ToSet(o[i].cards)
    BY DEF S
  <2>10. Sorted(h) = o[i].cards
    BY <2>2, <2>7, <2>8, <2>9, SortedUnique, ZenonT(30)
  <2> QED
    BY <2>10 DEF h
<1>4. Board(cs, new) =
        [i \in DOMAIN order |-> [id |-> order[i], cards |-> Sorted(In(new, order[i]))]]
  BY DEF Board
<1>5. \A i \in DOMAIN order : Board(cs, new)[i] = o[i]
  <2> TAKE i \in DOMAIN order
  <2>1. o[i] \in Lists
    BY <1>1 DEF Tidy
  <2>2. o[i] = [id |-> o[i].id, cards |-> o[i].cards]
    BY <2>1 DEF Lists
  <2> QED
    BY <1>1, <1>3, <1>4, <2>2
<1>6. o = [i \in DOMAIN order |-> o[i]]
  BY <1>1 DEF Tidy
<1> QED
  BY <1>4, <1>5, <1>6

-------------------------------------------------------------------------------
(* What a person may do to a board regroups it.                              *)

LEMMA RegroupOne ==
  ASSUME NEW board, Tidy(board), NEW i \in DOMAIN board,
         NEW s \in Seq(Nat), NoDup(s), ToSet(s) = ToSet(board[i].cards)
  PROVE  Regrouped([board EXCEPT ![i].cards = s], board)
<1> DEFINE o == [board EXCEPT ![i].cards = s]
<1>1. board \in Seq(Lists) /\ \A j \in DOMAIN board : board[j] \in Lists
  BY DEF Tidy
<1>2. /\ DOMAIN o = DOMAIN board /\ o[i].cards = s
      /\ \A j \in DOMAIN board : o[j].id = board[j].id /\ (j # i => o[j].cards = board[j].cards)
  BY <1>1 DEF Lists
<1>3. o \in Seq(Lists)
  <2>1. [board[i] EXCEPT !.cards = s] \in Lists
    BY <1>1 DEF Lists
  <2> QED
    BY <1>1, <2>1
<1>4. \A p \in DOMAIN s : \E q \in DOMAIN board[i].cards : board[i].cards[q] = s[p]
  BY DEF ToSet
<1>5. ASSUME NEW j \in DOMAIN board, NEW k \in DOMAIN board,
             NEW p \in DOMAIN o[j].cards, NEW q \in DOMAIN o[k].cards,
             o[j].cards[p] = o[k].cards[q]
      PROVE  j = k /\ p = q
  <2>1. CASE j = i /\ k = i
    BY <1>2, <1>5, <2>1 DEF NoDup
  <2>2. CASE j = i /\ k # i
    BY <1>2, <1>4, <1>5, <2>2 DEF Tidy
  <2>3. CASE j # i /\ k = i
    BY <1>2, <1>4, <1>5, <2>3 DEF Tidy
  <2>4. CASE j # i /\ k # i
    BY <1>2, <1>5, <2>4 DEF Tidy
  <2> QED
    BY <2>1, <2>2, <2>3, <2>4
<1>6. Tidy(o)
  BY <1>2, <1>3, <1>5 DEF Tidy
<1>7. \A j \in DOMAIN board : ToSet(o[j].cards) = ToSet(board[j].cards)
  BY <1>2
<1>8. Shown(o) = Shown(board)
  BY <1>2, <1>7 DEF Shown
<1> QED
  BY <1>2, <1>6, <1>8 DEF Regrouped

LEMMA RegroupSwap ==
  ASSUME NEW board, Tidy(board), NEW i \in DOMAIN board, NEW p \in 1..Len(board[i].cards) - 1
  PROVE  Regrouped([board EXCEPT ![i].cards = Swapped(@, p, p + 1)], board)
<1> DEFINE s == board[i].cards
           t == Swapped(s, p, p + 1)
<1>1. s \in Seq(Nat)
  BY TidyParts
<1>2. NoDup(s)
  BY DEF NoDup, Tidy
<1>3. Len(s) \in Nat /\ DOMAIN s = 1..Len(s) /\ p \in DOMAIN s /\ p + 1 \in DOMAIN s
  BY <1>1
<1>4. /\ DOMAIN t = DOMAIN s /\ t[p] = s[p + 1] /\ t[p + 1] = s[p]
      /\ \A q \in DOMAIN s : q # p /\ q # p + 1 => t[q] = s[q]
  BY <1>3 DEF Swapped
<1>5. t \in Seq(Nat)
  <2>1. t = [q \in DOMAIN s |-> t[q]]
    BY <1>3 DEF Swapped
  <2> HIDE DEF s, t
  <2>2. \A q \in DOMAIN s : s[q] \in Nat
    BY <1>1
  <2>3. \A q \in DOMAIN s : t[q] \in Nat
    BY <1>3, <1>4, <2>2
  <2>4. t \in [1..Len(s) -> Nat]
    BY <1>3, <2>1, <2>3
  <2> QED
    BY <1>3, <2>4
<1>6. NoDup(t)
  <2> HIDE DEF s, t
  <2> QED
    BY <1>2, <1>3, <1>4, SMTT(30) DEF NoDup
<1>7. ToSet(t) = ToSet(s)
  BY <1>3, <1>4 DEF ToSet
<1> HIDE DEF t
<1>8. Regrouped([board EXCEPT ![i].cards = t], board)
  BY <1>5, <1>6, <1>7, RegroupOne
<1> QED
  BY <1>8 DEF t

LEMMA RegroupSort ==
  ASSUME NEW board, Tidy(board), NEW i \in DOMAIN board,
         NEW t \in SetToSeqs(ToSet(board[i].cards))
  PROVE  Regrouped([board EXCEPT ![i].cards = t], board)
<1> DEFINE s == board[i].cards
           S == ToSet(s)
           n == Cardinality(S)
<1>1. s \in Seq(Nat)
  BY TidyParts
<1>2. S \subseteq Nat
  BY <1>1 DEF ToSet
<1>3. IsFiniteSet(S)
  <2> HIDE DEF s
  <2>1. Len(s) \in Nat /\ s \in Surjection(1..Len(s), S)
    <3>1. Len(s) \in Nat /\ DOMAIN s = 1..Len(s) /\ s \in [1..Len(s) -> S]
      BY <1>1, OverItsElements
    <3> QED
      BY <3>1 DEF ToSet, Surjection
  <2>2. IsFiniteSet(1..Len(s))
    BY <2>1, FS_Interval
  <2> QED
    BY <2>1, <2>2, FS_Surjection
<1>4. n \in Nat /\ IsFiniteSet(1..n) /\ Cardinality(1..n) = n
  BY <1>3, FS_CardinalityType, FS_Interval
<1>5. t \in [1..n -> S] /\ \A p, q \in 1..n : p # q => t[p] # t[q]
  BY DEF SetToSeqs
<1>6. t \in Injection(1..n, S)
  BY <1>5 DEF Injection, IsInjective
<1>7. t \in Surjection(1..n, S)
  BY <1>3, <1>4, <1>6, FS_Injection
<1>8. ToSet(t) = S
  <2>1. DOMAIN t = 1..n /\ \A p \in 1..n : t[p] \in S
    BY <1>5
  <2>2. \A x \in S : \E p \in 1..n : t[p] = x
    BY <1>7 DEF Surjection
  <2> HIDE DEF S, n
  <2> QED
    BY <2>1, <2>2 DEF ToSet
<1>9. NoDup(t)
  BY <1>5 DEF NoDup
<1>10. t \in Seq(Nat)
  BY <1>2, <1>4, <1>5
<1> QED
  BY <1>8, <1>9, <1>10, RegroupOne

LEMMA RemoveAtProperties ==
  ASSUME NEW s \in Seq(Nat), NEW p \in DOMAIN s
  PROVE  /\ RemoveAt(s, p) \in Seq(Nat) /\ DOMAIN RemoveAt(s, p) = 1..Len(s) - 1
         /\ \A q \in 1..Len(s) - 1 : RemoveAt(s, p)[q] = s[IF q < p THEN q ELSE q + 1]
<1> DEFINE n == Len(s)
           a == SubSeq(s, 1, p - 1)
           b == SubSeq(s, p + 1, n)
<1>1. n \in Nat /\ p \in 1..n /\ DOMAIN s = 1..n
  OBVIOUS
<1>2. /\ a \in Seq(Nat) /\ Len(a) = p - 1
      /\ \A q \in 1..p - 1 : a[q] = s[q]
  <2>1. \A q \in 1..p - 1 : s[q] \in Nat
    BY <1>1
  <2>2. 1 \in Int /\ p - 1 \in Int
    BY <1>1
  <2>3. /\ a \in Seq(Nat) /\ Len(a) = IF 1 <= p - 1 THEN p - 1 - 1 + 1 ELSE 0
        /\ \A q \in 1..p - 1 - 1 + 1 : a[q] = s[1 + q - 1]
    BY <2>1, <2>2, SubSeqProperties
  <2> HIDE DEF a
  <2>4. Len(a) = p - 1 /\ \A q \in 1..p - 1 : q \in 1..p - 1 - 1 + 1 /\ 1 + q - 1 = q
    BY <1>1, <2>3
  <2> QED
    BY <2>3, <2>4
<1>3. /\ b \in Seq(Nat) /\ Len(b) = n - p
      /\ \A q \in 1..n - p : b[q] = s[p + q]
  <2>1. \A q \in p + 1..n : s[q] \in Nat
    BY <1>1
  <2>2. p + 1 \in Int /\ n \in Int
    BY <1>1
  <2>3. /\ b \in Seq(Nat) /\ Len(b) = IF p + 1 <= n THEN n - (p + 1) + 1 ELSE 0
        /\ \A q \in 1..n - (p + 1) + 1 : b[q] = s[p + 1 + q - 1]
    BY <2>1, <2>2, SubSeqProperties, SMTT(30)
  <2> HIDE DEF b
  <2>4. /\ Len(b) = n - p
        /\ \A q \in 1..n - p : q \in 1..n - (p + 1) + 1 /\ p + 1 + q - 1 = p + q
    BY <1>1, <2>3, SMTT(30)
  <2> QED
    BY <2>3, <2>4
<1> HIDE DEF a, b
<1>4. /\ a \o b \in Seq(Nat) /\ Len(a \o b) = n - 1
      /\ \A q \in 1..n - 1 : (a \o b)[q] = IF q < p THEN a[q] ELSE b[q - (p - 1)]
  <2>1. /\ a \o b \in Seq(Nat) /\ Len(a \o b) = Len(a) + Len(b)
        /\ \A q \in 1..Len(a) + Len(b) :
             (a \o b)[q] = IF q <= Len(a) THEN a[q] ELSE b[q - Len(a)]
    BY <1>2, <1>3, ConcatProperties
  <2>2. Len(a) + Len(b) = n - 1 /\ \A q \in 1..n - 1 : q <= p - 1 <=> q < p
    BY <1>1, <1>2, <1>3, SMTT(30)
  <2> QED
    BY <1>2, <2>1, <2>2
<1>5. \A q \in 1..n - 1 : (a \o b)[q] = s[IF q < p THEN q ELSE q + 1]
  <2> TAKE q \in 1..n - 1
  <2>1. CASE q < p
    BY <1>1, <1>2, <1>4, <2>1
  <2>2. CASE ~(q < p)
    <3>1. q - (p - 1) \in 1..n - p /\ p + (q - (p - 1)) = q + 1
      BY <1>1, <2>2
    <3> QED
      BY <1>3, <1>4, <2>2, <3>1
  <2> QED
    BY <2>1, <2>2
<1>6. RemoveAt(s, p) = a \o b
  BY DEF RemoveAt, a, b
<1> HIDE DEF n
<1>7. DOMAIN (a \o b) = 1..n - 1
  BY <1>4
<1> QED
  BY <1>4, <1>5, <1>6, <1>7 DEF n

LEMMA InsertAtProperties ==
  ASSUME NEW S, NEW s \in Seq(S), NEW e \in S, NEW at \in 1..Len(s) + 1
  PROVE  /\ InsertAt(s, at, e) \in Seq(S)
         /\ ToSet(s) \cup {e} \subseteq ToSet(InsertAt(s, at, e))
<1> DEFINE n == Len(s)
           a == SubSeq(s, 1, at - 1)
           c == SubSeq(s, at, n)
           d == a \o <<e>>
           order == d \o c
<1>1. n \in Nat /\ at \in 1..n + 1 /\ DOMAIN s = 1..n
  OBVIOUS
<1>2. a \in Seq(S) /\ Len(a) = at - 1 /\ \A q \in 1..at - 1 : a[q] = s[q]
  <2>1. \A q \in 1..at - 1 : s[q] \in S
    BY <1>1
  <2>2. 1 \in Int /\ at - 1 \in Int
    BY <1>1
  <2>3. /\ a \in Seq(S) /\ Len(a) = IF 1 <= at - 1 THEN at - 1 - 1 + 1 ELSE 0
        /\ \A q \in 1..at - 1 - 1 + 1 : a[q] = s[1 + q - 1]
    BY <2>1, <2>2, SubSeqProperties
  <2> HIDE DEF a
  <2>4. Len(a) = at - 1 /\ \A q \in 1..at - 1 : q \in 1..at - 1 - 1 + 1 /\ 1 + q - 1 = q
    BY <1>1, <2>3
  <2> QED
    BY <2>3, <2>4
<1>3. c \in Seq(S) /\ Len(c) = n - at + 1 /\ \A q \in 1..n - at + 1 : c[q] = s[at + q - 1]
  <2>1. \A q \in at..n : s[q] \in S
    BY <1>1
  <2>2. at \in Int /\ n \in Int
    BY <1>1
  <2>3. /\ c \in Seq(S) /\ Len(c) = IF at <= n THEN n - at + 1 ELSE 0
        /\ \A q \in 1..n - at + 1 : c[q] = s[at + q - 1]
    BY <2>1, <2>2, SubSeqProperties
  <2> HIDE DEF c
  <2>4. Len(c) = n - at + 1
    BY <1>1, <2>3
  <2> QED
    BY <2>3, <2>4
<1> HIDE DEF a, c
<1>4. <<e>> \in Seq(S) /\ Len(<<e>>) = 1 /\ <<e>>[1] = e
  OBVIOUS
<1>5. /\ d \in Seq(S) /\ Len(d) = at /\ d[at] = e
      /\ \A q \in 1..at - 1 : d[q] = s[q]
  <2>1. /\ d \in Seq(S) /\ Len(d) = Len(a) + Len(<<e>>)
        /\ \A q \in 1..Len(a) + Len(<<e>>) :
             d[q] = IF q <= Len(a) THEN a[q] ELSE <<e>>[q - Len(a)]
    BY <1>2, <1>4, ConcatProperties
  <2> HIDE DEF d
  <2>2. Len(a) + Len(<<e>>) = at /\ at - (at - 1) = 1 /\ ~(at <= at - 1) /\ at \in 1..at
    BY <1>1, <1>2, <1>4
  <2>3. d[at] = <<e>>[1]
    BY <1>2, <2>1, <2>2
  <2>4. \A q \in 1..at - 1 : q \in 1..at /\ q <= at - 1
    BY <1>1
  <2> QED
    BY <1>2, <1>4, <2>1, <2>2, <2>3, <2>4
<1> HIDE DEF d
<1>6. /\ order \in Seq(S) /\ Len(order) = n + 1 /\ DOMAIN order = 1..n + 1
      /\ \A q \in 1..n + 1 : order[q] = IF q <= at THEN d[q] ELSE c[q - at]
  <2>1. /\ order \in Seq(S) /\ Len(order) = Len(d) + Len(c)
        /\ \A q \in 1..Len(d) + Len(c) :
             order[q] = IF q <= Len(d) THEN d[q] ELSE c[q - Len(d)]
    BY <1>3, <1>5, ConcatProperties
  <2> HIDE DEF order
  <2>2. Len(d) + Len(c) = n + 1
    BY <1>1, <1>3, <1>5
  <2> QED
    BY <1>5, <2>1, <2>2
<1> HIDE DEF order
<1>7. at \in DOMAIN order /\ order[at] = e
  BY <1>1, <1>5, <1>6
<1>8. ASSUME NEW j \in 1..n PROVE \E i \in DOMAIN order : order[i] = s[j]
  <2>1. CASE j < at
    <3>1. j \in DOMAIN order /\ j <= at /\ j \in 1..at - 1
      BY <1>1, <1>6, <2>1
    <3> QED
      BY <1>5, <1>6, <3>1
  <2>2. CASE ~(j < at)
    <3>1. /\ j + 1 \in 1..n + 1 /\ ~(j + 1 <= at) /\ j + 1 - at \in 1..n - at + 1
          /\ at + (j + 1 - at) - 1 = j
      BY <1>1, <2>2
    <3>2. order[j + 1] = c[j + 1 - at]
      BY <1>6, <3>1
    <3>3. c[j + 1 - at] = s[at + (j + 1 - at) - 1]
      BY <1>3, <3>1
    <3> QED
      BY <1>6, <3>1, <3>2, <3>3
  <2> QED
    BY <2>1, <2>2
<1>9. ToSet(s) \cup {e} \subseteq ToSet(order)
  BY <1>1, <1>7, <1>8 DEF ToSet
<1>10. InsertAt(s, at, e) = order
  BY DEF InsertAt, order, d, a, c
<1> QED
  BY <1>6, <1>9, <1>10

LEMMA RegroupStep ==
  ASSUME NEW board, Tidy(board), NEW i \in DOMAIN board, NEW j \in DOMAIN board, i # j,
         NEW p \in DOMAIN board[i].cards
  PROVE  Regrouped(Stepped(board, i, j, p), board)
<1> DEFINE o == Stepped(board, i, j, p)
           s == board[i].cards
           t == board[j].cards
           left == RemoveAt(s, p)
           c == s[p]
<1>1. board \in Seq(Lists) /\ \A k \in DOMAIN board : board[k] \in Lists
  BY DEF Tidy
<1>2. s \in Seq(Nat) /\ t \in Seq(Nat) /\ c \in Nat
  BY <1>1, SMTT(30) DEF Lists
<1>3. /\ left \in Seq(Nat) /\ DOMAIN left = 1..Len(s) - 1
      /\ \A q \in 1..Len(s) - 1 : left[q] = s[IF q < p THEN q ELSE q + 1]
  BY <1>2, RemoveAtProperties
<1>4. /\ Append(t, c) \in Seq(Nat) /\ DOMAIN Append(t, c) = 1..Len(t) + 1
      /\ Append(t, c)[Len(t) + 1] = c /\ \A q \in 1..Len(t) : Append(t, c)[q] = t[q]
  BY <1>2
<1>5. Len(s) \in Nat /\ Len(t) \in Nat /\ DOMAIN s = 1..Len(s) /\ DOMAIN t = 1..Len(t)
  BY <1>2
<1> HIDE DEF left
<1>6. o = [board EXCEPT ![i].cards = left, ![j].cards = Append(t, c)]
  BY DEF Stepped, left
<1>7. /\ DOMAIN o = DOMAIN board /\ o[i].cards = left /\ o[j].cards = Append(t, c)
      /\ \A k \in DOMAIN board : /\ o[k].id = board[k].id /\ o[k] \in Lists
                                 /\ k # i /\ k # j => o[k].cards = board[k].cards
  <2>1. o[i] = [board[i] EXCEPT !.cards = left] /\ o[j] = [board[j] EXCEPT !.cards = Append(t, c)]
    BY <1>1, <1>6
  <2>2. DOMAIN o = DOMAIN board /\ \A k \in DOMAIN board : k # i /\ k # j => o[k] = board[k]
    BY <1>1, <1>6
  <2> HIDE DEF o
  <2>3. o[i].cards = left /\ o[i].id = board[i].id /\ o[i] \in Lists
    BY <1>1, <1>3, <2>1 DEF Lists
  <2>4. o[j].cards = Append(t, c) /\ o[j].id = board[j].id /\ o[j] \in Lists
    BY <1>1, <1>4, <2>1 DEF Lists
  <2> QED
    BY <1>1, <2>2, <2>3, <2>4
<1>8. o \in Seq(Lists)
  <2>1. Len(board) \in Nat /\ DOMAIN board = 1..Len(board)
    BY <1>1
  <2>2. o = [k \in 1..Len(board) |-> o[k]]
    BY <1>6, <2>1
  <2> HIDE DEF o
  <2> QED
    BY <1>7, <2>1, <2>2
<1> HIDE DEF o
\* Where a card of the new board was on the old one.
<1>9. ASSUME NEW k \in DOMAIN board, NEW q \in DOMAIN o[k].cards
      PROVE  \/ /\ k = i /\ (IF q < p THEN q ELSE q + 1) \in DOMAIN s
                /\ (IF q < p THEN q ELSE q + 1) # p
                /\ o[k].cards[q] = s[IF q < p THEN q ELSE q + 1]
             \/ k = j /\ q = Len(t) + 1 /\ o[k].cards[q] = c
             \/ k # i /\ q \in DOMAIN board[k].cards /\ o[k].cards[q] = board[k].cards[q]
  <2>1. CASE k = i
    <3>1. o[k].cards = left /\ q \in 1..Len(s) - 1 /\ p \in 1..Len(s)
      BY <1>3, <1>5, <1>7, <1>9, <2>1
    <3>2. (IF q < p THEN q ELSE q + 1) \in DOMAIN s /\ (IF q < p THEN q ELSE q + 1) # p
      BY <1>5, <3>1
    <3> QED
      BY <1>3, <2>1, <3>1, <3>2
  <2>2. CASE k = j
    <3>1. o[k].cards = Append(t, c) /\ q \in 1..Len(t) + 1
      BY <1>4, <1>7, <1>9, <2>2
    <3>2. CASE q = Len(t) + 1
      BY <1>4, <2>2, <3>1, <3>2
    <3>3. CASE q # Len(t) + 1
      <4>1. q \in 1..Len(t)
        BY <1>5, <3>1, <3>3
      <4> QED
        BY <1>4, <1>5, <2>2, <3>1, <4>1
    <3> QED
      BY <3>2, <3>3
  <2>3. CASE k # i /\ k # j
    BY <1>7, <1>9, <2>3
  <2> QED
    BY <2>1, <2>2, <2>3
<1>10. ASSUME NEW k \in DOMAIN board, NEW l \in DOMAIN board,
              NEW q \in DOMAIN o[k].cards, NEW r \in DOMAIN o[l].cards,
              o[k].cards[q] = o[l].cards[r]
       PROVE  k = l /\ q = r
  <2>1. CASE k = i
    <3>1. CASE l = i
      <4>1. /\ q \in 1..Len(s) - 1 /\ r \in 1..Len(s) - 1 /\ p \in 1..Len(s)
            /\ o[i].cards = left
        BY <1>3, <1>5, <1>7, <1>10, <2>1, <3>1
      <4>2. /\ (IF q < p THEN q ELSE q + 1) \in DOMAIN s
            /\ (IF r < p THEN r ELSE r + 1) \in DOMAIN s
            /\ s[IF q < p THEN q ELSE q + 1] = s[IF r < p THEN r ELSE r + 1]
        <5>1. left[q] = left[r]
          BY <1>10, <2>1, <3>1, <4>1
        <5>2. left[q] = s[IF q < p THEN q ELSE q + 1] /\ left[r] = s[IF r < p THEN r ELSE r + 1]
          BY <1>3, <4>1
        <5>3. /\ (IF q < p THEN q ELSE q + 1) \in 1..Len(s)
              /\ (IF r < p THEN r ELSE r + 1) \in 1..Len(s)
          BY <1>5, <4>1
        <5> QED
          BY <1>5, <5>1, <5>2, <5>3
      <4>3. (IF q < p THEN q ELSE q + 1) = (IF r < p THEN r ELSE r + 1)
        BY <4>2 DEF Tidy
      <4>4. q = r
        BY <4>1, <4>3
      <4> QED
        BY <2>1, <3>1, <4>4
    <3>2. CASE l # i
      BY <1>9, <1>10, <2>1, <3>2 DEF Tidy
    <3> QED
      BY <3>1, <3>2
  <2>2. CASE k # i
    <3>1. CASE l = i
      BY <1>9, <1>10, <2>2, <3>1 DEF Tidy
    <3>2. CASE l # i
      BY <1>5, <1>9, <1>10, <2>2, <3>2, SMTT(30) DEF Tidy
    <3> QED
      BY <3>1, <3>2
  <2> QED
    BY <2>1, <2>2
<1>11. Tidy(o)
  BY <1>7, <1>8, <1>10 DEF Tidy
<1>12. Shown(o) = Shown(board)
  <2>1. ASSUME NEW x \in Shown(o) PROVE x \in Shown(board)
    <3>1. PICK k \in DOMAIN board : \E q \in DOMAIN o[k].cards : o[k].cards[q] = x
      BY <1>7, ShownWhere
    <3>2. PICK q \in DOMAIN o[k].cards : o[k].cards[q] = x
      BY <3>1
    <3>3. \E l \in DOMAIN board : \E r \in DOMAIN board[l].cards : board[l].cards[r] = x
      BY <1>9, <3>2
    <3> QED
      BY <3>3, ShownWhere
  <2>2. ASSUME NEW x \in Shown(board) PROVE x \in Shown(o)
    <3>1. PICK k \in DOMAIN board : \E q \in DOMAIN board[k].cards : board[k].cards[q] = x
      BY ShownWhere
    <3>2. PICK q \in DOMAIN board[k].cards : board[k].cards[q] = x
      BY <3>1
    <3>3. CASE k # i /\ k # j
      BY <1>7, <3>2, <3>3, ShownWhere
    <3>4. CASE k = j
      <4>1. q \in DOMAIN o[j].cards /\ o[j].cards[q] = x
        <5>1. q \in 1..Len(t) /\ t[q] = x
          BY <1>5, <3>2, <3>4
        <5>2. o[j].cards = Append(t, c)
          BY <1>7
        <5> HIDE DEF t, c
        <5>3. q \in 1..Len(t) + 1
          BY <1>5, <5>1
        <5> QED
          BY <1>4, <5>1, <5>2, <5>3
      <4>2. j \in DOMAIN o
        BY <1>7
      <4> QED
        BY <4>1, <4>2, ShownAt
    <3>5. CASE k = i /\ q = p
      <4>1. Len(t) + 1 \in DOMAIN o[j].cards /\ o[j].cards[Len(t) + 1] = x
        BY <1>4, <1>5, <1>7, <3>2, <3>5
      <4> QED
        BY <1>7, <4>1, ShownWhere
    <3>6. CASE k = i /\ q # p
      <4> DEFINE r == IF q < p THEN q ELSE q - 1
      <4>1. q \in 1..Len(s) /\ p \in 1..Len(s)
        BY <1>5, <3>2, <3>6
      <4>2. r \in 1..Len(s) - 1 /\ (IF r < p THEN r ELSE r + 1) = q
        BY <1>5, <4>1, <3>6
      <4>3. r \in DOMAIN o[i].cards /\ o[i].cards[r] = x
        BY <1>3, <1>7, <3>2, <3>6, <4>2
      <4> QED
        BY <1>7, <4>3, ShownWhere
    <3> QED
      BY <3>3, <3>4, <3>5, <3>6
  <2> QED
    BY <2>1, <2>2
<1> QED
  BY <1>7, <1>11, <1>12 DEF Regrouped, o

-------------------------------------------------------------------------------
(* The tables.                                                               *)

TablesInv ==
  /\ lastColumn \in Nat /\ lastCard \in Nat
  /\ DOMAIN columns \subseteq 1..lastColumn /\ columns \in [DOMAIN columns -> Int]
  /\ DOMAIN cards \subseteq 1..lastCard
  /\ cards \in [DOMAIN cards -> [column : DOMAIN columns, position : Int]]
  /\ (1..lastCard) \ asked \subseteq DOMAIN cards

\* What is sent is a tidy board, what is deleted was asked for.
WireInv ==
  \A m \in wire :
    /\ m.from \in Browsers
    /\ m.kind \in {"reorder", "board"} => Tidy(m.body)
    /\ m.kind = "delCard" => m.body \in asked
    /\ m.kind = "moveColumn" => m.body.slot \in Nat

ViewInv ==
  /\ view \in [Browsers -> Seq(Lists)]
  /\ \A b \in Browsers : Tidy(view[b])

\* A browser in nobody's way has one message under way at most. When it has none
\* it shows what is stored; a rearranged board it has sent is what it shows and
\* regroups what is stored; a board on its way to it is what is stored.
SureInv ==
  \A b \in Browsers \ unsure :
    /\ \A m, o \in Own(b) : m = o
    /\ Own(b) = {} => view[b] = Board(columns, cards)
    /\ \A m \in Own(b) :
         /\ m.kind = "reorder" => view[b] = m.body /\ Regrouped(m.body, Board(columns, cards))
         /\ m.kind = "board" => m.body = Board(columns, cards)
         /\ m.kind # "error"

BoardInv == TablesInv /\ WireInv /\ ViewInv /\ SureInv

LEMMA TablesFinite ==
  ASSUME TablesInv
  PROVE  /\ DOMAIN columns \in SUBSET Nat /\ IsFiniteSet(DOMAIN columns)
         /\ DOMAIN cards \in SUBSET Nat /\ IsFiniteSet(DOMAIN cards)
<1>1. lastColumn \in Int /\ lastCard \in Int
  BY DEF TablesInv
<1>2. IsFiniteSet(1..lastColumn) /\ IsFiniteSet(1..lastCard)
  BY <1>1, FS_Interval
<1>3. DOMAIN columns \subseteq 1..lastColumn /\ DOMAIN cards \subseteq 1..lastCard
  BY DEF TablesInv
<1>4. IsFiniteSet(DOMAIN columns) /\ IsFiniteSet(DOMAIN cards)
  BY <1>2, <1>3, FS_Subset
<1>5. DOMAIN columns \subseteq Nat /\ DOMAIN cards \subseteq Nat
  BY <1>1, <1>3
<1> QED
  BY <1>4, <1>5

LEMMA StoredBoard ==
  ASSUME TablesInv
  PROVE  Tidy(Board(columns, cards)) /\ Shown(Board(columns, cards)) = DOMAIN cards
  BY TablesFinite, BoardShape DEF TablesInv

\* The top of a column is above its cards.
LEMMA TopIsInt == TablesInv => \A k : Top(k) \in Int
<1> SUFFICES ASSUME TablesInv, NEW k PROVE Top(k) \in Int
  OBVIOUS
<1> DEFINE X == {x \in DOMAIN cards : cards[x].column = k}
           H == {cards[c].position : c \in X}
           h == [c \in X |-> cards[c].position]
<1>1. X \in SUBSET Nat /\ IsFiniteSet(X)
  BY TablesFinite, FS_Subset
<1>2. \A c \in X : cards[c].position \in Int
  BY DEF TablesInv
<1>3. h \in [X -> Int]
  BY <1>2
<1>4. Top(k) = (IF H = {} THEN 0 ELSE Min(H)) - 1
  BY DEF Top
<1>5. CASE X = {}
  <2>1. H = {}
    BY <1>5
  <2> QED
    BY <1>4, <2>1
<1>6. CASE X # {}
  <2>1. PICK a \in X : \A b \in X : h[a] <= h[b]
    BY <1>1, <1>3, <1>6, Lowest
  <2>2. h[a] \in H /\ \A y \in H : h[a] <= y
    BY <2>1
  <2>3. Min(H) \in H
    BY <2>2 DEF Min
  <2>4. Min(H) \in Int
    BY <1>2, <2>3
  <2> HIDE DEF H
  <2> QED
    BY <1>4, <2>4
<1> QED
  BY <1>5, <1>6

-------------------------------------------------------------------------------
(* What people do.                                                           *)

LEMMA SendStep ==
  ASSUME BoardInv, NEW b \in Browsers, NEW kind, NEW body, Send(b, kind, body),
         asked \subseteq asked',
         kind \in {"reorder", "save", "delCard", "addColumn", "delColumn", "moveColumn"},
         kind = "delCard" => body \in asked',
         kind = "moveColumn" => body.slot \in Nat,
         \/ kind # "reorder" /\ UNCHANGED view
         \/ kind = "reorder" /\ Regrouped(body, view[b]) /\ view' = [view EXCEPT ![b] = body]
  PROVE  BoardInv'
<1> DEFINE m == Message(acts, b, kind, body)
<1>1. /\ wire' = wire \cup {m} /\ UNCHANGED tables
      /\ unsure' = IF Own(b) = {} THEN unsure ELSE unsure \cup {b}
  BY DEF Send
<1>2. m.from = b /\ m.kind = kind /\ m.body = body
  BY DEF Message
<1> HIDE DEF m
<1>3. TablesInv'
  BY <1>1 DEF BoardInv, TablesInv, tables
<1>4. kind = "reorder" => Tidy(body)
  BY DEF Regrouped
<1>5. WireInv'
  BY <1>1, <1>2, <1>4 DEF BoardInv, WireInv
<1>6. ViewInv'
  <2>1. CASE kind # "reorder"
    BY <2>1 DEF BoardInv, ViewInv
  <2>2. CASE kind = "reorder"
    <3>1. body \in Seq(Lists)
      BY <1>4, <2>2 DEF Tidy
    <3> QED
      BY <1>4, <2>2, <3>1 DEF BoardInv, ViewInv
  <2> QED
    BY <2>1, <2>2
<1>7. Board(columns', cards') = Board(columns, cards)
  BY <1>1 DEF tables
<1>8. ASSUME NEW c \in Browsers \ unsure'
      PROVE  /\ \A x, y \in Own(c)' : x = y
             /\ Own(c)' = {} => view'[c] = Board(columns, cards)
             /\ \A x \in Own(c)' :
                  /\ x.kind = "reorder" =>
                       view'[c] = x.body /\ Regrouped(x.body, Board(columns, cards))
                  /\ x.kind = "board" => x.body = Board(columns, cards)
                  /\ x.kind # "error"
  <2>1. c \in Browsers \ unsure
    BY <1>1, <1>8
  <2>2. CASE c # b
    <3>1. Own(c)' = Own(c)
      BY <1>1, <1>2, <2>2 DEF Own
    <3>2. view'[c] = view[c]
      BY <2>2 DEF BoardInv, ViewInv
    <3> QED
      BY <2>1, <3>1, <3>2 DEF BoardInv, SureInv
  <2>3. CASE c = b
    <3>1. Own(b) = {}
      BY <1>1, <1>8, <2>3
    <3>2. Own(b)' = {m}
      BY <1>1, <1>2, <3>1 DEF Own
    <3>3. view[b] = Board(columns, cards)
      BY <2>1, <2>3, <3>1 DEF BoardInv, SureInv
    <3>4. kind = "reorder" => view'[b] = body
      BY DEF BoardInv, ViewInv
    <3> QED
      BY <1>2, <2>3, <3>2, <3>3, <3>4
  <2> QED
    BY <2>2, <2>3
<1>9. SureInv'
  BY <1>7, <1>8 DEF SureInv
<1> QED
  BY <1>3, <1>5, <1>6, <1>9 DEF BoardInv

LEMMA PeopleStep == ASSUME BoardInv, NEW b \in Browsers, People(b) PROVE BoardInv'
<1>1. Tidy(view[b])
  BY DEF BoardInv, ViewInv
<1>2. ASSUME NEW board, Regrouped(board, view[b]), persistOrder(b, board) PROVE BoardInv'
  BY <1>2, SendStep DEF persistOrder
<1>3. ASSUME NEW i \in DOMAIN view[b], NEW dir \in {-1, 1}, StepCard(b, i, dir) PROVE BoardInv'
  <2>1. PICK p \in DOMAIN view[b][i].cards : persistOrder(b, Stepped(view[b], i, i + dir, p))
    BY <1>3 DEF StepCard
  <2>2. i + dir \in DOMAIN view[b] /\ i # i + dir
    BY <1>1, <1>3 DEF StepCard, Tidy
  <2> QED
    BY <1>1, <1>2, <2>1, <2>2, RegroupStep
<1>4. ASSUME NEW i \in DOMAIN view[b], NEW dir \in {-1, 1}, moveColumn(b, i, dir)
      PROVE  BoardInv'
  <2> DEFINE body == [column |-> view[b][i].id, slot |-> i + dir - 1]
  <2>1. Send(b, "moveColumn", body) /\ UNCHANGED <<view, asked>>
    BY <1>4 DEF moveColumn, Ask
  <2>2. body.slot \in Nat
    BY <1>1, <1>4 DEF moveColumn, Tidy
  <2> QED
    BY <2>1, <2>2, SendStep
<1>5. ASSUME NEW i \in DOMAIN view[b], SwapCards(b, i) PROVE BoardInv'
  BY <1>1, <1>2, <1>5, RegroupSwap DEF SwapCards
<1>6. ASSUME NEW i \in DOMAIN view[b], sortByPriority(b, i) PROVE BoardInv'
  BY <1>1, <1>2, <1>6, RegroupSort DEF sortByPriority
<1>7. ASSUME NEW c, delCard(b, c) PROVE BoardInv'
  BY <1>7, SendStep DEF delCard
<1>8. ASSUME NEW k, delColumn(b, k) PROVE BoardInv'
  BY <1>8, SendStep DEF delColumn, Ask
<1>9. ASSUME NEW k, NEW c, saveCard(b, c, k) PROVE BoardInv'
  <2>1. Send(b, "save", [card |-> c, column |-> k]) /\ UNCHANGED <<view, asked>>
    BY <1>9 DEF saveCard, Ask
  <2> QED
    BY <2>1, SendStep
<1>10. ASSUME addColumn(b) PROVE BoardInv'
  BY <1>10, SendStep DEF addColumn, Ask
<1> QED
  BY <1>3, <1>4, <1>5, <1>6, <1>7, <1>8, <1>9, <1>10 DEF People

-------------------------------------------------------------------------------
(* The service.                                                              *)

\* After a change nobody is sure but the one who asked for it, and that one waits
\* for a load, unless it sent a rearranged board.
LEMMA ChangedStep ==
  ASSUME BoardInv, NEW m \in wire, Answer(m, TRUE), TablesInv', m.kind # "error",
         m.kind = "reorder" /\ m.from \notin unsure => Board(columns', cards') = m.body
  PROVE  BoardInv'
<1> DEFINE b == m.from
           r == Message(m.n, m.from, "done", Nothing)
<1>1. /\ wire' = (wire \ {m}) \cup (IF m.kind = "reorder" THEN {} ELSE {r})
      /\ unsure' = unsure \cup (Browsers \ {b}) /\ UNCHANGED <<view, asked>>
  BY DEF Answer
<1>2. r.from = b /\ r.kind = "done"
  BY DEF Message
<1> HIDE DEF r
<1>3. b \in Browsers
  BY DEF BoardInv, WireInv
<1>4. WireInv'
  BY <1>1, <1>2, <1>3 DEF BoardInv, WireInv
<1>5. ViewInv'
  BY <1>1 DEF BoardInv, ViewInv
<1>6. ASSUME NEW c \in Browsers \ unsure'
      PROVE  /\ \A x, y \in Own(c)' : x = y
             /\ Own(c)' = {} => view'[c] = Board(columns', cards')
             /\ \A x \in Own(c)' : x.kind \notin {"reorder", "board", "error"}
  <2>1. c = b /\ b \notin unsure
    BY <1>1, <1>6
  <2>2. m \in Own(b) /\ \A x \in Own(b) : x = m
    BY <1>3, <2>1 DEF Own, BoardInv, SureInv
  <2>3. CASE m.kind = "reorder"
    <3>1. Own(b)' = {}
      BY <1>1, <2>2, <2>3 DEF Own
    <3>2. view[b] = m.body
      BY <1>3, <2>1, <2>2, <2>3 DEF BoardInv, SureInv
    <3> QED
      BY <1>1, <2>1, <2>3, <3>1, <3>2
  <2>4. CASE m.kind # "reorder"
    <3>1. Own(b)' = {r}
      BY <1>1, <1>2, <2>2, <2>4 DEF Own
    <3> QED
      BY <1>2, <2>1, <3>1
  <2> QED
    BY <2>3, <2>4
<1>7. SureInv'
  BY <1>6 DEF SureInv
<1> QED
  BY <1>4, <1>5, <1>7 DEF BoardInv

\* What becomes of the others when the tables stay and one browser's messages do not.
LEMMA OwnStep ==
  ASSUME BoardInv, NEW b \in Browsers, UNCHANGED <<tables, asked>>,
         \A c \in Browsers \ {b} : Own(c)' = Own(c) /\ view'[c] = view[c],
         unsure \ {b} \subseteq unsure',
         WireInv', ViewInv',
         b \notin unsure' =>
           /\ \A x, y \in Own(b)' : x = y
           /\ Own(b)' = {} => view'[b] = Board(columns, cards)
           /\ \A x \in Own(b)' :
                /\ x.kind # "reorder" /\ x.kind # "error"
                /\ x.kind = "board" => x.body = Board(columns, cards)
  PROVE  BoardInv'
<1>1. TablesInv' /\ Board(columns', cards') = Board(columns, cards)
  BY DEF BoardInv, TablesInv, tables
<1>2. ASSUME NEW c \in Browsers \ unsure'
      PROVE  /\ \A x, y \in Own(c)' : x = y
             /\ Own(c)' = {} => view'[c] = Board(columns, cards)
             /\ \A x \in Own(c)' :
                  /\ x.kind = "reorder" =>
                       view'[c] = x.body /\ Regrouped(x.body, Board(columns, cards))
                  /\ x.kind = "board" => x.body = Board(columns, cards)
                  /\ x.kind # "error"
  <2>1. CASE c = b
    BY <1>2, <2>1
  <2>2. CASE c # b
    <3>1. c \in Browsers \ unsure /\ Own(c)' = Own(c) /\ view'[c] = view[c]
      BY <1>2, <2>2
    <3> QED
      BY <3>1 DEF BoardInv, SureInv
  <2> QED
    BY <2>1, <2>2
<1>3. SureInv'
  BY <1>1, <1>2 DEF SureInv
<1> QED
  BY <1>1, <1>3 DEF BoardInv

LEMMA RefusedStep == ASSUME BoardInv, NEW m \in wire, Refused(m) PROVE BoardInv'
<1> DEFINE r == Message(m.n, m.from, IF FALSE \/ m.kind \in {"delCard", "delColumn"}
                                     THEN "done" ELSE "error", Nothing)
<1>1. /\ wire' = (wire \ {m}) \cup (IF m.kind = "reorder" THEN {} ELSE {r})
      /\ unsure' = unsure \cup {m.from} /\ UNCHANGED <<view, asked>> /\ UNCHANGED tables
  BY DEF Refused, Answer
<1>2. r.from = m.from /\ r.kind \in {"done", "error"}
  BY DEF Message
<1> HIDE DEF r
<1>3. m.from \in Browsers
  BY DEF BoardInv, WireInv
<1>4. WireInv'
  BY <1>1, <1>2, <1>3 DEF BoardInv, WireInv
<1>5. ViewInv'
  BY <1>1 DEF BoardInv, ViewInv
<1>6. \A c \in Browsers \ {m.from} : Own(c)' = Own(c) /\ view'[c] = view[c]
  BY <1>1, <1>2 DEF Own
<1> QED
  BY <1>1, <1>3, <1>4, <1>5, <1>6, OwnStep

LEMMA GetBoardStep == ASSUME BoardInv, NEW m \in wire, get_board(m) PROVE BoardInv'
<1> DEFINE b == m.from
           r == Message(m.n, m.from, "board", Board(columns, cards))
<1>1. /\ wire' = (wire \ {m}) \cup {r} /\ UNCHANGED <<tables, view, asked>>
      /\ unsure' = IF Own(b) = {m} THEN unsure \ {b} ELSE unsure
  BY DEF get_board
<1>2. r.from = b /\ r.kind = "board" /\ r.body = Board(columns, cards)
  BY DEF Message
<1> HIDE DEF r
<1>3. b \in Browsers /\ m \in Own(b)
  BY DEF BoardInv, WireInv, Own
<1>4. Tidy(Board(columns, cards))
  BY StoredBoard DEF BoardInv
<1>5. WireInv'
  BY <1>1, <1>2, <1>3, <1>4 DEF BoardInv, WireInv
<1>6. ViewInv'
  BY <1>1 DEF BoardInv, ViewInv
<1>7. \A c \in Browsers \ {b} : Own(c)' = Own(c) /\ view'[c] = view[c]
  BY <1>1, <1>2 DEF Own
<1>8. ASSUME b \notin unsure' PROVE Own(b)' = {r}
  <2>1. Own(b) = {m}
    <3>1. CASE b \notin unsure
      BY <1>3, <3>1 DEF BoardInv, SureInv
    <3>2. CASE b \in unsure
      BY <1>1, <1>8, <3>2
    <3> QED
      BY <3>1, <3>2
  <2> QED
    BY <1>1, <1>2, <2>1 DEF Own
<1> QED
  BY <1>1, <1>2, <1>3, <1>5, <1>6, <1>7, <1>8, OwnStep

LEMMA CreateCardStep == ASSUME BoardInv, NEW m \in wire, create_card(m) PROVE BoardInv'
<1>1. CASE m.body.column \notin DOMAIN columns
  BY <1>1, RefusedStep DEF create_card
<1>2. CASE m.body.column \in DOMAIN columns
  <2> DEFINE new == [column |-> m.body.column, position |-> Top(m.body.column)]
  <2>1. /\ lastCard' = lastCard + 1 /\ Answer(m, TRUE) /\ UNCHANGED <<columns, lastColumn>>
        /\ m.kind = "save" /\ cards' = Inserted(cards, lastCard', new)
    BY <1>2 DEF create_card
  <2>2. cards' = [c \in DOMAIN cards \cup {lastCard'} |-> IF c = lastCard' THEN new ELSE cards[c]]
    BY <2>1 DEF Inserted
  <2>3. asked' = asked
    BY <2>1 DEF Answer
  <2>4. new \in [column : DOMAIN columns, position : Int]
    BY <1>2, TopIsInt DEF BoardInv
  <2> HIDE DEF new
  <2>5. TablesInv'
    BY <2>1, <2>2, <2>3, <2>4 DEF BoardInv, TablesInv
  <2> QED
    BY <2>1, <2>5, ChangedStep
<1> QED
  BY <1>1, <1>2

LEMMA UpdateCardStep == ASSUME BoardInv, NEW m \in wire, update_card(m) PROVE BoardInv'
<1>1. CASE m.body.card \notin DOMAIN cards \/ m.body.column \notin DOMAIN columns
  BY <1>1, RefusedStep DEF update_card
<1>2. CASE m.body.card \in DOMAIN cards /\ m.body.column \in DOMAIN columns
  <2>1. /\ cards' = [cards EXCEPT ![m.body.card].column = m.body.column] /\ m.kind = "save"
        /\ Answer(m, TRUE) /\ UNCHANGED <<columns, lastColumn, lastCard>>
    BY <1>2 DEF update_card
  <2>2. asked' = asked
    BY <2>1 DEF Answer
  <2>3. TablesInv'
    BY <1>2, <2>1, <2>2 DEF BoardInv, TablesInv
  <2> QED
    BY <2>1, <2>3, ChangedStep
<1> QED
  BY <1>1, <1>2

LEMMA DeleteCardStep == ASSUME BoardInv, NEW m \in wire, delete_card(m) PROVE BoardInv'
<1>1. /\ cards' = [c \in DOMAIN cards \ {m.body} |-> cards[c]] /\ m.kind = "delCard"
      /\ Answer(m, TRUE) /\ UNCHANGED <<columns, lastColumn, lastCard>>
  BY DEF delete_card
<1>2. asked' = asked /\ m.body \in asked
  BY <1>1 DEF Answer, BoardInv, WireInv
<1>3. TablesInv'
  BY <1>1, <1>2 DEF BoardInv, TablesInv
<1> QED
  BY <1>1, <1>3, ChangedStep

LEMMA ReorderStep == ASSUME BoardInv, NEW m \in wire, reorder_cards(m) PROVE BoardInv'
<1> DEFINE o == m.body
<1>1. CASE \E c \in Listed(o) : Place(o, c).column \notin DOMAIN columns
  BY <1>1, RefusedStep DEF reorder_cards
<1>2. CASE ~\E c \in Listed(o) : Place(o, c).column \notin DOMAIN columns
  <2>1. /\ cards' = [c \in DOMAIN cards |->
                       IF c \in Shown(o) \cap DOMAIN cards THEN Place(o, c) ELSE cards[c]]
        /\ Answer(m, TRUE) /\ m.kind = "reorder" /\ UNCHANGED <<columns, lastColumn, lastCard>>
    BY <1>2 DEF reorder_cards, Listed
  <2>2. asked' = asked /\ Tidy(o)
    BY <2>1 DEF Answer, BoardInv, WireInv
  <2>3. ASSUME NEW c \in Shown(o) \cap DOMAIN cards
        PROVE  Place(o, c) \in [column : DOMAIN columns, position : Int]
    <3>1. PICK i \in DOMAIN o : \E p \in DOMAIN o[i].cards : o[i].cards[p] = c
      BY ShownWhere
    <3>2. PICK p \in DOMAIN o[i].cards : o[i].cards[p] = c
      BY <3>1
    <3>3. Place(o, c) = [column |-> o[i].id, position |-> p - 1]
      BY <2>2, <3>2, PlaceListed
    <3>4. o[i].cards \in Seq(Nat)
      BY <2>2, TidyParts
    <3>5. p - 1 \in Int
      BY <3>4
    <3>6. Place(o, c).column \in DOMAIN columns
      BY <1>2 DEF Listed
    <3> QED
      BY <3>3, <3>5, <3>6
  <2>4. TablesInv'
    BY <2>1, <2>2, <2>3 DEF BoardInv, TablesInv
  <2>5. ASSUME m.from \notin unsure PROVE Board(columns', cards') = o
    <3>1. m.from \in Browsers /\ m \in Own(m.from)
      BY DEF BoardInv, WireInv, Own
    <3>2. Regrouped(o, Board(columns, cards))
      BY <2>1, <2>5, <3>1 DEF BoardInv, SureInv
    <3>3. /\ columns \in [DOMAIN columns -> Int]
          /\ cards \in [DOMAIN cards -> [column : DOMAIN columns, position : Int]]
      BY DEF BoardInv, TablesInv
    <3> QED
      BY <2>1, <3>2, <3>3, TablesFinite, ReorderedBoard DEF BoardInv
  <2> QED
    BY <2>1, <2>4, <2>5, ChangedStep
<1> QED
  BY <1>1, <1>2

LEMMA CreateColumnStep == ASSUME BoardInv, NEW m \in wire, create_column(m) PROVE BoardInv'
<1> DEFINE slots == {columns[k] : k \in DOMAIN columns}
           slot == IF slots = {} THEN 0 ELSE Max(slots) + 1
<1>1. /\ lastColumn' = lastColumn + 1 /\ Answer(m, TRUE) /\ UNCHANGED <<cards, lastCard>>
      /\ m.kind = "addColumn" /\ columns' = Inserted(columns, lastColumn', slot)
  BY DEF create_column
<1>2. columns' = [k \in DOMAIN columns \cup {lastColumn'} |->
                    IF k = lastColumn' THEN slot ELSE columns[k]]
  BY <1>1 DEF Inserted
<1>3. slot \in Int
  <2>1. CASE slots = {}
    BY <2>1
  <2>2. CASE slots # {}
    <3>1. columns \in [DOMAIN columns -> Int] /\ DOMAIN columns # {}
      BY <2>2 DEF BoardInv, TablesInv
    <3>2. PICK a \in DOMAIN columns : \A k \in DOMAIN columns : columns[a] >= columns[k]
      BY <3>1, TablesFinite, Highest DEF BoardInv
    <3>3. columns[a] \in slots /\ \A y \in slots : columns[a] >= y
      BY <3>2
    <3>4. Max(slots) \in slots
      BY <3>3 DEF Max
    <3>5. Max(slots) \in Int
      BY <3>1, <3>4
    <3> HIDE DEF slots
    <3> QED
      BY <2>2, <3>5
  <2> QED
    BY <2>1, <2>2
<1> HIDE DEF slot
<1>4. asked' = asked
  BY <1>1 DEF Answer
<1>5. TablesInv'
  BY <1>1, <1>2, <1>3, <1>4 DEF BoardInv, TablesInv
<1> QED
  BY <1>1, <1>5, ChangedStep

LEMMA UpdateColumnStep == ASSUME BoardInv, NEW m \in wire, update_column(m) PROVE BoardInv'
<1>1. CASE m.body.column \notin DOMAIN columns
  BY <1>1, RefusedStep DEF update_column
<1>2. CASE m.body.column \in DOMAIN columns
  <2> DEFINE k == m.body.column
             K == DOMAIN columns
             rest == Sorted([x \in K \ {k} |-> columns[x]])
             at == 1 + Min({m.body.slot, Len(rest)})
             order == InsertAt(rest, at, k)
  <2>1. /\ columns' = [x \in K |-> (CHOOSE i \in DOMAIN order : order[i] = x) - 1]
        /\ Answer(m, TRUE) /\ m.kind = "moveColumn" /\ UNCHANGED <<cards, lastColumn, lastCard>>
    BY <1>2 DEF update_column
  <2>2. asked' = asked /\ m.body.slot \in Nat
    BY <2>1 DEF Answer, BoardInv, WireInv
  <2>3. K \in SUBSET Nat /\ IsFiniteSet(K) /\ columns \in [K -> Int]
    BY TablesFinite DEF BoardInv, TablesInv
  <2>4. K \ {k} \in SUBSET Nat /\ IsFiniteSet(K \ {k})
    BY <2>3, FS_Subset
  <2>5. [x \in K \ {k} |-> columns[x]] \in [K \ {k} -> Int]
    BY <2>3
  <2>6. rest \in Seq(K \ {k}) /\ ToSet(rest) = K \ {k}
    BY <2>4, <2>5, SortedProperties
  <2> HIDE DEF rest
  <2>7. Len(rest) \in Nat /\ DOMAIN rest = 1..Len(rest)
    BY <2>6
  <2>8. at \in 1..Len(rest) + 1
    <3>1. \E x \in {m.body.slot, Len(rest)} : \A y \in {m.body.slot, Len(rest)} : x =< y
      BY <2>2, <2>7
    <3>2. /\ Min({m.body.slot, Len(rest)}) \in {m.body.slot, Len(rest)}
          /\ \A y \in {m.body.slot, Len(rest)} : Min({m.body.slot, Len(rest)}) =< y
      BY <3>1 DEF Min
    <3> QED
      BY <2>2, <2>7, <3>2
  <2> HIDE DEF at
  <2>9. order \in Seq(K) /\ \A x \in ToSet(rest) \cup {k} : \E i \in DOMAIN order : order[i] = x
    <3>1. rest \in Seq(K) /\ k \in K
      BY <1>2, <2>6
    <3> HIDE DEF k, K
    <3>2. InsertAt(rest, at, k) \in Seq(K) /\ ToSet(rest) \cup {k} \subseteq ToSet(order)
      BY <2>8, <3>1, InsertAtProperties
    <3> HIDE DEF order
    <3>3. \A x \in ToSet(order) : \E i \in DOMAIN order : order[i] = x
      BY DEF ToSet
    <3> QED
      BY <3>2, <3>3 DEF order
  <2>10. DOMAIN order \subseteq Int /\ ToSet(rest) \cup {k} = K
    <3>1. ToSet(rest) \cup {k} = K
      BY <1>2, <2>6
    <3> HIDE DEF order, k, K
    <3> QED
      BY <2>9, <3>1
  <2> HIDE DEF order
  <2>11. columns' \in [K -> Int]
    BY <2>1, <2>9, <2>10
  <2>12. TablesInv'
    BY <2>1, <2>2, <2>11 DEF BoardInv, TablesInv
  <2> QED
    BY <2>1, <2>12, ChangedStep
<1> QED
  BY <1>1, <1>2

LEMMA DeleteColumnStep == ASSUME BoardInv, NEW m \in wire, delete_column(m) PROVE BoardInv'
<1> DEFINE oldest == Min(DOMAIN columns)
           no == \/ m.body \notin DOMAIN columns
                 \/ m.body = oldest /\ \E c \in DOMAIN cards : cards[c].column = oldest
<1>1. CASE no
  BY <1>1, RefusedStep DEF delete_column
<1>2. CASE ~no
  <2>1. /\ cards' = [c \in DOMAIN cards |->
                       IF cards[c].column = m.body
                       THEN [cards[c] EXCEPT !.column = oldest] ELSE cards[c]]
        /\ columns' = [k \in DOMAIN columns \ {m.body} |-> columns[k]]
        /\ Answer(m, TRUE) /\ m.kind = "delColumn" /\ UNCHANGED <<lastColumn, lastCard>>
    BY <1>2 DEF delete_column
  <2>2. asked' = asked
    BY <2>1 DEF Answer
  <2>3. oldest \in DOMAIN columns
    <3>1. DOMAIN columns # {} /\ DOMAIN columns \subseteq Nat
      BY <1>2, TablesFinite DEF BoardInv
    <3>2. \E x \in DOMAIN columns : \A y \in DOMAIN columns : x =< y
      BY <3>1, LeastNat
    <3> QED
      BY <3>2 DEF Min
  <2>4. m.body \in DOMAIN columns
    BY <1>2
  <2>5. m.body = oldest => \A c \in DOMAIN cards : cards[c].column # m.body
    BY <1>2
  <2> HIDE DEF oldest
  <2>6. TablesInv'
    BY <2>1, <2>2, <2>3, <2>4, <2>5 DEF BoardInv, TablesInv
  <2> QED
    BY <2>1, <2>6, ChangedStep
<1> QED
  BY <1>1, <1>2

LEMMA ServiceStep == ASSUME BoardInv, NEW m \in wire, Service(m) PROVE BoardInv'
  BY CreateCardStep, UpdateCardStep, DeleteCardStep, ReorderStep, CreateColumnStep,
     UpdateColumnStep, DeleteColumnStep, GetBoardStep
  DEF Service

-------------------------------------------------------------------------------
(* What comes back.                                                          *)

LEMMA AnsweredStep == ASSUME BoardInv, NEW m \in wire, Answered(m) PROVE BoardInv'
<1> DEFINE b == m.from
           r == Message(m.n, m.from, "load", Nothing)
<1>1. /\ wire' = (wire \ {m}) \cup (IF m.kind = "done" THEN {r} ELSE {})
      /\ UNCHANGED <<tables, view, history>> /\ m.kind \in {"done", "error"}
  BY DEF Answered
<1>2. r.from = b /\ r.kind = "load"
  BY DEF Message
<1> HIDE DEF r
<1>3. b \in Browsers /\ m \in Own(b)
  BY DEF BoardInv, WireInv, Own
<1>4. WireInv'
  BY <1>1, <1>2, <1>3 DEF BoardInv, WireInv, history
<1>5. ViewInv'
  BY <1>1 DEF BoardInv, ViewInv
<1>6. \A c \in Browsers \ {b} : Own(c)' = Own(c) /\ view'[c] = view[c]
  BY <1>1, <1>2 DEF Own
<1>7. ASSUME b \notin unsure' PROVE Own(b)' = {r}
  <2>1. b \notin unsure
    BY <1>1, <1>7 DEF history
  <2>2. m.kind # "error" /\ \A x \in Own(b) : x = m
    BY <1>3, <2>1 DEF BoardInv, SureInv
  <2> QED
    BY <1>1, <1>2, <2>2 DEF Own
<1> QED
  BY <1>1, <1>2, <1>3, <1>4, <1>5, <1>6, <1>7, OwnStep DEF history

LEMMA LoadStep == ASSUME BoardInv, NEW m \in wire, load(m) PROVE BoardInv'
<1> DEFINE b == m.from
<1>1. /\ wire' = wire \ {m} /\ UNCHANGED <<tables, history>> /\ m.kind = "board"
      /\ view' = [view EXCEPT ![b] = m.body]
  BY DEF load
<1>2. b \in Browsers /\ m \in Own(b) /\ Tidy(m.body)
  BY <1>1 DEF BoardInv, WireInv, Own
<1>3. WireInv'
  BY <1>1 DEF BoardInv, WireInv, history
<1>4. ViewInv'
  <2>1. m.body \in Seq(Lists)
    BY <1>2 DEF Tidy
  <2> QED
    BY <1>1, <1>2, <2>1 DEF BoardInv, ViewInv
<1>5. \A c \in Browsers \ {b} : Own(c)' = Own(c) /\ view'[c] = view[c]
  BY <1>1 DEF Own, BoardInv, ViewInv
<1>6. ASSUME b \notin unsure' PROVE Own(b)' = {} /\ view'[b] = Board(columns, cards)
  <2>1. b \notin unsure
    BY <1>1, <1>6 DEF history
  <2>2. m.body = Board(columns, cards) /\ \A x \in Own(b) : x = m
    BY <1>1, <1>2, <2>1 DEF BoardInv, SureInv
  <2>3. view'[b] = m.body
    BY <1>1, <1>2 DEF BoardInv, ViewInv
  <2> QED
    BY <1>1, <2>2, <2>3 DEF Own
<1> QED
  BY <1>1, <1>2, <1>3, <1>4, <1>5, <1>6, OwnStep DEF history

LEMMA LostStep == ASSUME BoardInv, NEW m \in wire, Lost(m) PROVE BoardInv'
<1>1. /\ wire' = wire \ {m} /\ unsure' = unsure \cup {m.from}
      /\ UNCHANGED <<tables, view, asked>>
  BY DEF Lost
<1>2. m.from \in Browsers /\ WireInv' /\ ViewInv'
  BY <1>1 DEF BoardInv, WireInv, ViewInv
<1>3. \A c \in Browsers \ {m.from} : Own(c)' = Own(c) /\ view'[c] = view[c]
  BY <1>1 DEF Own
<1> QED
  BY <1>1, <1>2, <1>3, OwnStep

-------------------------------------------------------------------------------
LEMMA BoardInvInit == BoardInit => BoardInv
<1> SUFFICES ASSUME BoardInit PROVE BoardInv
  OBVIOUS
<1>1. TablesInv
  <2>1. columns \in [1..FirstColumns -> Int] /\ 1 \in 1..FirstColumns
    BY BoardAssumption DEF BoardInit
  <2>2. cards \in [1..FirstCards -> [column : 1..FirstColumns, position : Int]]
    BY BoardAssumption, <2>1 DEF BoardInit
  <2>3. lastColumn = FirstColumns /\ lastCard = FirstCards /\ DOMAIN columns = 1..FirstColumns
        /\ DOMAIN cards = 1..FirstCards
    BY DEF BoardInit
  <2> QED
    BY BoardAssumption, <2>1, <2>2, <2>3 DEF TablesInv
<1>2. Tidy(Board(columns, cards))
  BY <1>1, StoredBoard
<1>3. view = [b \in Browsers |-> Board(columns, cards)] /\ wire = {}
  BY DEF BoardInit
<1>4. ViewInv
  BY <1>2, <1>3 DEF ViewInv, Tidy
<1>5. WireInv
  BY <1>3 DEF WireInv
<1>6. SureInv
  BY <1>3 DEF SureInv, Own
<1> QED
  BY <1>1, <1>4, <1>5, <1>6 DEF BoardInv

LEMMA BoardInvAlways == BoardSpec => []BoardInv
<1>1. BoardInv /\ [BoardNext]_boardVars => BoardInv'
  <2> SUFFICES ASSUME BoardInv, [BoardNext]_boardVars PROVE BoardInv'
    OBVIOUS
  <2>1. CASE BoardNext
    BY <2>1, PeopleStep, ServiceStep, AnsweredStep, LoadStep, LostStep DEF BoardNext
  <2>2. CASE UNCHANGED boardVars
    <3>1. UNCHANGED <<columns, cards, lastColumn, lastCard, view, wire, unsure, asked>>
      BY <2>2 DEF boardVars, tables, history
    <3> QED
      BY <3>1 DEF BoardInv, TablesInv, WireInv, ViewInv, SureInv, Own
  <2> QED
    BY <2>1, <2>2
<1> QED
  BY <1>1, BoardInvInit, PTL DEF BoardSpec

\* A browser in nobody's way shows what is stored, for any browsers, cards and
\* columns, and any order in which requests and answers arrive.
THEOREM SureBrowserShowsStored == BoardSpec => []ShownIsStored
<1>1. BoardInv => ShownIsStored
  BY DEF BoardInv, SureInv, ShownIsStored
<1> QED
  BY <1>1, BoardInvAlways, PTL

\* Every card nobody asked to delete is on the board, in one column.
THEOREM CardsStayOnBoard == BoardSpec => []NoCardVanishes
<1>1. BoardInv => NoCardVanishes
  <2> SUFFICES ASSUME BoardInv PROVE NoCardVanishes
    OBVIOUS
  <2> DEFINE board == Board(columns, cards)
  <2>1. Tidy(board) /\ Shown(board) = DOMAIN cards
    BY StoredBoard DEF BoardInv
  <2>2. \A i, j \in DOMAIN board :
          i # j => ToSet(board[i].cards) \cap ToSet(board[j].cards) = {}
    BY <2>1 DEF Tidy, ToSet
  <2> QED
    BY <2>1, <2>2 DEF NoCardVanishes, BoardInv, TablesInv
<1> QED
  BY <1>1, BoardInvAlways, PTL

================================================================================
