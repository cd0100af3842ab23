--------------------------- MODULE AutoValidateProofs ---------------------------
(***************************************************************************)
(* What /fh-auto-validate guarantees for every set of gates and every cap:   *)
(* the loop's state keeps its shape (so no round beyond the cap is begun), a  *)
(* green end is earned, and the builder works against the gate that judges.   *)
(***************************************************************************)
EXTENDS AutoValidate, FiniteSetTheorems, TLAPS

\* Where the command is and who runs.
Control ==
  /\ running # "none" => pc \in Turns /\ result = "none"
  /\ running = "builder" => pc = "build"
  /\ running = "validator" => pc \in {"design", "triage"}
  /\ result # "none" => pc \in Turns
  /\ code # "none" => pc \in GateRuns
  /\ result = "aborted" => stopped
  /\ outcome # "none" => pc \in {"finally", "done"}

\* The loop is in its rounds, and a triage is never the last thing in one.
Rounds ==
  /\ pc \in {"build", "gate"} => round \in 1..maxV
  /\ pc \in {"triage", "rerun"} => round \in 1..maxV - 1

\* Which gate lies on disk.
InForce ==
  ~hidden =>
    /\ pc \in {"baseline", "build", "gate", "rerun"} => disk = script /\ script \in Gates
    /\ pc = "triage" => /\ script = before /\ script \in Gates
                        /\ running = "none" /\ result = "none" => disk = before
                        /\ repairUsed => disk = before

\* What the last gate run says of the project.
Green ==
  ~hidden => (code = "pass" \/ outcome = "pass" => script \in work)

\* What the builder has been told.
Told ==
  ~hidden =>
    /\ pc = "build" /\ running = "none" /\ result = "none" => round = 1 \/ update \/ told = script
    /\ pc = "build" /\ (running # "none" \/ result \in {"ok", "failed"}) => told = script
    /\ pc \in {"gate", "triage"} => told = script
    /\ pc = "rerun" => update

\* What has become of the gates that have judged.
Trail ==
  /\ pc \in {"lease", "design"} => judges = {}
  /\ ~hidden => judges \subseteq archived \cup {script}
  /\ ~repairUsed => archived = {}
  /\ \E g \in Gates \cup {NoGate, Blank} : archived \subseteq {g}

IInv == TypeOK /\ Control /\ Rounds /\ InForce /\ Green /\ Told /\ Trail

-------------------------------------------------------------------------------
\* The shape is kept by every step.
LEMMA TypeOKStep == TypeOK /\ Control /\ Rounds /\ [Next]_vars => TypeOK'
<1> SUFFICES ASSUME TypeOK, Control, Rounds, [Next]_vars PROVE TypeOK'
  OBVIOUS
<1> USE ValidateAssumption DEF TypeOK, Control, Rounds, options, gate, history, Turns, GateRuns, Verdicts
<1>1. CASE Acquire
  BY <1>1 DEF Acquire, End
<1>2. CASE Spawn
  BY <1>2 DEF Spawn, Agent
<1>3. CASE ChildEnds
  BY <1>3 DEF ChildEnds
<1>4. CASE RunGate
  BY <1>4 DEF RunGate
<1>5. CASE AfterDesign
  BY <1>5 DEF AfterDesign, Ended, Clear, End, Designed
<1>6. CASE AfterBaseline
  BY <1>6 DEF AfterBaseline, Judged, Clear, End
<1>7. CASE AfterBuild
  BY <1>7 DEF AfterBuild, Ended, Clear, End
<1>8. CASE GateVerdict
  BY <1>8 DEF GateVerdict, Judged, Clear, End, Ruling, NextRound
<1>9. CASE AfterTriage
  <2> USE <1>9 DEF AfterTriage, Ended, Clear, NextRound
  <2>1. hidden' \in BOOLEAN
    BY DEF Unnoticed, Repaired
  <2>2. /\ script' \in Gates \cup {NoGate} /\ disk' = disk /\ before' = before /\ told' = told
        /\ repairUsed' \in BOOLEAN /\ update' \in BOOLEAN
        /\ archived' \subseteq Gates \cup {NoGate, Blank}
    BY DEF Repaired
  <2>3. round' \in 0..maxV' /\ pc' \in {"lease", "finally", "done"} \cup Turns \cup GateRuns
    OBVIOUS
  <2> QED
    BY <2>1, <2>2, <2>3
<1>10. CASE RerunVerdict
  BY <1>10 DEF RerunVerdict, Judged, Clear, End, Ruling, NextRound
<1>11. CASE Finally
  BY <1>11 DEF Finally
<1>12. CASE SaveFails
  BY <1>12 DEF SaveFails, Ended, Judged, Clear, End
<1>13. CASE BuilderWorks
  BY <1>13 DEF BuilderWorks
<1>14. CASE ValidatorWrites
  BY <1>14 DEF ValidatorWrites
<1>15. CASE Escape
  BY <1>15 DEF Escape
<1>16. CASE UNCHANGED vars
  BY <1>16 DEF vars
<1> QED
  BY <1>1, <1>2, <1>3, <1>4, <1>5, <1>6, <1>7, <1>8, <1>9, <1>10, <1>11,
     <1>12, <1>13, <1>14, <1>15, <1>16 DEF Next, Continue, Done

\* The bookkeeping of turns and gate runs is kept.
LEMMA ControlStep == TypeOK /\ Control /\ [Next]_vars => Control'
<1> SUFFICES ASSUME TypeOK, Control, [Next]_vars PROVE Control'
  OBVIOUS
<1> USE ValidateAssumption DEF TypeOK, Control, options, gate, history, Turns, GateRuns, Verdicts
<1>1. CASE Acquire
  BY <1>1 DEF Acquire, End
<1>2. CASE Spawn
  BY <1>2 DEF Spawn, Agent
<1>3. CASE ChildEnds
  BY <1>3 DEF ChildEnds
<1>4. CASE RunGate
  BY <1>4 DEF RunGate
<1>5. CASE AfterDesign
  BY <1>5 DEF AfterDesign, Ended, Clear, End, Designed
<1>6. CASE AfterBaseline
  BY <1>6 DEF AfterBaseline, Judged, Clear, End
<1>7. CASE AfterBuild
  BY <1>7 DEF AfterBuild, Ended, Clear, End
<1>8. CASE GateVerdict
  BY <1>8 DEF GateVerdict, Judged, Clear, End, Ruling, NextRound
<1>9. CASE AfterTriage
  BY <1>9 DEF AfterTriage, Ended, Clear, NextRound, Repaired, Unnoticed
<1>10. CASE RerunVerdict
  BY <1>10 DEF RerunVerdict, Judged, Clear, End, Ruling, NextRound
<1>11. CASE Finally
  BY <1>11 DEF Finally
<1>12. CASE SaveFails
  BY <1>12 DEF SaveFails, Ended, Judged, Clear, End
<1>13. CASE BuilderWorks
  BY <1>13 DEF BuilderWorks
<1>14. CASE ValidatorWrites
  BY <1>14 DEF ValidatorWrites
<1>15. CASE Escape
  BY <1>15 DEF Escape
<1>16. CASE UNCHANGED vars
  BY <1>16 DEF vars
<1> QED
  BY <1>1, <1>2, <1>3, <1>4, <1>5, <1>6, <1>7, <1>8, <1>9, <1>10, <1>11,
     <1>12, <1>13, <1>14, <1>15, <1>16 DEF Next, Continue, Done

\* No round is left behind the cap.
LEMMA RoundsStep == TypeOK /\ Control /\ Rounds /\ [Next]_vars => Rounds'
<1> SUFFICES ASSUME TypeOK, Control, Rounds, [Next]_vars PROVE Rounds'
  OBVIOUS
<1> USE ValidateAssumption DEF TypeOK, Control, Rounds, options, gate, history, Turns, GateRuns, Verdicts
<1>1. CASE Acquire
  BY <1>1 DEF Acquire, End
<1>2. CASE Spawn
  BY <1>2 DEF Spawn, Agent
<1>3. CASE ChildEnds
  BY <1>3 DEF ChildEnds
<1>4. CASE RunGate
  BY <1>4 DEF RunGate
<1>5. CASE AfterDesign
  BY <1>5 DEF AfterDesign, Ended, Clear, End, Designed
<1>6. CASE AfterBaseline
  BY <1>6 DEF AfterBaseline, Judged, Clear, End
<1>7. CASE AfterBuild
  BY <1>7 DEF AfterBuild, Ended, Clear, End
<1>8. CASE GateVerdict
  BY <1>8 DEF GateVerdict, Judged, Clear, End, Ruling, NextRound
<1>9. CASE AfterTriage
  BY <1>9 DEF AfterTriage, Ended, Clear, NextRound, Repaired, Unnoticed
<1>10. CASE RerunVerdict
  BY <1>10 DEF RerunVerdict, Judged, Clear, End, Ruling, NextRound
<1>11. CASE Finally
  BY <1>11 DEF Finally
<1>12. CASE SaveFails
  BY <1>12 DEF SaveFails, Ended, Judged, Clear, End
<1>13. CASE BuilderWorks
  BY <1>13 DEF BuilderWorks
<1>14. CASE ValidatorWrites
  BY <1>14 DEF ValidatorWrites
<1>15. CASE Escape
  BY <1>15 DEF Escape
<1>16. CASE UNCHANGED vars
  BY <1>16 DEF vars
<1> QED
  BY <1>1, <1>2, <1>3, <1>4, <1>5, <1>6, <1>7, <1>8, <1>9, <1>10, <1>11,
     <1>12, <1>13, <1>14, <1>15, <1>16 DEF Next, Continue, Done

\* Every noticed change of the gate is a change of the script.
LEMMA InForceStep == TypeOK /\ Control /\ InForce /\ [Next]_vars => InForce'
<1> SUFFICES ASSUME TypeOK, Control, InForce, [Next]_vars PROVE InForce'
  OBVIOUS
<1> USE ValidateAssumption DEF TypeOK, Control, InForce, options, gate, history, Turns, GateRuns, Verdicts
<1>1. CASE Acquire
  BY <1>1 DEF Acquire, End
<1>2. CASE Spawn
  BY <1>2 DEF Spawn, Agent
<1>3. CASE ChildEnds
  BY <1>3 DEF ChildEnds
<1>4. CASE RunGate
  BY <1>4 DEF RunGate
<1>5. CASE AfterDesign
  BY <1>5 DEF AfterDesign, Ended, Clear, End, Designed
<1>6. CASE AfterBaseline
  BY <1>6 DEF AfterBaseline, Judged, Clear, End
<1>7. CASE AfterBuild
  BY <1>7 DEF AfterBuild, Ended, Clear, End
<1>8. CASE GateVerdict
  BY <1>8 DEF GateVerdict, Judged, Clear, End, Ruling, NextRound
<1>9. CASE AfterTriage
  BY <1>9 DEF AfterTriage, Ended, Clear, NextRound, Repaired, Unnoticed
<1>10. CASE RerunVerdict
  BY <1>10 DEF RerunVerdict, Judged, Clear, End, Ruling, NextRound
<1>11. CASE Finally
  BY <1>11 DEF Finally
<1>12. CASE SaveFails
  BY <1>12 DEF SaveFails, Ended, Judged, Clear, End
<1>13. CASE BuilderWorks
  BY <1>13 DEF BuilderWorks
<1>14. CASE ValidatorWrites
  BY <1>14 DEF ValidatorWrites
<1>15. CASE Escape
  BY <1>15 DEF Escape
<1>16. CASE UNCHANGED vars
  BY <1>16 DEF vars
<1> QED
  BY <1>1, <1>2, <1>3, <1>4, <1>5, <1>6, <1>7, <1>8, <1>9, <1>10, <1>11,
     <1>12, <1>13, <1>14, <1>15, <1>16 DEF Next, Continue, Done

\* A passing run is one of the gate in force on the project as it is.
LEMMA GreenStep == TypeOK /\ Control /\ InForce /\ Green /\ [Next]_vars => Green'
<1> SUFFICES ASSUME TypeOK, Control, InForce, Green, [Next]_vars PROVE Green'
  OBVIOUS
<1> USE ValidateAssumption DEF TypeOK, Control, InForce, Green, options, gate, history, Turns, GateRuns, Verdicts
<1>1. CASE Acquire
  BY <1>1 DEF Acquire, End
<1>2. CASE Spawn
  BY <1>2 DEF Spawn, Agent
<1>3. CASE ChildEnds
  BY <1>3 DEF ChildEnds
<1>4. CASE RunGate
  BY <1>4 DEF RunGate
<1>5. CASE AfterDesign
  BY <1>5 DEF AfterDesign, Ended, Clear, End, Designed
<1>6. CASE AfterBaseline
  BY <1>6 DEF AfterBaseline, Judged, Clear, End
<1>7. CASE AfterBuild
  BY <1>7 DEF AfterBuild, Ended, Clear, End
<1>8. CASE GateVerdict
  BY <1>8 DEF GateVerdict, Judged, Clear, End, Ruling, NextRound
<1>9. CASE AfterTriage
  BY <1>9 DEF AfterTriage, Ended, Clear, NextRound, Repaired, Unnoticed
<1>10. CASE RerunVerdict
  BY <1>10 DEF RerunVerdict, Judged, Clear, End, Ruling, NextRound
<1>11. CASE Finally
  BY <1>11 DEF Finally
<1>12. CASE SaveFails
  BY <1>12 DEF SaveFails, Ended, Judged, Clear, End
<1>13. CASE BuilderWorks
  BY <1>13 DEF BuilderWorks
<1>14. CASE ValidatorWrites
  BY <1>14 DEF ValidatorWrites
<1>15. CASE Escape
  BY <1>15 DEF Escape
<1>16. CASE UNCHANGED vars
  BY <1>16 DEF vars
<1> QED
  BY <1>1, <1>2, <1>3, <1>4, <1>5, <1>6, <1>7, <1>8, <1>9, <1>10, <1>11,
     <1>12, <1>13, <1>14, <1>15, <1>16 DEF Next, Continue, Done

\* The builder is told of every gate in force before it works.
LEMMA ToldStep == TypeOK /\ Control /\ InForce /\ Told /\ [Next]_vars => Told'
<1> SUFFICES ASSUME TypeOK, Control, InForce, Told, [Next]_vars PROVE Told'
  OBVIOUS
<1> USE ValidateAssumption DEF TypeOK, Control, InForce, Told, options, gate, history, Turns, GateRuns, Verdicts
<1>1. CASE Acquire
  BY <1>1 DEF Acquire, End
<1>2. CASE Spawn
  BY <1>2 DEF Spawn, Agent
<1>3. CASE ChildEnds
  BY <1>3 DEF ChildEnds
<1>4. CASE RunGate
  BY <1>4 DEF RunGate
<1>5. CASE AfterDesign
  BY <1>5 DEF AfterDesign, Ended, Clear, End, Designed
<1>6. CASE AfterBaseline
  BY <1>6 DEF AfterBaseline, Judged, Clear, End
<1>7. CASE AfterBuild
  BY <1>7 DEF AfterBuild, Ended, Clear, End
<1>8. CASE GateVerdict
  BY <1>8 DEF GateVerdict, Judged, Clear, End, Ruling, NextRound
<1>9. CASE AfterTriage
  BY <1>9 DEF AfterTriage, Ended, Clear, NextRound, Repaired, Unnoticed
<1>10. CASE RerunVerdict
  BY <1>10 DEF RerunVerdict, Judged, Clear, End, Ruling, NextRound
<1>11. CASE Finally
  BY <1>11 DEF Finally
<1>12. CASE SaveFails
  BY <1>12 DEF SaveFails, Ended, Judged, Clear, End
<1>13. CASE BuilderWorks
  BY <1>13 DEF BuilderWorks
<1>14. CASE ValidatorWrites
  BY <1>14 DEF ValidatorWrites
<1>15. CASE Escape
  BY <1>15 DEF Escape
<1>16. CASE UNCHANGED vars
  BY <1>16 DEF vars
<1> QED
  BY <1>1, <1>2, <1>3, <1>4, <1>5, <1>6, <1>7, <1>8, <1>9, <1>10, <1>11,
     <1>12, <1>13, <1>14, <1>15, <1>16 DEF Next, Continue, Done

\* A gate that has judged is in force or archived, and one gate at most is archived.
LEMMA TrailStep == TypeOK /\ Control /\ InForce /\ Trail /\ [Next]_vars => Trail'
<1> SUFFICES ASSUME TypeOK, Control, InForce, Trail, [Next]_vars PROVE Trail'
  OBVIOUS
<1> USE ValidateAssumption DEF TypeOK, Control, InForce, Trail, options, gate, history, Turns, GateRuns, Verdicts
<1>1. CASE Acquire
  BY <1>1 DEF Acquire, End
<1>2. CASE Spawn
  BY <1>2 DEF Spawn, Agent
<1>3. CASE ChildEnds
  BY <1>3 DEF ChildEnds
<1>4. CASE RunGate
  BY <1>4 DEF RunGate
<1>5. CASE AfterDesign
  BY <1>5 DEF AfterDesign, Ended, Clear, End, Designed
<1>6. CASE AfterBaseline
  BY <1>6 DEF AfterBaseline, Judged, Clear, End
<1>7. CASE AfterBuild
  BY <1>7 DEF AfterBuild, Ended, Clear, End
<1>8. CASE GateVerdict
  BY <1>8 DEF GateVerdict, Judged, Clear, End, Ruling, NextRound
<1>9. CASE AfterTriage
  BY <1>9 DEF AfterTriage, Ended, Clear, NextRound, Repaired, Unnoticed
<1>10. CASE RerunVerdict
  BY <1>10 DEF RerunVerdict, Judged, Clear, End, Ruling, NextRound
<1>11. CASE Finally
  BY <1>11 DEF Finally
<1>12. CASE SaveFails
  BY <1>12 DEF SaveFails, Ended, Judged, Clear, End
<1>13. CASE BuilderWorks
  BY <1>13 DEF BuilderWorks
<1>14. CASE ValidatorWrites
  BY <1>14 DEF ValidatorWrites
<1>15. CASE Escape
  BY <1>15 DEF Escape
<1>16. CASE UNCHANGED vars
  BY <1>16 DEF vars
<1> QED
  BY <1>1, <1>2, <1>3, <1>4, <1>5, <1>6, <1>7, <1>8, <1>9, <1>10, <1>11,
     <1>12, <1>13, <1>14, <1>15, <1>16 DEF Next, Continue, Done

\* The strengthened invariant holds in every reachable state.
LEMMA Invariance == Spec => []IInv
<1>1. Init => IInv
  <2> USE ValidateAssumption DEF Init
  <2>1. Init => TypeOK
    <3> SUFFICES ASSUME Init PROVE TypeOK
      OBVIOUS
    <3>1. {disk, before} \subseteq Gates \cup {NoGate, Blank} /\ {script, told} \subseteq Gates \cup {NoGate}
      OBVIOUS
    <3>2. round \in 0..maxV
      OBVIOUS
    <3> QED
      BY <3>1, <3>2 DEF TypeOK, Verdicts, Turns, GateRuns
  <2>2. Init => Control /\ Rounds /\ InForce /\ Green /\ Told /\ Trail
    BY DEF Control, Rounds, InForce, Green, Told, Trail, Turns, GateRuns
  <2> QED
    BY <2>1, <2>2 DEF IInv
<1>2. IInv /\ [Next]_vars => IInv'
  BY TypeOKStep, ControlStep, RoundsStep, InForceStep, GreenStep, ToldStep, TrailStep DEF IInv
<1> QED
  BY <1>1, <1>2, PTL DEF Spec

\* Every reachable value has its declared shape: no round beyond the cap.
THEOREM ValidateTypeCorrect == Spec => []TypeOK
<1>1. IInv => TypeOK
  BY DEF IInv
<1> QED
  BY <1>1, Invariance, PTL

\* A run that ends green ends with a project that satisfies the gate in force.
THEOREM ValidatePassIsEarned == Spec => []PassIsEarned
<1>1. IInv => PassIsEarned
  BY DEF IInv, Green, PassIsEarned
<1> QED
  BY <1>1, Invariance, PTL

\* While the builder runs, the gate it was told is the gate that will judge it.
THEOREM ValidateBuilderKnowsTheGate == Spec => []BuilderKnowsTheGate
<1>1. IInv => BuilderKnowsTheGate
  BY DEF IInv, Control, InForce, Told, BuilderKnowsTheGate
<1> QED
  BY <1>1, Invariance, PTL

\* Every gate that has judged the run is in force or kept for audit.
THEOREM ValidateEveryJudgeIsKept == Spec => []EveryJudgeIsKept
<1>1. IInv => EveryJudgeIsKept
  BY DEF IInv, Trail, EveryJudgeIsKept
<1> QED
  BY <1>1, Invariance, PTL

\* At most two gates judge a run, whatever the validator does.
THEOREM ValidateOneRepair == Spec => []OneRepair
<1>1. IInv => OneRepair
  <2> SUFFICES ASSUME IInv, ~hidden PROVE Cardinality(judges) <= 2
    BY DEF OneRepair
  <2>1. PICK g : archived \subseteq {g}
    BY DEF IInv, Trail
  <2>2. judges \subseteq {g, script}
    BY <2>1 DEF IInv, Trail
  <2>3. IsFiniteSet({g} \cup {script}) /\ Cardinality({g} \cup {script}) <= 2
    <3>1. IsFiniteSet({g}) /\ Cardinality({g}) = 1 /\ IsFiniteSet({}) /\ Cardinality({}) = 0
      BY FS_Singleton, FS_EmptySet
    <3>2. CASE script = g
      <4>1. {g} \cup {script} = {g}
        BY <3>2
      <4> QED
        BY <3>1, <4>1
    <3>3. CASE script # g
      BY <3>1, <3>3, FS_AddElement
    <3> QED
      BY <3>2, <3>3
  <2>4. judges \subseteq {g} \cup {script}
    BY <2>2
  <2>5. Cardinality(judges) <= Cardinality({g} \cup {script}) /\ Cardinality(judges) \in Nat
    BY <2>3, <2>4, FS_Subset, FS_CardinalityType
  <2> QED
    BY <2>3, <2>5, FS_CardinalityType
<1> QED
  BY <1>1, Invariance, PTL

\* After escape no child is started, and the end is never reported as a failure
\* of somebody or as a success.
THEOREM ValidateEscape == Spec => NothingStartsAfterEscape /\ StopIsReported
<1>1. [Next]_vars => [stopped => running' \in {running, "none"}]_vars
  <2> SUFFICES ASSUME [Next]_vars, stopped PROVE running' \in {running, "none"} \/ UNCHANGED vars
    OBVIOUS
  <2> QED
    BY DEF Next, Continue, Done, Acquire, Spawn, ChildEnds, RunGate, AfterDesign,
      AfterBaseline, AfterBuild, GateVerdict, AfterTriage, RerunVerdict, Finally, SaveFails,
      BuilderWorks, ValidatorWrites, Escape, vars
<1>2. [Next]_vars => [outcome' # outcome /\ stopped
                        => outcome' \in {"stopped", "refused", "thrown"}]_vars
  <2> SUFFICES ASSUME [Next]_vars, stopped
               PROVE \/ outcome' \in {outcome, "stopped", "refused", "thrown"}
                     \/ UNCHANGED vars
    OBVIOUS
  <2> QED
    BY DEF Next, Continue, Done, Acquire, Spawn, ChildEnds, RunGate, AfterDesign,
      AfterBaseline, AfterBuild, GateVerdict, AfterTriage, RerunVerdict, Finally, SaveFails,
      BuilderWorks, ValidatorWrites, Escape, vars, End, Ruling, NextRound
<1> QED
  BY <1>1, <1>2, PTL DEF Spec, NothingStartsAfterEscape, StopIsReported
================================================================================
