------------------------------ MODULE MCKnowledge -----------------------------
(* Two tasks of up to two attempts each, one more for a rerun, and two errors. *)
(* Tasks and errors are only compared with one another; no liveness is checked. *)
EXTENDS Knowledge, TLC
CONSTANTS t1, t2, e1, e2
MCTasks == {t1, t2}
MCSigs == {e1, e2}
Symmetry == Permutations(MCTasks) \cup Permutations(MCSigs)
===============================================================================
