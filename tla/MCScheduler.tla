------------------------------ MODULE MCScheduler -----------------------------
(* One server process on its database: one task with everything that can     *)
(* happen to it, or several tasks in the queue.                              *)
EXTENDS Scheduler, TLC

CONSTANTS p1, h1, t1, t2, t3, c1, e1, silent

OneProc    == {p1}
OneThread  == {h1}
NoThreads  == {}
OneTask    == {t1}
ThreeTasks == {t1, t2, t3}
OneCode    == {c1}
TwoErrs    == {e1, silent}
OneErr     == {silent}
===============================================================================
