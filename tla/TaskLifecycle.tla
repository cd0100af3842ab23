---------------------------- MODULE TaskLifecycle -----------------------------
(***************************************************************************)
(* What the batch scheduler promises about the status column of a task, in  *)
(* the terms its API uses: tasks run one at a time, a running task ends in  *)
(* one verdict or, when the worker dies, goes back to the queue, and only a *)
(* human (cancel, retry) moves a task that is not running.                  *)
(*                                                                         *)
(* The one exception is stated and not hidden: the API decides on a status *)
(* it has read and writes in a second statement. A write that lands after   *)
(* the status changed marks the task as raced; a raced task may be running  *)
(* under any status until the run that was under way writes its verdict.    *)
(***************************************************************************)
CONSTANT Tasks

VARIABLES status, raced

lifecycleVars == <<status, raced>>

Verdicts  == {"succeeded", "needs_review", "failed", "aborted"}
Retryable == {"needs_review", "failed", "aborted"}
Status    == {"none", "queued", "running"} \cup Verdicts

LifecycleInit ==
  /\ status = [t \in Tasks |-> "none"]
  /\ raced = [t \in Tasks |-> FALSE]

Become(t, s) == status' = [status EXCEPT ![t] = s]

Submit(t) ==
  /\ status[t] = "none"
  /\ Become(t, "queued")
  /\ UNCHANGED raced

Start(t) ==
  /\ status[t] = "queued"
  /\ \A u \in Tasks : status[u] # "running"
  /\ Become(t, "running")
  /\ UNCHANGED raced

Settle(t, verdict) ==
  /\ status[t] = "running" \/ raced[t]
  /\ Become(t, verdict)
  /\ UNCHANGED raced

Requeue ==
  /\ status' = [t \in Tasks |-> IF status[t] = "running" THEN "queued" ELSE status[t]]
  /\ UNCHANGED raced

Withdraw(t) ==
  /\ status[t] = "queued"
  /\ Become(t, "aborted")
  /\ UNCHANGED raced

Resubmit(t) ==
  /\ status[t] \in Retryable
  /\ Become(t, "queued")
  /\ UNCHANGED raced

StaleWrite(t) ==
  /\ \E s \in {"aborted", "queued", status[t]} : Become(t, s)
  /\ raced' = [raced EXCEPT ![t] = TRUE]

LifecycleNext ==
  \/ \E t \in Tasks :
       \/ Submit(t) \/ Start(t) \/ Withdraw(t) \/ Resubmit(t) \/ StaleWrite(t)
       \/ \E v \in Verdicts : Settle(t, v)
  \/ Requeue

LifecycleSpec == LifecycleInit /\ [][LifecycleNext]_lifecycleVars
===============================================================================
