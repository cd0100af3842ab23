----------------------------- MODULE LlamaFailover -----------------------------
(***************************************************************************)
(* The degradation of the local model server from GPU to CPU to stopped,    *)
(* and back: llama-watchdog.sh (a timer), llama-failover.sh recover (the     *)
(* daily llama-recovery.timer) and an administrator who calls               *)
(* llama-failover.sh cpu, gpu or down.                                      *)
(*                                                                         *)
(* The scripts share, without a lock, the mode file, the drop-in that makes *)
(* the unit start on the CPU, and the unit. One action is one command of a  *)
(* script. Time (in quarters of a minute) passes when every script is idle, *)
(* asleep or waiting for the server's answer; of the other commands only the *)
(* notification takes time, where it matters: before the trial.              *)
(* The unit file is not part of the repository: a server that does not work  *)
(* may hang or exit, and systemd may start one that exited again or not.     *)
(***************************************************************************)
EXTENDS Integers

CONSTANTS
  THRESHOLD,   \* llama-watchdog.sh: failed checks before it changes the mode
  Grace,       \* age the watchdog leaves a unit alone until (90 s)
  Trial,       \* how long recover waits before it looks (75 s)
  NotifyMax,   \* what the notification (2 x 8 s) and the look (5 s) may add
  MaxManual, MaxReboots   \* bounds of the model

ASSUME FailoverAssumption ==
  /\ THRESHOLD \in Nat \ {0} /\ Grace \in Nat /\ Trial \in Nat
  /\ NotifyMax \in Nat
  /\ Trial < Grace
  /\ MaxManual \in Nat /\ MaxReboots \in Nat

VARIABLES
  mode,      \* the mode file; "none" while it is being rewritten
  notice,    \* the notice that asks for a root-cause session exists
  dropin,    \* the drop-in exists
  loaded,    \* ... and was there at the last daemon-reload
  unit,      \* what the server was started on, or "off"
  exited,    \* the server has exited and was not started again
  age,       \* of the running server, at most Grace
  fcount,    \* the watchdog's count of failed checks
  pc, target,   \* of each script: next command, mode to go to ("GPU" at rest)
  left, slow,   \* of the trial: time left; whether the notification took long
  works,     \* the hardware modes that work at present
  manual, reboots,
  torn       \* history: two scripts once ran together, or a reboot cut one short
             \* or started a server that had been stopped

files == <<mode, notice, dropin>>
service == <<loaded, unit, exited, age>>
script == <<pc, target, left, slow>>
world == <<works, manual, reboots, torn>>
failoverVars == <<files, service, fcount, script, world>>

Scripts == {"watchdog", "recovery", "admin"}
Modes   == {"GPU", "CPU", "DOWN"}

FailoverInit ==
  /\ mode = "GPU" /\ notice = FALSE
  /\ dropin = FALSE /\ loaded = FALSE
  /\ unit = "GPU" /\ exited = FALSE /\ age = Grace
  /\ fcount = 0
  /\ pc = [s \in Scripts |-> "idle"]
  /\ target = [s \in Scripts |-> "GPU"]
  /\ left = 0 /\ slow = FALSE
  /\ works = {"GPU", "CPU"}
  /\ manual = 0 /\ reboots = 0
  /\ torn = FALSE

Goto(s, l) == pc' = [pc EXCEPT ![s] = l]

Healthy == unit \in works /\ ~exited

\* A script leaves idle.
Begin(s, l) ==
  /\ pc[s] = "idle"
  /\ Goto(s, l)
  /\ torn' = (torn \/ \E other \in Scripts \ {s} : pc[other] # "idle")

-------------------------------------------------------------------------------
(* llama-failover.sh: to_cpu, to_gpu and down.                              *)

EditDropIn(s) ==
  /\ pc[s] = "edit"
  /\ dropin' = (target[s] = "CPU")
  /\ Goto(s, "reload")
  /\ UNCHANGED <<mode, notice, service, fcount, target, left, slow, world>>

Reload(s) ==
  /\ pc[s] = "reload"
  /\ loaded' = dropin
  /\ Goto(s, "restart")
  /\ UNCHANGED <<files, unit, exited, age, fcount, target, left, slow, world>>

Restarted ==
  /\ unit' = IF loaded THEN "CPU" ELSE "GPU"
  /\ exited' = FALSE
  /\ age' = 0
  /\ UNCHANGED loaded

Restart(s) ==
  /\ pc[s] = "restart"
  /\ Restarted
  /\ Goto(s, "truncate")
  /\ UNCHANGED <<files, fcount, target, left, slow, world>>

Stop(s) ==
  /\ pc[s] = "stop"
  /\ unit' = "off"
  /\ exited' = FALSE /\ age' = 0
  /\ Goto(s, "truncate")
  /\ UNCHANGED <<files, loaded, fcount, target, left, slow, world>>

\* write_state: the redirection empties the mode file, then it is filled, then
\* the notice is removed or written.
Truncate(s) ==
  /\ pc[s] = "truncate"
  /\ mode' = "none"
  /\ Goto(s, "record")
  /\ UNCHANGED <<notice, dropin, service, fcount, target, left, slow, world>>

\* Mutant of Record: every mode is recorded as the one before.
RecordLate(s) ==
  /\ pc[s] = "record"
  /\ mode' = IF target[s] = "DOWN" THEN "CPU" ELSE target[s]
  /\ Goto(s, "notify")
  /\ UNCHANGED <<notice, dropin, service, fcount, target, left, slow, world>>

Record(s) ==
  /\ pc[s] = "record"
  /\ mode' = target[s]
  /\ Goto(s, "notify")
  /\ UNCHANGED <<notice, dropin, service, fcount, target, left, slow, world>>

Notify(s) ==
  /\ pc[s] = "notify"
  /\ notice' = (target[s] # "GPU")
  /\ IF s = "recovery" /\ target[s] = "GPU"
     THEN /\ Goto(s, "sleep")
          /\ \/ left' = Trial /\ slow' = FALSE
             \/ left' \in Trial + 1..Trial + NotifyMax /\ slow' = TRUE
     ELSE Goto(s, "idle") /\ UNCHANGED <<left, slow>>
  /\ target' = [target EXCEPT ![s] = "GPU"]
  /\ UNCHANGED <<mode, dropin, service, fcount, world>>

Transition(s) ==
  \/ EditDropIn(s) \/ Reload(s) \/ Restart(s) \/ Stop(s)
  \/ Truncate(s) \/ Record(s) \/ Notify(s)

Switch(s, m) ==
  /\ target' = [target EXCEPT ![s] = m]
  /\ Goto(s, IF m = "DOWN" THEN "stop" ELSE "edit")

-------------------------------------------------------------------------------
(* llama-failover.sh recover.                                               *)

\* Mutant of Recover: only the CPU mode is left again.
RecoverFromCpu ==
  /\ mode = "CPU"
  /\ Begin("recovery", "edit")
  /\ target' = [target EXCEPT !["recovery"] = "GPU"]
  /\ UNCHANGED <<files, service, fcount, left, slow, works, manual, reboots>>

Recover ==
  /\ mode # "GPU"
  /\ Begin("recovery", "edit")
  /\ target' = [target EXCEPT !["recovery"] = "GPU"]
  /\ UNCHANGED <<files, service, fcount, left, slow, works, manual, reboots>>

\* The sleep is over: the trial succeeded or the CPU takes over again.
Verdict ==
  /\ pc["recovery"] = "sleep" /\ left = 0
  /\ IF Healthy THEN Goto("recovery", "idle") /\ UNCHANGED target
     ELSE Switch("recovery", "CPU")
  /\ slow' = FALSE
  /\ UNCHANGED <<files, service, fcount, left, world>>

-------------------------------------------------------------------------------
(* llama-watchdog.sh.                                                       *)

\* Mutant of Look: the age of the unit is not looked at.
LookAtOnce ==
  /\ unit # "off" /\ ~exited
  /\ Begin("watchdog", "health")
  /\ UNCHANGED <<files, service, fcount, target, left, slow, works, manual, reboots>>

\* A unit that is not active, or young, is not looked into: a server that exits
\* is either the one or the other, and its failures are not counted.
Look ==
  /\ unit # "off" /\ ~exited
  /\ age = Grace
  /\ Begin("watchdog", "health")
  /\ UNCHANGED <<files, service, fcount, target, left, slow, works, manual, reboots>>

\* The answer of the server, or none within 5 s, which is less than a unit of time.
Check ==
  /\ pc["watchdog"] \in {"health", "late"}
  /\ IF Healthy
     THEN fcount' = 0 /\ Goto("watchdog", "idle")
     ELSE Goto("watchdog", "count") /\ UNCHANGED fcount
  /\ UNCHANGED <<files, service, target, left, slow, world>>

\* Mutant of Count: the count is forgotten with the restart.
CountForgets ==
  /\ pc["watchdog"] = "count"
  /\ fcount' = 0
  /\ Goto("watchdog", "kick")
  /\ UNCHANGED <<files, service, target, left, slow, world>>

\* The failure is counted and the mode file read. A file that says neither GPU
\* nor CPU stops the watchdog here.
Count ==
  /\ pc["watchdog"] = "count"
  /\ IF fcount + 1 < THRESHOLD
     THEN fcount' = fcount + 1 /\ Goto("watchdog", "kick") /\ UNCHANGED target
     ELSE /\ fcount' = 0
          /\ CASE mode = "GPU" -> Switch("watchdog", "CPU")
               [] mode = "CPU" -> Switch("watchdog", "DOWN")
               [] OTHER -> Goto("watchdog", "idle") /\ UNCHANGED target
  /\ UNCHANGED <<files, service, left, slow, world>>

Kick ==
  /\ pc["watchdog"] = "kick"
  /\ Restarted
  /\ Goto("watchdog", "idle")
  /\ UNCHANGED <<files, fcount, target, left, slow, world>>

-------------------------------------------------------------------------------
Administrator ==
  /\ manual < MaxManual
  /\ manual' = manual + 1
  /\ \E m \in Modes :
       /\ Begin("admin", IF m = "DOWN" THEN "stop" ELSE "edit")
       /\ target' = [target EXCEPT !["admin"] = m]
  /\ UNCHANGED <<files, service, fcount, left, slow, works, reboots>>

\* The unit is enabled: it comes up with the drop-in there is.
Reboot ==
  /\ reboots < MaxReboots
  /\ reboots' = reboots + 1
  /\ loaded' = dropin
  /\ unit' = IF dropin THEN "CPU" ELSE "GPU"
  /\ exited' = FALSE
  /\ age' = 0
  /\ torn' = (torn \/ unit = "off" \/ \E s \in Scripts : pc[s] # "idle")
  /\ pc' = [s \in Scripts |-> "idle"]
  /\ target' = [s \in Scripts |-> "GPU"]
  /\ left' = 0 /\ slow' = FALSE
  /\ UNCHANGED <<files, fcount, works, manual>>

Hardware ==
  /\ \E m \in {"GPU", "CPU"} :
       works' = IF m \in works THEN works \ {m} ELSE works \cup {m}
  /\ UNCHANGED <<files, service, fcount, script, manual, reboots, torn>>

\* A server that does not work exits; or it hangs, as long as this is not taken.
Exit ==
  /\ unit \in {"GPU", "CPU"} \ works /\ ~exited
  /\ exited' = TRUE /\ age' = 0
  /\ UNCHANGED <<files, loaded, unit, fcount, script, world>>

\* Systemd starts it again, if the unit file asks for that.
ComesUp ==
  /\ exited
  /\ exited' = FALSE
  /\ UNCHANGED <<files, loaded, unit, age, fcount, script, world>>

\* What a server there is grows to.
Aged == IF unit = "off" \/ exited THEN 0 ELSE Grace

Tick ==
  /\ \A s \in Scripts : pc[s] \in {"idle", "health"} \/ (pc[s] = "sleep" /\ left > 0)
  /\ age < Aged \/ left > 0
  /\ age' = IF age < Aged THEN age + 1 ELSE age
  /\ left' = IF left > 0 THEN left - 1 ELSE 0
  /\ pc' = [s \in Scripts |-> IF pc[s] = "health" THEN "late" ELSE pc[s]]
  /\ UNCHANGED <<files, loaded, unit, exited, fcount, target, slow, world>>

Watchdog == Look \/ Check \/ Count \/ Kick \/ Transition("watchdog")
Recovery == Recover \/ Verdict \/ Transition("recovery")
Admin    == Administrator \/ Transition("admin")

Server   == Exit \/ ComesUp

FailoverNext == Watchdog \/ Recovery \/ Admin \/ Reboot \/ Hardware \/ Server \/ Tick

FailoverSpec == FailoverInit /\ [][FailoverNext]_failoverVars

\* Timers fire and scripts end; the administrator, the hardware and systemd, which
\* may leave a server down that has exited, owe nothing.
FailoverFairSpec ==
  /\ FailoverSpec
  /\ WF_failoverVars(Watchdog) /\ WF_failoverVars(Recovery) /\ WF_failoverVars(Transition("admin"))
  /\ WF_failoverVars(Tick)

-------------------------------------------------------------------------------
Quiet == \A s \in Scripts : pc[s] = "idle"

\* Every reachable value has its declared shape.
FailoverTypeOK ==
  /\ mode \in Modes \cup {"none"} /\ notice \in BOOLEAN
  /\ dropin \in BOOLEAN /\ loaded \in BOOLEAN
  /\ unit \in {"GPU", "CPU", "off"} /\ exited \in BOOLEAN /\ age \in 0..Grace
  /\ fcount \in 0..THRESHOLD - 1
  /\ pc \in [Scripts -> {"idle", "edit", "reload", "restart", "stop", "truncate",
                         "record", "notify", "sleep", "health", "late", "count", "kick"}]
  /\ target \in [Scripts -> Modes]
  /\ left \in 0..Trial + NotifyMax /\ slow \in BOOLEAN
  /\ works \subseteq {"GPU", "CPU"}
  /\ manual \in 0..MaxManual /\ reboots \in 0..MaxReboots
  /\ torn \in BOOLEAN

\* Between transitions the mode file, which the status page and every later
\* decision rest on, says what the server really runs on, the drop-in agrees,
\* and the notice is up exactly in the degraded modes. True as long as no two
\* scripts run together and no reboot cuts one short: there is no lock.
ModeIsTrue ==
  Quiet /\ ~torn =>
    /\ mode = IF unit = "off" THEN "DOWN" ELSE unit
    /\ unit # "off" => dropin = (unit = "CPU")
    /\ notice = (mode # "GPU")

\* A recovery trial is not disturbed by the watchdog. However the GPU behaves in
\* it, no pass of the watchdog begins until the recovery has decided, unless the
\* notification took so long that the margin (15 s) was used up. A pass that was
\* under way when the recovery began, or began before the recovery's restart, may
\* still restart or stop the server on trial; without such a meeting (torn) the
\* watchdog takes no step in the trial at all.
TrialUndisturbed ==
  [][pc["recovery"] = "sleep" /\ ~slow =>
       /\ pc["watchdog"] = "idle" => pc'["watchdog"] = "idle"
       /\ ~torn => pc["watchdog"] = "idle"]_failoverVars

\* The service is stopped only as the last step of the degradation: the
\* watchdog never stops a server that runs on the GPU.
DownOnlyFromCpu ==
  pc["watchdog"] = "stop" /\ ~torn => unit = "CPU"

\* Graceful degradation: when the GPU stays broken and the CPU works, the server
\* is on the CPU again and again (the daily trial interrupts it), wherever the
\* scripts left it, provided they did not run into each other, and that a server
\* without its GPU hangs. One that exits is never found old and active: nothing is
\* counted, and it stays on the GPU.
DegradesToCpu ==
  <>[](works = {"CPU"} /\ ~torn /\ ~exited) => []<>(unit = "CPU")

\* Restoration: when GPU and CPU work for good, the daily recovery brings the
\* unit back to the GPU from either degraded mode, hanging or exited, and there it
\* stays. A server that exited on the GPU waits for systemd: recover leaves it alone.
RestoresGpu ==
  <>[](works = {"GPU", "CPU"} /\ ~torn) => <>[](unit = "GPU" /\ mode = "GPU")
================================================================================
