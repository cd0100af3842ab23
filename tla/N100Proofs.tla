------------------------------ MODULE N100Proofs ------------------------------
(***************************************************************************)
(* The programs of the shop's machine. The degradation of the local model     *)
(* server, for every threshold and every pair of times of which the trial is  *)
(* the shorter one; and the way of an order to paper, for any invoices, days, *)
(* rows, orders and failures.                                                 *)
(***************************************************************************)
EXTENDS LlamaFailover, PrintPath, SequenceTheorems, TLAPS

-------------------------------------------------------------------------------
(* The model server.                                                          *)

\* The trial is younger than the age at which the watchdog looks.
TrialIsYoung ==
  /\ pc["recovery"] # "stop"
  /\ pc["recovery"] \in {"truncate", "record", "notify"} /\ target["recovery"] = "GPU" => age = 0
  /\ pc["recovery"] = "sleep" /\ ~slow => age + left <= Trial

\* What the server, the drop-in and the files are while script s is where it is.
Settled ==
  /\ mode = IF unit = "off" THEN "DOWN" ELSE unit
  /\ unit # "off" => dropin = (unit = "CPU") /\ loaded = dropin
  /\ notice = (mode # "GPU")

Reached(s) ==
  unit = IF target[s] = "DOWN" THEN "off" ELSE target[s]

Stage(s) ==
  /\ pc[s] \in {"idle", "health", "late", "count", "kick"} => Settled
  /\ pc[s] = "sleep" => Settled
  /\ pc[s] = "edit" => target[s] # "DOWN"
  /\ pc[s] = "reload" => target[s] # "DOWN" /\ dropin = (target[s] = "CPU")
  /\ pc[s] = "restart" => /\ target[s] # "DOWN" /\ dropin = (target[s] = "CPU")
                          /\ loaded = dropin
  /\ pc[s] = "stop" => target[s] = "DOWN"
  /\ pc[s] \in {"truncate", "record", "notify"} =>
       /\ Reached(s)
       /\ unit # "off" => dropin = (unit = "CPU") /\ loaded = dropin
  /\ pc[s] = "notify" => mode = target[s]

\* Without a collision one script at most is under way, and the rest of the
\* state is what its stage says.
Alone ==
  ~torn =>
    /\ \A s, r \in Scripts : pc[s] # "idle" /\ pc[r] # "idle" => s = r
    /\ Quiet => Settled
    /\ \A s \in Scripts : pc[s] # "idle" => Stage(s)
    /\ pc["watchdog"] \in {"health", "late", "count", "kick"} => unit # "off"
    /\ pc["watchdog"] = "stop" => unit = "CPU"

IInv == FailoverTypeOK /\ TrialIsYoung /\ Alone

-------------------------------------------------------------------------------
\* The shape is kept by every step.
LEMMA TypeOKStep == FailoverTypeOK /\ [FailoverNext]_failoverVars => FailoverTypeOK'
<1> SUFFICES ASSUME FailoverTypeOK, [FailoverNext]_failoverVars PROVE FailoverTypeOK'
  OBVIOUS
<1> USE FailoverAssumption
    DEF FailoverTypeOK, Goto, Scripts, Modes, files, service, script, world
<1>0. 0 \in 0..Grace
  OBVIOUS
<1>1. ASSUME NEW s \in Scripts, EditDropIn(s) PROVE FailoverTypeOK'
  BY <1>1 DEF EditDropIn
<1>2. ASSUME NEW s \in Scripts, Reload(s) PROVE FailoverTypeOK'
  BY <1>2 DEF Reload
<1>3. ASSUME NEW s \in Scripts, Restart(s) PROVE FailoverTypeOK'
  BY <1>0, <1>3 DEF Restart, Restarted
<1>4. ASSUME NEW s \in Scripts, Stop(s) PROVE FailoverTypeOK'
  BY <1>0, <1>4 DEF Stop
<1>5. ASSUME NEW s \in Scripts, Truncate(s) PROVE FailoverTypeOK'
  BY <1>5 DEF Truncate
<1>6. ASSUME NEW s \in Scripts, Record(s) PROVE FailoverTypeOK'
  BY <1>6 DEF Record
<1>7. ASSUME NEW s \in Scripts, Notify(s) PROVE FailoverTypeOK'
  <2>1. CASE s = "recovery" /\ target[s] = "GPU"
    <3>1. \/ left' = Trial /\ slow' = FALSE
          \/ left' \in Trial + 1..Trial + NotifyMax /\ slow' = TRUE
      BY <1>7, <2>1 DEF Notify
    <3>2. /\ pc["recovery"] = "notify" /\ pc'["recovery"] = "sleep"
          /\ UNCHANGED <<mode, dropin, service, fcount, world>>
          /\ pc' = [pc EXCEPT ![s] = "sleep"] /\ notice' = FALSE
          /\ target' = [target EXCEPT ![s] = "GPU"]
      BY <1>7, <2>1 DEF Notify
    <3>3. left' \in 0..Trial + NotifyMax /\ (~slow' => left' = Trial)
      BY <3>1
    <3> QED
      BY <2>1, <3>1, <3>2, <3>3
  <2>2. CASE ~(s = "recovery" /\ target[s] = "GPU")
    BY <1>7, <2>2 DEF Notify
  <2> QED
    BY <2>1, <2>2
<1>8. CASE Recover
  BY <1>8 DEF Recover, Begin
<1>9. CASE Verdict
  <2>1. UNCHANGED <<files, service, fcount, left, world>> /\ slow' = FALSE
    BY <1>9 DEF Verdict
  <2>2. pc' = [pc EXCEPT !["recovery"] = IF Healthy THEN "idle" ELSE "edit"]
    BY <1>9 DEF Verdict, Switch
  <2>3. target' = target \/ target' = [target EXCEPT !["recovery"] = "CPU"]
    BY <1>9 DEF Verdict, Switch
  <2>4. pc' \in [Scripts -> {"idle", "edit", "reload", "restart", "stop", "truncate",
                             "record", "notify", "sleep", "health", "late", "count", "kick"}]
    BY <2>2
  <2>5. target' \in [Scripts -> Modes]
    BY <2>3
  <2> QED
    BY <2>1, <2>4, <2>5
<1>10. CASE Check
  BY <1>10 DEF Check
<1>11. CASE Count
  BY <1>11 DEF Count, Switch
<1>12. CASE Kick
  BY <1>0, <1>12 DEF Kick, Restarted
<1>13. CASE Administrator
  BY <1>13 DEF Administrator, Begin
<1>14. CASE Reboot
  <2>1. left' \in 0..Trial + NotifyMax /\ reboots' \in 0..MaxReboots /\ age' \in 0..Grace
    BY <1>14 DEF Reboot
  <2>2. unit' \in {"GPU", "CPU", "off"} /\ loaded' \in BOOLEAN /\ torn' \in BOOLEAN
    BY <1>14 DEF Reboot
  <2> QED
    BY <1>14, <2>1, <2>2 DEF Reboot
<1>15. CASE Hardware
  BY <1>15 DEF Hardware
<1>16. CASE Tick
  BY <1>16 DEF Tick, Aged
<1>17. CASE UNCHANGED failoverVars
  BY <1>17 DEF failoverVars
<1>18. CASE Look
  BY <1>18 DEF Look, Begin
<1>19. CASE Exit
  BY <1>19 DEF Exit
<1>20. CASE ComesUp
  BY <1>20 DEF ComesUp
<1> QED
  BY <1>1, <1>2, <1>3, <1>4, <1>5, <1>6, <1>7, <1>8, <1>9,
     <1>10, <1>11, <1>12, <1>13, <1>14, <1>15, <1>16, <1>17, <1>18, <1>19, <1>20
  DEF FailoverNext, Watchdog, Recovery, Admin, Server, Transition

\* A trial is over before the unit is old enough to be looked at.
LEMMA TrialIsYoungStep ==
  FailoverTypeOK /\ TrialIsYoung /\ [FailoverNext]_failoverVars => TrialIsYoung'
<1> SUFFICES ASSUME FailoverTypeOK, TrialIsYoung, [FailoverNext]_failoverVars PROVE TrialIsYoung'
  OBVIOUS
<1> USE FailoverAssumption
    DEF FailoverTypeOK, TrialIsYoung, Goto, Scripts, Modes, files, service, script, world
<1>1. ASSUME NEW s \in Scripts, EditDropIn(s) PROVE TrialIsYoung'
  BY <1>1 DEF EditDropIn
<1>2. ASSUME NEW s \in Scripts, Reload(s) PROVE TrialIsYoung'
  BY <1>2 DEF Reload
<1>3. ASSUME NEW s \in Scripts, Restart(s) PROVE TrialIsYoung'
  BY <1>3 DEF Restart, Restarted
<1>4. ASSUME NEW s \in Scripts, Stop(s) PROVE TrialIsYoung'
  BY <1>4 DEF Stop
<1>5. ASSUME NEW s \in Scripts, Truncate(s) PROVE TrialIsYoung'
  BY <1>5 DEF Truncate
<1>6. ASSUME NEW s \in Scripts, Record(s) PROVE TrialIsYoung'
  BY <1>6 DEF Record
<1>7. ASSUME NEW s \in Scripts, Notify(s) PROVE TrialIsYoung'
  <2>1. CASE s = "recovery" /\ target[s] = "GPU"
    <3>1. \/ left' = Trial /\ slow' = FALSE
          \/ left' \in Trial + 1..Trial + NotifyMax /\ slow' = TRUE
      BY <1>7, <2>1 DEF Notify
    <3>2. /\ pc["recovery"] = "notify" /\ pc'["recovery"] = "sleep"
          /\ UNCHANGED <<mode, dropin, service, fcount, world>>
          /\ pc' = [pc EXCEPT ![s] = "sleep"] /\ notice' = FALSE
          /\ target' = [target EXCEPT ![s] = "GPU"]
      BY <1>7, <2>1 DEF Notify
    <3>3. left' \in 0..Trial + NotifyMax /\ (~slow' => left' = Trial)
      BY <3>1
    <3>4. age' = 0
      BY <2>1, <3>2
    <3>5. pc'["recovery"] = "sleep"
      BY <3>2
    <3>6. ~slow' => age' + left' <= Trial
      BY <3>3, <3>4
    <3> QED
      BY <3>5, <3>6
  <2>2. CASE ~(s = "recovery" /\ target[s] = "GPU")
    BY <1>7, <2>2 DEF Notify
  <2> QED
    BY <2>1, <2>2
<1>8. CASE Recover
  BY <1>8 DEF Recover, Begin
<1>9. CASE Verdict
  BY <1>9 DEF Verdict, Switch
<1>10. CASE Check
  BY <1>10 DEF Check
<1>11. CASE Count
  BY <1>11 DEF Count, Switch
<1>12. CASE Kick
  BY <1>12 DEF Kick, Restarted
<1>13. CASE Administrator
  BY <1>13 DEF Administrator, Begin
<1>14. CASE Reboot
  BY <1>14 DEF Reboot
<1>15. CASE Hardware
  BY <1>15 DEF Hardware
<1>16. CASE Tick
  BY <1>16 DEF Tick, Aged
<1>17. CASE UNCHANGED failoverVars
  BY <1>17 DEF failoverVars
<1>18. CASE Look
  BY <1>18 DEF Look, Begin
<1>19. CASE Exit
  BY <1>19 DEF Exit
<1>20. CASE ComesUp
  BY <1>20 DEF ComesUp
<1> QED
  BY <1>1, <1>2, <1>3, <1>4, <1>5, <1>6, <1>7, <1>8, <1>9,
     <1>10, <1>11, <1>12, <1>13, <1>14, <1>15, <1>16, <1>17, <1>18, <1>19, <1>20
  DEF FailoverNext, Watchdog, Recovery, Admin, Server, Transition

\* As long as nothing collides each script leaves what it should.
LEMMA AloneStep == FailoverTypeOK /\ Alone /\ [FailoverNext]_failoverVars => Alone'
<1> SUFFICES ASSUME FailoverTypeOK, Alone, [FailoverNext]_failoverVars PROVE Alone'
  OBVIOUS
<1> USE FailoverAssumption
    DEF FailoverTypeOK, Alone, Quiet, Settled, Stage, Reached, Goto, Scripts, Modes,
        files, service, script, world
<1>1. ASSUME NEW s \in Scripts, EditDropIn(s) PROVE Alone'
  BY <1>1 DEF EditDropIn
<1>2. ASSUME NEW s \in Scripts, Reload(s) PROVE Alone'
  BY <1>2 DEF Reload
<1>3. ASSUME NEW s \in Scripts, Restart(s) PROVE Alone'
  BY <1>3 DEF Restart, Restarted
<1>4. ASSUME NEW s \in Scripts, Stop(s) PROVE Alone'
  BY <1>4 DEF Stop
<1>5. ASSUME NEW s \in Scripts, Truncate(s) PROVE Alone'
  BY <1>5 DEF Truncate
<1>6. ASSUME NEW s \in Scripts, Record(s) PROVE Alone'
  BY <1>6 DEF Record
<1>7. ASSUME NEW s \in Scripts, Notify(s) PROVE Alone'
  BY <1>7 DEF Notify
<1>8. CASE Recover
  BY <1>8 DEF Recover, Begin
<1>9. CASE Verdict
  BY <1>9 DEF Verdict, Switch
<1>10. CASE Check
  BY <1>10 DEF Check
<1>11. CASE Count
  BY <1>11 DEF Count, Switch
<1>12. CASE Kick
  BY <1>12 DEF Kick, Restarted
<1>13. CASE Administrator
  <2>1. PICK m \in Modes :
          /\ pc["admin"] = "idle"
          /\ pc' = [pc EXCEPT !["admin"] = IF m = "DOWN" THEN "stop" ELSE "edit"]
          /\ torn' = (torn \/ \E other \in Scripts \ {"admin"} : pc[other] # "idle")
          /\ target' = [target EXCEPT !["admin"] = m]
    BY <1>13 DEF Administrator, Begin
  <2>2. UNCHANGED <<files, service, fcount, left, slow, works, reboots>>
    BY <1>13 DEF Administrator
  <2>3. CASE torn'
    BY <2>3
  <2>4. CASE ~torn'
    <3>1. /\ ~torn /\ Quiet
          /\ \A s \in Scripts : s # "admin" => pc'[s] = "idle"
      BY <2>1, <2>4
    <3>2. Settled
      BY <3>1
    <3>3. pc'["admin"] = IF m = "DOWN" THEN "stop" ELSE "edit"
      BY <2>1
    <3>4. target'["admin"] = m
      BY <2>1
    <3> QED
      BY <2>2, <3>1, <3>2, <3>3, <3>4
  <2> QED
    BY <2>3, <2>4
<1>14. CASE Reboot
  BY <1>14 DEF Reboot
<1>15. CASE Hardware
  BY <1>15 DEF Hardware
<1>16. CASE Tick
  BY <1>16 DEF Tick, Aged
<1>17. CASE UNCHANGED failoverVars
  BY <1>17 DEF failoverVars
<1>18. CASE Look
  BY <1>18 DEF Look, Begin
<1>19. CASE Exit
  BY <1>19 DEF Exit
<1>20. CASE ComesUp
  BY <1>20 DEF ComesUp
<1> QED
  BY <1>1, <1>2, <1>3, <1>4, <1>5, <1>6, <1>7, <1>8, <1>9,
     <1>10, <1>11, <1>12, <1>13, <1>14, <1>15, <1>16, <1>17, <1>18, <1>19, <1>20
  DEF FailoverNext, Watchdog, Recovery, Admin, Server, Transition

\* The strengthened invariant holds in every reachable state.
LEMMA Invariance == FailoverSpec => []IInv
<1>1. FailoverInit => IInv
  <2> SUFFICES ASSUME FailoverInit PROVE IInv
    OBVIOUS
  <2>1. fcount \in 0..THRESHOLD - 1 /\ age \in 0..Grace /\ left \in 0..Trial + NotifyMax
        /\ manual \in 0..MaxManual /\ reboots \in 0..MaxReboots
    BY FailoverAssumption DEF FailoverInit
  <2>4. FailoverTypeOK
    BY <2>1 DEF FailoverInit, FailoverTypeOK, Scripts, Modes
  <2>2. TrialIsYoung
    BY DEF FailoverInit, TrialIsYoung, Scripts
  <2>3. Alone
    BY DEF FailoverInit, Alone, Quiet, Settled, Scripts
  <2> QED
    BY <2>2, <2>3, <2>4 DEF IInv
<1>2. IInv /\ [FailoverNext]_failoverVars => IInv'
  BY TypeOKStep, TrialIsYoungStep, AloneStep DEF IInv
<1> QED
  BY <1>1, <1>2, PTL DEF FailoverSpec

\* Every reachable value has its declared shape.
THEOREM FailoverTypeCorrect == FailoverSpec => []FailoverTypeOK
<1>1. IInv => FailoverTypeOK
  BY DEF IInv
<1> QED
  BY <1>1, Invariance, PTL

\* Between transitions the mode file, the drop-in and the notice agree with what
\* the server runs on, as long as no two scripts have run together and no reboot
\* has cut one short.
THEOREM FailoverModeIsTrue == FailoverSpec => []ModeIsTrue
<1>1. IInv => ModeIsTrue
  BY DEF IInv, Alone, Settled, ModeIsTrue
<1> QED
  BY <1>1, Invariance, PTL

\* The watchdog stops nothing but a server on the CPU.
THEOREM FailoverDownOnlyFromCpu == FailoverSpec => []DownOnlyFromCpu
<1>1. IInv => DownOnlyFromCpu
  BY DEF IInv, Alone, DownOnlyFromCpu
<1> QED
  BY <1>1, Invariance, PTL

\* The watchdog begins no pass while a recovery waits for its trial, and unless
\* a pass was under way when the recovery began or restarted the server (torn) it
\* takes no step in the trial at all.
THEOREM FailoverTrialUndisturbed == FailoverSpec => TrialUndisturbed
<1> DEFINE Kept == pc["recovery"] = "sleep" /\ ~slow =>
                     /\ pc["watchdog"] = "idle" => pc'["watchdog"] = "idle"
                     /\ ~torn => pc["watchdog"] = "idle"
<1>1. IInv /\ [FailoverNext]_failoverVars => [Kept]_failoverVars
  <2> SUFFICES ASSUME IInv, FailoverNext, pc["recovery"] = "sleep", ~slow
               PROVE  /\ pc["watchdog"] = "idle" => pc'["watchdog"] = "idle"
                      /\ ~torn => pc["watchdog"] = "idle"
    OBVIOUS
  <2>1. age # Grace
    BY FailoverAssumption DEF IInv, FailoverTypeOK, TrialIsYoung
  <2>2. ~torn => pc["watchdog"] = "idle"
    BY DEF IInv, Alone, Scripts
  <2>3. ASSUME pc["watchdog"] = "idle" PROVE pc'["watchdog"] = "idle"
    BY <2>1, <2>3 DEF FailoverNext, Watchdog, Recovery, Admin, Server, Transition, EditDropIn,
      Reload, Restart, Stop, Truncate, Record, Notify, Recover, Verdict, Look, Check, Count, Kick,
      Administrator, Reboot, Hardware, Exit, ComesUp, Tick, Goto, Begin, Switch, Scripts, IInv,
      FailoverTypeOK, world, script
  <2> QED
    BY <2>2, <2>3
<1> QED
  BY <1>1, Invariance, PTL DEF FailoverSpec, TrialUndisturbed

-------------------------------------------------------------------------------
(* The way from row to paper.                                                 *)

\* What a self-heal has in hand lp has accepted, unless the checklist has another sheet
\* of the day in hand, or has lost one, since. What the checklist has in hand is the sheet
\* refused last, unless the same sheet has come out of the spool meanwhile.
SpoolInv ==
  /\ RefusedSheetWaits
  /\ \A h \in Heals : moving[h] # None =>
       moving[h] \in lost \/ owed[moving[h]] = None \/ refused = moving[h]
  /\ refused # None => owed[refused] \in {None, made[refused]}

PInv == TypeOK /\ SpoolInv

LEMMA DropType ==
  ASSUME NEW f, NEW x, NEW S, NEW T, DOMAIN f \subseteq S, \A y \in DOMAIN f : f[y] \in T
  PROVE  DOMAIN Drop(f, x) \subseteq S /\ \A y \in DOMAIN Drop(f, x) : Drop(f, x)[y] \in T
BY DEF Drop, Restrict

\* The parts of the type invariant that the two lists of work to do make.
SnapOK == DOMAIN snap \subseteq Invoices /\ \A i \in DOMAIN snap : snap[i] \in Rows
MadeOK ==
  /\ DOMAIN made \subseteq Days /\ \A d \in DOMAIN made : made[d] \in Sheets
  /\ refused # None => refused \in DOMAIN made

LEMMA NothingType == DOMAIN Nothing = {}
BY DEF Nothing

LEMMA SheetTypes ==
  ASSUME TypeOK, NEW d \in Days
  PROVE  Sheet(d) \in SUBSET Events
<1>1. \A k \in DOMAIN bus : bus[k] \in Events
  BY DEF TypeOK
<1> QED
  BY <1>1 DEF Sheet, Newest, Posted

LEMMA PrintInit == Init => PInv
<1> SUFFICES ASSUME Init PROVE PInv
  OBVIOUS
<1>1. TypeOK
  <2>1. 0 \in 0..MaxChanges /\ 0 \in 0..MaxFaults
    BY PrintPathAssumption
  <2>2. bus \in Seq(Events)
    BY DEF Init
  <2>3. refused = None /\ copying = FALSE
    BY DEF Init
  <2>4. /\ spool \in [Days -> Sheets \cup {None, Broken}]
        /\ {paper, owed} \subseteq [Days -> Sheets \cup {None}]
    BY DEF Init
  <2>5. SnapOK /\ MadeOK
    BY <2>3, NothingType DEF Init, SnapOK, MadeOK
  <2>6. /\ known \in {"unknown", "UP", "DOWN"} /\ lost \subseteq Days
        /\ phase \in [Heals -> {"idle", "due", "flush"}]
        /\ toFlush \in [Heals -> SUBSET Days] /\ moving \in [Heals -> Days \cup {None}]
    BY DEF Init
  <2>7. /\ row \in [Invoices -> Rows \cup {None}]
        /\ cache \in [Invoices -> Items \cup {None, Torn}]
        /\ past \in [Invoices -> SUBSET (Rows \cup {None})]
    BY DEF Init
  <2>8. changes \in 0..MaxChanges /\ faults \in 0..MaxFaults
    BY <2>1 DEF Init
  <2> QED
    BY <2>2, <2>3, <2>4, <2>5, <2>6, <2>7, <2>8 DEF TypeOK, SnapOK, MadeOK
<1> QED
  BY <1>1 DEF Init, PInv, SpoolInv, RefusedSheetWaits

LEMMA RowChangesKeeps ==
  ASSUME PInv, NEW i \in Invoices, NEW w \in Rows \cup {None}, RowChanges(i, w)
  PROVE  PInv'
<1>1. TypeOK'
  BY PrintPathAssumption DEF PInv, TypeOK, RowChanges, ingest, consumer, printing, heal
<1>2. SpoolInv'
  BY PrintPathAssumption
     DEF PInv, TypeOK, SpoolInv, RefusedSheetWaits, RowChanges, ingest, consumer, printing, heal
<1> QED
  BY <1>1, <1>2 DEF PInv

LEMMA IngestStartsKeeps ==
  ASSUME PInv, IngestStarts
  PROVE  PInv'
<1>1. TypeOK'
  <2>1. SnapOK'
    BY DEF PInv, TypeOK, SnapOK, IngestStarts
  <2> QED
    BY <2>1, PrintPathAssumption
       DEF PInv, TypeOK, SnapOK, IngestStarts, outside, consumer, printing, heal
<1>2. SpoolInv'
  BY PrintPathAssumption
     DEF PInv, TypeOK, SpoolInv, RefusedSheetWaits, IngestStarts, outside, consumer, printing,
         heal
<1> QED
  BY <1>1, <1>2 DEF PInv

LEMMA FetchKeeps ==
  ASSUME PInv, NEW i \in Invoices, NEW x \in Items, Fetch(i, x)
  PROVE  PInv'
<1>1. TypeOK'
  BY PrintPathAssumption DEF PInv, TypeOK, Fetch, outside, consumer, printing, heal
<1>2. SpoolInv'
  BY PrintPathAssumption
     DEF PInv, TypeOK, SpoolInv, RefusedSheetWaits, Fetch, outside, consumer, printing, heal
<1> QED
  BY <1>1, <1>2 DEF PInv

LEMMA FetchFailsKeeps ==
  ASSUME PInv, NEW i \in Invoices, NEW f \in {None, Torn}, FetchFails(i, f)
  PROVE  PInv'
<1>1. TypeOK'
  <2>1. SnapOK'
    BY DropType DEF PInv, TypeOK, SnapOK, FetchFails
  <2> QED
    BY <2>1, PrintPathAssumption
       DEF PInv, TypeOK, SnapOK, FetchFails, outside, consumer, printing, heal, Fault
<1>2. SpoolInv'
  BY PrintPathAssumption
     DEF PInv, TypeOK, SpoolInv, RefusedSheetWaits, FetchFails, outside, consumer, printing,
         heal, Fault
<1> QED
  BY <1>1, <1>2 DEF PInv

LEMMA UnreadableKeeps ==
  ASSUME PInv, NEW i \in Invoices, Unreadable(i)
  PROVE  PInv'
<1>1. TypeOK'
  <2>1. SnapOK'
    BY DropType DEF PInv, TypeOK, SnapOK, Unreadable
  <2> QED
    BY <2>1, PrintPathAssumption
       DEF PInv, TypeOK, SnapOK, Unreadable, outside, consumer, printing, heal
<1>2. SpoolInv'
  BY PrintPathAssumption
     DEF PInv, TypeOK, SpoolInv, RefusedSheetWaits, Unreadable, outside, consumer, printing, heal
<1> QED
  BY <1>1, <1>2 DEF PInv

LEMMA PostKeeps ==
  ASSUME PInv, NEW i \in Invoices, Post(i)
  PROVE  PInv'
<1>1. TypeOK'
  <2>1. SnapOK'
    BY DropType DEF PInv, TypeOK, SnapOK, Post
  <2>2. cache[i] \in Items => Capture(i) \in Events
    BY DEF PInv, TypeOK, Capture, Events, Post
  <2>3. bus' \in Seq(Events)
    BY <2>2 DEF PInv, TypeOK, Post
  <2> QED
    BY <2>1, <2>3 DEF PInv, TypeOK, SnapOK, Post, outside, consumer, printing, heal
<1>2. SpoolInv'
  BY PrintPathAssumption
     DEF PInv, TypeOK, SpoolInv, RefusedSheetWaits, Post, outside, consumer, printing, heal,
         Capture, Events
<1> QED
  BY <1>1, <1>2 DEF PInv

LEMMA IngestDiesKeeps ==
  ASSUME PInv, IngestDies
  PROVE  PInv'
<1>1. TypeOK'
  <2>1. SnapOK'
    BY NothingType DEF PInv, TypeOK, SnapOK, IngestDies
  <2> QED
    BY <2>1, PrintPathAssumption
       DEF PInv, TypeOK, SnapOK, IngestDies, outside, consumer, printing, heal, Fault, Nothing
<1>2. SpoolInv'
  BY PrintPathAssumption
     DEF PInv, TypeOK, SpoolInv, RefusedSheetWaits, IngestDies, outside, consumer, printing,
         heal, Fault, Nothing
<1> QED
  BY <1>1, <1>2 DEF PInv

LEMMA ConsumerStartsKeeps ==
  ASSUME PInv, ConsumerStarts
  PROVE  PInv'
<1>1. TypeOK'
  <2>1. MadeOK'
    <3>1. \A d \in Days : Sheet(d) # {} => Sheet(d) \in Sheets
      BY SheetTypes DEF PInv, Sheets
    <3>2. refused = None
      BY NothingType DEF PInv, TypeOK, ConsumerStarts
    <3> QED
      BY <3>1, <3>2 DEF MadeOK, ConsumerStarts
  <2> QED
    BY <2>1, PrintPathAssumption
       DEF PInv, TypeOK, MadeOK, ConsumerStarts, outside, ingest, printing, heal, Sheets
<1>2. refused = None
  BY NothingType DEF PInv, TypeOK, ConsumerStarts
<1>3. SpoolInv'
  BY <1>2 DEF PInv, SpoolInv, RefusedSheetWaits, ConsumerStarts, printing, heal
<1> QED
  BY <1>1, <1>3 DEF PInv

LEMMA PrintSheetKeeps ==
  ASSUME PInv, NEW d \in Days, PrintSheet(d)
  PROVE  PInv'
<1>1. TypeOK'
  <2>1. MadeOK'
    BY DropType DEF PInv, TypeOK, MadeOK, PrintSheet, MayPrint
  <2> QED
    BY <2>1, PrintPathAssumption
       DEF PInv, TypeOK, MadeOK, PrintSheet, outside, ingest, heal, MayPrint
<1>2. SpoolInv'
  BY PrintPathAssumption
     DEF PInv, TypeOK, SpoolInv, RefusedSheetWaits, PrintSheet, outside, ingest, heal, MayPrint
<1> QED
  BY <1>1, <1>2 DEF PInv

LEMMA PrintFailsKeeps ==
  ASSUME PInv, NEW d \in Days, PrintFails(d)
  PROVE  PInv'
<1>1. TypeOK'
  <2>1. made[d] \in Sheets /\ d \in DOMAIN made
    BY DEF PInv, TypeOK, PrintFails, MayPrint
  <2>2. owed' \in [Days -> Sheets \cup {None}] /\ lost' \subseteq Days
    BY <2>1 DEF PInv, TypeOK, PrintFails
  <2>3. faults' \in 0..MaxFaults
    BY PrintPathAssumption DEF PInv, TypeOK, PrintFails, Fault
  <2> QED
    BY <2>1, <2>2, <2>3 DEF PInv, TypeOK, PrintFails, MayPrint, outside, ingest, heal
<1>2. SpoolInv'
  <2>1. refused = None /\ refused' = d /\ owed' = [owed EXCEPT ![d] = made[d]] /\ made' = made
        /\ lost' = lost \ {d} /\ spool' = spool /\ moving' = moving
    BY DEF PrintFails, MayPrint, heal
  <2>2. owed \in [Days -> Sheets \cup {None}] /\ moving \in [Heals -> Days \cup {None}]
    BY DEF PInv, TypeOK
  <2>3. RefusedSheetWaits'
    <3>1. ASSUME NEW x \in Days \ lost'
          PROVE  owed'[x] = None \/ refused' = x \/ spool[x] = owed'[x]
      <4>1. CASE x = d
        BY <2>1, <4>1
      <4>2. CASE x # d
        <5>1. x \in Days \ lost /\ owed'[x] = owed[x] /\ refused # x
          BY <2>1, <2>2, <4>2, PrintPathAssumption DEF PInv, TypeOK
        <5>2. owed[x] = None \/ refused = x \/ spool[x] = owed[x]
          BY <5>1 DEF PInv, SpoolInv, RefusedSheetWaits
        <5> QED
          BY <5>1, <5>2
      <4> QED
        BY <4>1, <4>2
    <3> QED
      BY <2>1, <3>1 DEF RefusedSheetWaits
  <2>4. \A h \in Heals : moving[h] # None =>
          moving[h] \in lost' \/ owed'[moving[h]] = None \/ d = moving[h]
    BY <2>1, <2>2 DEF PInv, SpoolInv
  <2>5. owed'[d] \in {None, made[d]}
    BY <2>1, <2>2
  <2> QED
    BY <2>1, <2>3, <2>4, <2>5 DEF SpoolInv
<1> QED
  BY <1>1, <1>2 DEF PInv

LEMMA CopyStartsKeeps ==
  ASSUME PInv, CopyStarts
  PROVE  PInv'
<1>1. TypeOK'
  <2>1. spool' \in [Days -> Sheets \cup {None, Broken}]
    BY DEF PInv, TypeOK, CopyStarts
  <2> QED
    BY <2>1 DEF PInv, TypeOK, CopyStarts, outside, ingest, heal
<1>2. SpoolInv'
  BY DEF PInv, TypeOK, SpoolInv, RefusedSheetWaits, CopyStarts, outside, ingest, heal
<1> QED
  BY <1>1, <1>2 DEF PInv

LEMMA CopyEndsKeeps ==
  ASSUME PInv, CopyEnds
  PROVE  PInv'
<1>1. refused \in Days /\ refused \in DOMAIN made /\ made[refused] \in Sheets
  BY DEF PInv, TypeOK, CopyEnds
<1>2. TypeOK'
  <2>1. MadeOK'
    BY DropType DEF PInv, TypeOK, MadeOK, CopyEnds
  <2>2. spool' \in [Days -> Sheets \cup {None, Broken}] /\ lost' \subseteq Days
    BY <1>1 DEF PInv, TypeOK, CopyEnds
  <2>3. phase' \in [Heals -> {"idle", "due", "flush"}]
    BY DEF PInv, TypeOK, CopyEnds
  <2> QED
    BY <2>1, <2>2, <2>3 DEF PInv, TypeOK, MadeOK, CopyEnds, outside, ingest
<1>3. SpoolInv'
  <2>1. CASE spool[refused] # Broken \/ refused \in {moving[h] : h \in Heals}
    BY <2>1, <1>1 DEF PInv, TypeOK, SpoolInv, RefusedSheetWaits, CopyEnds
  <2>2. CASE spool[refused] = Broken /\ refused \notin {moving[h] : h \in Heals}
    <3>1. \A d \in Days \ lost' : owed'[d] = None \/ refused' = d \/ spool'[d] = owed'[d]
      BY <2>2, <1>1 DEF PInv, TypeOK, SpoolInv, RefusedSheetWaits, CopyEnds
    <3> QED
      BY <2>2, <3>1, <1>1 DEF PInv, TypeOK, SpoolInv, RefusedSheetWaits, CopyEnds
  <2> QED
    BY <2>1, <2>2
<1> QED
  BY <1>2, <1>3 DEF PInv

LEMMA RenderFailsKeeps ==
  ASSUME PInv, NEW d \in Days, RenderFails(d)
  PROVE  PInv'
<1>1. TypeOK'
  <2>1. MadeOK'
    BY DropType DEF PInv, TypeOK, MadeOK, RenderFails, MayPrint
  <2> QED
    BY <2>1, PrintPathAssumption
       DEF PInv, TypeOK, MadeOK, RenderFails, outside, ingest, printing, heal, MayPrint, Fault
<1>2. SpoolInv'
  BY PrintPathAssumption
     DEF PInv, TypeOK, SpoolInv, RefusedSheetWaits, RenderFails, outside, ingest, printing, heal,
         MayPrint, Fault
<1> QED
  BY <1>1, <1>2 DEF PInv

LEMMA ConsumerDiesKeeps ==
  ASSUME PInv, ConsumerDies
  PROVE  PInv'
<1>1. TypeOK'
  <2>1. MadeOK'
    BY NothingType DEF PInv, TypeOK, MadeOK, ConsumerDies
  <2>2. /\ phase' \in [Heals -> {"idle", "due", "flush"}]
        /\ toFlush' \in [Heals -> SUBSET Days] /\ moving' \in [Heals -> Days \cup {None}]
    BY DEF PInv, TypeOK, ConsumerDies, Quit
  <2>3. faults' \in 0..MaxFaults
    BY PrintPathAssumption DEF PInv, TypeOK, ConsumerDies, Fault
  <2> QED
    BY <2>1, <2>2, <2>3 DEF PInv, TypeOK, MadeOK, ConsumerDies, outside, ingest, printing
<1>2. SpoolInv'
  BY PrintPathAssumption
     DEF PInv, TypeOK, SpoolInv, RefusedSheetWaits, ConsumerDies, outside, ingest, printing,
         Fault, Quit, Nothing
<1> QED
  BY <1>1, <1>2 DEF PInv

LEMMA HealKeeps ==
  ASSUME PInv, NEW h \in Heals, NEW state \in {"UP", "DOWN"}, Heal(h, state)
  PROVE  PInv'
<1>1. TypeOK'
  <2>1. {d \in Days : spool[d] # None} \in SUBSET Days
    OBVIOUS
  <2>2. /\ phase' \in [Heals -> {"idle", "due", "flush"}]
        /\ toFlush' \in [Heals -> SUBSET Days] /\ moving' \in [Heals -> Days \cup {None}]
    BY <2>1 DEF PInv, TypeOK, Heal, Quit
  <2> QED
    BY <2>2 DEF PInv, TypeOK, Heal, outside, ingest, consumer, printing
<1>2. SpoolInv'
  BY PrintPathAssumption
     DEF PInv, TypeOK, SpoolInv, RefusedSheetWaits, Heal, outside, ingest, consumer, printing,
         Quit
<1> QED
  BY <1>1, <1>2 DEF PInv

LEMMA FlushPrintKeeps ==
  ASSUME PInv, NEW h \in Heals, NEW d \in Days, FlushPrint(h, d)
  PROVE  PInv'
<1>1. TypeOK'
  <2>1. spool[d] # None /\ spool[d] # Broken => spool[d] \in Sheets
    BY DEF PInv, TypeOK, FlushPrint
  <2>2. {paper', owed'} \subseteq [Days -> Sheets \cup {None}]
    BY <2>1 DEF PInv, TypeOK, FlushPrint
  <2>3. moving' \in [Heals -> Days \cup {None}]
    BY DEF PInv, TypeOK, FlushPrint
  <2> QED
    BY <2>2, <2>3 DEF PInv, TypeOK, FlushPrint, outside, ingest, consumer
<1>2. SpoolInv'
  <2>1. /\ lost' = lost /\ refused' = refused /\ made' = made /\ spool' = spool
        /\ moving' = [moving EXCEPT ![h] = d]
        /\ owed \in [Days -> Sheets \cup {None}] /\ moving \in [Heals -> Days \cup {None}]
    BY DEF PInv, TypeOK, FlushPrint, consumer
  <2>2. owed' \in {owed, [owed EXCEPT ![d] = None]}
    BY <2>1 DEF FlushPrint
  <2>3. spool[d] = owed[d] /\ spool[d] # None => owed'[d] = None
    BY <2>1 DEF FlushPrint, Broken, Sheets
  <2>4. RefusedSheetWaits'
    BY <2>1, <2>2 DEF PInv, SpoolInv, RefusedSheetWaits
  <2>5. d \in lost \/ owed'[d] = None \/ refused = d
    BY <2>1, <2>2, <2>3 DEF PInv, SpoolInv, RefusedSheetWaits, FlushPrint
  <2>6. \A g \in Heals : moving'[g] # None =>
          moving'[g] \in lost \/ owed'[moving'[g]] = None \/ refused = moving'[g]
    BY <2>1, <2>2, <2>5 DEF PInv, SpoolInv
  <2>7. refused # None => owed'[refused] \in {None, made[refused]}
    BY <2>1, <2>2 DEF PInv, TypeOK, SpoolInv
  <2> QED
    BY <2>1, <2>4, <2>6, <2>7 DEF SpoolInv
<1> QED
  BY <1>1, <1>2 DEF PInv

LEMMA MoveKeeps ==
  ASSUME PInv, NEW h \in Heals, Move(h)
  PROVE  PInv'
<1>1. TypeOK'
  BY PrintPathAssumption DEF PInv, TypeOK, Move, outside, ingest, consumer, Moved
<1>2. SpoolInv'
  BY PrintPathAssumption
     DEF PInv, TypeOK, SpoolInv, RefusedSheetWaits, Move, outside, ingest, consumer, Moved
<1> QED
  BY <1>1, <1>2 DEF PInv

LEMMA FlushSkipsKeeps ==
  ASSUME PInv, NEW h \in Heals, NEW d \in Days, FlushSkips(h, d)
  PROVE  PInv'
<1>1. TypeOK'
  BY PrintPathAssumption
     DEF PInv, TypeOK, FlushSkips, outside, ingest, consumer, printing, Flushing
<1>2. SpoolInv'
  BY PrintPathAssumption
     DEF PInv, TypeOK, SpoolInv, RefusedSheetWaits, FlushSkips, outside, ingest, consumer,
         printing, Flushing
<1> QED
  BY <1>1, <1>2 DEF PInv

LEMMA FlushFailsKeeps ==
  ASSUME PInv, NEW h \in Heals, NEW d \in Days, FlushFails(h, d)
  PROVE  PInv'
<1>1. TypeOK'
  BY PrintPathAssumption
     DEF PInv, TypeOK, FlushFails, outside, ingest, consumer, printing, Flushing, Fault
<1>2. SpoolInv'
  BY PrintPathAssumption
     DEF PInv, TypeOK, SpoolInv, RefusedSheetWaits, FlushFails, outside, ingest, consumer,
         printing, Flushing, Fault
<1> QED
  BY <1>1, <1>2 DEF PInv

LEMMA HealEndsKeeps ==
  ASSUME PInv, NEW h \in Heals, HealEnds(h)
  PROVE  PInv'
<1>1. TypeOK'
  BY PrintPathAssumption DEF PInv, TypeOK, HealEnds, outside, ingest, consumer, printing, Quit
<1>2. SpoolInv'
  BY PrintPathAssumption
     DEF PInv, TypeOK, SpoolInv, RefusedSheetWaits, HealEnds, outside, ingest, consumer,
         printing, Quit
<1> QED
  BY <1>1, <1>2 DEF PInv

LEMMA HealDiesKeeps ==
  ASSUME PInv, NEW h \in Heals, HealDies(h)
  PROVE  PInv'
<1>1. TypeOK'
  BY PrintPathAssumption
     DEF PInv, TypeOK, HealDies, outside, ingest, consumer, printing, Quit, Fault
<1>2. SpoolInv'
  BY PrintPathAssumption
     DEF PInv, TypeOK, SpoolInv, RefusedSheetWaits, HealDies, outside, ingest, consumer,
         printing, Quit, Fault
<1> QED
  BY <1>1, <1>2 DEF PInv

LEMMA PrintStutter == PInv /\ UNCHANGED vars => PInv'
BY DEF PInv, TypeOK, SpoolInv, RefusedSheetWaits, vars, outside, ingest, consumer, printing, heal

LEMMA PInvAlways == Spec => []PInv
<1>1. PInv /\ [Next]_vars => PInv'
  <2> SUFFICES ASSUME PInv, Next PROVE PInv'
    BY PrintStutter
  <2>1. ASSUME NEW i \in Invoices, \/ \E w \in Rows \cup {None} : RowChanges(i, w)
                                   \/ \E f \in {None, Torn} : FetchFails(i, f)
        PROVE  PInv'
    BY <2>1, RowChangesKeeps, FetchFailsKeeps
  <2>2. CASE IngestStarts \/ IngestStep \/ IngestDies
    BY <2>2, IngestStartsKeeps, FetchKeeps, UnreadableKeeps, PostKeeps, IngestDiesKeeps
       DEF IngestStep
  <2>3. CASE \/ ConsumerStarts \/ CopyStarts \/ CopyEnds \/ ConsumerDies
             \/ \E d \in Days : PrintSheet(d) \/ PrintFails(d) \/ RenderFails(d)
    BY <2>3, ConsumerStartsKeeps, CopyStartsKeeps, CopyEndsKeeps, ConsumerDiesKeeps,
       PrintSheetKeeps, PrintFailsKeeps, RenderFailsKeeps
  <2>4. ASSUME NEW h \in Heals,
               \/ HealStart(h) \/ HealStep(h) \/ HealDies(h)
               \/ \E d \in Days : FlushFails(h, d)
        PROVE  PInv'
    BY <2>4, HealKeeps, FlushPrintKeeps, FlushSkipsKeeps, MoveKeeps, HealEndsKeeps,
       HealDiesKeeps, FlushFailsKeeps
       DEF HealStart, HealStep
  <2> QED
    BY <2>1, <2>2, <2>3, <2>4 DEF Next
<1> QED
  BY <1>1, PrintInit, PTL DEF Spec

\* Type correctness of the way from row to paper: ingest, checklist and both self-heals.
THEOREM PrintPathTypes == Spec => []TypeOK
<1>1. PInv => TypeOK
  BY DEF PInv
<1> QED
  BY <1>1, PInvAlways, PTL

\* A refused sheet is in the checklist's hands or in the spool until it or a later one of
\* its day is accepted, with the checklist and two self-heals at it and deaths at any step,
\* the ones between lp's refusal and the end of the copy among them; what those lose, and
\* what is copied into a file self-heal has done with, is in `lost`.
THEOREM RefusedSheetsWait == Spec => []RefusedSheetWaits
<1>1. PInv => RefusedSheetWaits
  BY DEF PInv, SpoolInv
<1> QED
  BY <1>1, PInvAlways, PTL
===============================================================================
