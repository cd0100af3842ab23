------------------------------ MODULE AckWatcher ------------------------------
(***************************************************************************)
(* ntfy-ack-watcher.py: alarms and replies are messages of one topic. The    *)
(* watcher polls it from its cursor, remembers each alarm and, on a reply,   *)
(* clears the newest one not yet acknowledged. Its memory (cursor, alarms)   *)
(* is written to a file after each clear and, with the new cursor, after     *)
(* each batch; the file is all a restarted watcher has.                      *)
(*                                                                         *)
(* Messages are their positions in the topic; each has the second it was     *)
(* published in, which it may share with others. The watcher's confirmations *)
(* carry the system tag and no priority, and are left out: it passes over    *)
(* them. Faults are refused calls, deaths, and files torn by a death.        *)
(***************************************************************************)
EXTENDS Integers, Sequences, FiniteSets

CONSTANTS
  Alarms,              \* sequence identities of the alarms
  Reply,               \* the message of a person
  Torn,
  MaxMessages, MaxFaults \* bounds of the model

Fresh    == [cursor |-> 0, at |-> [s \in Alarms |-> 0], acked |-> {}]
States   == [cursor : 0..MaxMessages, at : [Alarms -> 0..MaxMessages], acked : SUBSET Alarms]

ASSUME AckWatcherAssumption ==
  /\ Reply \notin Alarms /\ Torn \notin States
  /\ MaxMessages \in Nat /\ MaxFaults \in Nat

VARIABLES
  topic,     \* the messages, oldest first
  second,    \* the time of each in whole seconds
  shown,     \* alarms on the phone
  disk,      \* the state file
  state,     \* the watcher's state: cursor, the message each alarm was recorded from
             \* (0: not recorded), the acknowledged
  cursor, upto, pc,     \* its locals: the cursor, the end of the batch, the step
  faults,
  cleared,   \* history: <<reply, alarm>>, the alarm cleared for each reply
  astray     \* history: what has happened of "killed", "forgot", "refused", "again"

vars == <<topic, second, shown, disk, state, cursor, upto, pc, faults, cleared, astray>>
watcher == <<state, cursor, upto, pc>>

Messages == 1..MaxMessages

\* Each message has its time.
Timed == second \in Seq(Nat) /\ Len(second) = Len(topic)

TypeOK ==
  /\ topic \in Seq(Alarms \cup {Reply}) /\ Len(topic) <= MaxMessages
  /\ Timed
  /\ shown \subseteq Alarms
  /\ disk \in States \cup {Torn} /\ state \in States
  /\ cursor \in 0..Len(topic) /\ upto \in 0..Len(topic)
  /\ pc \in {"off", "warm-up", "poll", "batch", "acked"}
  /\ faults \in 0..MaxFaults
  /\ cleared \subseteq Messages \X Alarms
  /\ astray \subseteq {"killed", "forgot", "refused", "again"}

Init ==
  /\ topic = <<>> /\ second = <<>> /\ shown = {}
  /\ disk = Torn /\ state = Fresh
  /\ cursor = 0 /\ upto = 0 /\ pc = "off"
  /\ faults = 0 /\ cleared = {} /\ astray = {}

Fault == faults < MaxFaults /\ faults' = faults + 1
Raised(s) == {k \in DOMAIN topic : topic[k] = s}

Now == IF topic = <<>> THEN 0 ELSE second[Len(topic)]

\* An alarm is published (external), in the second of the message before it or later; one
\* of an identity used before replaces it. Time begins with the first alarm.
Raise(s, later) ==
  /\ Len(topic) < MaxMessages
  /\ later = 0 \/ \E k \in DOMAIN topic : topic[k] # Reply
  /\ topic' = Append(topic, s)
  /\ second' = Append(second, Now + later)
  /\ shown' = shown \cup {s}
  /\ astray' = IF Raised(s) # {} THEN astray \cup {"again"} ELSE astray
  /\ UNCHANGED <<disk, watcher, faults, cleared>>

\* The time of a reply is not read.
Answer ==
  /\ Len(topic) < MaxMessages
  /\ topic' = Append(topic, Reply)
  /\ second' = Append(second, Now)
  /\ UNCHANGED <<shown, disk, watcher, faults, cleared, astray>>

\* load_state: no file, or one that cannot be read, is a fresh state.
Start ==
  /\ pc = "off"
  /\ state' = IF disk = Torn THEN Fresh ELSE disk
  /\ cursor' = state'.cursor
  /\ upto' = 0
  /\ pc' = IF state'.cursor = 0 THEN "warm-up" ELSE "poll"
  /\ UNCHANGED <<topic, second, shown, disk, faults, cleared, astray>>

\* Without a cursor, what is there already is passed over.
WarmUp ==
  /\ pc = "warm-up"
  /\ IF topic = <<>> THEN UNCHANGED <<cursor, state, disk, astray>>
     ELSE /\ cursor' = Len(topic)
          /\ state' = [state EXCEPT !.cursor = cursor']
          /\ disk' = state'
          /\ astray' = astray \cup {"forgot"}
  /\ pc' = "poll"
  /\ UNCHANGED <<topic, second, shown, upto, faults, cleared>>

\* The answer does not come: as if the topic were empty.
WarmUpFails ==
  /\ pc = "warm-up"
  /\ Fault
  /\ pc' = "poll"
  /\ UNCHANGED <<topic, second, shown, disk, state, cursor, upto, cleared, astray>>

\* A poll that fails or brings nothing changes nothing.
Poll ==
  /\ pc = "poll" /\ cursor < Len(topic)
  /\ upto' = Len(topic)
  /\ pc' = "batch"
  /\ UNCHANGED <<topic, second, shown, disk, state, cursor, faults, cleared, astray>>

Message == topic[cursor + 1]
Reading == pc = "batch" /\ cursor < upto

\* An identity recorded before keeps its time and its acknowledgement.
ReadAlarm ==
  /\ Reading /\ Message # Reply
  /\ state' = IF state.at[Message] # 0 THEN state
              ELSE [state EXCEPT !.at[Message] = cursor + 1]
  /\ cursor' = cursor + 1
  /\ UNCHANGED <<topic, second, shown, disk, upto, pc, faults, cleared, astray>>

\* Mutant of Active: the acknowledged alarms are candidates as well.
ActiveOrNot == {s \in Alarms : state.at[s] # 0}

Active == {s \in Alarms : state.at[s] # 0 /\ s \notin state.acked}

TimeOf(s) == second[state.at[s]]

\* Mutant of Newest: the oldest one.
Oldest(s) == s \in Active /\ \A t \in Active : state.at[s] <= state.at[t]

\* max: of the latest second, the one recorded first.
Newest(s) ==
  /\ s \in Active
  /\ \A t \in Active : \/ TimeOf(t) < TimeOf(s)
                       \/ TimeOf(t) = TimeOf(s) /\ state.at[s] <= state.at[t]

ReadIdleReply ==
  /\ Reading /\ Message = Reply /\ Active = {}
  /\ cursor' = cursor + 1
  /\ UNCHANGED <<topic, second, shown, disk, state, upto, pc, faults, cleared, astray>>

\* clear_alarm succeeds.
Clear(s) ==
  /\ Reading /\ Message = Reply /\ Newest(s)
  /\ shown' = shown \ {s}
  /\ state' = [state EXCEPT !.acked = @ \cup {s}]
  /\ cleared' = cleared \cup {<<cursor + 1, s>>}
  /\ pc' = "acked"
  /\ UNCHANGED <<topic, second, disk, cursor, upto, faults, astray>>

\* The call fails, or its answer is lost: the reply is used up all the same.
ClearRefused(s) ==
  /\ Reading /\ Message = Reply /\ Newest(s)
  /\ Fault
  /\ shown' \in {shown, shown \ {s}}
  /\ cursor' = cursor + 1
  /\ astray' = astray \cup {"refused"}
  /\ UNCHANGED <<topic, second, disk, state, upto, pc, cleared>>

\* save_state in the middle of a batch: the alarms as they are, the cursor as it was.
SaveAck ==
  /\ pc = "acked"
  /\ disk' = state
  /\ cursor' = cursor + 1
  /\ pc' = "batch"
  /\ UNCHANGED <<topic, second, shown, state, upto, faults, cleared, astray>>

\* Mutant of EndBatch: the state is saved, its cursor forgotten.
EndBatchKeepsCursor ==
  /\ pc = "batch" /\ cursor = upto
  /\ disk' = state
  /\ pc' = "poll" /\ upto' = 0
  /\ UNCHANGED <<topic, second, shown, state, cursor, faults, cleared, astray>>

EndBatch ==
  /\ pc = "batch" /\ cursor = upto
  /\ state' = [state EXCEPT !.cursor = cursor]
  /\ disk' = state'
  /\ pc' = "poll" /\ upto' = 0
  /\ UNCHANGED <<topic, second, shown, cursor, faults, cleared, astray>>

Saving == pc \in {"warm-up", "acked"} \/ (pc = "batch" /\ cursor = upto)

\* The process dies; one that was writing leaves a torn file.
Die ==
  /\ pc # "off"
  /\ Fault
  /\ pc' = "off"
  /\ disk' \in IF Saving THEN {disk, Torn} ELSE {disk}
  /\ astray' = astray \cup IF pc \in {"batch", "acked"} THEN {"killed"} ELSE {}
  /\ state' = Fresh /\ cursor' = 0 /\ upto' = 0
  /\ UNCHANGED <<topic, second, shown, cleared>>

Step ==
  \/ Start \/ WarmUp \/ Poll \/ ReadAlarm \/ ReadIdleReply
  \/ (\E s \in Alarms : Clear(s)) \/ SaveAck \/ EndBatch

Next ==
  \/ (\E s \in Alarms : (\E later \in {0, 1} : Raise(s, later)) \/ ClearRefused(s)) \/ Answer
  \/ Step \/ WarmUpFails \/ Die

\* systemd starts the watcher again; it polls every twenty seconds.
Spec == Init /\ [][Next]_vars /\ WF_vars(Step)

-------------------------------------------------------------------------------
\* One reply clears at most one alarm. A watcher restarted between two batches
\* reads no reply again; one that died inside a batch does, with the acknowledgements
\* but without the cursor, and the same reply clears the next alarm.
OneAlarmPerReply ==
  "killed" \notin astray =>
    \A c, d \in cleared : c[1] = d[1] => c = d

\* The alarm a reply clears was raised before it and was then of the newest second:
\* every alarm raised in a later second had been cleared by an earlier reply, or is of
\* an identity used before, or was passed over by a warm-up. Of the alarms of one second
\* nothing is said: the code clears the older first. A watcher that died inside a batch
\* remembers alarms that come after the reply it reads again.
ReplyClearsNewest ==
  "killed" \notin astray => \A c \in cleared : \E a \in Raised(c[2]) :
    /\ a < c[1]
    /\ "forgot" \notin astray => \A b \in 1 .. c[1] - 1 :
         topic[b] \in Alarms \ {c[2]} /\ second[a] < second[b] =>
           \/ \E d \in cleared : d[1] < c[1] /\ d[2] = topic[b]
           \/ \E e \in Raised(topic[b]) : second[e] <= second[a]

\* A phone answered often enough falls silent: with as many replies after the last
\* alarm as there are alarms, none refused, none of an identity raised twice, none
\* passed over or lost with a watcher, nothing is left on it.
RepliesAtEnd == {k \in DOMAIN topic : \A j \in k..Len(topic) : topic[j] = Reply}
FallsSilent ==
  <>[](astray = {} /\ Cardinality(RepliesAtEnd) >= Cardinality(Alarms) => shown = {})
===============================================================================
