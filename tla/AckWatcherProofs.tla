--------------------------- MODULE AckWatcherProofs ---------------------------
(***************************************************************************)
(* The watcher's types, and two of its promises for any number of alarms,    *)
(* messages and faults: a reply clears one alarm, of the newest second.      *)
(* The argument: unless the watcher has died inside a batch, what it has in   *)
(* memory, and what a restart would find in the file, is what reading the     *)
(* topic up to the cursor gives, and every clear lies before that cursor.     *)
(***************************************************************************)
EXTENDS AckWatcher, TLAPS

\* The locals and the file point into the topic.
Bounds ==
  /\ disk # Torn => disk.cursor <= Len(topic)
  /\ state.cursor <= Len(topic)
  /\ pc = "acked" => cursor < upto
  /\ pc = "batch" => cursor <= upto /\ 0 < upto
  /\ pc = "warm-up" => cursor = 0
Types == TypeOK /\ Bounds

LEMMA TimedFacts ==
  ASSUME TypeOK
  PROVE  \A k \in DOMAIN topic : second[k] \in Nat
<1>1. topic \in Seq(Alarms \cup {Reply}) /\ Timed
  BY DEF TypeOK, watcher
<1> QED BY <1>1 DEF Timed

LEMMA CursorSet ==
  ASSUME NEW M \in States, NEW n \in 0..MaxMessages
  PROVE  [M EXCEPT !.cursor = n] \in States /\ [M EXCEPT !.cursor = n].cursor = n
BY DEF States

LEMMA TypesInit == Init => Types
BY AckWatcherAssumption DEF Init, Types, TypeOK, Timed, Bounds, Fresh, States

LEMMA TypesNext == Types /\ [Next]_vars => Types'
<1> SUFFICES ASSUME Types, [Next]_vars PROVE Types'
  OBVIOUS
<1> USE AckWatcherAssumption DEF Types, TypeOK, Bounds, watcher, Messages
<1>0. state.cursor \in Nat /\ (disk # Torn => disk \in States /\ disk.cursor \in Nat)
  BY DEF States
<1>1. ASSUME NEW s \in Alarms, NEW later \in {0, 1}, Raise(s, later) PROVE Types'
  <2>1. topic' \in Seq(Alarms \cup {Reply}) /\ Len(topic') = Len(topic) + 1
    BY <1>1 DEF Raise
  <2>2. Timed'
    BY <1>1, <2>1 DEF Raise, Now, Timed
  <2>3. UNCHANGED <<disk, state, cursor, upto, pc, faults, cleared>> /\ Len(topic') <= MaxMessages
    BY <1>1, <2>1 DEF Raise
  <2>4. shown' \subseteq Alarms /\ astray' \subseteq {"killed", "forgot", "refused", "again"}
    BY <1>1 DEF Raise
  <2> QED BY <1>0, <2>1, <2>2, <2>3, <2>4
<1>2. ASSUME Answer PROVE Types'
  <2>1. topic' \in Seq(Alarms \cup {Reply}) /\ Len(topic') = Len(topic) + 1
    BY <1>2 DEF Answer
  <2>2. Timed'
    BY <1>2, <2>1 DEF Answer, Now, Timed
  <2>3. UNCHANGED <<disk, state, cursor, upto, pc, faults, cleared, shown, astray>>
        /\ Len(topic') <= MaxMessages
    BY <1>2, <2>1 DEF Answer
  <2> QED BY <1>0, <2>1, <2>2, <2>3
<1>t. ASSUME UNCHANGED <<topic, second>> PROVE Timed'
  BY <1>t DEF Timed
<1>3. ASSUME Start PROVE Types'
  <2>1. state' \in States /\ state'.cursor \in 0..Len(topic)
    BY <1>0, <1>3 DEF Start, Fresh, States
  <2> QED BY <1>t, <1>3, <2>1 DEF Start
<1>4. ASSUME WarmUp PROVE Types'
  <2>1. CASE topic = <<>>
    BY <1>t, <1>4, <2>1 DEF WarmUp
  <2>2. CASE topic # <<>>
    <3>1. state' \in States /\ state'.cursor = Len(topic) /\ cursor' = Len(topic)
      BY <1>4, <2>2 DEF WarmUp, States
    <3> QED BY <1>t, <1>4, <2>2, <3>1 DEF WarmUp
  <2> QED BY <2>1, <2>2
<1>5. ASSUME WarmUpFails PROVE Types'
  BY <1>t, <1>5 DEF WarmUpFails, Fault
<1>6. ASSUME Poll PROVE Types'
  BY <1>t, <1>6 DEF Poll
<1>7. ASSUME ReadAlarm PROVE Types'
  <2>1. Message \in Alarms
    BY <1>7 DEF ReadAlarm, Reading, Message
  <2>2. state' \in States /\ state'.cursor = state.cursor
    <3>1. CASE state.at[Message] # 0
      BY <1>7, <3>1 DEF ReadAlarm
    <3>2. CASE state.at[Message] = 0
      <4>1. state' = [state EXCEPT !.at = [state.at EXCEPT ![Message] = cursor + 1]]
        BY <1>7, <2>1, <3>2 DEF ReadAlarm, States
      <4>2. cursor + 1 \in 0..MaxMessages
        BY <1>7 DEF ReadAlarm, Reading
      <4>3. [state.at EXCEPT ![Message] = cursor + 1] \in [Alarms -> 0..MaxMessages]
        BY <2>1, <4>2 DEF States
      <4> QED BY <4>1, <4>3 DEF States
    <3> QED BY <3>1, <3>2
  <2> QED BY <1>t, <1>7, <2>2 DEF ReadAlarm, Reading
<1>8. ASSUME ReadIdleReply PROVE Types'
  BY <1>t, <1>8 DEF ReadIdleReply, Reading
<1>9. ASSUME NEW s \in Alarms, Clear(s) PROVE Types'
  <2>1. state' \in States /\ state'.cursor = state.cursor
    BY <1>9 DEF Clear, States
  <2>2. cleared' \subseteq Messages \X Alarms
    BY <1>9 DEF Clear, Reading
  <2> QED BY <1>t, <1>9, <2>1, <2>2 DEF Clear, Reading
<1>10. ASSUME NEW s \in Alarms, ClearRefused(s) PROVE Types'
  BY <1>t, <1>10 DEF ClearRefused, Reading, Fault
<1>11. ASSUME SaveAck PROVE Types'
  BY <1>t, <1>11 DEF SaveAck
<1>12. ASSUME EndBatch PROVE Types'
  <2>0. state' = [state EXCEPT !.cursor = cursor] /\ cursor \in 0..MaxMessages
    BY <1>12 DEF EndBatch
  <2>1. state' \in States /\ state'.cursor = cursor
    BY <2>0, CursorSet
  <2> QED BY <1>t, <1>12, <2>1 DEF EndBatch
<1>13. ASSUME Die PROVE Types'
  <2>1. disk' \in {disk, Torn} /\ faults' \in 0..MaxFaults
        /\ astray' \subseteq {"killed", "forgot", "refused", "again"}
    BY <1>13 DEF Die, Fault
  <2>2. state' \in States /\ state'.cursor = 0
    BY <1>13 DEF Die, Fresh, States
  <2> QED BY <1>t, <1>13, <2>1, <2>2 DEF Die
<1>14. ASSUME UNCHANGED vars PROVE Types'
  BY <1>t, <1>14 DEF vars
<1> QED
  BY <1>1, <1>2, <1>3, <1>4, <1>5, <1>6, <1>7, <1>8, <1>9, <1>10, <1>11, <1>12, <1>13, <1>14
     DEF Next, Step

\* The watcher's variables hold what their declarations say, and cursor and
\* batch never point past the end of the topic.
THEOREM AckWatcherTypes == Spec => []TypeOK
<1>1. Types => TypeOK
  BY DEF Types
<1> QED BY TypesInit, TypesNext, <1>1, PTL DEF Spec

-----------------------------------------------------------------------------
(* What reading the first n messages of tp leaves in a memory M.            *)
Recalls(tp, forgot, M, n) ==
  /\ \A s \in Alarms : M.at[s] # 0 => M.at[s] <= n /\ tp[M.at[s]] = s
  /\ ~forgot => \A j \in 1..n : tp[j] # Reply => M.at[tp[j]] \in 1..j
AckedBy(cl, M, n) == \A s \in M.acked : \E d \in cl : d[2] = s /\ d[1] <= n
Before(cl, n) == \A c \in cl : c[1] <= n
Newer(tp, sc, cl, c, a, b) ==
  tp[b] \in Alarms \ {c[2]} /\ sc[a] < sc[b] =>
    \/ \E d \in cl : d[1] < c[1] /\ d[2] = tp[b]
    \/ \E e \in DOMAIN tp : tp[e] = tp[b] /\ sc[e] <= sc[a]
Justified(tp, sc, forgot, cl, c) ==
  \E a \in DOMAIN tp :
    /\ tp[a] = c[2] /\ a < c[1]
    /\ ~forgot => \A b \in 1 .. c[1] - 1 : Newer(tp, sc, cl, c, a, b)

Forgot == "forgot" \in astray
FileInv ==
  pc \in {"off", "warm-up", "poll"} /\ disk # Torn =>
    Recalls(topic, Forgot, disk, disk.cursor) /\ AckedBy(cleared, disk, disk.cursor)
MemoryInv ==
  /\ pc # "off" => Recalls(topic, Forgot, state, cursor)
  /\ pc \in {"warm-up", "poll", "batch"} => AckedBy(cleared, state, cursor)
  /\ pc = "acked" => AckedBy(cleared, state, cursor + 1) /\ topic[cursor + 1] = Reply
ClearedInv ==
  /\ Before(cleared, Len(topic))
  /\ pc \in {"poll", "batch"} => Before(cleared, cursor)
  /\ pc = "acked" => Before(cleared, cursor + 1)
  /\ pc = "warm-up" => cleared = {}
  /\ pc \in {"off", "poll"} => cleared = {} \/ (disk # Torn /\ Before(cleared, disk.cursor))
Once == \A c, d \in cleared : c[1] = d[1] => c = d
AllJustified == \A c \in cleared : Justified(topic, second, Forgot, cleared, c)
Alive == FileInv /\ MemoryInv /\ ClearedInv /\ Once /\ AllJustified
Inv == Types /\ ("killed" \notin astray => Alive)

-----------------------------------------------------------------------------
(* The topic, the clears and what went astray only grow.                    *)
Extends(tp, tq) == Len(tp) <= Len(tq) /\ \A j \in DOMAIN tp : tq[j] = tp[j]
Topics == Seq(Alarms \cup {Reply})

LEMMA RecallsExtends ==
  ASSUME NEW tp \in Topics, NEW tq \in Topics, Extends(tp, tq),
         NEW f \in BOOLEAN, NEW g \in BOOLEAN, f => g,
         NEW M \in States, NEW n \in 0..Len(tp), Recalls(tp, f, M, n)
  PROVE  Recalls(tq, g, M, n)
<1>1. /\ \A s \in Alarms : M.at[s] \in Nat
      /\ \A j \in 1..n : j \in DOMAIN tp /\ tq[j] = tp[j]
  BY DEF States, Extends, Topics
<1>2. ASSUME NEW s \in Alarms, M.at[s] # 0 PROVE M.at[s] <= n /\ tq[M.at[s]] = s
  <2>1. M.at[s] <= n /\ tp[M.at[s]] = s
    BY <1>2 DEF Recalls
  <2> QED BY <1>1, <1>2, <2>1
<1> QED BY <1>1, <1>2 DEF Recalls

\* A reply is an alarm of nobody: reading it there is nothing more to recall.
LEMMA RecallsReply ==
  ASSUME NEW tp, NEW f, NEW M \in States, NEW n \in Nat, tp[n + 1] = Reply, Recalls(tp, f, M, n)
  PROVE  Recalls(tp, f, M, n + 1)
<1>1. \A s \in Alarms : M.at[s] \in Nat
  BY DEF States
<1>2. \A j \in 1..n + 1 : tp[j] # Reply => j \in 1..n
  OBVIOUS
<1> QED BY <1>1, <1>2 DEF Recalls

LEMMA JustifiedExtends ==
  ASSUME NEW tp \in Topics, NEW tq \in Topics, Extends(tp, tq),
         NEW sc \in Seq(Nat), NEW sd \in Seq(Nat), Extends(sc, sd), Len(sc) = Len(tp),
         NEW f \in BOOLEAN, NEW g \in BOOLEAN, f => g,
         NEW cl \in SUBSET (Messages \X Alarms), NEW cm \in SUBSET (Messages \X Alarms), cl \subseteq cm,
         NEW c \in Messages \X Alarms, c[1] <= Len(tp), Justified(tp, sc, f, cl, c)
  PROVE  Justified(tq, sd, g, cm, c)
<1> c[1] \in Nat /\ c[2] \in Alarms
  BY DEF Messages
<1>1. PICK a \in DOMAIN tp : /\ tp[a] = c[2] /\ a < c[1]
                             /\ ~f => \A b \in 1 .. c[1] - 1 : Newer(tp, sc, cl, c, a, b)
  BY DEF Justified
<1>2. ASSUME NEW e \in DOMAIN tp PROVE e \in DOMAIN tq /\ tq[e] = tp[e] /\ sd[e] = sc[e]
  <2>1. e \in DOMAIN tq /\ tq[e] = tp[e]
    BY DEF Extends, Topics
  <2>2. DOMAIN sc = DOMAIN tp
    BY DEF Topics
  <2> QED BY <2>1, <2>2 DEF Extends
<1>3. ASSUME ~g, NEW b \in 1 .. c[1] - 1 PROVE Newer(tq, sd, cm, c, a, b)
  <2>1. Newer(tp, sc, cl, c, a, b)
    BY <1>1, <1>3
  <2>2. b \in DOMAIN tp
    BY <1>1 DEF Extends, Topics
  <2> QED BY <1>2, <2>1, <2>2 DEF Newer
<1> QED BY <1>1, <1>2, <1>3 DEF Justified

LEMMA Growth ==
  ASSUME Types, [Next]_vars
  PROVE  /\ topic \in Topics /\ topic' \in Topics /\ Extends(topic, topic')
         /\ second \in Seq(Nat) /\ second' \in Seq(Nat) /\ Extends(second, second')
         /\ Forgot \in BOOLEAN /\ Forgot' \in BOOLEAN /\ (Forgot => Forgot')
         /\ cleared \subseteq cleared'
         /\ "killed" \notin astray' => "killed" \notin astray
<1> USE DEF Types, TypeOK, Timed, Topics, Extends, Forgot
<1> DEFINE Longer == /\ topic' \in Topics /\ Extends(topic, topic')
                     /\ second' \in Seq(Nat) /\ Extends(second, second')
<1>1. ASSUME UNCHANGED <<topic, second>> PROVE Longer
  BY <1>1
<1>2. ASSUME NEW m \in Alarms \cup {Reply}, topic' = Append(topic, m),
             NEW t \in Nat, second' = Append(second, t)
      PROVE  Longer
  BY <1>2
<1>3. astray \subseteq astray' /\ cleared \subseteq cleared'
  BY DEF Next, Step, vars, watcher, Raise, Answer, Start, WarmUp, WarmUpFails, Poll, ReadAlarm,
         ReadIdleReply, Clear, ClearRefused, SaveAck, EndBatch, Die
<1>4. \/ UNCHANGED <<topic, second>>
      \/ \E m \in Alarms \cup {Reply}, t \in Nat :
           topic' = Append(topic, m) /\ second' = Append(second, t)
  BY DEF Now, Next, Step, vars, watcher, Raise, Answer, Start, WarmUp, WarmUpFails, Poll, ReadAlarm,
         ReadIdleReply, Clear, ClearRefused, SaveAck, EndBatch, Die
<1> QED BY <1>1, <1>2, <1>3, <1>4

LEMMA InvInit == Init => Inv
<1> SUFFICES ASSUME Init PROVE Alive
  BY TypesInit DEF Inv
<1> QED
  BY DEF Init, Alive, FileInv, MemoryInv, ClearedInv, Once, AllJustified, Before

\* What a step leaves of the topic, the clears and the file it leaves of Alive.
LEMMA Kept ==
  ASSUME Types, [Next]_vars, Alive
  PROVE  /\ \A M \in States, n \in 0..Len(topic) :
              Recalls(topic, Forgot, M, n) => Recalls(topic', Forgot', M, n)
         /\ \A M \in States, n \in Nat : AckedBy(cleared, M, n) => AckedBy(cleared', M, n)
         /\ Before(cleared, Len(topic'))
         /\ \A c \in cleared : Justified(topic', second', Forgot', cleared', c)
<1> USE Growth
<1>1. ASSUME NEW M \in States, NEW n \in 0..Len(topic), Recalls(topic, Forgot, M, n)
      PROVE  Recalls(topic', Forgot', M, n)
  BY <1>1, RecallsExtends
<1>2. ASSUME NEW M \in States, NEW n \in Nat, AckedBy(cleared, M, n) PROVE AckedBy(cleared', M, n)
  BY <1>2 DEF AckedBy
<1>3. cleared \subseteq Messages \X Alarms /\ cleared' \subseteq Messages \X Alarms
  BY TypesNext DEF Types, TypeOK
<1>4. \A c \in cleared : c[1] \in Nat /\ c[1] <= Len(topic)
  BY <1>3 DEF Alive, ClearedInv, Before, Messages
<1>5. ASSUME NEW c \in cleared PROVE Justified(topic', second', Forgot', cleared', c)
  <2>1. Justified(topic, second, Forgot, cleared, c)
    BY DEF Alive, AllJustified
  <2>2. Len(second) = Len(topic)
    BY DEF Types, TypeOK, Timed
  <2>3. c \in Messages \X Alarms /\ c[1] <= Len(topic)
    BY <1>3, <1>4
  <2> QED BY <1>3, <2>1, <2>2, <2>3, JustifiedExtends
<1>6. Before(cleared, Len(topic'))
  BY <1>4 DEF Before, Extends, Topics
<1> QED BY <1>1, <1>2, <1>5, <1>6

LEMMA InvNext == Inv /\ [Next]_vars => Inv'
<1> SUFFICES ASSUME Types, [Next]_vars, Alive, "killed" \notin astray' PROVE Alive'
  BY TypesNext, Growth DEF Inv
<1> Types'
  BY TypesNext
<1> USE AckWatcherAssumption DEF Types, TypeOK, Bounds, watcher
<1>0. /\ state \in States /\ state.cursor \in 0..Len(topic)
      /\ disk # Torn => disk \in States /\ disk.cursor \in 0..Len(topic)
      /\ cursor \in 0..Len(topic) /\ cursor \in Nat /\ cursor + 1 \in Nat
  BY DEF States
<1>1. ASSUME UNCHANGED cleared PROVE Once' /\ AllJustified'
  BY <1>1, Kept DEF Alive, Once, AllJustified
<1>2. ASSUME UNCHANGED <<disk, state, cursor, pc, cleared>> PROVE Alive'
  <2>1. FileInv'
    BY <1>0, <1>2, Kept DEF Alive, FileInv
  <2>2. pc = "acked" => topic'[cursor + 1] = Reply
    <3>1. pc = "acked" => cursor + 1 \in DOMAIN topic
      BY <1>0
    <3> QED BY <1>2, <3>1, Growth DEF Alive, MemoryInv, Extends
  <2>3. MemoryInv'
    BY <1>0, <1>2, <2>2, Kept DEF Alive, MemoryInv
  <2>4. ClearedInv'
    BY <1>2, Kept DEF Alive, ClearedInv
  <2> QED BY <1>1, <1>2, <2>1, <2>3, <2>4 DEF Alive
<1>3. ASSUME NEW s \in Alarms, NEW later \in {0, 1}, Raise(s, later) PROVE Alive'
  BY <1>2, <1>3 DEF Raise
<1>4. ASSUME Answer PROVE Alive'
  BY <1>2, <1>4 DEF Answer
<1>5. ASSUME Start PROVE Alive'
  <2> USE <1>5 DEF Start
  <2>1. \A c \in cleared : c[1] > 0
    BY DEF Messages
  <2>2. CASE disk = Torn
    <3>1. state' = Fresh /\ cursor' = 0 /\ pc' = "warm-up" /\ cleared' = {} /\ disk' = Torn
      BY <2>2 DEF Fresh, Alive, ClearedInv
    <3>2. Recalls(topic', Forgot', state', cursor') /\ AckedBy(cleared', state', cursor')
      BY <3>1 DEF Recalls, AckedBy, Fresh
    <3> QED BY <1>1, <3>1, <3>2 DEF Alive, FileInv, MemoryInv, ClearedInv, Before
  <2>3. CASE disk # Torn
    <3>1. state' = disk /\ cursor' = disk.cursor /\ disk' = disk /\ cleared' = cleared
      BY <2>3
    <3>2. Recalls(topic', Forgot', disk, disk.cursor) /\ AckedBy(cleared', disk, disk.cursor)
      <4>1. /\ Recalls(topic, Forgot, disk, disk.cursor) /\ AckedBy(cleared, disk, disk.cursor)
            /\ disk \in States /\ disk.cursor \in 0..Len(topic) /\ disk.cursor \in Nat
        BY <1>0, <2>3 DEF Alive, FileInv
      <4> QED BY <4>1, Kept
    <3>3. pc' = "warm-up" => cleared = {}
      <4>1. pc' = "warm-up" => disk.cursor = 0
        BY <3>1
      <4>2. cleared = {} \/ \A c \in cleared : c[1] <= disk.cursor
        BY <2>3 DEF Alive, ClearedInv, Before
      <4>3. \A c \in cleared : c[1] \in Nat
        BY DEF Messages
      <4> QED BY <2>1, <4>1, <4>2, <4>3
    <3>4. Before(cleared', disk.cursor)
      BY <2>3, <3>1 DEF Alive, ClearedInv, Before
    <3>5. FileInv' /\ MemoryInv'
      BY <3>1, <3>2 DEF FileInv, MemoryInv
    <3>6. ClearedInv'
      BY <2>3, <3>1, <3>3, <3>4, Kept DEF ClearedInv
    <3> QED BY <1>1, <3>5, <3>6 DEF Alive
  <2> QED BY <2>2, <2>3
<1>6. ASSUME WarmUp \/ WarmUpFails PROVE Alive'
  <2>1. pc = "warm-up" /\ pc' = "poll" /\ cleared = {} /\ cleared' = {} /\ cursor = 0
    BY <1>6 DEF WarmUp, WarmUpFails, Alive, ClearedInv
  <2>2. Recalls(topic, Forgot, state, 0) /\ AckedBy(cleared, state, 0)
    BY <2>1 DEF Alive, MemoryInv
  <2>3. CASE UNCHANGED <<cursor, state, disk>>
    <3>1. FileInv'
      BY <1>0, <2>1, <2>3, Kept DEF Alive, FileInv
    <3>2. Recalls(topic', Forgot', state, 0) /\ AckedBy(cleared', state, 0)
      BY <1>0, <2>2, Kept
    <3>3. MemoryInv'
      BY <2>1, <2>3, <3>2 DEF MemoryInv
    <3>4. ClearedInv'
      BY <2>1 DEF ClearedInv, Before
    <3> QED BY <1>1, <2>1, <3>1, <3>3, <3>4 DEF Alive
  <2>4. CASE ~UNCHANGED <<cursor, state, disk>>
    <3>1. /\ cursor' = Len(topic) /\ state' = [state EXCEPT !.cursor = Len(topic)]
          /\ disk' = state' /\ Forgot' /\ UNCHANGED topic
      BY <1>6, <2>4 DEF WarmUp, WarmUpFails, Forgot
    <3>2. /\ state'.cursor = Len(topic) /\ state'.acked = state.acked /\ state'.at = state.at
      BY <1>0, <3>1 DEF States
    <3>0. \A s \in Alarms : state.at[s] = 0
      <4>1. \A s \in Alarms : state.at[s] \in Nat
        BY <1>0 DEF States
      <4> QED BY <2>2, <4>1 DEF Recalls
    <3>3. Recalls(topic', Forgot', state', Len(topic))
      BY <3>0, <3>1, <3>2 DEF Recalls
    <3>4. AckedBy(cleared', state', Len(topic))
      BY <2>1, <2>2, <3>2 DEF AckedBy
    <3>5. FileInv' /\ MemoryInv'
      BY <2>1, <3>1, <3>2, <3>3, <3>4 DEF FileInv, MemoryInv
    <3>6. ClearedInv'
      BY <2>1 DEF ClearedInv, Before
    <3> QED BY <1>1, <2>1, <3>5, <3>6 DEF Alive
  <2> QED BY <2>3, <2>4
<1>7. ASSUME Poll PROVE Alive'
  <2>1. UNCHANGED <<topic, second, disk, state, cursor, cleared>> /\ pc = "poll" /\ pc' = "batch"
    BY <1>7 DEF Poll
  <2>2. FileInv'
    BY <2>1 DEF FileInv
  <2>3. MemoryInv'
    BY <1>0, <2>1, Kept DEF Alive, MemoryInv
  <2>4. ClearedInv'
    BY <2>1, Kept DEF Alive, ClearedInv
  <2> QED BY <1>1, <2>1, <2>2, <2>3, <2>4 DEF Alive
<1>8. ASSUME ReadAlarm PROVE Alive'
  <2>1. /\ UNCHANGED <<topic, second, disk, cleared, astray>> /\ pc = "batch" /\ pc' = "batch"
        /\ cursor' = cursor + 1 /\ cursor < Len(topic) /\ Message \in Alarms
    BY <1>8 DEF ReadAlarm, Reading, Message
  <2>2. state'.acked = state.acked /\
        state'.at = IF state.at[Message] # 0 THEN state.at
                      ELSE [state.at EXCEPT ![Message] = cursor + 1]
    BY <1>8, <2>1 DEF ReadAlarm, States
  <2>3. Recalls(topic, Forgot, state, cursor) /\ AckedBy(cleared, state, cursor)
    BY <2>1 DEF Alive, MemoryInv
  <2>4. state.at \in [Alarms -> 0..MaxMessages]
    BY DEF States
  <2>5. Recalls(topic, Forgot, state', cursor + 1)
    <3>1. ASSUME NEW s \in Alarms, state'.at[s] # 0
          PROVE  state'.at[s] <= cursor + 1 /\ topic[state'.at[s]] = s
      BY <2>2, <2>3, <2>4, <3>1 DEF Recalls, Message
    <3>2. ASSUME ~Forgot, NEW j \in 1..(cursor + 1), topic[j] # Reply
          PROVE  state'.at[topic[j]] \in 1..j
      <4>1. topic[j] \in Alarms
        BY <2>1, <3>2
      <4>2. CASE j = cursor + 1
        <5>1. state.at[Message] # 0 => state.at[Message] \in 1..cursor
          BY <2>1, <2>3, <2>4 DEF Recalls
        <5> QED BY <2>1, <2>2, <2>4, <4>2, <5>1 DEF Message
      <4>3. CASE j # cursor + 1
        <5>1. state.at[topic[j]] \in 1..j
          BY <2>3, <3>2, <4>3 DEF Recalls
        <5> QED BY <2>1, <2>2, <2>4, <4>1, <5>1
      <4> QED BY <4>2, <4>3
    <3> QED BY <3>1, <3>2 DEF Recalls
  <2>6. AckedBy(cleared, state', cursor + 1)
    BY <1>0, <2>2, <2>3 DEF AckedBy, Messages
  <2>7. MemoryInv'
    BY <2>1, <2>5, <2>6 DEF MemoryInv, Forgot
  <2>8. FileInv' /\ ClearedInv'
    BY <1>0, <2>1, Kept DEF Alive, FileInv, ClearedInv, Before, Messages
  <2> QED BY <1>1, <2>1, <2>7, <2>8 DEF Alive
<1>9. ASSUME ReadIdleReply \/ \E s \in Alarms : ClearRefused(s) PROVE Alive'
  <2>1. /\ UNCHANGED <<topic, second, disk, state, cleared>> /\ pc = "batch" /\ pc' = "batch"
        /\ cursor' = cursor + 1 /\ topic[cursor + 1] = Reply /\ (Forgot' <=> Forgot)
    BY <1>9 DEF ReadIdleReply, ClearRefused, Reading, Message, Forgot
  <2>2. Recalls(topic, Forgot, state, cursor) /\ AckedBy(cleared, state, cursor)
    BY <2>1 DEF Alive, MemoryInv
  <2>3. Recalls(topic, Forgot, state, cursor + 1)
    BY <1>0, <2>1, <2>2, RecallsReply
  <2>4. AckedBy(cleared, state, cursor + 1)
    BY <1>0, <2>2 DEF AckedBy, Messages
  <2>5. MemoryInv'
    BY <2>1, <2>3, <2>4 DEF MemoryInv
  <2>6. FileInv' /\ ClearedInv'
    BY <1>0, <2>1, Kept DEF Alive, FileInv, ClearedInv, Before, Messages
  <2> QED BY <1>1, <2>1, <2>5, <2>6 DEF Alive
<1>10. ASSUME NEW s \in Alarms, Clear(s) PROVE Alive'
  <2> DEFINE c == <<cursor + 1, s>>
  <2>1. /\ UNCHANGED <<topic, second, disk, cursor, astray>> /\ pc = "batch" /\ pc' = "acked"
        /\ cleared' = cleared \cup {c} /\ topic[cursor + 1] = Reply /\ cursor < Len(topic)
        /\ c[1] = cursor + 1 /\ c[2] = s
        /\ state' = [state EXCEPT !.acked = @ \cup {s}] /\ Newest(s)
    BY <1>10 DEF Clear, Reading, Message
  <2> HIDE DEF c
  <2>2. state'.acked = state.acked \cup {s} /\ state'.at = state.at
    BY <2>1 DEF States
  <2>3. /\ Recalls(topic, Forgot, state, cursor) /\ AckedBy(cleared, state, cursor)
        /\ Before(cleared, cursor) /\ Once
    BY <2>1 DEF Alive, MemoryInv, ClearedInv
  <2>4. \A d \in cleared : d[1] \in Nat /\ d[1] < cursor + 1
    BY <1>0, <2>3 DEF Before, Messages
  <2>5. Once'
    BY <1>0, <2>1, <2>3, <2>4 DEF Once
  <2>6. state.at \in [Alarms -> 0..MaxMessages] /\ state.at[s] \in 1..cursor
        /\ topic[state.at[s]] = s
    <3>1. state.at \in [Alarms -> 0..MaxMessages] /\ state.at[s] # 0
      BY <2>1 DEF States, Newest, Active
    <3>2. state.at[s] <= cursor /\ topic[state.at[s]] = s
      BY <2>3, <3>1 DEF Recalls
    <3> QED BY <3>1, <3>2
  <2>7. Justified(topic, second, Forgot, cleared', c)
    <3>0. ASSUME NEW k \in 1..cursor PROVE k \in DOMAIN topic /\ second[k] \in Nat
      <4>1. k \in DOMAIN topic
        BY <2>1
      <4> QED BY <4>1, TimedFacts
    <3>1. ASSUME ~Forgot, NEW b \in 1 .. cursor, topic[b] \in Alarms \ {s}
          PROVE  \/ \E d \in cleared' : d[1] < cursor + 1 /\ d[2] = topic[b]
                 \/ \E e \in DOMAIN topic :
                      topic[e] = topic[b] /\ second[e] <= second[state.at[s]]
      <4> DEFINE t == topic[b]
      <4>1. t \in Alarms /\ t # s /\ state.at[t] \in 1..cursor /\ topic[state.at[t]] = t
        <5>1. b \in 1..cursor /\ t \in Alarms /\ t # s /\ t # Reply
          BY <2>6, <3>1
        <5>2. state.at[t] \in 1..b
          BY <2>3, <3>1, <5>1 DEF Recalls
        <5> QED BY <2>3, <5>1, <5>2 DEF Recalls
      <4>2. CASE t \in state.acked
        <5>1. PICK d \in cleared : d[2] = t /\ d[1] <= cursor
          BY <2>3, <4>2 DEF AckedBy
        <5> QED BY <2>1, <2>4, <5>1
      <4>3. CASE t \notin state.acked
        <5>1. t \in Active
          BY <4>1, <4>3 DEF Active
        <5>2. state.at[t] \in DOMAIN topic /\ second[state.at[t]] \in Nat
          BY <4>1, <3>0
        <5>3. second[state.at[s]] \in Nat
          BY <2>6, <3>0
        <5>4. second[state.at[t]] <= second[state.at[s]]
          <6> HIDE DEF t
          <6>1. TimeOf(t) < TimeOf(s) \/ TimeOf(t) = TimeOf(s)
            BY <2>1, <5>1 DEF Newest
          <6> QED BY <5>2, <5>3, <6>1 DEF TimeOf
        <5> QED BY <4>1, <5>2, <5>4
      <4> QED BY <4>2, <4>3
    <3>2. state.at[s] \in DOMAIN topic /\ state.at[s] < c[1] /\ c[1] - 1 = cursor
      <4>1. state.at[s] \in DOMAIN topic
        BY <2>6, <3>0
      <4>2. cursor \in Nat /\ state.at[s] \in 1..cursor /\ c[1] = cursor + 1
        BY <1>0, <2>1, <2>6
      <4> QED BY <4>1, <4>2
    <3>3. ASSUME ~Forgot, NEW b \in 1 .. c[1] - 1
          PROVE  Newer(topic, second, cleared', c, state.at[s], b)
      <4>1. b \in 1..cursor /\ c[1] = cursor + 1 /\ c[2] = s
        BY <2>1, <3>2, <3>3
      <4> QED BY <3>1, <3>3, <4>1 DEF Newer
    <3> QED BY <2>1, <2>6, <3>2, <3>3 DEF Justified
  <2>8. AllJustified'
    <3>1. Forgot' = Forgot
      BY <2>1 DEF Forgot
    <3> QED BY <2>1, <2>7, <3>1, Kept DEF AllJustified
  <2>9. AckedBy(cleared', state', cursor + 1)
    <3>1. ASSUME NEW t \in state'.acked PROVE \E d \in cleared' : d[2] = t /\ d[1] <= cursor + 1
      <4>1. CASE t = s
        BY <1>0, <2>1, <4>1
      <4>2. CASE t \in state.acked
        <5>1. PICK d \in cleared : d[2] = t /\ d[1] <= cursor
          BY <2>3, <4>2 DEF AckedBy
        <5> QED BY <1>0, <2>1, <2>4, <5>1
      <4> QED BY <2>2, <4>1, <4>2
    <3> QED BY <3>1 DEF AckedBy
  <2>10. Recalls(topic, Forgot, state', cursor)
    BY <2>2, <2>3 DEF Recalls
  <2>11. MemoryInv'
    BY <2>1, <2>9, <2>10 DEF MemoryInv, Forgot
  <2>12. ClearedInv' /\ FileInv'
    BY <1>0, <2>1, <2>4 DEF ClearedInv, FileInv, Before
  <2> QED BY <2>5, <2>8, <2>11, <2>12 DEF Alive
<1>11. ASSUME SaveAck PROVE Alive'
  <2>1. /\ UNCHANGED <<topic, second, state, cleared, astray>> /\ pc = "acked" /\ pc' = "batch"
        /\ cursor' = cursor + 1
    BY <1>11 DEF SaveAck
  <2>2. /\ Recalls(topic, Forgot, state, cursor) /\ AckedBy(cleared, state, cursor + 1)
        /\ topic[cursor + 1] = Reply
    BY <2>1 DEF Alive, MemoryInv
  <2>3. Recalls(topic, Forgot, state, cursor + 1)
    BY <1>0, <2>2, RecallsReply
  <2>4. MemoryInv'
    BY <2>1, <2>2, <2>3 DEF MemoryInv, Forgot
  <2>5. FileInv' /\ ClearedInv'
    BY <2>1, Kept DEF Alive, FileInv, ClearedInv
  <2> QED BY <1>1, <2>1, <2>4, <2>5 DEF Alive
<1>12. ASSUME EndBatch PROVE Alive'
  <2>1. /\ UNCHANGED <<topic, second, cleared, astray, cursor>> /\ pc = "batch" /\ pc' = "poll"
        /\ disk' = state' /\ state' = [state EXCEPT !.cursor = cursor]
    BY <1>12 DEF EndBatch
  <2>2. /\ state'.cursor = cursor /\ state'.at = state.at /\ state'.acked = state.acked
        /\ state' # Torn
    BY <2>1 DEF States
  <2>3. /\ Recalls(topic, Forgot, state, cursor) /\ AckedBy(cleared, state, cursor)
        /\ Before(cleared, cursor)
    BY <2>1 DEF Alive, MemoryInv, ClearedInv
  <2>4. Recalls(topic, Forgot, state', cursor) /\ AckedBy(cleared, state', cursor)
    BY <2>2, <2>3 DEF Recalls, AckedBy
  <2>5. FileInv' /\ MemoryInv'
    BY <2>1, <2>2, <2>4 DEF FileInv, MemoryInv, Forgot
  <2>6. ClearedInv'
    BY <2>1, <2>2, <2>3, Kept DEF ClearedInv
  <2> QED BY <1>1, <2>1, <2>5, <2>6 DEF Alive
<1>13. ASSUME Die PROVE Alive'
  <2>1. /\ UNCHANGED <<topic, second, cleared>> /\ pc \in {"warm-up", "poll"}
        /\ pc' = "off" /\ disk' \in {disk, Torn} /\ (pc = "poll" => disk' = disk)
        /\ (Forgot' <=> Forgot)
    BY <1>13 DEF Die, Saving, Forgot
  <2>2. FileInv' /\ MemoryInv'
    BY <1>0, <2>1, Kept DEF Alive, FileInv, MemoryInv
  <2>3. ClearedInv'
    BY <2>1, Kept DEF Alive, ClearedInv
  <2> QED BY <1>1, <2>1, <2>2, <2>3 DEF Alive
<1>14. ASSUME UNCHANGED vars PROVE Alive'
  BY <1>2, <1>14 DEF vars
<1> QED
  BY <1>3, <1>4, <1>5, <1>6, <1>7, <1>8, <1>9, <1>10, <1>11, <1>12, <1>13, <1>14 DEF Next, Step

LEMMA InvHolds == Spec => []Inv
BY InvInit, InvNext, PTL DEF Spec

\* One reply clears at most one alarm, unless the watcher died inside a batch.
THEOREM AckOneAlarmPerReply == Spec => []OneAlarmPerReply
<1>1. Inv => OneAlarmPerReply
  BY DEF Inv, Alive, Once, OneAlarmPerReply
<1> QED BY InvHolds, <1>1, PTL

\* The alarm a reply clears was raised before it, and no alarm of a later second was
\* waiting then, unless the watcher died inside a batch or had passed messages over in a
\* warm-up. Of two alarms of one second nothing is said.
THEOREM AckReplyClearsNewest == Spec => []ReplyClearsNewest
<1>1. Inv => ReplyClearsNewest
  <2> SUFFICES ASSUME Inv, "killed" \notin astray, NEW c \in cleared
               PROVE  \E a \in Raised(c[2]) :
                        /\ a < c[1]
                        /\ ~Forgot => \A b \in 1 .. c[1] - 1 :
                             topic[b] \in Alarms \ {c[2]} /\ second[a] < second[b] =>
                               \/ \E d \in cleared : d[1] < c[1] /\ d[2] = topic[b]
                               \/ \E e \in Raised(topic[b]) : second[e] <= second[a]
    BY DEF ReplyClearsNewest, Forgot
  <2>1. Justified(topic, second, Forgot, cleared, c)
    BY DEF Inv, Alive, AllJustified
  <2>2. PICK a \in DOMAIN topic :
          /\ topic[a] = c[2] /\ a < c[1]
          /\ ~Forgot => \A b \in 1 .. c[1] - 1 : Newer(topic, second, cleared, c, a, b)
    BY <2>1 DEF Justified
  <2> QED BY <2>2 DEF Newer, Raised
<1> QED BY InvHolds, <1>1, PTL
===============================================================================
