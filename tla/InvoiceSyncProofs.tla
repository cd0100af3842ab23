--------------------------- MODULE InvoiceSyncProofs --------------------------
(***************************************************************************)
(* The invoice sync's types and its four safety promises, for any invoices,  *)
(* contents, runners, changes and faults. The argument: while no run has     *)
(* gone on without the lock, at most one run is under way, so that what it    *)
(* has compared with is still what is stored when it stores and when it       *)
(* announces, and what it has fetched is no older than what is stored.        *)
(***************************************************************************)
EXTENDS InvoiceSync, FiniteSetTheorems, TLAPS

\* Revisions count Square's changes; what was fetched or stored is of the past.
Revisions ==
  /\ \A i \in Invoices : square[i].rev <= changes /\ mirror[i].rev <= square[i].rev
  /\ \A r \in Runners, i \in Invoices : resp[r][i].rev <= square[i].rev
\* The topics of an event are those of the change it tells.
Honest == \A i \in Invoices : \A k \in DOMAIN bus[i] :
  bus[i][k].topics = TopicsOf(bus[i][k].was, bus[i][k].now)
Types == TypeOK /\ Revisions /\ Honest

\* Only the holder of the lock is under way.
Alone == \A r \in Runners : pc[r] # "idle" => lock = r
\* What a run has fetched is no older than what it will replace.
Ahead(r) == pc[r] \in {"fetched", "guarded", "compared"} =>
  \A i \in Exists(resp[r]) : mirror[i].rev <= resp[r][i].rev
\* What a run compares with is what was stored and announced before it.
Known(r) == \A i \in Exists(resp[r]) :
  /\ pc[r] = "compared" => prior[r][i] = mirror[i]
  /\ pc[r] = "stored" => mirror[i].content = Stored(resp[r][i].content)
  /\ pc[r] \in {"compared", "stored"} /\ i \notin gap =>
       Agrees(Announced(i), prior[r][i].content)
Told == \A i \in Invoices :
  i \in gap \/ BeingAnnounced(i) \/ Agrees(Announced(i), mirror[i].content)
\* The events q of one invoice join.
Joined(q) == \A k \in DOMAIN q :
  /\ IF k = 1 THEN q[k].was = None ELSE Agrees(q[k - 1].now, q[k].was)
  /\ q[k].again => q[k].now.date # None
Chain == \A i \in Invoices \ gap : Joined(bus[i])
Orderly == Alone /\ (\A r \in Runners : Ahead(r) /\ Known(r)) /\ Told /\ Chain
Inv == Types /\ (~unlocked => Orderly)

-----------------------------------------------------------------------------
LEMMA StoredFacts ==
  /\ \A c \in Contents : /\ Stored(c) \in Undated
                         /\ Stored(c).status = c.status /\ Stored(c).terms = c.terms
                         /\ Stored(c).paid = c.paid /\ Stored(c).date = None
  /\ \A u \in Undated : u # None /\ u.paid \in Nat /\ u.date = None
  /\ \A c \in Contents : c # None /\ c.paid \in Nat
BY InvoiceSyncAssumption DEF Stored, Undated

LEMMA TopicsFacts ==
  ASSUME NEW was \in Undated \cup {None}, NEW now \in Contents
  PROVE  /\ TopicsOf(was, now) \subseteq Topics
         /\ TopicsOf(was, now) = {} => was # None /\ ~Differs(was, now) /\ was.paid <= now.paid
         /\ "deposit_received" \in TopicsOf(was, now) => was # None /\ was.paid = 0
         /\ was # None /\ "changed" \in TopicsOf(was, now) => Differs(was, now)
<1>1. CASE was = None
  BY <1>1 DEF TopicsOf, Topics
<1>2. CASE was # None
  <2>1. TopicsOf(was, now) \subseteq Topics
    BY <1>2 DEF TopicsOf
  <2>2. ASSUME Differs(was, now) PROVE "changed" \in TopicsOf(was, now)
    BY <1>2, <2>2 DEF TopicsOf, Topics
  <2>3. ASSUME ~(was.paid <= now.paid) PROVE "refunded" \in TopicsOf(was, now)
    <3>1. now.paid < was.paid
      BY <1>2, <2>3, StoredFacts
    <3> QED BY <1>2, <3>1 DEF TopicsOf, Topics
  <2>4. "deposit_received" \in TopicsOf(was, now) => was.paid = 0
    BY <1>2 DEF TopicsOf, Topics
  <2>5. "changed" \in TopicsOf(was, now) => Differs(was, now)
    BY <1>2 DEF TopicsOf, Topics
  <2> QED BY <1>2, <2>1, <2>2, <2>3, <2>4, <2>5
<1> QED BY <1>1, <1>2

\* Who was told a content knows what is stored of it; and knows the next content if
\* that was not worth an event.
LEMMA AgreesFacts ==
  /\ \A c \in Contents : Agrees(c, Stored(c))
  /\ \A said \in Contents \cup {None}, u \in Undated, c \in Contents :
       Agrees(said, u) /\ ~Differs(u, c) /\ u.paid <= c.paid => Agrees(said, Stored(c))
BY StoredFacts DEF Agrees, Differs

LEMMA Counting ==
  /\ Cardinality(Invoices) \in Nat
  /\ \A got \in SUBSET Invoices : Cardinality(got) \in 0..Cardinality(Invoices)
BY InvoiceSyncAssumption, FS_CardinalityType, FS_Subset

LEMMA NoRowsFacts ==
  /\ NoRows \in Rows(Contents) /\ NoRows \in Rows(Undated)
  /\ \A i \in Invoices : NoRows[i].content = None /\ NoRows[i].rev = 0
BY InvoiceSyncAssumption DEF NoRows, Rows, NoRow

\* Marking the last event changes no other field of any.
LastAgain(q) == [q EXCEPT ![Len(q)].again = TRUE]

LEMMA Marked ==
  ASSUME NEW q \in Seq(Event), q # <<>>
  PROVE  /\ LastAgain(q) \in Seq(Event)
         /\ Len(LastAgain(q)) = Len(q) /\ DOMAIN LastAgain(q) = DOMAIN q
         /\ \A k \in DOMAIN q :
              /\ LastAgain(q)[k].was = q[k].was /\ LastAgain(q)[k].now = q[k].now
              /\ LastAgain(q)[k].topics = q[k].topics
              /\ k # Len(q) => LastAgain(q)[k].again = q[k].again
<1> DEFINE n == Len(q)  w == [q EXCEPT ![n].again = TRUE]
<1>1. n \in 1..Len(q) /\ DOMAIN q = 1..n /\ \A k \in 1..n : q[k] \in Event
  OBVIOUS
<1>2. DOMAIN w = 1..n /\ \A k \in 1..n : w[k] = IF k = n THEN [q[k] EXCEPT !.again = TRUE] ELSE q[k]
  BY <1>1
<1>3. \A k \in 1..n :
        /\ w[k] \in Event
        /\ w[k].was = q[k].was /\ w[k].now = q[k].now /\ w[k].topics = q[k].topics
        /\ k # n => w[k].again = q[k].again
  BY <1>1, <1>2 DEF Event
<1>4. w \in [1..n -> Event]
  <2> DEFINE last == [q[n] EXCEPT !.again = TRUE]
  <2>1. last \in Event
    BY <1>1 DEF Event
  <2>2. w = [q EXCEPT ![n] = last] /\ q \in [1..n -> Event]
    BY <1>1
  <2> HIDE DEF last, w
  <2> QED BY <1>1, <2>1, <2>2
<1> HIDE DEF w
<1>5. w \in Seq(Event)
  BY <1>1, <1>4
<1>6. Len(w) = n /\ DOMAIN w = DOMAIN q
  BY <1>1, <1>4, <1>5
<1>7. LastAgain(q) = w
  BY DEF LastAgain, w
<1> QED BY <1>1, <1>3, <1>5, <1>6, <1>7

LEMMA InvInit == Init => Inv
<1> SUFFICES ASSUME Init PROVE Inv
  OBVIOUS
<1>1. TypeOK
  <2>1. /\ square \in Rows(Contents) /\ mirror \in Rows(Undated)
        /\ resp \in [Runners -> Rows(Contents)] /\ prior \in [Runners -> Rows(Undated)]
    BY NoRowsFacts DEF Init
  <2>2. bus \in [Invoices -> Seq(Event)]
    BY DEF Init
  <2>3. seenOk \in 0..Cardinality(Invoices) /\ seen \in [Runners -> 0..Cardinality(Invoices)]
    BY Counting DEF Init
  <2>4. deposits \in [Invoices -> Nat] /\ pc \in [Runners -> Steps]
    BY DEF Init, Steps
  <2>5. MaxChanges \in Nat /\ MaxFaults \in Nat
    BY InvoiceSyncAssumption
  <2>6. /\ lock \in Runners \cup {None} /\ gap \in SUBSET Invoices
        /\ changes \in 0..MaxChanges /\ faults \in 0..MaxFaults
    BY <2>5 DEF Init
  <2>7. unlocked \in BOOLEAN
    BY Zenon DEF Init
  <2> QED BY <2>1, <2>2, <2>3, <2>4, <2>6, <2>7 DEF TypeOK
<1>2. Revisions
  BY NoRowsFacts DEF Init, Revisions
<1>3. Honest /\ Chain
  BY DEF Init, Honest, Chain, Joined
<1>4. Exists(NoRows) = {}
  BY NoRowsFacts DEF Exists
<1>5. \A i \in Invoices : Agrees(Announced(i), mirror[i].content)
  BY NoRowsFacts DEF Init, Announced, Agrees
<1>6. Alone /\ Told /\ \A r \in Runners : Ahead(r) /\ Known(r)
  BY <1>4, <1>5 DEF Init, Alone, Told, Ahead, Known
<1> QED BY <1>1, <1>2, <1>3, <1>6 DEF Inv, Types, Orderly

-----------------------------------------------------------------------------
\* Leaving the sync forgets the rows and the lock.
LEMMA LeaveTypes ==
  ASSUME Types, NEW r \in Runners, Leave(r)
  PROVE  /\ lock' \in Runners \cup {None} /\ pc' \in [Runners -> Steps]
         /\ resp' \in [Runners -> Rows(Contents)] /\ prior' \in [Runners -> Rows(Undated)]
         /\ seen' \in [Runners -> 0..Cardinality(Invoices)]
         /\ \A q \in Runners : resp'[q] = IF q = r THEN NoRows ELSE resp[q]
         /\ \A q \in Runners : pc'[q] = IF q = r THEN "idle" ELSE pc[q]
         /\ UNCHANGED <<square, mirror, bus, deposits, changes, unlocked>>
BY Counting, NoRowsFacts DEF Types, TypeOK, Leave, Forget, Steps

LEMMA EventTypes ==
  ASSUME Types, NEW r \in Runners, NEW i \in Unannounced(r)
  PROVE  /\ EventOf(r, i) \in Event /\ ~EventOf(r, i).again
         /\ EventOf(r, i).topics = TopicsOf(EventOf(r, i).was, EventOf(r, i).now)
         /\ EventOf(r, i).was = prior[r][i].content /\ EventOf(r, i).now = resp[r][i].content
<1>1. prior[r][i].content \in Undated \cup {None} /\ resp[r][i].content \in Contents
  BY DEF Types, TypeOK, Rows, Unannounced, Exists
<1> QED BY <1>1, TopicsFacts DEF EventOf, Event

\* What publishing an event does to the events of its invoice.
LEMMA PublishFacts ==
  ASSUME Types, NEW r \in Runners, NEW i \in Unannounced(r), NEW q, q = Publish(i, EventOf(r, i))
  PROVE  /\ q \in Seq(Event) /\ q # <<>> /\ q[Len(q)].now = resp[r][i].content
         /\ \A k \in DOMAIN q : q[k].topics = TopicsOf(q[k].was, q[k].now)
         /\ Joined(bus[i]) /\ Agrees(Announced(i), prior[r][i].content) => Joined(q)
<1> DEFINE e == EventOf(r, i)
<1>0. i \in Invoices /\ bus[i] \in Seq(Event)
  BY DEF Types, TypeOK, Unannounced, Exists
<1>1. /\ e \in Event /\ ~e.again /\ e.topics = TopicsOf(e.was, e.now)
      /\ e.was = prior[r][i].content /\ e.now = resp[r][i].content
  BY EventTypes
<1>2. e.was \in Undated \cup {None} /\ e.now \in Contents
  BY <1>1 DEF Event
<1>3. \A k \in DOMAIN bus[i] : bus[i][k].topics = TopicsOf(bus[i][k].was, bus[i][k].now)
  BY <1>0 DEF Types, Honest
<1>4. q = IF Echo(i, e) THEN [bus[i] EXCEPT ![Len(bus[i])].again = TRUE] ELSE Append(bus[i], e)
  BY DEF Publish
<1> HIDE DEF e
<1>5. CASE Echo(i, e)
  <2>1. bus[i] # <<>> /\ bus[i][Len(bus[i])].now = e.now
    BY <1>2, <1>5, StoredFacts DEF Echo, Announced
  <2>2. /\ q \in Seq(Event) /\ Len(q) = Len(bus[i]) /\ DOMAIN q = DOMAIN bus[i]
        /\ \A k \in DOMAIN bus[i] :
             /\ q[k].was = bus[i][k].was /\ q[k].now = bus[i][k].now
             /\ q[k].topics = bus[i][k].topics
             /\ k # Len(bus[i]) => q[k].again = bus[i][k].again
    <3>1. q = LastAgain(bus[i])
      BY <1>4, <1>5 DEF LastAgain
    <3> QED BY <1>0, <2>1, <3>1, Marked
  <2>3. Len(bus[i]) \in DOMAIN bus[i] /\ q # <<>>
    BY <1>0, <2>1, <2>2
  <2>4. q[Len(q)].now = e.now
    BY <2>1, <2>2, <2>3
  <2>5. e.now.date # None
    <3>1. "changed" \in TopicsOf(e.was, e.now) /\ e.was = Stored(e.now) /\ e.was # None
      BY <1>1, <1>2, <1>5, StoredFacts DEF Echo
    <3>2. Differs(e.was, e.now)
      BY <1>2, <3>1, TopicsFacts
    <3> QED BY <1>2, <3>1, <3>2, StoredFacts DEF Differs
  <2>6. ASSUME Joined(bus[i]), NEW k \in DOMAIN q
        PROVE  /\ IF k = 1 THEN q[k].was = None ELSE Agrees(q[k - 1].now, q[k].was)
               /\ q[k].again => q[k].now.date # None
    <3>1. k \in DOMAIN bus[i] /\ (k # 1 => k - 1 \in DOMAIN bus[i])
      BY <1>0, <2>2, <2>6
    <3>2. IF k = 1 THEN q[k].was = None ELSE Agrees(q[k - 1].now, q[k].was)
      BY <2>2, <2>6, <3>1 DEF Joined
    <3>3. q[k].again => q[k].now.date # None
      BY <2>1, <2>2, <2>5, <2>6, <3>1 DEF Joined
    <3> QED BY <3>2, <3>3
  <2> QED BY <1>1, <1>3, <2>2, <2>3, <2>4, <2>6 DEF Joined
<1>6. CASE ~Echo(i, e)
  <2>1. q = Append(bus[i], e)
    BY <1>4, <1>6
  <2>2. /\ q \in Seq(Event) /\ Len(q) = Len(bus[i]) + 1 /\ q # <<>> /\ q[Len(q)] = e
        /\ DOMAIN q = 1..Len(bus[i]) + 1 /\ Len(bus[i]) \in Nat /\ DOMAIN bus[i] = 1..Len(bus[i])
        /\ \A k \in 1..Len(bus[i]) : q[k] = bus[i][k]
    BY <1>0, <1>1, <2>1
  <2>3. ASSUME NEW k \in DOMAIN q PROVE q[k].topics = TopicsOf(q[k].was, q[k].now)
    <3>1. CASE k = Len(q)
      BY <1>1, <2>2, <3>1
    <3>2. CASE k # Len(q)
      <4>1. k \in DOMAIN bus[i] /\ q[k] = bus[i][k]
        BY <2>2, <2>3, <3>2
      <4> QED BY <1>3, <4>1
    <3> QED BY <3>1, <3>2
  <2>4. ASSUME Joined(bus[i]), Agrees(Announced(i), e.was), NEW k \in DOMAIN q
        PROVE  /\ IF k = 1 THEN q[k].was = None ELSE Agrees(q[k - 1].now, q[k].was)
               /\ q[k].again => q[k].now.date # None
    <3>1. CASE k = Len(q)
      <4>1. CASE bus[i] = <<>>
        <5>1. k = 1 /\ e.was = None
          BY <1>0, <1>2, <2>2, <2>4, <3>1, <4>1 DEF Announced, Agrees
        <5> QED BY <1>1, <2>2, <3>1, <5>1
      <4>2. CASE bus[i] # <<>>
        <5>1. k # 1 /\ k - 1 = Len(bus[i]) /\ k - 1 \in 1..Len(bus[i])
          BY <1>0, <2>2, <3>1, <4>2
        <5>2. Agrees(q[k - 1].now, e.was)
          BY <2>2, <2>4, <4>2, <5>1 DEF Announced
        <5> QED BY <1>1, <2>2, <3>1, <5>1, <5>2
      <4> QED BY <4>1, <4>2
    <3>2. CASE k # Len(q)
      <4>1. k \in DOMAIN bus[i] /\ (k # 1 => k - 1 \in DOMAIN bus[i])
        BY <2>2, <2>4, <3>2
      <4> QED BY <2>2, <2>4, <4>1 DEF Joined
    <3> QED BY <3>1, <3>2
  <2> QED BY <1>1, <2>2, <2>3, <2>4 DEF Joined
<1> QED BY <1>5, <1>6

LEMMA TypesNext == Types /\ [Next]_vars => Types'
<1> SUFFICES ASSUME Types, [Next]_vars PROVE Types'
  OBVIOUS
<1> USE InvoiceSyncAssumption DEF Types, stores, locals
<1>0. /\ TypeOK /\ Revisions /\ Honest
      /\ \A i \in Invoices : square[i].rev \in Nat /\ mirror[i].rev \in Nat
      /\ \A r \in Runners, i \in Invoices : resp[r][i].rev \in Nat
      /\ changes \in Nat
  BY DEF TypeOK, Rows
<1>1. ASSUME NEW i \in Invoices, NEW c \in Contents \cup {None}, SquareChanges(i, c) PROVE Types'
  <2> USE <1>1 DEF SquareChanges
  <2>1. square[i].rev + 1 \in 0..MaxChanges /\ changes' \in 0..MaxChanges
    BY <1>0 DEF TypeOK, Revisions
  <2>2. /\ square' \in Rows(Contents) /\ \A j \in Invoices : square'[j].rev =
            IF j = i THEN square[j].rev + 1 ELSE square[j].rev
    BY <1>0, <2>1 DEF TypeOK, Rows
  <2>3. TypeOK'
    BY <1>0, <2>1, <2>2 DEF TypeOK
  <2>4. Revisions'
    BY <1>0, <2>2 DEF Revisions
  <2> QED BY <1>0, <2>3, <2>4 DEF Honest
<1>2. ASSUME NEW r \in Runners, Start(r) \/ StartUnlocked(r) \/ Guard(r) PROVE Types'
  <2>1. /\ UNCHANGED <<square, mirror, bus, deposits, seenOk, resp, prior, seen, changes, gap>>
        /\ lock' \in Runners \cup {None} /\ pc' \in [Runners -> Steps]
        /\ faults' \in 0..MaxFaults /\ unlocked' \in BOOLEAN
    <3>1. CASE Start(r)
      BY <1>0, <3>1 DEF Start, Goto, TypeOK, Steps
    <3>2. CASE StartUnlocked(r)
      BY <1>0, <3>2 DEF StartUnlocked, Goto, Fault, TypeOK, Steps
    <3>3. CASE Guard(r)
      BY <1>0, <3>3 DEF Guard, Goto, TypeOK, Steps
    <3> QED BY <1>2, <3>1, <3>2, <3>3
  <2> QED BY <1>0, <2>1 DEF TypeOK, Revisions, Honest
<1>3. ASSUME NEW r \in Runners, Fetch(r) \/ FetchTruncated(r) PROVE Types'
  <2>1. PICK got \in SUBSET Exists(square) : Receive(r, got) /\ faults' \in 0..MaxFaults
    <3>1. CASE Fetch(r)
      BY <1>0, <3>1 DEF Fetch, NoFault, TypeOK
    <3>2. CASE FetchTruncated(r)
      <4>1. PICK got \in SUBSET Exists(square) : Receive(r, got) /\ Fault
        BY <3>2 DEF FetchTruncated
      <4>2. faults' \in 0..MaxFaults
        BY <1>0, <4>1 DEF Fault, TypeOK
      <4> QED BY <4>1, <4>2
    <3> QED BY <1>3, <3>1, <3>2
  <2>2. got \in SUBSET Invoices
    BY DEF Exists
  <2> DEFINE rows == [i \in Invoices |-> IF i \in got THEN square[i] ELSE NoRow]
  <2>3. rows \in Rows(Contents) /\ \A i \in Invoices : rows[i].rev <= square[i].rev
    BY <1>0 DEF TypeOK, Rows, NoRow
  <2> HIDE DEF rows
  <2>4. resp' \in [Runners -> Rows(Contents)] /\ \A q \in Runners : resp'[q] = IF q = r THEN rows ELSE resp[q]
    BY <1>0, <2>1, <2>3 DEF Receive, TypeOK, rows
  <2>5. seen' \in [Runners -> 0..Cardinality(Invoices)] /\ pc' \in [Runners -> Steps]
    BY <1>0, <2>1, <2>2, Counting DEF Receive, Goto, TypeOK, Steps
  <2>6. UNCHANGED <<square, mirror, bus, deposits, seenOk, lock, prior, changes, gap, unlocked>>
    BY <2>1 DEF Receive
  <2>7. TypeOK'
    BY <1>0, <2>1, <2>4, <2>5, <2>6 DEF TypeOK
  <2>8. Revisions'
    BY <1>0, <2>3, <2>4, <2>6 DEF Revisions
  <2> QED BY <1>0, <2>6, <2>7, <2>8 DEF Honest
<1>4. ASSUME NEW r \in Runners, Compare(r) PROVE Types'
  <2> DEFINE rows == [i \in Invoices |-> IF i \in Exists(resp[r]) THEN mirror[i] ELSE NoRow]
  <2>1. rows \in Rows(Undated)
    BY <1>0 DEF TypeOK, Rows, NoRow
  <2> HIDE DEF rows
  <2>2. prior' \in [Runners -> Rows(Undated)] /\ pc' \in [Runners -> Steps]
    BY <1>0, <1>4, <2>1 DEF Compare, Goto, TypeOK, Steps, rows
  <2> QED BY <1>0, <1>4, <2>2 DEF Compare, TypeOK, Revisions, Honest
<1>5. ASSUME NEW r \in Runners, Upsert(r) PROVE Types'
  <2>0. \A i \in Invoices : mirror'[i] = IF i \in Exists(resp[r])
                                       THEN [resp[r][i] EXCEPT !.content = Stored(@)] ELSE mirror[i]
    BY <1>5 DEF Upsert
  <2>3. \A i \in Exists(resp[r]) : i \in Invoices /\ resp[r][i].content \in Contents
                                  /\ resp[r][i] \in [content : Contents \cup {None}, rev : 0..MaxChanges]
    BY <1>0 DEF Exists, TypeOK, Rows
  <2>4. \A i \in Invoices : /\ mirror'[i] \in [content : Undated \cup {None}, rev : 0..MaxChanges]
                           /\ mirror'[i].rev = IF i \in Exists(resp[r]) THEN resp[r][i].rev ELSE mirror[i].rev
    <3>1. ASSUME NEW i \in Exists(resp[r])
          PROVE  /\ mirror'[i] \in [content : Undated \cup {None}, rev : 0..MaxChanges]
                 /\ mirror'[i].rev = resp[r][i].rev
      <4> DEFINE row == resp[r][i]
      <4>1. /\ row \in [content : Contents \cup {None}, rev : 0..MaxChanges]
            /\ Stored(row.content) \in Undated
        BY <2>3, <3>1, StoredFacts
      <4>2. mirror'[i] = [row EXCEPT !.content = Stored(@)]
        BY <2>0, <2>3, <3>1
      <4> HIDE DEF row
      <4>3. mirror'[i] = [content |-> Stored(row.content), rev |-> row.rev]
        BY <4>1, <4>2
      <4> QED BY <4>1, <4>3 DEF row
    <3>2. ASSUME NEW i \in Invoices, i \notin Exists(resp[r])
          PROVE  mirror'[i] = mirror[i]
                 /\ mirror[i] \in [content : Undated \cup {None}, rev : 0..MaxChanges]
      BY <1>0, <2>0, <3>2 DEF TypeOK, Rows
    <3> QED BY <3>1, <3>2
  <2>1. mirror' \in Rows(Undated) /\ pc' \in [Runners -> Steps]
    BY <1>0, <1>5, <2>4 DEF Upsert, Goto, TypeOK, Steps, Rows
  <2>2. Revisions'
    BY <1>0, <1>5, <2>4 DEF Upsert, Revisions
  <2> QED BY <1>0, <1>5, <2>1, <2>2 DEF Upsert, TypeOK, Honest
<1>6. ASSUME NEW r \in Runners, Emit(r) PROVE Types'
  <2>1. /\ UNCHANGED <<square, mirror, deposits, seenOk, lock, seen, changes, faults, gap, unlocked>>
        /\ resp' \in [Runners -> Rows(Contents)] /\ prior' \in [Runners -> Rows(Undated)]
        /\ pc' \in [Runners -> Steps]
        /\ \A q \in Runners : resp'[q] = IF q = r THEN NoRows ELSE resp[q]
    BY <1>0, <1>6, NoRowsFacts DEF Emit, Forget, Goto, TypeOK, Steps
  <2>2. ASSUME NEW i \in Invoices
        PROVE  /\ bus'[i] \in Seq(Event)
               /\ \A k \in DOMAIN bus'[i] : bus'[i][k].topics = TopicsOf(bus'[i][k].was, bus'[i][k].now)
    <3>1. bus[i] \in Seq(Event)
      BY <1>0 DEF TypeOK
    <3>2. CASE i \in Unannounced(r)
      <4>1. bus'[i] = Publish(i, EventOf(r, i))
        BY <1>6, <3>2 DEF Emit
      <4> QED BY <1>0, <3>2, <4>1, PublishFacts
    <3>3. CASE i \notin Unannounced(r)
      BY <1>0, <1>6, <3>1, <3>3 DEF Emit, Honest
    <3> QED BY <3>2, <3>3
  <2>3. bus' \in [Invoices -> Seq(Event)] /\ Honest'
    BY <1>6, <2>2 DEF Emit, Honest
  <2>4. TypeOK'
    BY <1>0, <2>1, <2>3 DEF TypeOK
  <2>5. Revisions'
    BY <1>0, <2>1, NoRowsFacts DEF Revisions
  <2> QED BY <2>3, <2>4, <2>5
<1>7. ASSUME NEW r \in Runners, Refresh(r) PROVE Types'
  <2>1. ASSUME NEW i \in Invoices
        PROVE  Money(mirror[i]) \in Nat
    BY <1>0, StoredFacts DEF TypeOK, Rows, Money
  <2>2. deposits' \in [Invoices -> Nat] /\ pc' \in [Runners -> Steps]
    BY <1>0, <1>7, <2>1 DEF Refresh, Goto, TypeOK, Steps
  <2> QED BY <1>0, <1>7, <2>2 DEF Refresh, TypeOK, Revisions, Honest
<1>8. ASSUME NEW r \in Runners, Finish(r) \/ Refuse(r) \/ Fail(r) PROVE Types'
  <2>1. Leave(r)
    BY <1>8 DEF Finish, Refuse, Fail
  <2>2. seenOk' \in 0..Cardinality(Invoices) /\ faults' \in 0..MaxFaults /\ gap' \in SUBSET Invoices
    BY <1>0, <1>8 DEF Finish, Refuse, Fail, Fault, TypeOK, Unannounced, Exists
  <2>3. TypeOK'
    BY <1>0, <2>1, <2>2, LeaveTypes DEF TypeOK
  <2>4. Revisions'
    BY <1>0, <2>1, LeaveTypes, NoRowsFacts DEF Revisions
  <2> QED BY <1>0, <2>1, <2>3, <2>4, LeaveTypes DEF Honest
<1>9. ASSUME UNCHANGED vars PROVE Types'
  BY <1>0, <1>9 DEF vars, TypeOK, Revisions, Honest
<1> QED
  BY <1>1, <1>2, <1>3, <1>4, <1>5, <1>6, <1>7, <1>8, <1>9 DEF Next, Progress

-----------------------------------------------------------------------------
\* Runs that do not hold the lock are idle, so a step is that of the holder.
LEMMA OthersIdle ==
  ASSUME Types, Alone, NEW r \in Runners, pc[r] # "idle"
  PROVE  \A q \in Runners \ {r} : pc[q] = "idle"
BY DEF Alone

\* What a step changes of nothing but pc and of what Orderly does not speak of.
LEMMA OrderlyMoves ==
  ASSUME Types, Orderly, NEW r \in Runners, NEW to \in Steps,
         pc' = [pc EXCEPT ![r] = to], lock' = lock \/ (lock = None /\ lock' = r),
         to # "idle" => lock' = r,
         pc[r] # "stored" /\ to \notin {"compared", "stored"},
         to \in {"fetched", "guarded"} => pc[r] \in {"fetched", "guarded"},
         UNCHANGED <<mirror, bus, resp, prior, gap>>
  PROVE  Orderly'
<1> USE DEF Types
<1>1. \A q \in Runners : pc'[q] = IF q = r THEN to ELSE pc[q]
  BY DEF TypeOK
<1>2. Alone'
  BY <1>1, InvoiceSyncAssumption DEF Orderly, Alone
<1>3. \A q \in Runners : Ahead(q)'
  BY <1>1 DEF Orderly, Ahead
<1>4. \A q \in Runners : Known(q)'
  BY <1>1 DEF Orderly, Known, Announced
<1>5. \A i \in Invoices : BeingAnnounced(i) => BeingAnnounced(i)'
  BY <1>1 DEF BeingAnnounced, Unannounced
<1>6. Told' /\ Chain'
  BY <1>5 DEF Orderly, Told, Chain, Announced
<1> QED BY <1>2, <1>3, <1>4, <1>6 DEF Orderly

LEMMA InvNext == Inv /\ [Next]_vars => Inv'
<1> SUFFICES ASSUME Types, Types', [Next]_vars, Orderly, ~unlocked' PROVE Orderly'
  <2>1. Inv /\ [Next]_vars => (unlocked => unlocked')
    BY Zenon DEF Next, vars, SquareChanges, Start, StartUnlocked, FetchTruncated, Receive, Progress,
          Fetch, Guard, Compare, Upsert, Emit, Refresh, Finish, Refuse, Fail, Leave
  <2> QED BY <2>1, TypesNext DEF Inv
<1> USE DEF Types
<1>1. ASSUME UNCHANGED <<pc, lock, mirror, bus, resp, prior, gap>> PROVE Orderly'
  BY <1>1 DEF Orderly, Alone, Ahead, Known, Told, Chain, Announced, BeingAnnounced, Unannounced
<1>2. ASSUME NEW i \in Invoices, NEW c \in Contents \cup {None}, SquareChanges(i, c) PROVE Orderly'
  BY <1>1, <1>2 DEF SquareChanges, locals, stores
<1>3. ASSUME NEW r \in Runners, Start(r) PROVE Orderly'
  <2>1. pc[r] = "idle" /\ pc' = [pc EXCEPT ![r] = "fetching"] /\ lock = None /\ lock' = r
        /\ UNCHANGED <<mirror, bus, resp, prior, gap>>
    BY <1>3 DEF Start, Goto, stores
  <2> QED BY <2>1, OrderlyMoves DEF Steps
<1>4. ASSUME NEW r \in Runners, Guard(r) \/ Refresh(r) PROVE Orderly'
  <2>1. CASE Guard(r)
    <3>1. pc[r] = "fetched" /\ pc' = [pc EXCEPT ![r] = "guarded"] /\ lock' = lock
          /\ UNCHANGED <<mirror, bus, resp, prior, gap>>
      BY <2>1 DEF Guard, Goto, stores
    <3>2. lock = r
      BY <3>1 DEF Orderly, Alone
    <3> QED BY <3>1, <3>2, OrderlyMoves DEF Steps
  <2>2. CASE Refresh(r)
    <3>1. pc[r] = "emitted" /\ pc' = [pc EXCEPT ![r] = "refreshed"] /\ lock' = lock
          /\ UNCHANGED <<mirror, bus, resp, prior, gap>>
      BY <2>2 DEF Refresh, Goto
    <3>2. lock = r
      BY <3>1 DEF Orderly, Alone
    <3> QED BY <3>1, <3>2, OrderlyMoves DEF Steps
  <2> QED BY <1>4, <2>1, <2>2
\* The remaining steps are those of a run under way, the only one.
<1>5. ASSUME NEW r \in Runners, pc[r] # "idle", pc[r] # "stored"
      PROVE  /\ lock = r /\ \A q \in Runners \ {r} : pc[q] = "idle"
             /\ \A i \in Invoices \ gap : Agrees(Announced(i), mirror[i].content)
  BY <1>5, OthersIdle DEF Orderly, Alone, Told, BeingAnnounced
<1>6. ASSUME NEW r \in Runners, NEW got, Receive(r, got) PROVE Orderly'
  <2>1. /\ pc[r] = "fetching" /\ \A q \in Runners : pc'[q] = IF q = r THEN "fetched" ELSE pc[q]
        /\ UNCHANGED <<mirror, bus, lock, gap>>
    BY <1>6 DEF Receive, Goto, TypeOK, stores
  <2>2. lock = r /\ (\A q \in Runners \ {r} : pc'[q] = "idle")
        /\ \A i \in Invoices \ gap : Agrees(Announced(i), mirror[i].content)
    BY <1>5, <2>1
  <2>3. \A i \in Exists(resp'[r]) : i \in Invoices /\ resp'[r][i] = square[i]
    BY <1>6 DEF Receive, Exists, TypeOK, NoRow
  <2>4. \A q \in Runners : Ahead(q)'
    BY <2>1, <2>2, <2>3 DEF Ahead, Revisions
  <2>5. \A q \in Runners : Known(q)'
    BY <2>1, <2>2 DEF Known
  <2>6. Alone' /\ Told' /\ Chain'
    BY <2>1, <2>2 DEF Orderly, Alone, Told, Chain, Announced
  <2> QED BY <2>4, <2>5, <2>6 DEF Orderly
<1>7. ASSUME NEW r \in Runners, Compare(r) PROVE Orderly'
  <2>1. /\ pc[r] = "guarded" /\ \A q \in Runners : pc'[q] = IF q = r THEN "compared" ELSE pc[q]
        /\ UNCHANGED <<mirror, bus, lock, gap, resp>>
        /\ \A i \in Exists(resp[r]) : i \in Invoices /\ prior'[r][i] = mirror[i]
    BY <1>7 DEF Compare, Goto, TypeOK, stores, Exists
  <2>2. lock = r /\ (\A q \in Runners \ {r} : pc'[q] = "idle")
        /\ \A i \in Invoices \ gap : Agrees(Announced(i), mirror[i].content)
    BY <1>5, <2>1
  <2>3. \A q \in Runners : Ahead(q)'
    BY <2>1, <2>2 DEF Orderly, Ahead
  <2>4. \A q \in Runners : Known(q)'
    BY <2>1, <2>2 DEF Known, Announced
  <2>5. Alone' /\ Told' /\ Chain'
    BY <2>1, <2>2 DEF Orderly, Alone, Told, Chain, Announced
  <2> QED BY <2>3, <2>4, <2>5 DEF Orderly
<1>8. ASSUME NEW r \in Runners, Upsert(r) PROVE Orderly'
  <2>1. /\ pc[r] = "compared" /\ \A q \in Runners : pc'[q] = IF q = r THEN "stored" ELSE pc[q]
        /\ UNCHANGED <<bus, lock, gap, resp, prior>>
        /\ \A i \in Invoices : mirror'[i] = IF i \in Exists(resp[r])
                                            THEN [resp[r][i] EXCEPT !.content = Stored(@)] ELSE mirror[i]
    BY <1>8 DEF Upsert, Goto, TypeOK
  <2>2. lock = r /\ (\A q \in Runners \ {r} : pc'[q] = "idle")
        /\ \A i \in Invoices \ gap : Agrees(Announced(i), mirror[i].content)
    BY <1>5, <2>1
  <2>3. \A i \in Exists(resp[r]) : i \in Invoices /\ (i \notin gap => Agrees(Announced(i), prior[r][i].content))
    BY <2>1 DEF Orderly, Known, Exists
  <2>4. \A q \in Runners : Ahead(q)'
    BY <2>1, <2>2 DEF Ahead
  <2>8. \A i \in Exists(resp[r]) : /\ resp[r][i].content \in Contents
                                   /\ mirror'[i].content = Stored(resp[r][i].content)
    <3>1. resp[r] \in Rows(Contents)
      BY DEF TypeOK
    <3>2. ASSUME NEW i \in Exists(resp[r])
          PROVE  /\ i \in Invoices /\ resp[r][i].content \in Contents
                 /\ resp[r][i] \in [content : Contents \cup {None}, rev : 0..MaxChanges]
      BY <3>1, <3>2 DEF Exists, Rows
    <3> QED BY <2>1, <3>2
  <2>5. \A q \in Runners : Known(q)'
    BY <2>1, <2>2, <2>3, <2>8 DEF Known, Announced
  <2>6. ASSUME NEW i \in Invoices \ gap
        PROVE  BeingAnnounced(i)' \/ Agrees(Announced(i), mirror'[i].content)
    <3>1. CASE i \notin Exists(resp[r])
      BY <2>1, <2>2, <3>1
    <3>2. CASE i \in Unannounced(r)
      BY <2>1, <3>2 DEF BeingAnnounced, Unannounced
    <3>3. CASE i \in Exists(resp[r]) /\ i \notin Unannounced(r)
      <4>1. prior[r][i].content \in Undated \cup {None} /\ Announced(i) \in Contents \cup {None}
        <5>1. bus[i] \in Seq(Event) /\ prior[r] \in Rows(Undated)
          BY DEF TypeOK
        <5>2. bus[i] # <<>> => bus[i][Len(bus[i])] \in Event
          BY <5>1
        <5> QED BY <5>1, <5>2 DEF Rows, Announced, Event
      <4>2. TopicsOf(prior[r][i].content, resp[r][i].content) = {}
        BY <3>3 DEF Unannounced
      <4>3. /\ prior[r][i].content # None /\ ~Differs(prior[r][i].content, resp[r][i].content)
            /\ prior[r][i].content.paid <= resp[r][i].content.paid
        BY <2>8, <3>3, <4>1, <4>2, TopicsFacts
      <4>4. Agrees(Announced(i), Stored(resp[r][i].content))
        BY <2>3, <2>8, <3>3, <4>1, <4>3, AgreesFacts
      <4> QED BY <2>8, <3>3, <4>4
    <3> QED BY <3>1, <3>2, <3>3
  <2>7. Alone' /\ Told' /\ Chain'
    BY <2>1, <2>2, <2>6 DEF Orderly, Alone, Told, Chain, Announced
  <2> QED BY <2>4, <2>5, <2>7 DEF Orderly
<1>9. ASSUME NEW r \in Runners, Emit(r) PROVE Orderly'
  <2>1. /\ pc[r] = "stored" /\ \A q \in Runners : pc'[q] = IF q = r THEN "emitted" ELSE pc[q]
        /\ UNCHANGED <<mirror, lock, gap>>
        /\ \A i \in Invoices : bus'[i] = IF i \in Unannounced(r) THEN Publish(i, EventOf(r, i))
                                         ELSE bus[i]
    BY <1>9 DEF Emit, Goto, TypeOK
  <2>2. lock = r /\ (\A q \in Runners \ {r} : pc[q] = "idle" /\ pc'[q] = "idle")
    BY <2>1, OthersIdle DEF Orderly, Alone
  <2>3. \A i \in Exists(resp[r]) : /\ i \in Invoices /\ mirror[i].content = Stored(resp[r][i].content)
                                   /\ resp[r][i].content \in Contents
                                   /\ i \notin gap => Agrees(Announced(i), prior[r][i].content)
    <3>1. resp[r] \in Rows(Contents)
      BY DEF TypeOK
    <3>2. ASSUME NEW i \in Exists(resp[r]) PROVE i \in Invoices /\ resp[r][i].content \in Contents
      BY <3>1, <3>2 DEF Exists, Rows
    <3> QED BY <2>1, <3>2 DEF Orderly, Known
  <2>4. \A q \in Runners : Ahead(q)' /\ Known(q)'
    BY <2>1, <2>2 DEF Ahead, Known
  <2>5. ASSUME NEW i \in Invoices \ gap
        PROVE  Agrees(Announced(i)', mirror[i].content) /\ Joined(bus'[i])
    <3>0. Joined(bus[i])
      BY DEF Orderly, Chain
    <3>1. CASE i \in Unannounced(r)
      <4>1. bus'[i] = Publish(i, EventOf(r, i)) /\ i \in Exists(resp[r])
        BY <2>1, <3>1 DEF Unannounced
      <4>2. bus'[i] # <<>> /\ bus'[i][Len(bus'[i])].now = resp[r][i].content /\ Joined(bus'[i])
        BY <2>3, <3>0, <3>1, <4>1, PublishFacts
      <4>3. Announced(i)' = resp[r][i].content
        BY <4>2 DEF Announced
      <4> QED BY <2>3, <4>1, <4>2, <4>3, AgreesFacts
    <3>2. CASE i \notin Unannounced(r)
      <4>1. ~BeingAnnounced(i) /\ bus'[i] = bus[i]
        BY <2>1, <2>2, <3>2 DEF BeingAnnounced
      <4> QED BY <3>0, <4>1 DEF Orderly, Told, Announced
    <3> QED BY <3>1, <3>2
  <2>6. Alone' /\ Told' /\ Chain'
    BY <2>1, <2>2, <2>5 DEF Orderly, Alone, Told, Chain
  <2> QED BY <2>4, <2>6 DEF Orderly
<1>10. ASSUME NEW r \in Runners, Finish(r) \/ Refuse(r) \/ Fail(r) PROVE Orderly'
  <2>1. /\ Leave(r) /\ pc[r] # "idle" /\ gap \subseteq gap'
        /\ pc[r] = "stored" => Unannounced(r) \subseteq gap'
    BY <1>10 DEF Finish, Refuse, Fail
  <2>2. UNCHANGED <<mirror, bus>> /\ \A q \in Runners : pc'[q] = "idle"
    BY <2>1, LeaveTypes, OthersIdle DEF Orderly
  <2>3. \A i \in Invoices : BeingAnnounced(i) => i \in gap'
    BY <2>1, OthersIdle DEF BeingAnnounced, Orderly
  <2>4. Told' /\ Chain'
    BY <2>1, <2>2, <2>3 DEF Orderly, Told, Chain, Announced
  <2> QED BY <2>2, <2>4 DEF Orderly, Alone, Ahead, Known
<1>11. ASSUME UNCHANGED vars PROVE Orderly'
  BY <1>1, <1>11 DEF vars, stores, locals
<1>12. ASSUME NEW r \in Runners PROVE ~StartUnlocked(r)
  BY Zenon DEF StartUnlocked
<1> QED
  BY <1>2, <1>3, <1>4, <1>6, <1>7, <1>8, <1>9, <1>10, <1>11, <1>12
     DEF Next, Progress, Fetch, FetchTruncated

LEMMA InvHolds == Spec => []Inv
BY InvInit, InvNext, PTL DEF Spec

\* The sync's variables hold what their declarations say, however many runs
\* overlap.
THEOREM InvoiceSyncTypes == Spec => []TypeOK
<1>1. Inv => TypeOK
  BY DEF Inv, Types
<1> QED BY InvHolds, <1>1, PTL

\* The last event of an invoice says what the table says, unless its change was
\* stored by a run that ended before it announced it.
THEOREM SyncBusTellsMirror == Spec => []BusTellsMirror
<1>1. Inv => BusTellsMirror
  BY DEF Inv, Orderly, Told, BusTellsMirror
<1> QED BY InvHolds, <1>1, PTL

\* The events of an invoice join without a gap.
THEOREM SyncChainUnbroken == Spec => []ChainUnbroken
<1>1. Inv => ChainUnbroken
  BY DEF Inv, Orderly, Chain, Joined, ChainUnbroken
<1> QED BY InvHolds, <1>1, PTL

\* Between two deposits of an invoice the bus has said that the money was gone.
THEOREM SyncDepositTriggersOnce == Spec => []DepositTriggersOnce
<1>1. Inv => DepositTriggersOnce
  <2> SUFFICES ASSUME Inv, ~unlocked, NEW i \in Invoices \ gap,
                      NEW a \in DOMAIN bus[i], NEW b \in DOMAIN bus[i], a < b,
                      "deposit_received" \in bus[i][b].topics
               PROVE  \E z \in a..b : bus[i][z].now.paid = 0
    BY DEF DepositTriggersOnce
  <2>1. bus[i] \in Seq(Event) /\ bus[i][b] \in Event /\ a \in Nat /\ b \in Nat /\ 1 <= a
    BY DEF Inv, Types, TypeOK
  <2>2. Agrees(bus[i][b - 1].now, bus[i][b].was) /\ bus[i][b - 1].now \in Contents
    <3>1. b # 1 /\ b - 1 \in DOMAIN bus[i]
      BY <2>1
    <3>2. bus[i][b - 1] \in Event /\ Joined(bus[i])
      BY <2>1, <3>1 DEF Inv, Orderly, Chain
    <3> QED BY <3>1, <3>2 DEF Joined, Event
  <2>3. bus[i][b].was # None /\ bus[i][b].was.paid = 0
    <3>1. bus[i][b].topics = TopicsOf(bus[i][b].was, bus[i][b].now)
      BY DEF Inv, Types, Honest
    <3>2. bus[i][b].was \in Undated \cup {None} /\ bus[i][b].now \in Contents
      BY <2>1 DEF Event
    <3> QED BY <3>1, <3>2, TopicsFacts
  <2>4. bus[i][b - 1].now.paid = 0
    BY <2>2, <2>3, StoredFacts DEF Agrees
  <2> QED BY <2>1, <2>4
<1> QED BY InvHolds, <1>1, PTL

\* A stored row is never replaced by an earlier state of its invoice.
THEOREM SyncMirrorNeverGoesBack == Spec => MirrorNeverGoesBack
<1>1. Inv /\ Inv' /\ [Next]_vars => [~unlocked => \A i \in Invoices : mirror[i].rev <= mirror'[i].rev]_vars
  <2> SUFFICES ASSUME Inv, [Next]_vars, ~unlocked, NEW i \in Invoices
               PROVE  mirror[i].rev <= mirror'[i].rev
    OBVIOUS
  <2>1. mirror[i].rev \in Nat
    BY DEF Inv, Types, TypeOK, Rows
  <2>2. CASE UNCHANGED mirror
    BY <2>1, <2>2
  <2>3. ASSUME NEW r \in Runners, Upsert(r) PROVE mirror[i].rev <= mirror'[i].rev
    <3>1. pc[r] = "compared"
      BY <2>3 DEF Upsert, Goto
    <3>2. \A j \in Exists(resp[r]) : mirror[j].rev <= resp[r][j].rev
      BY <3>1 DEF Inv, Orderly, Ahead
    <3>3. mirror'[i].rev = IF i \in Exists(resp[r]) THEN resp[r][i].rev ELSE mirror[i].rev
      BY <2>3 DEF Upsert, Inv, Types, TypeOK, Rows
    <3> QED BY <2>1, <3>2, <3>3
  <2>4. UNCHANGED mirror \/ \E r \in Runners : Upsert(r)
    BY DEF Next, vars, stores, SquareChanges, Start, StartUnlocked, FetchTruncated, Receive, Progress,
           Fetch, Guard, Compare, Emit, Refresh, Finish, Refuse, Fail, Leave
  <2> QED BY <2>2, <2>3, <2>4
<1> QED BY InvHolds, <1>1, PTL DEF Spec, MirrorNeverGoesBack
===============================================================================
