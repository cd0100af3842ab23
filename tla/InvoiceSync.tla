------------------------------ MODULE InvoiceSync -----------------------------
(***************************************************************************)
(* square_invoice_sync.py: every half hour the invoices of Square are       *)
(* fetched, compared with the stored rows, written over them, announced on  *)
(* the event bus and projected into the table of invoices with a deposit.   *)
(* The four writes are four transactions of one run; a run may end, or its  *)
(* process die, between any two of them. A lock file keeps runs apart; a    *)
(* run that cannot open it carries on without.                              *)
(*                                                                         *)
(* Of an invoice the model keeps its status, the amount paid, its terms     *)
(* (total, amount due, due date, customer, number) and the date of the       *)
(* event, which is compared but never stored. The events one run emits for   *)
(* one invoice are one entry of the bus, with the set of their topics.       *)
(***************************************************************************)
EXTENDS Integers, FiniteSets, Sequences

CONSTANTS
  Invoices, Contents,   \* identities; records [status, paid, terms, date]
  Runners,              \* processes that may run the sync: the timer's, a manual one
  None,
  MaxChanges, MaxFaults \* bounds of the model on Square's changes and on failures

\* What upsert stores of an invoice: everything but the date of the event.
Stored(c) == [status |-> c.status, paid |-> c.paid, terms |-> c.terms, date |-> None]

ASSUME InvoiceSyncAssumption ==
  /\ \A c \in Contents : /\ DOMAIN c = {"status", "paid", "terms", "date"}
                         /\ c.paid \in Nat
  /\ None \notin Contents \cup {Stored(c) : c \in Contents} \cup Runners
  /\ IsFiniteSet(Invoices)
  /\ MaxChanges \in Nat /\ MaxFaults \in Nat

VARIABLES
  square,      \* Square: content and revision of each invoice
  mirror,      \* table square_invoices
  bus,         \* system_events, topic invoice.*, by invoice
  deposits,    \* table invoices_with_deposit: amount paid, by invoice
  seenOk,      \* square_invoice_sync_log: invoices_seen of the last ok run
  lock, pc, resp, seen, prior,   \* the lock file, and the locals of each run
  changes, faults,         \* what the bounds have used up
  gap,         \* history: invoices with a stored change nobody announced
  unlocked     \* history: some run went on without the lock

stores == <<mirror, bus, deposits, seenOk>>
locals == <<pc, resp, seen, prior>>
vars   == <<square, stores, lock, locals, changes, faults, gap, unlocked>>

NoRow == [content |-> None, rev |-> 0]
Undated == {Stored(c) : c \in Contents}
Rows(C) == [Invoices -> [content : C \cup {None}, rev : 0..MaxChanges]]
Exists(rows) == {i \in Invoices : rows[i].content # None}

Topics == {"created", "deposit_received", "paid", "canceled", "refunded", "changed"}
Event  == [topics : SUBSET Topics, was : Undated \cup {None}, now : Contents, again : BOOLEAN]

Steps == {"idle", "fetching", "fetched", "guarded", "compared", "stored",
          "emitted", "refreshed"}

TypeOK ==
  /\ square \in Rows(Contents) /\ mirror \in Rows(Undated)
  /\ bus \in [Invoices -> Seq(Event)]
  /\ deposits \in [Invoices -> Nat]
  /\ seenOk \in 0..Cardinality(Invoices)
  /\ lock \in Runners \cup {None}
  /\ pc \in [Runners -> Steps]
  /\ resp \in [Runners -> Rows(Contents)] /\ prior \in [Runners -> Rows(Undated)]
  /\ seen \in [Runners -> 0..Cardinality(Invoices)]
  /\ changes \in 0..MaxChanges /\ faults \in 0..MaxFaults
  /\ gap \in SUBSET Invoices /\ unlocked \in BOOLEAN

NoRows == [i \in Invoices |-> NoRow]

Init ==
  /\ square = NoRows /\ mirror = NoRows
  /\ bus = [i \in Invoices |-> <<>>]
  /\ deposits = [i \in Invoices |-> 0]
  /\ seenOk = 0
  /\ lock = None
  /\ pc = [r \in Runners |-> "idle"]
  /\ resp = [r \in Runners |-> NoRows] /\ prior = [r \in Runners |-> NoRows]
  /\ seen = [r \in Runners |-> 0]
  /\ changes = 0 /\ faults = 0
  /\ gap = {} /\ unlocked = FALSE

Goto(r, from, to) == pc[r] = from /\ pc' = [pc EXCEPT ![r] = to]
Fault == faults < MaxFaults /\ faults' = faults + 1
NoFault == UNCHANGED faults

\* Square (external): an invoice is created or becomes something else, or is not
\* found any more (c = None): deleted, or its location is not active.
SquareChanges(i, c) ==
  /\ changes < MaxChanges
  /\ square[i].content # c
  /\ changes' = changes + 1
  /\ square' = [square EXCEPT ![i] = [content |-> c, rev |-> @.rev + 1]]
  /\ UNCHANGED <<stores, lock, locals, faults, gap, unlocked>>

\* Mutant of Start: a run that finds the lock taken or refused goes on as well.
StartAnyway(r) ==
  /\ Goto(r, "idle", "fetching")
  /\ lock' = IF lock = None THEN r ELSE lock
  /\ UNCHANGED <<square, stores, resp, seen, prior, changes, faults, gap, unlocked>>

\* main takes the lock; held by another run it returns at once, which changes
\* nothing.
Start(r) ==
  /\ Goto(r, "idle", "fetching")
  /\ lock = None
  /\ lock' = r
  /\ UNCHANGED <<square, stores, resp, seen, prior, changes, faults, gap, unlocked>>

\* An OSError, as on a lock file another user made: an alert is written and the run
\* continues.
StartUnlocked(r) ==
  /\ Goto(r, "idle", "fetching")
  /\ Fault
  /\ unlocked' = TRUE
  /\ UNCHANGED <<square, stores, lock, resp, seen, prior, changes, gap>>

Receive(r, got) ==
  /\ Goto(r, "fetching", "fetched")
  /\ resp' = [resp EXCEPT ![r] = [i \in Invoices |-> IF i \in got THEN square[i] ELSE NoRow]]
  /\ seen' = [seen EXCEPT ![r] = Cardinality(got)]
  /\ UNCHANGED <<square, stores, lock, prior, changes, gap, unlocked>>

\* fetch_all_invoices, every page of it; a truncated answer is a fault of Square.
Fetch(r) == Receive(r, Exists(square)) /\ NoFault
FetchTruncated(r) ==
  \E got \in (SUBSET Exists(square)) \ {Exists(square)} : Receive(r, got) /\ Fault

\* previous_successful_count and the anomaly guard.
Suspicious(n) == seenOk > 0 /\ 2 * n < seenOk

Guard(r) ==
  /\ Goto(r, "fetched", "guarded")
  /\ ~Suspicious(seen[r])
  /\ UNCHANGED <<square, stores, lock, resp, seen, prior, changes, faults, gap, unlocked>>

\* Mutant of Compare: the stored rows are read as they will be after the upsert.
CompareTooLate(r) ==
  /\ Goto(r, "guarded", "compared")
  /\ prior' = resp
  /\ UNCHANGED <<square, stores, lock, resp, seen, changes, faults, gap, unlocked>>

\* prior_state: the rows before this run's upsert, on a connection of its own.
Compare(r) ==
  /\ Goto(r, "guarded", "compared")
  /\ prior' = [prior EXCEPT ![r] =
       [i \in Invoices |-> IF i \in Exists(resp[r]) THEN mirror[i] ELSE NoRow]]
  /\ UNCHANGED <<square, stores, lock, resp, seen, changes, faults, gap, unlocked>>

\* upsert: whatever the rows are by now, they become what was fetched; the rows of
\* invoices that were not fetched stay.
Upsert(r) ==
  /\ Goto(r, "compared", "stored")
  /\ mirror' = [i \in Invoices |->
       IF i \in Exists(resp[r]) THEN [resp[r][i] EXCEPT !.content = Stored(@)] ELSE mirror[i]]
  /\ UNCHANGED <<square, bus, deposits, seenOk, lock, resp, seen, prior, changes, faults,
                 gap, unlocked>>

\* The fields invoice.changed compares: not the amount paid.
Differs(was, now) ==
  was.status # now.status \/ was.terms # now.terms \/ was.date # now.date

\* Mutant of TopicsOf: a deposit is announced whenever money is there.
TopicsOfAnyMoney(was, now) ==
  IF was = None THEN {"created"} ELSE
  {t \in Topics \ {"created"} :
    CASE t = "deposit_received" -> now.paid > 0 /\ now.status # "CANCELED"
      [] t = "paid"     -> was.status # "PAID" /\ now.status = "PAID"
      [] t = "canceled" -> was.status # "CANCELED" /\ now.status = "CANCELED"
      [] t = "refunded" -> now.paid < was.paid
      [] t = "changed"  -> Differs(was, now)}

\* detect_and_emit's rules for one invoice.
TopicsOf(was, now) ==
  IF was = None THEN {"created"} ELSE
  {t \in Topics \ {"created"} :
    CASE t = "deposit_received" -> was.paid = 0 /\ now.paid > 0 /\ now.status # "CANCELED"
      [] t = "paid"     -> was.status # "PAID" /\ now.status = "PAID"
      [] t = "canceled" -> was.status # "CANCELED" /\ now.status = "CANCELED"
      [] t = "refunded" -> now.paid < was.paid
      [] t = "changed"  -> Differs(was, now)}

Unannounced(r) ==
  {i \in Exists(resp[r]) : TopicsOf(prior[r][i].content, resp[r][i].content) # {}}

EventOf(r, i) ==
  LET was == prior[r][i].content  now == resp[r][i].content
  IN  [topics |-> TopicsOf(was, now), was |-> was, now |-> now, again |-> FALSE]

Announced(i) == IF bus[i] = <<>> THEN None ELSE bus[i][Len(bus[i])].now

\* An event that tells what the last one told, of a row that has not changed. Runs
\* may repeat it for ever: it is marked on that event and not appended.
Echo(i, e) ==
  e.topics = {"changed"} /\ e.now = Announced(i) /\ e.was = Stored(e.now)

Publish(i, e) ==
  IF Echo(i, e) THEN [bus[i] EXCEPT ![Len(bus[i])].again = TRUE] ELSE Append(bus[i], e)

\* The rows a run holds are of no further use to it.
Forget(r) ==
  /\ resp' = [resp EXCEPT ![r] = NoRows]
  /\ prior' = [prior EXCEPT ![r] = NoRows]

\* detect_and_emit: the events of all invoices in one transaction.
Emit(r) ==
  /\ Goto(r, "stored", "emitted")
  /\ bus' = [i \in Invoices |->
       IF i \in Unannounced(r) THEN Publish(i, EventOf(r, i)) ELSE bus[i]]
  /\ Forget(r)
  /\ UNCHANGED <<square, mirror, deposits, seenOk, lock, seen, changes, faults, gap,
                 unlocked>>

\* Mutant of Refresh: rows whose money is gone are not pruned.
RefreshWithoutPrune(r) ==
  /\ Goto(r, "emitted", "refreshed")
  /\ deposits' = [i \in Invoices |->
       IF mirror[i].content # None /\ mirror[i].content.paid > 0
       THEN mirror[i].content.paid ELSE deposits[i]]
  /\ UNCHANGED <<square, mirror, bus, seenOk, lock, resp, seen, prior, changes, faults,
                 gap, unlocked>>

Money(row) == IF row.content = None THEN 0 ELSE row.content.paid

\* refresh_deposit_table: the rows with money, and no others.
Refresh(r) ==
  /\ Goto(r, "emitted", "refreshed")
  /\ deposits' = [i \in Invoices |-> Money(mirror[i])]
  /\ UNCHANGED <<square, mirror, bus, seenOk, lock, resp, seen, prior, changes, faults,
                 gap, unlocked>>

\* The process is over: its locals are gone and the system drops its lock.
Leave(r) ==
  /\ pc' = [pc EXCEPT ![r] = "idle"]
  /\ Forget(r)
  /\ seen' = [seen EXCEPT ![r] = 0]
  /\ lock' = IF lock = r THEN None ELSE lock
  /\ UNCHANGED <<square, mirror, bus, deposits, changes, unlocked>>

\* write_sync_log("ok").
Finish(r) ==
  /\ pc[r] = "refreshed"
  /\ seenOk' = seen[r]
  /\ Leave(r)
  /\ UNCHANGED <<faults, gap>>

Refuse(r) ==
  /\ pc[r] = "fetched"
  /\ Suspicious(seen[r])
  /\ Leave(r)
  /\ UNCHANGED <<seenOk, faults, gap>>

\* Any statement may raise, which is logged and alerted, or the process may die.
Fail(r) ==
  /\ pc[r] # "idle"
  /\ Fault
  /\ gap' = IF pc[r] = "stored" THEN gap \cup Unannounced(r) ELSE gap
  /\ Leave(r)
  /\ UNCHANGED seenOk

Progress(r) ==
  \/ Fetch(r) \/ Guard(r) \/ Compare(r) \/ Upsert(r) \/ Emit(r) \/ Refresh(r)
  \/ Finish(r) \/ Refuse(r)

Next ==
  \/ \E i \in Invoices, c \in Contents \cup {None} : SquareChanges(i, c)
  \/ \E r \in Runners : Start(r) \/ StartUnlocked(r) \/ FetchTruncated(r)
                        \/ Progress(r) \/ Fail(r)

\* systemd starts the timer's run again and again, and a run goes on. The bounds
\* leave only finitely many faults and changes, after which runs are undisturbed.
Fairness ==
  \A r \in Runners : WF_vars(Start(r)) /\ WF_vars(Progress(r))

Spec == Init /\ [][Next]_vars /\ Fairness

-------------------------------------------------------------------------------
(* What the sync promises as long as its runs are kept apart.               *)

BeingAnnounced(i) == \E r \in Runners : pc[r] = "stored" /\ i \in Unannounced(r)

\* Who was told `said` knows the row: status and terms, and that no less was paid. An
\* amount that grows while nothing less is due changes none of the fields compared.
Agrees(said, content) ==
  IF said = None \/ content = None THEN said = content
  ELSE /\ said.status = content.status /\ said.terms = content.terms
       /\ said.paid <= content.paid

\* Who follows the bus knows the table: the last event of an invoice agrees with the
\* stored row, except for an invoice whose change was stored by a run that ended
\* before it announced anything (detect_and_emit is a transaction of its own, and the
\* next run finds nothing to compare with). The date of the event, which is not
\* stored, is told but agrees with nothing.
BusTellsMirror ==
  ~unlocked => \A i \in Invoices :
    \/ i \in gap
    \/ BeingAnnounced(i)
    \/ Agrees(Announced(i), mirror[i].content)

\* The events of an invoice join without a gap or an overlap: each starts from what
\* the one before it ended with, the date apart, and only the first is a discovery.
\* None is told again of a row that has not changed, unless the invoice has a date:
\* of a dated one invoice.changed is emitted in every run.
ChainUnbroken ==
  ~unlocked => \A i \in Invoices \ gap : \A k \in DOMAIN bus[i] :
    /\ IF k = 1 THEN bus[i][k].was = None ELSE Agrees(bus[i][k - 1].now, bus[i][k].was)
    /\ bus[i][k].again => bus[i][k].now.date # None

\* invoice.deposit_received starts the downstream work once: a second one only
\* after the bus has said that the money was gone.
DepositTriggersOnce ==
  ~unlocked => \A i \in Invoices \ gap : \A a, b \in DOMAIN bus[i] :
    /\ a < b
    /\ "deposit_received" \in bus[i][a].topics
    /\ "deposit_received" \in bus[i][b].topics
    => \E z \in a..b : bus[i][z].now.paid = 0

\* A stored row is never replaced by an earlier state of the invoice.
MirrorNeverGoesBack ==
  [][~unlocked => \A i \in Invoices : mirror[i].rev <= mirror'[i].rev]_vars

\* When Square rests and the runs are no longer disturbed, table and projection come
\* to agree with Square, whatever was truncated, refused or lost before; the rows of
\* invoices Square does not list any more stay as they were. Unless Square's list is
\* truly shorter than half of the last one seen: then the guard refuses it for ever.
Converges ==
  <>[](\/ Suspicious(Cardinality(Exists(square)))
       \/ \A i \in Invoices :
            /\ i \in Exists(square) => mirror[i].content = Stored(square[i].content)
            /\ deposits[i] = Money(mirror[i]))
===============================================================================
