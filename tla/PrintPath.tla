------------------------------- MODULE PrintPath ------------------------------
(***************************************************************************)
(* From a paid invoice to a sheet of paper: order_ingest.py looks the order  *)
(* up, keeps it in a file and posts it on the bus; checklist_app.py reads    *)
(* the bus, makes one sheet per day and hands each to lp; what lp refuses    *)
(* goes to the spool, which printer-selfheal.sh, started by its timer and    *)
(* by the checklist, empties. Each is a process of its own, and systemd      *)
(* never runs one unit twice at a time.                                      *)
(*                                                                         *)
(* A row is reduced to the days it serves and one field standing for the     *)
(* rest the content hash covers; an order to its line items. The calendar    *)
(* is left out: every day lies in the windows of both programs, and a row    *)
(* whose days are outside them is a row that is not selected. A job lp       *)
(* accepts comes out, after those accepted before it.                        *)
(***************************************************************************)
EXTENDS Integers, FiniteSets, Sequences, Functions

CONSTANTS
  Invoices, Days,
  Rows, Items,          \* rows [days, rest] with money and an order; line items
  Timer, Called,        \* the two ways self-heal is started
  None, Torn,
  MaxChanges, MaxFaults \* bounds of the model on what Square and people change, on failures

ASSUME PrintPathAssumption ==
  /\ \A w \in Rows : DOMAIN w = {"days", "rest"} /\ w.days \in (SUBSET Days) \ {{}}
  /\ Timer # Called /\ None # Torn /\ {None, Torn} \cap (Items \cup Rows \cup Days) = {}
  /\ IsFiniteSet(Days) /\ MaxChanges \in Nat /\ MaxFaults \in Nat

VARIABLES
  row,       \* square_invoices: the row of each invoice, None if not selected
  cache,     \* the file of the order, Torn if it cannot be read
  bus,       \* system_events, topic order.captured
  snap,      \* order_ingest: the rows it still has to go through
  made,      \* checklist_app: the sheets it still has to print
  refused, copying, \* the day lp has just refused; its pdf is being copied to the spool
  spool,     \* the pdf that waits for each day, Broken if it is not whole
  paper,     \* the sheet that came out last for each day
  known,     \* .printer_state
  phase, toFlush, moving,    \* each self-heal: its step, files to come, file lp has accepted
  changes, faults,        \* what the bounds have used up
  owed,      \* history: the sheet refused last and not accepted since
  lost,      \* history: days whose sheet refused last did not reach the spool
  past       \* history: the rows each invoice has had before

outside  == <<row, past>>
ingest   == <<cache, bus, snap>>
consumer == <<made, refused, copying>>
printing == <<spool, paper, owed>>
heal     == <<known, phase, toFlush, moving>>
vars == <<outside, ingest, consumer, printing, heal, changes, faults, lost>>

Heals  == {Timer, Called}
Events == [inv : Invoices, items : Items, row : Rows]
Sheets == (SUBSET Events) \ {{}}
Nothing == <<>>
Broken  == {}        \* a file nothing can be printed from

TypeOK ==
  /\ row \in [Invoices -> Rows \cup {None}]
  /\ cache \in [Invoices -> Items \cup {None, Torn}]
  /\ bus \in Seq(Events)
  /\ DOMAIN snap \subseteq Invoices /\ \A i \in DOMAIN snap : snap[i] \in Rows
  /\ DOMAIN made \subseteq Days /\ \A d \in DOMAIN made : made[d] \in Sheets
  /\ refused \in Days \cup {None} /\ copying \in BOOLEAN
  /\ refused # None => refused \in DOMAIN made
  /\ copying => refused # None
  /\ {paper, owed} \subseteq [Days -> Sheets \cup {None}]
  /\ spool \in [Days -> Sheets \cup {None, Broken}]
  /\ known \in {"unknown", "UP", "DOWN"}
  /\ phase \in [Heals -> {"idle", "due", "flush"}]
  /\ toFlush \in [Heals -> SUBSET Days] /\ moving \in [Heals -> Days \cup {None}]
  /\ changes \in 0..MaxChanges /\ faults \in 0..MaxFaults
  /\ lost \subseteq Days /\ past \in [Invoices -> SUBSET (Rows \cup {None})]

Init ==
  /\ row = [i \in Invoices |-> None]
  /\ cache = [i \in Invoices |-> None]
  /\ bus = <<>> /\ snap = Nothing
  /\ made = Nothing /\ refused = None /\ copying = FALSE
  /\ spool = [d \in Days |-> None] /\ paper = spool /\ owed = spool
  /\ known = "unknown"
  /\ phase = [h \in Heals |-> "idle"]
  /\ toFlush = [h \in Heals |-> {}] /\ moving = [h \in Heals |-> None]
  /\ changes = 0 /\ faults = 0 /\ lost = {}
  /\ past = [i \in Invoices |-> {}]

Fault   == faults < MaxFaults /\ faults' = faults + 1
Drop(f, x) == Restrict(f, DOMAIN f \ {x})

-------------------------------------------------------------------------------
\* Square and the sync (external): a row appears, changes, or is no longer selected
\* (the money went back, the days left the window).
RowChanges(i, w) ==
  /\ changes < MaxChanges /\ changes' = changes + 1
  /\ row[i] # w
  /\ row' = [row EXCEPT ![i] = w]
  /\ past' = [past EXCEPT ![i] = @ \cup {row[i]}]
  /\ UNCHANGED <<ingest, consumer, printing, heal, faults, lost>>

-------------------------------------------------------------------------------
(* order_ingest.py                                                          *)

\* SQL_WINDOW, fetched whole before anything else.
IngestStarts ==
  /\ snap = Nothing
  /\ snap' = [i \in {j \in Invoices : row[j] # None} |-> row[i]]
  /\ UNCHANGED <<outside, cache, bus, consumer, printing, heal, changes, faults, lost>>

\* fetch_order without a file: Square (external) is asked for the order, which may
\* have changed any number of times before and will never be asked for again.
Fetch(i, x) ==
  /\ i \in DOMAIN snap /\ cache[i] = None
  /\ cache' = [cache EXCEPT ![i] = x]
  /\ UNCHANGED <<outside, bus, snap, consumer, printing, heal, changes, faults, lost>>

\* Square refuses, or the answer breaks off once the file has been opened.
FetchFails(i, left_behind) ==
  /\ i \in DOMAIN snap /\ cache[i] = None
  /\ Fault
  /\ cache' = [cache EXCEPT ![i] = left_behind]
  /\ snap' = Drop(snap, i)
  /\ UNCHANGED <<outside, bus, consumer, printing, heal, changes, lost>>

\* A file that exists is never written again, whether or not it can be read.
Unreadable(i) ==
  /\ i \in DOMAIN snap /\ cache[i] = Torn
  /\ snap' = Drop(snap, i)
  /\ UNCHANGED <<outside, cache, bus, consumer, printing, heal, changes, faults, lost>>

Capture(i) == [inv |-> i, items |-> cache[i], row |-> snap[i]]

\* Mutant of Carried: the hash covers the items alone.
CarriedItems(e) == \E k \in DOMAIN bus : bus[k].inv = e.inv /\ bus[k].items = e.items

\* The bus has carried this content of this invoice, however long ago.
Carried(e) == \E k \in DOMAIN bus : bus[k] = e

Post(i) ==
  /\ i \in DOMAIN snap /\ cache[i] \in Items
  /\ bus' = IF Carried(Capture(i)) THEN bus ELSE Append(bus, Capture(i))
  /\ snap' = Drop(snap, i)
  /\ UNCHANGED <<outside, cache, consumer, printing, heal, changes, faults, lost>>

IngestDies ==
  /\ snap # Nothing
  /\ Fault
  /\ snap' = Nothing
  /\ \/ UNCHANGED cache
     \/ \E i \in DOMAIN snap : /\ cache[i] = None
                               /\ cache' = [cache EXCEPT ![i] = Torn]
  /\ UNCHANGED <<outside, bus, consumer, printing, heal, changes, lost>>

-------------------------------------------------------------------------------
(* checklist_app.py                                                         *)

Posted(i) == {k \in DOMAIN bus : bus[k].inv = i}

\* pull_orders: the rows by id, the last one wins.
Newest == {bus[k] : k \in {n \in DOMAIN bus : \A m \in Posted(bus[n].inv) : m <= n}}

Sheet(d) == {e \in Newest : d \in e.row.days}

\* Mutant of ConsumerStarts: a day that has its sheet gets no other.
ConsumerPrintsOnce ==
  /\ made = Nothing /\ phase[Called] = "idle"
  /\ made' = [d \in {x \in Days : Sheet(x) # {} /\ paper[x] = None} |-> Sheet(d)]
  /\ UNCHANGED <<refused, copying, outside, ingest, printing, heal, changes, faults, lost>>

ConsumerStarts ==
  /\ made = Nothing /\ phase[Called] = "idle"
  /\ made' = [d \in {x \in Days : Sheet(x) # {}} |-> Sheet(d)]
  /\ UNCHANGED <<refused, copying, outside, ingest, printing, heal, changes, faults, lost>>

\* The checklist waits while the self-heal it called runs.
MayPrint(d) == d \in DOMAIN made /\ refused = None /\ phase[Called] = "idle"

PrintSheet(d) ==
  /\ MayPrint(d)
  /\ paper' = [paper EXCEPT ![d] = made[d]]
  /\ owed' = [owed EXCEPT ![d] = None]
  /\ made' = Drop(made, d)
  /\ UNCHANGED <<refused, copying, outside, ingest, spool, heal, changes, faults, lost>>

\* lp returns an error.
PrintFails(d) ==
  /\ MayPrint(d)
  /\ Fault
  /\ refused' = d
  /\ owed' = [owed EXCEPT ![d] = made[d]]
  /\ lost' = lost \ {d}
  /\ UNCHANGED <<made, copying, outside, ingest, paper, spool, heal, changes>>

\* shutil.copy opens the file of the spool, which empties an older one of its day, ...
CopyStarts ==
  /\ refused # None /\ ~copying
  /\ copying' = TRUE
  /\ spool' = [spool EXCEPT ![refused] = Broken]
  /\ UNCHANGED <<made, refused, outside, ingest, paper, owed, heal, changes, faults, lost>>

\* ... and fills it, in sent/ if it has been moved there by now. Then self-heal is called.
CopyEnds ==
  /\ copying
  /\ spool' = IF spool[refused] = Broken THEN [spool EXCEPT ![refused] = made[refused]] ELSE spool
  /\ lost' = IF spool[refused] # Broken \/ refused \in {moving[h] : h \in Heals}
             THEN lost \cup {refused} ELSE lost
  /\ made' = Drop(made, refused) /\ refused' = None /\ copying' = FALSE
  /\ phase' = [phase EXCEPT ![Called] = "due"]
  /\ UNCHANGED <<outside, ingest, paper, owed, known, toFlush, moving, changes, faults>>

\* cupsfilter fails: this sheet is left out.
RenderFails(d) ==
  /\ MayPrint(d)
  /\ Fault
  /\ made' = Drop(made, d)
  /\ UNCHANGED <<refused, copying, outside, ingest, printing, heal, changes, lost>>

Quit(h) ==
  /\ phase' = [phase EXCEPT ![h] = "idle"]
  /\ toFlush' = [toFlush EXCEPT ![h] = {}]
  /\ moving' = [moving EXCEPT ![h] = None]

\* It dies, or an exception ends it, the one of a failing copy among them. With it goes
\* the self-heal it called.
ConsumerDies ==
  /\ made # Nothing \/ phase[Called] # "idle"
  /\ Fault
  /\ made' = Nothing /\ refused' = None /\ copying' = FALSE
  /\ lost' = IF refused = None THEN lost ELSE lost \cup {refused}
  /\ Quit(Called)
  /\ UNCHANGED <<outside, ingest, printing, known, changes>>

-------------------------------------------------------------------------------
(* printer-selfheal.sh                                                      *)

MayStart(h) == phase[h] = IF h = Called THEN "due" ELSE "idle"

\* The probe (external) finds the printer or not. Only the change to DOWN ends
\* the script here; a printer that was down before is no reason to stop.
Heal(h, state) ==
  /\ MayStart(h)
  /\ known' = state
  /\ IF state = "DOWN" /\ known # "DOWN"
     THEN Quit(h)
     ELSE /\ phase' = [phase EXCEPT ![h] = "flush"]
          /\ toFlush' = [toFlush EXCEPT ![h] = {d \in Days : spool[d] # None}]
          /\ UNCHANGED moving
  /\ UNCHANGED <<outside, ingest, consumer, printing, changes, faults, lost>>

Flushing(h, d) == phase[h] = "flush" /\ moving[h] = None /\ d \in toFlush[h]

\* lp takes the file, broken ones too, of which nothing comes out.
FlushPrint(h, d) ==
  /\ Flushing(h, d) /\ spool[d] # None
  /\ IF spool[d] = Broken
     THEN UNCHANGED <<paper, owed>>
     ELSE /\ paper' = [paper EXCEPT ![d] = spool[d]]
          /\ owed' = [owed EXCEPT ![d] = IF @ = spool[d] THEN None ELSE @]
  /\ moving' = [moving EXCEPT ![h] = d]
  /\ UNCHANGED <<outside, ingest, consumer, spool, known, phase, toFlush, changes, faults, lost>>

\* Mutant of Moved: mv fails and nobody notices.
MovedNowhere(d) == spool

\* The file goes to sent/ with what it holds by now; the other self-heal may have moved it.
Moved(d) == [spool EXCEPT ![d] = None]

Move(h) ==
  /\ moving[h] # None
  /\ spool' = Moved(moving[h])
  /\ toFlush' = [toFlush EXCEPT ![h] = @ \ {moving[h]}]
  /\ moving' = [moving EXCEPT ![h] = None]
  /\ UNCHANGED <<outside, ingest, consumer, paper, owed, known, phase, changes, faults, lost>>

\* The file is gone.
FlushSkips(h, d) ==
  /\ Flushing(h, d) /\ spool[d] = None
  /\ toFlush' = [toFlush EXCEPT ![h] = @ \ {d}]
  /\ UNCHANGED <<outside, ingest, consumer, printing, known, phase, moving, changes, faults,
                 lost>>

\* Mutant of FlushFails: mv follows whatever lp says.
FlushFailsAndMoves(h, d) ==
  /\ Flushing(h, d) /\ spool[d] # None
  /\ Fault
  /\ spool' = [spool EXCEPT ![d] = None]
  /\ toFlush' = [toFlush EXCEPT ![h] = @ \ {d}]
  /\ UNCHANGED <<outside, ingest, consumer, paper, owed, known, phase, moving, changes, lost>>

FlushFails(h, d) ==
  /\ Flushing(h, d) /\ spool[d] # None
  /\ Fault
  /\ toFlush' = [toFlush EXCEPT ![h] = @ \ {d}]
  /\ UNCHANGED <<outside, ingest, consumer, printing, known, phase, moving, changes, lost>>

HealEnds(h) ==
  /\ phase[h] = "flush" /\ toFlush[h] = {} /\ moving[h] = None
  /\ Quit(h)
  /\ UNCHANGED <<outside, ingest, consumer, printing, known, changes, faults, lost>>

HealDies(h) ==
  /\ phase[h] = "flush"
  /\ Fault
  /\ Quit(h)
  /\ UNCHANGED <<outside, ingest, consumer, printing, known, changes, lost>>

-------------------------------------------------------------------------------
IngestStep ==
  \E i \in Invoices : (\E x \in Items : Fetch(i, x)) \/ Unreadable(i) \/ Post(i)
HealStart(h) == \E state \in {"UP", "DOWN"} : Heal(h, state)
HealStep(h) ==
  \/ \E d \in Days : FlushPrint(h, d) \/ FlushSkips(h, d)
  \/ Move(h) \/ HealEnds(h)

Next ==
  \/ \E i \in Invoices : \/ \E w \in Rows \cup {None} : RowChanges(i, w)
                         \/ \E f \in {None, Torn} : FetchFails(i, f)
  \/ IngestStarts \/ IngestStep \/ IngestDies
  \/ ConsumerStarts \/ CopyStarts \/ CopyEnds \/ ConsumerDies
  \/ \E d \in Days : PrintSheet(d) \/ PrintFails(d) \/ RenderFails(d)
  \/ \E h \in Heals : \/ HealStart(h) \/ HealStep(h) \/ HealDies(h)
                      \/ \E d \in Days : FlushFails(h, d)

\* The three timers start their units again and again, and a unit that runs goes on.
\* A timer waits for nobody: its start is granted only while its unit is idle, which
\* each run returns to.
Fairness ==
  /\ WF_vars(IngestStarts) /\ WF_vars(IngestStep)
  /\ WF_vars(ConsumerStarts) /\ WF_vars(CopyStarts \/ CopyEnds)
  /\ \A d \in Days : WF_vars(PrintSheet(d))
  /\ \A h \in Heals : WF_vars(HealStart(h)) /\ WF_vars(HealStep(h))

Spec == Init /\ [][Next]_vars /\ Fairness

-------------------------------------------------------------------------------
\* What the bus should end with for an invoice: its row with the kept order.
Current(i) == [inv |-> i, items |-> cache[i], row |-> row[i]]

\* Every selected invoice ends as the newest event of its own, whatever runs failed,
\* died or read an older row. Two cases are left out, in which nothing is posted any
\* more: the file of the order is broken, and the row is again what it was before.
NewestIsCaptured ==
  \A i \in Invoices :
    <>[](row[i] # None /\ cache[i] # Torn /\ row[i] \notin past[i] => Current(i) \in Newest)

\* The paper on the table of a day ends as the sheet of the newest events, though
\* an older one may come out of the spool after it: the next run prints it again.
PaperFollowsBus ==
  <>[](\A d \in Days : Sheet(d) # {} => paper[d] = Sheet(d))

\* The spool is empty in the end, whatever the probes say.
SpoolDrains == <>[](\A d \in Days : spool[d] = None)

\* A sheet lp refused is in the hands of the checklist, and then in the spool until it or
\* a later one has been accepted. It is lost in three ways: the checklist dies before the
\* copy is whole, it fills a file that self-heal has already taken for sent, or it fills
\* one that is about to be moved.
RefusedSheetWaits ==
  \A d \in Days \ lost : owed[d] = None \/ refused = d \/ spool[d] = owed[d]
===============================================================================
