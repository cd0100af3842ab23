--------------------------------- MODULE Board --------------------------------
(***************************************************************************)
(* The sprint tracker: service.py keeps columns and cards in a database and  *)
(* handles one request at a time under _DB_LOCK; kanban.html keeps in each   *)
(* browser a copy of the board that it loads, rearranges by itself and sends *)
(* back whole. A rearranged board is sent and forgotten, a refusal ignored;  *)
(* the other requests are followed by a load. The requests of one browser    *)
(* travel on several connections and may overtake each other.                *)
(*                                                                         *)
(* Of a card its column and position are kept, of a column its position;     *)
(* names, texts and priorities are not, nor the requests that change only    *)
(* them. The form is left out: a card shown may be saved at any moment, again *)
(* before the answer, with any column the form offers.                       *)
(***************************************************************************)
EXTENDS Integers, FiniteSets, Sequences, FiniteSetsExt, SequencesExt

CONSTANTS
  Browsers,
  FirstColumns,            \* the columns db() creates
  FirstCards,              \* the cards already created, all in the first column
  MaxColumns, MaxCards,    \* bounds of the model on the ids given out,
  MaxActs, MaxLost         \* on what people do, on requests or answers lost

ASSUME BoardAssumption ==
  /\ FirstColumns \in Nat \ {0} /\ MaxColumns \in Nat /\ FirstColumns <= MaxColumns
  /\ FirstCards \in Nat /\ MaxCards \in Nat /\ FirstCards <= MaxCards
  /\ MaxActs \in Nat /\ MaxLost \in Nat

VARIABLES
  columns, cards,          \* tables: position by id; [column, position] by id
  lastColumn, lastCard,    \* AUTOINCREMENT
  view,                    \* each browser: the columns with their cards, as shown
  wire,                    \* requests and answers under way
  acts, losses,            \* what the bounds have used up
  unsure,  \* history: browsers whose screen may differ from the tables
  asked    \* history: cards whose deletion was asked

tables    == <<columns, cards, lastColumn, lastCard>>
history   == <<unsure, asked>>
boardVars == <<tables, view, wire, acts, losses, history>>

New == 0

\* ORDER BY height, id.
Before(height, a, b) == height[a] < height[b] \/ (height[a] = height[b] /\ a < b)
Rank(height, a) == Cardinality({b \in DOMAIN height : Before(height, b, a)})
Sorted(height) ==
  [i \in 1..Cardinality(DOMAIN height) |->
     CHOOSE a \in DOMAIN height : Rank(height, a) = i - 1]
In(ks, k) == [c \in {x \in DOMAIN ks : ks[x].column = k} |-> ks[c].position]
Board(cs, ks) ==
  LET order == Sorted(cs)
  IN  [i \in DOMAIN order |-> [id |-> order[i], cards |-> Sorted(In(ks, order[i]))]]
Shown(board) == UNION {ToSet(board[i].cards) : i \in DOMAIN board}
Ids(board)   == {board[i].id : i \in DOMAIN board}

BoardInit ==
  /\ columns = [k \in 1..FirstColumns |-> k - 1]
  /\ cards = [c \in 1..FirstCards |-> [column |-> 1, position |-> -c]]
  /\ lastColumn = FirstColumns /\ lastCard = FirstCards
  /\ view = [b \in Browsers |-> Board(columns, cards)]
  /\ wire = {} /\ acts = 0 /\ losses = 0 /\ unsure = {} /\ asked = {}

-----------------------------------------------------------------------------
(* What people do.                                                         *)
Message(n, b, kind, body) == [n |-> n, from |-> b, kind |-> kind, body |-> body]
Nothing == 0
Own(b) == {m \in wire : m.from = b}
Send(b, kind, body) ==
  /\ acts < MaxActs /\ acts' = acts + 1
  /\ wire' = wire \cup {Message(acts, b, kind, body)}
  /\ unsure' = IF Own(b) = {} THEN unsure ELSE unsure \cup {b}
  /\ UNCHANGED <<tables, losses>>
Ask(b, kind, body) == Send(b, kind, body) /\ UNCHANGED <<view, asked>>

persistOrder(b, board) ==
  /\ Send(b, "reorder", board)
  /\ view' = [view EXCEPT ![b] = board]
  /\ UNCHANGED asked
Stepped(board, i, j, p) ==
  [board EXCEPT ![i].cards = RemoveAt(@, p), ![j].cards = Append(@, board[i].cards[p])]
StepCard(b, i, dir) ==
  /\ i + dir \in DOMAIN view[b]
  /\ \E p \in DOMAIN view[b][i].cards : persistOrder(b, Stepped(view[b], i, i + dir, p))
Swapped(s, p, q) == [s EXCEPT ![p] = s[q], ![q] = s[p]]
\* Mutant of SwapCards: the board is sent before the cards are swapped.
SentBeforeSwapped(b, i) ==
  \E p \in 1..(Len(view[b][i].cards) - 1) :
    /\ Send(b, "reorder", view[b])
    /\ view' = [view EXCEPT ![b][i].cards = Swapped(@, p, p + 1)]
    /\ UNCHANGED asked
SwapCards(b, i) ==
  \E p \in 1..(Len(view[b][i].cards) - 1) :
    persistOrder(b, [view[b] EXCEPT ![i].cards = Swapped(@, p, p + 1)])

\* By priorities, which the model leaves out: any order may come of it.
sortByPriority(b, i) ==
  \E sorted \in SetToSeqs(ToSet(view[b][i].cards)) :
    persistOrder(b, [view[b] EXCEPT ![i].cards = sorted])

saveCard(b, c, k) == Ask(b, "save", [card |-> c, column |-> k])
delCard(b, c) ==
  /\ Send(b, "delCard", c)
  /\ asked' = asked \cup {c}
  /\ UNCHANGED view
addColumn(b) == Ask(b, "addColumn", Nothing)
delColumn(b, k) == Ask(b, "delColumn", k)
moveColumn(b, i, dir) ==
  /\ i + dir \in DOMAIN view[b]
  /\ Ask(b, "moveColumn", [column |-> view[b][i].id, slot |-> i + dir - 1])

People(b) ==
  \/ \E i \in DOMAIN view[b], dir \in {-1, 1} : StepCard(b, i, dir) \/ moveColumn(b, i, dir)
  \/ \E i \in DOMAIN view[b] : SwapCards(b, i) \/ sortByPriority(b, i)
  \/ \E c \in Shown(view[b]) : delCard(b, c)
  \/ \E k \in Ids(view[b]) :
       delColumn(b, k) \/ \E c \in Shown(view[b]) \cup {New} : saveCard(b, c, k)
  \/ addColumn(b)

-----------------------------------------------------------------------------
(* The service: a request changes the tables or is refused as a whole.     *)
Answer(m, ok) ==
  /\ wire' = (wire \ {m}) \cup
       (IF m.kind = "reorder" THEN {}
        ELSE {Message(m.n, m.from, IF ok \/ m.kind \in {"delCard", "delColumn"}
                                   THEN "done" ELSE "error", Nothing)})
  /\ unsure' = unsure \cup (IF ok THEN Browsers \ {m.from} ELSE {m.from})
  /\ UNCHANGED <<view, acts, losses, asked>>
Refused(m) == Answer(m, FALSE) /\ UNCHANGED tables

Inserted(table, id, row) ==
  [x \in DOMAIN table \cup {id} |-> IF x = id THEN row ELSE table[x]]
Top(k) == LET heights == {cards[c].position : c \in {x \in DOMAIN cards : cards[x].column = k}}
          IN  (IF heights = {} THEN 0 ELSE Min(heights)) - 1
create_card(m) ==
  /\ m.kind = "save" /\ m.body.card = New /\ lastCard < MaxCards
  /\ IF m.body.column \notin DOMAIN columns THEN Refused(m)
     ELSE /\ lastCard' = lastCard + 1
          /\ cards' = Inserted(cards, lastCard', [column   |-> m.body.column,
                                                  position |-> Top(m.body.column)])
          /\ Answer(m, TRUE)
          /\ UNCHANGED <<columns, lastColumn>>
update_card(m) ==
  /\ m.kind = "save" /\ m.body.card # New
  /\ IF m.body.card \notin DOMAIN cards \/ m.body.column \notin DOMAIN columns THEN Refused(m)
     ELSE /\ cards' = [cards EXCEPT ![m.body.card].column = m.body.column]
          /\ Answer(m, TRUE)
          /\ UNCHANGED <<columns, lastColumn, lastCard>>
delete_card(m) ==
  /\ m.kind = "delCard"
  /\ cards' = [c \in DOMAIN cards \ {m.body} |-> cards[c]]
  /\ Answer(m, TRUE)
  /\ UNCHANGED <<columns, lastColumn, lastCard>>

\* Where the rearranged board puts each card it lists that still exists.
Listed(board) == Shown(board) \cap DOMAIN cards
Place(board, c) ==
  LET i == CHOOSE j \in DOMAIN board : c \in ToSet(board[j].cards)
      p == CHOOSE q \in DOMAIN board[i].cards : board[i].cards[q] = c
  IN  [column |-> board[i].id, position |-> p - 1]
\* Mutant of reorder_cards: without PRAGMA foreign_keys.
ReorderUnchecked(m) ==
  /\ m.kind = "reorder"
  /\ cards' = [c \in DOMAIN cards |->
                 IF c \in Listed(m.body) THEN Place(m.body, c) ELSE cards[c]]
  /\ Answer(m, TRUE)
  /\ UNCHANGED <<columns, lastColumn, lastCard>>
reorder_cards(m) ==
  /\ m.kind = "reorder"
  /\ IF \E c \in Listed(m.body) : Place(m.body, c).column \notin DOMAIN columns
     THEN Refused(m)
     ELSE /\ cards' = [c \in DOMAIN cards |->
                         IF c \in Listed(m.body) THEN Place(m.body, c) ELSE cards[c]]
          /\ Answer(m, TRUE)
          /\ UNCHANGED <<columns, lastColumn, lastCard>>

create_column(m) ==
  /\ m.kind = "addColumn" /\ lastColumn < MaxColumns
  /\ lastColumn' = lastColumn + 1
  /\ LET slots == {columns[k] : k \in DOMAIN columns}
     IN  columns' = Inserted(columns, lastColumn', IF slots = {} THEN 0 ELSE Max(slots) + 1)
  /\ Answer(m, TRUE)
  /\ UNCHANGED <<cards, lastCard>>
update_column(m) ==
  /\ m.kind = "moveColumn"
  /\ IF m.body.column \notin DOMAIN columns THEN Refused(m)
     ELSE LET rest  == Sorted([k \in DOMAIN columns \ {m.body.column} |-> columns[k]])
              order == InsertAt(rest, 1 + Min({m.body.slot, Len(rest)}), m.body.column)
          IN  /\ columns' = [k \in DOMAIN columns |->
                               (CHOOSE i \in DOMAIN order : order[i] = k) - 1]
              /\ Answer(m, TRUE)
              /\ UNCHANGED <<cards, lastColumn, lastCard>>
\* The cards go to the oldest column; when that is the one deleted, the
\* database refuses to leave its cards without one.
delete_column(m) ==
  /\ m.kind = "delColumn"
  /\ LET oldest == Min(DOMAIN columns)
     IN  IF \/ m.body \notin DOMAIN columns
            \/ m.body = oldest /\ \E c \in DOMAIN cards : cards[c].column = oldest
         THEN Refused(m)
         ELSE /\ cards' = [c \in DOMAIN cards |->
                             IF cards[c].column = m.body
                             THEN [cards[c] EXCEPT !.column = oldest] ELSE cards[c]]
              /\ columns' = [k \in DOMAIN columns \ {m.body} |-> columns[k]]
              /\ Answer(m, TRUE)
              /\ UNCHANGED <<lastColumn, lastCard>>
get_board(m) ==
  /\ m.kind = "load"
  /\ wire' = (wire \ {m}) \cup {Message(m.n, m.from, "board", Board(columns, cards))}
  /\ unsure' = IF Own(m.from) = {m} THEN unsure \ {m.from} ELSE unsure
  /\ UNCHANGED <<tables, view, acts, losses, asked>>

Service(m) ==
  \/ create_card(m) \/ update_card(m) \/ delete_card(m) \/ reorder_cards(m)
  \/ create_column(m) \/ update_column(m) \/ delete_column(m) \/ get_board(m)

-----------------------------------------------------------------------------
(* What comes back. An answer, when it is not an error, is followed by a    *)
(* load; whether a deletion was refused is not looked at.                   *)
Answered(m) ==
  /\ m.kind \in {"done", "error"}
  /\ wire' = (wire \ {m}) \cup
       (IF m.kind = "done" THEN {Message(m.n, m.from, "load", Nothing)} ELSE {})
  /\ UNCHANGED <<tables, view, acts, losses, history>>
load(m) ==
  /\ m.kind = "board"
  /\ wire' = wire \ {m}
  /\ view' = [view EXCEPT ![m.from] = m.body]
  /\ UNCHANGED <<tables, acts, losses, history>>
\* The machine is away, or the connection breaks before or after it handled
\* the request.
Lost(m) ==
  /\ losses < MaxLost /\ losses' = losses + 1
  /\ wire' = wire \ {m}
  /\ unsure' = unsure \cup {m.from}
  /\ UNCHANGED <<tables, view, acts, asked>>

BoardNext == \/ \E b \in Browsers : People(b)
             \/ \E m \in wire : Service(m) \/ Answered(m) \/ load(m) \/ Lost(m)
BoardSpec == BoardInit /\ [][BoardNext]_boardVars

-----------------------------------------------------------------------------
\* A browser that was alone at work, waited for its own requests and had none
\* lost or refused shows what the database holds: the board it rearranged by
\* itself and the one reorder_cards and update_column made of it agree.
ShownIsStored ==
  \A b \in Browsers \ unsure : Own(b) = {} => view[b] = Board(columns, cards)

\* A card nobody asked to delete is on the board a load answers, in one
\* column, whatever columns others delete or move meanwhile and however late
\* a rearranged board that lists a deleted column arrives (service.py:383).
NoCardVanishes ==
  LET board == Board(columns, cards)
  IN  /\ (1..lastCard) \ asked \subseteq Shown(board)
      /\ \A i, j \in DOMAIN board :
           i # j => ToSet(board[i].cards) \cap ToSet(board[j].cards) = {}

===============================================================================
