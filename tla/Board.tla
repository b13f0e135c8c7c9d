-------------------------------- MODULE Board --------------------------------
(***************************************************************************)
(* The boards of a workspace: columns, cards and checklist items of its    *)
(* propositions (internal/board), undo of a change to them and the trash   *)
(* they are deleted to (internal/core).                                    *)
(*                                                                         *)
(* Every command is one transaction, authorized against a proposition that *)
(* was looked up before it: `slow` is a command between the two.  The ids  *)
(* of columns, checklist items and accounts are given again once the       *)
(* highest is free; those of cards never.  Authorization, recording and    *)
(* events are module Commands.                                             *)
(***************************************************************************)
EXTENDS Integers, Sequences, FiniteSets, FiniteSetsExt, SequencesExt, Positions

CONSTANTS
  Props, None,
  Titles,     \* of cards and checklist items, and the names of columns
  FirstColumns, FirstCards,
  MaxWrites,
  MaxSlow,    \* commands that are held up before their transaction
  MaxNow      \* seconds

\* When an account was made: by which write, and what its row says of it, which
\* is whole seconds.
Moment == [nth : Nat, second : Nat]
Start == [nth |-> 0, second |-> 0]

\* The rows of the tables, an account being named with the moment it was made.
Person == [id : Nat \ {0}, made : Moment]
ColumnRow == [prop : Props, name : Titles, pos : Key]
CardRow == [prop : Props, col : Nat, pos : Key, title : Titles, done : BOOLEAN,
            version : Nat \ {0}, who : SUBSET Person, template : BOOLEAN]

\* The boards there are at first are whole, and name the one account there is.
ASSUME BoardAssumption ==
  /\ None \notin ColumnRow /\ None \notin CardRow /\ None \notin Nat /\ None \notin Moment
  /\ Titles # {} /\ FirstColumns \in Seq(ColumnRow) /\ FirstCards \in Seq(CardRow)
  /\ \A c \in DOMAIN FirstCards :
       LET card == FirstCards[c]
       IN  /\ card.col \in DOMAIN FirstColumns /\ FirstColumns[card.col].prop = card.prop
           /\ card.version = 1 /\ card.who \subseteq {[id |-> 1, made |-> Start]}
           /\ \A o \in DOMAIN FirstCards \ {c} :
                /\ FirstCards[o].col = card.col => FirstCards[o].pos # card.pos
                /\ card.template /\ FirstCards[o].template => FirstCards[o].prop # card.prop

VARIABLES
  columns,  \* by id: [prop, name, pos], or None
  cards,    \* by id: [prop, col, pos, title, done, version, who, template], or None
  items,    \* by id: [card, text, done], or None
  now,      \* seconds
  users,    \* by id: the moment the account was made, or None
  bin,      \* the trash: [card, row, items, at, restored]; what has gone with
            \* its proposition counts as restored, and at is a second
  template, \* production_templates, by proposition: a card, or None for NULL
  shelf,    \* "open", "archived" or "gone", by proposition
  log,      \* the activity rows of changes: [prop, entity, id, before, after, undone]
  slow,     \* [entity, id, prop] looked up, or None
  strayed,  \* a command has written to a row of a proposition it was not for
  told,     \* by card: what each of its versions held
  writes, slows

vars == <<columns, cards, items, users, bin, template, shelf, log, slow, strayed, told, writes, slows, now>>
places == <<columns, cards, items>>

Live(table) == {id \in DOMAIN table : table[id] # None}
\* The id SQLite gives a new row, and the table with it.
NextId(table) == Max({0} \union Live(table)) + 1
Put(table, id, row) == IF id > Len(table) THEN Append(table, row) ELSE [table EXCEPT ![id] = row]
Kept(table, keep) == [id \in DOMAIN table |-> IF id \in keep THEN table[id] ELSE None]

\* The keys of a scope, and one after its last or after a given row.
Keys(table, scope) == {table[id].pos : id \in scope}
last(table, scope) ==
  LET keys == Keys(table, scope)
  IN  Between(IF keys = {} THEN <<>> ELSE CHOOSE k \in keys : \A q \in keys \ {k} : Below(q, k), <<>>)
place(table, scope, after, except) ==
  LET lo == IF after = 0 THEN <<>> ELSE table[after].pos
      above == {k \in Keys(table, scope \ {except}) : Below(lo, k)}
  IN  Between(lo, IF above = {} THEN <<>> ELSE CHOOSE k \in above : \A q \in above \ {k} : Below(k, q))

ColumnsOf(p) == {c \in Live(columns) : columns[c].prop = p}
CardsOf(p) == {c \in Live(cards) : cards[c].prop = p}
CardsIn(col) == {c \in Live(cards) : cards[c].col = col}
ItemsOf(card) == {i \in Live(items) : items[i].card = card}

NewCard(p, col, title) ==
  [prop |-> p, col |-> col, pos |-> last(cards, CardsIn(col)), title |-> title, done |-> FALSE,
   version |-> 1, who |-> {}, template |-> FALSE]

Init ==
  /\ columns = FirstColumns /\ cards = FirstCards /\ items = <<>>
  /\ users = <<Start>> /\ bin = <<>> /\ log = <<>>
  /\ template = [p \in Props |-> IF \E c \in CardsOf(p) : cards[c].template
                                  THEN CHOOSE c \in CardsOf(p) : cards[c].template ELSE None]
  /\ shelf = [p \in Props |-> "open"]
  /\ slow = None /\ strayed = FALSE
  /\ told = [c \in DOMAIN cards |-> <<cards[c].title>>]
  /\ writes = 0 /\ slows = 0 /\ now = 0

-------------------------------------------------------------------------------
\* A transaction, after which the clock may be in the next second.
Write ==
  /\ writes < MaxWrites /\ writes' = writes + 1
  /\ now' \in {now, now + 1} /\ now' <= MaxNow
\* One for proposition p, on a board that has not been put away.
Command(p) == Write /\ shelf[p] = "open"
Recorded(p, entity, id, before, after) ==
  log' = Append(log, [prop |-> p, entity |-> entity, id |-> id, before |-> before, after |-> after, undone |-> FALSE])
\* What each version of a card was seen to hold.
Told == told' = [c \in DOMAIN cards' |->
  IF c \notin DOMAIN told THEN <<cards'[c].title>>
  ELSE IF cards'[c] # None /\ cards'[c].version > Len(told[c]) THEN Append(told[c], cards'[c].title)
  ELSE told[c]]
Sideways == UNCHANGED <<users, bin, template, shelf>>

\* propositionOf: where a command finds out whose row it is about.
Scope(entity, id) ==
  CASE entity = "column" -> IF id \in Live(columns) THEN columns[id].prop ELSE None
    [] entity = "item"   -> IF id \in Live(items) THEN cards[items[id].card].prop ELSE None
Rows == ({"column"} \X Live(columns)) \union ({"item"} \X Live(items))
LooksUp ==
  /\ slow = None /\ slows < MaxSlow /\ slows' = slows + 1 /\ Write
  /\ \E r \in Rows : slow' = [entity |-> r[1], id |-> r[2], prop |-> Scope(r[1], r[2])]
  /\ UNCHANGED <<places, users, bin, template, shelf, log, strayed, told>>
\* The commands that may now run their transaction, each about a row that exists.
Asked(entity) ==
  LET table == IF entity = "column" THEN columns ELSE items
  IN  {t \in {[entity |-> entity, id |-> id, prop |-> Scope(entity, id)] : id \in Live(table)} \union {slow} :
         t # None /\ t.entity = entity /\ t.id \in Live(table)}
Taken(t) ==
  /\ slow' \in {IF t = slow THEN None ELSE slow}
  /\ strayed' = (strayed \/ Scope(t.entity, t.id) # t.prop)
  /\ UNCHANGED slows
Prompt == UNCHANGED <<slow, slows, strayed>>

\* Columns.
CreateColumn(p, name) ==
  /\ Command(p)
  /\ columns' = Put(columns, NextId(columns), [prop |-> p, name |-> name, pos |-> last(columns, ColumnsOf(p))])
  /\ Sideways /\ Prompt /\ UNCHANGED <<cards, items, log, told>>
ChangesColumn(t, row) ==
  /\ columns' = [columns EXCEPT ![t.id] = row]
  /\ Recorded(t.prop, "column", t.id, columns[t.id], row)
  /\ Taken(t) /\ Sideways /\ UNCHANGED <<cards, items, told>>
RenameColumn(t, name) == Command(t.prop) /\ ChangesColumn(t, [columns[t.id] EXCEPT !.name = name])
MoveColumn(t, after) ==
  LET scope == ColumnsOf(columns[t.id].prop)
  IN  /\ Command(t.prop) /\ after \in scope \union {0}
      /\ ChangesColumn(t, [columns[t.id] EXCEPT !.pos = place(columns, scope, after, t.id)])
DeleteColumn(t) ==
  /\ Command(t.prop) /\ CardsIn(t.id) = {}
  /\ columns' = [columns EXCEPT ![t.id] = None]
  /\ Taken(t) /\ Sideways /\ UNCHANGED <<cards, items, log, told>>

\* Cards.  A card's own id and proposition never change, so its lookup may as
\* well be made in the transaction; the column of a new one is asked for again.
CreateCard(t, title) ==
  /\ Command(t.prop) /\ columns[t.id].prop = t.prop
  /\ cards' = Append(cards, NewCard(t.prop, t.id, title))
  /\ Taken(t) /\ Sideways /\ Told /\ UNCHANGED <<columns, items, log>>
Changes(c, row) ==
  /\ Command(row.prop) /\ cards' = [cards EXCEPT ![c] = row]
  /\ Recorded(row.prop, "card", c, cards[c], row)
  /\ Sideways /\ Prompt /\ Told /\ UNCHANGED <<columns, items>>
\* An edit is made of a version, and only to that version.
EditCardTitle(c, base, title) ==
  base = cards[c].version /\ Changes(c, [cards[c] EXCEPT !.title = title, !.version = @ + 1])
SetCardDone(c) == Changes(c, [cards[c] EXCEPT !.done = ~ @])
MoveCard(c, col, after) ==
  /\ columns[col].prop = cards[c].prop /\ after \in CardsIn(col) \union {0}
  /\ Changes(c, [cards[c] EXCEPT !.col = col, !.pos = place(cards, CardsIn(col), after, c)])
AssignCard(c, u) == Changes(c, [cards[c] EXCEPT !.who = @ \union {[id |-> u, made |-> users[u]]}])

\* A card goes to the trash with its checklist and the reference to it.
Snapshot(c) == [card |-> c, row |-> cards[c], items |-> SelectSeq(items, LAMBDA i : i # None /\ i.card = c),
                at |-> now, restored |-> FALSE]
DeleteCard(c) ==
  /\ Command(cards[c].prop)
  /\ bin' = Append(bin, Snapshot(c))
  /\ cards' = [cards EXCEPT ![c] = None] /\ items' = Kept(items, Live(items) \ ItemsOf(c))
  /\ template' = [p \in Props |-> IF template[p] = c THEN None ELSE template[p]]
  /\ Prompt /\ UNCHANGED <<columns, users, shelf, log, told>>

\* Its column must be there, be of its proposition and have no card on its key,
\* and nothing else be the template it was.  An assignee whose account has been
\* deleted is left out, also when the id has gone to an account that was made in
\* a later second than the card was deleted in.
StillNamed(who, at) ==  \* a bug: the id alone is looked for
  {a \in who : users[a.id] # None}
StillThere(who, at) == {a \in who : users[a.id] # None /\ users[a.id].second <= at}
RestorableTwice(b) ==  \* a bug: another template may have been made since
  /\ ~ b.restored /\ shelf[b.row.prop] = "open"
  /\ b.row.col \in ColumnsOf(b.row.prop)
  /\ b.row.pos \notin Keys(cards, CardsIn(b.row.col))
Restorable(b) ==
  /\ ~ b.restored /\ shelf[b.row.prop] = "open"
  /\ b.row.col \in ColumnsOf(b.row.prop)
  /\ b.row.pos \notin Keys(cards, CardsIn(b.row.col))
  /\ b.row.template => template[b.row.prop] = None
RestoreDeleted ==
  \E n \in {m \in DOMAIN bin : Restorable(bin[m])} :
    LET b == bin[n]
    IN  /\ Command(b.row.prop)
        /\ bin' = [bin EXCEPT ![n].restored = TRUE]
        /\ cards' = [cards EXCEPT ![b.card] = [b.row EXCEPT !.who = StillThere(@, b.at), !.version = @ + 1]]
        /\ items' = FoldLeft(LAMBDA table, i : Put(table, NextId(table), i), items, b.items)
        /\ template' = IF b.row.template THEN [template EXCEPT ![b.row.prop] = b.card] ELSE template
        /\ Prompt /\ Told /\ UNCHANGED <<columns, users, shelf, log>>

\* The checklist card a proposition is given once.
ProductionTemplate(p) ==
  /\ Command(p) /\ template[p] = None /\ ColumnsOf(p) # {}
  /\ LET first == CHOOSE c \in ColumnsOf(p) : \A o \in ColumnsOf(p) \ {c} : ~ Below(columns[o].pos, columns[c].pos)
         title == CHOOSE title \in Titles : TRUE
     IN  cards' = Append(cards, [NewCard(p, first, title) EXCEPT !.template = TRUE])
  /\ template' = [template EXCEPT ![p] = Len(cards')]
  /\ Prompt /\ Told /\ UNCHANGED <<columns, items, users, bin, shelf, log>>

\* Checklist items.
AddChecklistItem(c, text) ==
  /\ Command(cards[c].prop)
  /\ items' = Put(items, NextId(items), [card |-> c, text |-> text, done |-> FALSE])
  /\ Sideways /\ Prompt /\ UNCHANGED <<columns, cards, log, told>>
ToggleChecklistItem(t) ==
  /\ Command(t.prop)
  /\ items' = [items EXCEPT ![t.id].done = ~ @]
  /\ Recorded(t.prop, "item", t.id, items[t.id], items'[t.id])
  /\ Taken(t) /\ Sideways /\ UNCHANGED <<columns, cards, told>>
RemoveChecklistItem(t) ==
  /\ Command(t.prop)
  /\ items' = [items EXCEPT ![t.id] = None]
  /\ Taken(t) /\ Sideways /\ UNCHANGED <<columns, cards, log, told>>

\* Propositions and accounts.
ArchiveProposition(p) ==
  /\ Command(p) /\ shelf' = [shelf EXCEPT ![p] = "archived"]
  /\ Prompt /\ UNCHANGED <<places, users, bin, template, log, told>>
Off(p) == Write /\ shelf[p] # "gone"
RestoreProposition(p) ==
  /\ Off(p) /\ shelf[p] = "archived" /\ shelf' = [shelf EXCEPT ![p] = "open"]
  /\ Prompt /\ UNCHANGED <<places, users, bin, template, log, told>>
DeleteProposition(p) ==
  /\ Off(p) /\ shelf' = [shelf EXCEPT ![p] = "gone"]
  /\ columns' = Kept(columns, Live(columns) \ ColumnsOf(p))
  /\ cards' = Kept(cards, Live(cards) \ CardsOf(p))
  /\ items' = Kept(items, {i \in Live(items) : items[i].card \notin CardsOf(p)})
  /\ bin' = [n \in DOMAIN bin |-> IF bin[n].row.prop = p THEN [bin[n] EXCEPT !.restored = TRUE] ELSE bin[n]]
  /\ template' = [template EXCEPT ![p] = None]
  /\ Prompt /\ UNCHANGED <<users, log, told>>
DeleteUser(u) ==
  /\ Write
  /\ users' = [users EXCEPT ![u] = None]
  /\ cards' = [c \in DOMAIN cards |->
       IF cards[c] = None THEN None ELSE [cards[c] EXCEPT !.who = {a \in @ : a.id # u}]]
  /\ Prompt /\ UNCHANGED <<columns, items, bin, template, shelf, log, told>>
CreateUser ==
  /\ Write
  /\ users' = Put(users, NextId(users), [nth |-> writes, second |-> now])
  /\ Prompt /\ UNCHANGED <<places, bin, template, shelf, log, told>>

-------------------------------------------------------------------------------
\* The columns of a row undo may write, and the scope of its ordering key.
Fields(entity, row) ==
  CASE entity = "column" -> <<row.name, row.pos>>
    [] entity = "card"   -> <<row.col, row.pos, row.title, row.done>>
    [] entity = "item"   -> <<row.text, row.done>>
Table(entity) == CASE entity = "column" -> columns [] entity = "card" -> cards [] entity = "item" -> items
ColumnThere(r) ==  \* a bug: the column may be another proposition's by now
  r.entity = "card" => r.before.col \in Live(columns)
ColumnOurs(r) == r.entity = "card" => r.before.col \in ColumnsOf(r.prop)
KeyFreeHere(r) ==  \* a bug: looked for where the card is, not where it goes back to
  CASE r.entity = "card"   -> \A c \in CardsIn(cards[r.id].col) \ {r.id} : cards[c].pos # r.before.pos
    [] r.entity = "column" -> \A c \in ColumnsOf(columns[r.id].prop) \ {r.id} : columns[c].pos # r.before.pos
    [] r.entity = "item"   -> TRUE
KeyFree(r) ==
  CASE r.entity = "card"   -> \A c \in CardsIn(r.before.col) \ {r.id} : cards[c].pos # r.before.pos
    [] r.entity = "column" -> \A c \in ColumnsOf(r.before.prop) \ {r.id} : columns[c].pos # r.before.pos
    [] r.entity = "item"   -> TRUE
CanUndo(r) ==
  /\ ~ r.undone /\ Fields(r.entity, r.before) # Fields(r.entity, r.after)
  /\ r.id \in Live(Table(r.entity))
  /\ Fields(r.entity, Table(r.entity)[r.id]) = Fields(r.entity, r.after)
  /\ ColumnOurs(r) /\ KeyFree(r)
BackAsWas(r) ==  \* a bug: the version stays
  CASE r.entity = "column" -> [columns[r.id] EXCEPT !.name = r.before.name, !.pos = r.before.pos]
    [] r.entity = "card"   -> [cards[r.id] EXCEPT !.col = r.before.col, !.pos = r.before.pos,
                                 !.title = r.before.title, !.done = r.before.done]
    [] r.entity = "item"   -> [items[r.id] EXCEPT !.text = r.before.text, !.done = r.before.done]
Back(r) ==
  CASE r.entity = "column" -> [columns[r.id] EXCEPT !.name = r.before.name, !.pos = r.before.pos]
    [] r.entity = "card"   -> [cards[r.id] EXCEPT !.col = r.before.col, !.pos = r.before.pos,
                                 !.title = r.before.title, !.done = r.before.done, !.version = @ + 1]
    [] r.entity = "item"   -> [items[r.id] EXCEPT !.text = r.before.text, !.done = r.before.done]
Undo ==
  \E n \in {m \in DOMAIN log : CanUndo(log[m])} :
    LET r == log[n]
        put(entity, table) == IF r.entity = entity THEN [table EXCEPT ![r.id] = Back(r)] ELSE table
    IN  /\ Command(r.prop)
        /\ log' = [log EXCEPT ![n].undone = TRUE]
        /\ columns' = put("column", columns) /\ cards' = put("card", cards) /\ items' = put("item", items)
        /\ strayed' = (strayed \/ (r.entity # "card" /\ Scope(r.entity, r.id) # r.prop))
        /\ Sideways /\ Told /\ UNCHANGED <<slow, slows>>

Next ==
  \/ LooksUp \/ RestoreDeleted \/ Undo \/ CreateUser
  \/ \E t \in Asked("column") :
       \/ DeleteColumn(t) \/ (\E name \in Titles : RenameColumn(t, name) \/ CreateCard(t, name))
       \/ \E after \in Live(columns) \union {0} : MoveColumn(t, after)
  \/ \E t \in Asked("item") : ToggleChecklistItem(t) \/ RemoveChecklistItem(t)
  \/ \E p \in Props :
       \/ ProductionTemplate(p) \/ ArchiveProposition(p) \/ RestoreProposition(p) \/ DeleteProposition(p)
       \/ \E name \in Titles : CreateColumn(p, name)
  \/ \E c \in Live(cards) :
       \/ SetCardDone(c) \/ DeleteCard(c)
       \/ \E title \in Titles : AddChecklistItem(c, title) \/ (\E base \in 1 .. cards[c].version : EditCardTitle(c, base, title))
       \/ \E col \in Live(columns), after \in Live(cards) \union {0} : MoveCard(c, col, after)
       \/ \E u \in Live(users) : AssignCard(c, u)
  \/ \E u \in Live(users) : DeleteUser(u)

Spec == Init /\ [][Next]_vars

-------------------------------------------------------------------------------
\* A card stands in a column of its own proposition, whatever became of the
\* column it was moved from, deleted from or is put back to.
CardsAtHome == \A c \in Live(cards) : cards[c].col \in ColumnsOf(cards[c].prop)

\* No two cards of a column share a key: their order is one order.
KeysDistinct ==
  \A c, o \in Live(cards) : c # o /\ cards[c].col = cards[o].col => cards[c].pos # cards[o].pos

\* A version of a card stands for one title, through undo, trash and back: an
\* edit made of a version is an edit of what its writer saw.
VersionsTell == \A c \in Live(cards) : told[c][cards[c].version] = cards[c].title

\* A proposition has one template card, the one that is recorded.
OneTemplate == \A c \in Live(cards) : cards[c].template => template[cards[c].prop] = c

\* The id names a's account, or at worst one that was made in the very second
\* of a deletion.
Meant(a, deletions) ==
  users[a.id] # None /\ (users[a.id] = a.made \/ users[a.id].second \in deletions)

\* A card is assigned to the account it was assigned to, not to a later one that
\* was given its id, unless that one was made in the second the card was deleted.
Deletions(c) == {bin[n].at : n \in {m \in DOMAIN bin : bin[m].card = c}}
AssigneesMeant == \A c \in Live(cards) : \A a \in cards[c].who : Meant(a, Deletions(c))

\* What the comment at RestoreDeleted's look at the accounts says: one made after
\* the delete counts as deleted.  Refuted: seconds are compared.
NobodyInherits == \A c \in Live(cards) : \A a \in cards[c].who : users[a.id] = a.made

\* A command writes to the board it was authorized for and to no other.
WritesAtHome == ~ strayed

\* The board is whole through moves, trash and undo: cards stand in columns of
\* their own proposition, in one order, one of them its template.
BoardWhole == CardsAtHome /\ KeysDistinct /\ OneTemplate
===============================================================================
