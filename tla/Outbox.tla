------------------------------- MODULE Outbox -------------------------------
(***************************************************************************)
(* The commands one person makes on one device, whose tabs share an outbox *)
(* on disk (web/static/app/net.js, offline.js), and the server that does   *)
(* each named command once.  A command goes up on the tab's socket, or is  *)
(* kept in the outbox while there is none or while the outbox is drained;  *)
(* what was in flight on a socket that closes joins the outbox; one tab at *)
(* a time drains it, and an entry leaves on its answer.                    *)
(*                                                                         *)
(* There are two sorts of command: an edit sets the one text of one row,   *)
(* and folds with the edits of it that wait; a create makes a row of its   *)
(* own, and its text can be written into it, and it be called back, until  *)
(* it has been sent.  A command is named (idem) by a number, the order the *)
(* person made them in; an entry's stamp (at) is the text it carries, for  *)
(* every write of an entry but a retry brings a text of its own.           *)
(***************************************************************************)
EXTENDS Naturals, Sequences, SequencesExt, FiniteSets, FiniteSetsExt

CONSTANTS
  Tabs, None,
  Rounds,                         \* rounds: transient refusals of one entry
  MaxMade, MaxCuts, MaxAgain      \* bounds

ASSUME OutboxAssumption ==
  /\ None \notin Tabs
  /\ Rounds \in Nat \ {0}
  /\ {MaxMade, MaxCuts, MaxAgain} \subseteq Nat

VARIABLES
  made,      \* how many texts the person has written
  edits, creates,   \* the names of the commands, by sort
  box,       \* the outbox, a set of entries numbered in order
  filed,     \* the last number given out
  store,     \* requests the database has still to run, in order
  conn,      \* each tab's socket: down, up, closing
  waiting,   \* each tab's commands in flight, in order
  owed,      \* the tabs whose socket has opened and that have yet to replay
  replaying,
  drain,     \* who drains, the entries of its pass, its tries
  wire,      \* frames left on sockets that are gone
  log,       \* what the server has done
  over, told, back,   \* names folded over, refused to the person, called back
  declined,  \* names the server has refused
  cuts, agains

vars == <<made, edits, creates, box, filed, store, conn, waiting, owed, replaying, drain,
          wire, log, over, told, back, declined, cuts, agains>>

history == <<over, told, back, declined>>
bounds  == <<cuts, agains>>

NoDrain == [by |-> None, step |-> "idle", pass |-> <<>>, tries |-> <<>>]

Init ==
  /\ made = 0 /\ edits = {} /\ creates = {}
  /\ box = {} /\ filed = 0 /\ store = <<>>
  /\ conn = [t \in Tabs |-> "down"]
  /\ waiting = [t \in Tabs |-> <<>>]
  /\ owed = {} /\ replaying = {}
  /\ drain = NoDrain
  /\ wire = {} /\ log = <<>>
  /\ over = {} /\ told = {} /\ back = {} /\ declined = {}
  /\ cuts = 0 /\ agains = 0

Texts == 1..MaxMade

Frame(c) == [idem |-> c.idem, text |-> c.text]
Done(i)  == \E k \in DOMAIN log : log[k].idem = i

Put(idem, text, fold, sending, refused) ==
  [do |-> "put", idem |-> idem, text |-> text, fold |-> fold, sending |-> sending,
   refused |-> refused]
Read == [do |-> "read"]

(* A command in flight: live, or an entry the drain has taken.             *)
Task(idem, text, fold, n) ==
  [idem |-> idem, text |-> text, fold |-> fold, n |-> n, answer |-> "none"]
Live(c) == c.n = 0
-----------------------------------------------------------------------------
(* send: the command goes up, or is kept while there is no socket to send  *)
(* it on or the outbox is being drained.                                   *)
Send(t, fold) ==
  /\ made < MaxMade
  /\ made' = made + 1
  /\ IF fold THEN edits' = edits \cup {made'} /\ UNCHANGED creates
     ELSE creates' = creates \cup {made'} /\ UNCHANGED edits
  /\ IF conn[t] # "up" \/ t \in replaying
     THEN /\ store' = Append(store, Put(made', made', fold, FALSE, FALSE))
          /\ UNCHANGED waiting
     ELSE /\ waiting' = [waiting EXCEPT ![t] = Append(@, Task(made', made', fold, 0))]
          /\ UNCHANGED store
  /\ UNCHANGED <<box, filed, conn, owed, replaying, drain, wire, log, history, bounds>>

(* The entries a folding command replaces: the first that waits.           *)
Folds(p) == IF p.fold THEN {r \in box : r.fold /\ ~r.refused} ELSE {}

(* queue: the entry keeps its place and takes the name and the text.       *)
RunPut(p) ==
  LET found == Folds(p)
      r     == CHOOSE x \in found : \A y \in found : x.n <= y.n
      entry(n) == [n |-> n, idem |-> p.idem, text |-> p.text, fold |-> p.fold,
                   sending |-> p.sending, refused |-> p.refused]
  IN  IF found # {} /\ ~p.refused
      THEN /\ box' = (box \ {r}) \cup {entry(r.n)}
           /\ over' = IF r.idem = p.idem THEN over ELSE over \cup {r.idem}
           /\ UNCHANGED filed
      ELSE /\ filed' = filed + 1
           /\ box' = box \cup {entry(filed')}
           /\ UNCHANGED over

Waits(r) == ~r.refused

(* drain: a pass over the entries that wait, or the end of it when none do.*)
RunRead ==
  LET pass == SetToSortSeq({r.n : r \in {x \in box : Waits(x)}}, <)
  IN  IF pass = <<>>
      THEN /\ drain' = NoDrain
           /\ replaying' = replaying \ {drain.by}
      ELSE /\ drain' = [drain EXCEPT !.step = "pass", !.pass = pass]
           /\ UNCHANGED replaying

Store ==
  /\ store # <<>>
  /\ store' = Tail(store)
  /\ IF Head(store).do = "put"
     THEN RunPut(Head(store)) /\ UNCHANGED <<drain, replaying>>
     ELSE RunRead /\ UNCHANGED <<box, filed, over>>
  /\ UNCHANGED <<made, edits, creates, conn, waiting, owed, wire, log, told, back,
                 declined, bounds>>

\* Slip: the mark of an entry that was sent is not looked at.
NamedAny(r, i) == r.idem = i /\ ~r.refused

(* named: the command is still only waiting.                               *)
Named(r, i) == r.idem = i /\ ~r.refused /\ ~r.sending

(* retext: what is typed into a row the server has not made.               *)
Retext(r) ==
  /\ made < MaxMade
  /\ ~r.fold /\ Named(r, r.idem)
  /\ made' = made + 1
  /\ box' = (box \ {r}) \cup {[r EXCEPT !.text = made']}
  /\ UNCHANGED <<edits, creates, filed, store, conn, waiting, owed, replaying, drain, wire, log, history, bounds>>

(* unqueue: a row joined into another before it was made.                  *)
Unqueue(r) ==
  /\ ~r.fold /\ Named(r, r.idem)
  /\ box' = box \ {r}
  /\ back' = back \cup {r.idem}
  /\ UNCHANGED <<made, edits, creates, filed, store, conn, waiting, owed, replaying, drain, wire,
                 log, over, told, declined, bounds>>
-----------------------------------------------------------------------------
Opens(t) ==
  /\ conn[t] = "down"
  /\ conn' = [conn EXCEPT ![t] = "up"]
  /\ owed' = owed \cup {t}
  /\ UNCHANGED <<made, edits, creates, box, filed, store, waiting, replaying, drain, wire, log, history, bounds>>

(* The browser loses its network: the socket is closing until it says so.  *)
Cut(t) ==
  /\ conn[t] = "up" /\ cuts < MaxCuts
  /\ cuts' = cuts + 1
  /\ conn' = [conn EXCEPT ![t] = "closing"]
  /\ UNCHANGED <<made, edits, creates, box, filed, store, waiting, owed, replaying, drain, wire,
                 log, history, agains>>

(* The close event: what was live and in flight is queued as sent, in its  *)
(* order, and the drain's entry is left where it is.  Frames not served    *)
(* may still arrive.                                                       *)
Requeued(c) == Put(c.idem, c.text, c.fold, TRUE, FALSE)

InOrder(places) ==
  {at \in Bijection(1..Cardinality(places), places) :
     \A j, k \in 1..Cardinality(places) : j < k => at[j] < at[k]}

Closed(t) ==
  LET live == {k \in DOMAIN waiting[t] : Live(waiting[t][k])}
      left == {Frame(waiting[t][k]) : k \in {j \in DOMAIN waiting[t] :
                                               waiting[t][j].answer = "none"}}
      drains == drain.by = t /\ drain.step = "sent"
  IN  /\ conn[t] = "closing"
      /\ conn' = [conn EXCEPT ![t] = "down"]
      /\ waiting' = [waiting EXCEPT ![t] = <<>>]
      /\ \E at \in InOrder(live) :
           store' = store \o [k \in 1..Cardinality(live) |-> Requeued(waiting[t][at[k]])]
      /\ wire' \in {wire, wire \cup left}
      /\ drain' = IF drains THEN NoDrain ELSE drain
      /\ replaying' = IF drains THEN replaying \ {t} ELSE replaying
      /\ owed' = owed \ {t}
      /\ UNCHANGED <<made, edits, creates, box, filed, log, history, bounds>>

(* replay: one drain at a time, and not again while this tab has one.      *)
Replay(t) ==
  /\ t \in owed
  /\ owed' = owed \ {t}
  /\ replaying' = replaying \cup {t}
  /\ UNCHANGED <<made, edits, creates, box, filed, store, conn, waiting, drain, wire, log, history, bounds>>

Lock(t) ==
  /\ t \in replaying /\ drain.by = None
  /\ drain' = [NoDrain EXCEPT !.by = t, !.step = "reading",
                              !.tries = [n \in 1..MaxMade |-> 0]]
  /\ store' = Append(store, Read)
  /\ UNCHANGED <<made, edits, creates, box, filed, conn, waiting, owed, replaying, wire, log, history, bounds>>

\* Slip: an entry goes up under a new name each time it is taken.
TakenAnew(r) == [r EXCEPT !.idem = made + 1 + Len(log), !.sending = TRUE]

(* take: the entry as it stands now, marked as sent.                       *)
Taken(r) == [r EXCEPT !.sending = TRUE]

(* drain: the next entry of the pass, or the next pass.                    *)
ReadAgain(tries) ==
  /\ drain' = [drain EXCEPT !.step = "reading", !.pass = <<>>, !.tries = tries]
  /\ store' = Append(store, Read)

NextEntry(tries) ==
  IF Len(drain.pass) = 1 THEN ReadAgain(tries)
  ELSE /\ drain' = [drain EXCEPT !.step = "pass", !.pass = Tail(@), !.tries = tries]
       /\ UNCHANGED store

Skip(t) ==
  /\ drain.by = t /\ drain.step = "pass"
  /\ ~\E r \in box : r.n = Head(drain.pass) /\ Waits(r)
  /\ NextEntry(drain.tries)
  /\ UNCHANGED <<made, edits, creates, box, filed, conn, waiting, owed, replaying, wire, log,
                 history, bounds>>

(* The drain is over, its entry marked and in the outbox still.            *)
Ends(t) == drain' = NoDrain /\ replaying' = replaying \ {t}

(* An entry goes up as it stands, unless it has left or been refused.      *)
Take(t) ==
  /\ drain.by = t /\ drain.step = "pass"
  /\ \E r \in box :
       /\ r.n = Head(drain.pass) /\ Waits(r)
       /\ box' = (box \ {r}) \cup {Taken(r)}
       /\ IF conn[t] = "up"
          THEN /\ waiting' = [waiting EXCEPT ![t] =
                                Append(@, Task(Taken(r).idem, r.text, r.fold, r.n))]
               /\ drain' = [drain EXCEPT !.step = "sent"]
               /\ UNCHANGED replaying
          ELSE Ends(t) /\ UNCHANGED waiting
  /\ UNCHANGED <<made, edits, creates, filed, store, conn, owed, wire, log, history, bounds>>

\* Slip: a timeout does not count where the socket says that it is open.
TimesOutIfShut(t) ==
  /\ drain.by = t /\ drain.step = "sent" /\ conn[t] # "up"
  /\ Ends(t)
  /\ UNCHANGED <<made, edits, creates, box, filed, store, conn, waiting, owed, wire, log, history,
                 bounds>>

(* answered: the server has not answered in time; the socket is closed.    *)
Timeout(t) ==
  /\ drain.by = t /\ drain.step = "sent"
  /\ Ends(t)
  /\ conn' = [conn EXCEPT ![t] = IF @ = "up" THEN "closing" ELSE @]
  /\ UNCHANGED <<made, edits, creates, box, filed, store, waiting, owed, wire, log, history,
                 bounds>>
-----------------------------------------------------------------------------
(* The server: a name it has done is answered with what it did, and any    *)
(* other command is done or refused.  A hold-up refuses it for now, which  *)
(* is one with a refusal to all but the drain.                             *)
Serve(t) ==
  /\ conn[t] # "down"
  /\ \E k \in DOMAIN waiting[t] :
       /\ waiting[t][k].answer = "none"
       /\ \A j \in 1..k - 1 : waiting[t][j].answer # "none"
       /\ LET c == waiting[t][k]
              answers(a) == waiting' = [waiting EXCEPT ![t][k].answer = a]
          IN  \/ ~Live(c) /\ answers("hold") /\ UNCHANGED <<log, declined>>
              \/ Done(c.idem) /\ answers("ok") /\ UNCHANGED <<log, declined>>
              \/ /\ ~Done(c.idem) /\ answers("ok")
                 /\ log' = Append(log, Frame(c)) /\ UNCHANGED declined
              \/ /\ ~Done(c.idem) /\ answers("no")
                 /\ declined' = declined \cup {c.idem} /\ UNCHANGED log
  /\ UNCHANGED <<made, edits, creates, box, filed, store, conn, owed, replaying, drain, wire, over, told, back, bounds>>

(* A frame that outlived its socket is served with nobody to hear of it.   *)
ServeLate(f) ==
  /\ f \in wire
  /\ wire' = wire \ {f}
  /\ log' = IF Done(f.idem) THEN log ELSE Append(log, f)
  /\ UNCHANGED <<made, edits, creates, box, filed, store, conn, waiting, owed, replaying, drain, history, bounds>>

(* receive, for a live command: the promise is settled.  A create that was *)
(* refused is filed as a question, and an edit is put to the person.       *)
Answered(t) ==
  /\ conn[t] # "down"
  /\ waiting[t] # <<>> /\ Live(Head(waiting[t])) /\ Head(waiting[t]).answer # "none"
  /\ LET c == Head(waiting[t])
     IN  /\ waiting' = [waiting EXCEPT ![t] = Tail(@)]
         /\ CASE c.answer = "ok" -> UNCHANGED <<store, told>>
              [] c.answer # "ok" /\ c.fold ->
                   told' = told \cup {c.idem} /\ UNCHANGED store
              [] OTHER ->
                   store' = Append(store, Put(c.idem, c.text, FALSE, FALSE, TRUE)) /\ UNCHANGED told
         /\ declined' = IF c.answer = "ok" THEN declined ELSE declined \cup {c.idem}
  /\ UNCHANGED <<made, edits, creates, box, filed, conn, owed, replaying, drain, wire, log, over, back, bounds>>

\* Slip: an answered entry leaves whatever has been written into it since.
LeavesAnyway(r, text) == {}

(* dropIfUnchanged: an entry written into while it was in flight stays.    *)
Leaves(r, text) == IF r.text = text THEN {} ELSE {[r EXCEPT !.sending = FALSE]}

\* Slip: a refused entry keeps the mark of one that was sent.
RefusedMarked(r, text) == IF r.text = text THEN [r EXCEPT !.refused = TRUE] ELSE r

(* refuse: the entry is the person's to answer, unless it was written into.*)
Refused(r, text) ==
  IF r.text = text THEN [r EXCEPT !.refused = TRUE, !.sending = FALSE] ELSE r

(* drain: rounds of hold-ups are an answer.                                *)
TriesAgain(again) == again < Rounds

(* An answer reaches the drain: the entry leaves, is tried again on a new  *)
(* pass, or is refused.                                                    *)
Drained(t) ==
  /\ drain.by = t /\ drain.step = "sent" /\ conn[t] # "down"
  /\ waiting[t] # <<>> /\ Head(waiting[t]).answer # "none"
  /\ ~Live(Head(waiting[t])) /\ waiting' = [waiting EXCEPT ![t] = Tail(@)]
  /\ LET c     == Head(waiting[t])
         r     == CHOOSE x \in box : x.n = c.n
         again == IF drain.tries[c.n] < Rounds THEN drain.tries[c.n] + 1 ELSE Rounds
         tried(k) == [drain.tries EXCEPT ![c.n] = k]
     IN  \/ /\ c.answer = "ok"
            /\ box' = (box \ {r}) \cup Leaves(r, c.text)
            /\ NextEntry(tried(0)) /\ UNCHANGED declined
         \/ /\ c.answer = "hold" /\ TriesAgain(again)
            /\ ReadAgain(tried(again))
            /\ UNCHANGED <<box, declined>>
         \/ /\ c.answer = "no" \/ (c.answer = "hold" /\ ~TriesAgain(again))
            /\ box' = (box \ {r}) \cup {Refused(r, c.text)}
            /\ declined' = declined \cup {c.idem}
            /\ NextEntry(tried(again))
  /\ UNCHANGED <<made, edits, creates, filed, conn, owed, replaying, wire, log, over, told,
                 back, bounds>>

(* A late answer to a drain that has given up is heard by nobody.          *)
Unheard(t) ==
  /\ conn[t] # "down"
  /\ waiting[t] # <<>> /\ ~Live(Head(waiting[t])) /\ Head(waiting[t]).answer # "none"
  /\ drain.by # t
  /\ waiting' = [waiting EXCEPT ![t] = Tail(@)]
  /\ UNCHANGED <<made, edits, creates, box, filed, store, conn, owed, replaying, drain, wire, log, history, bounds>>

(* The person's answers to a refusal: try it again, or let it go.          *)
Again(t, r) ==
  /\ r.refused /\ agains < MaxAgain
  /\ agains' = agains + 1
  /\ box' = (box \ {r}) \cup {[r EXCEPT !.refused = FALSE]}
  /\ owed' = IF conn[t] = "up" /\ t \notin replaying THEN owed \cup {t} ELSE owed
  /\ UNCHANGED <<made, edits, creates, filed, store, conn, waiting, replaying, drain, wire, log, history, cuts>>

LetGo(r) ==
  /\ r.refused
  /\ box' = box \ {r}
  /\ told' = told \cup {r.idem}
  /\ UNCHANGED <<made, edits, creates, filed, store, conn, waiting, owed, replaying, drain, wire,
                 log, over, back, declined, bounds>>

Person ==
  \/ \E t \in Tabs : Send(t, TRUE) \/ Send(t, FALSE) \/ \E r \in box : Again(t, r)
  \/ \E r \in box : Retext(r) \/ Unqueue(r) \/ LetGo(r)

Page(t) ==
  \/ Opens(t) \/ Closed(t) \/ Replay(t) \/ Lock(t) \/ Skip(t) \/ Take(t)
  \/ Answered(t) \/ Drained(t) \/ Unheard(t)

Next ==
  \/ Person
  \/ Store
  \/ \E t \in Tabs : Page(t) \/ Cut(t) \/ Timeout(t) \/ Serve(t)
  \/ \E f \in wire : ServeLate(f)

(* The page, its timers and the database run, and the browser gives its    *)
(* lock to who asked first.  Nothing obliges the server to answer, a       *)
(* socket to open or the person to act.                                    *)
Fairness ==
  /\ WF_vars(Store)
  /\ \A t \in Tabs :
       WF_vars(Closed(t)) /\ WF_vars(Replay(t)) /\ SF_vars(Lock(t)) /\ WF_vars(Skip(t))
       /\ WF_vars(Take(t)) /\ WF_vars(Answered(t)) /\ WF_vars(Drained(t))
       /\ WF_vars(Unheard(t)) /\ WF_vars(Timeout(t))

Spec == Init /\ [][Next]_vars /\ Fairness
-----------------------------------------------------------------------------
Names == 1..MaxMade

TypeOK ==
  /\ made \in 0..MaxMade /\ edits \subseteq 1..made
  /\ \A r \in box :
       /\ r.n \in 1..filed /\ r.text \in 1..made
       /\ r.refused => ~r.sending
  /\ \A r, s \in box : r.n = s.n => r = s
  /\ conn \in [Tabs -> {"down", "up", "closing"}]
  /\ drain.by # None => drain.by \in replaying
  /\ \A t \in Tabs : conn[t] = "down" => waiting[t] = <<>>

Held ==
  {r.idem : r \in box}
  \cup {store[k].idem : k \in {j \in DOMAIN store : store[j].do = "put"}}
  \cup UNION {{waiting[t][k].idem : k \in DOMAIN waiting[t]} : t \in Tabs}

(* Nothing the person made is lost (offline.js, net.js): it was done, it   *)
(* is in the outbox, on its way there or in flight, it was folded with     *)
(* another edit of the same text, or the person was told or called it back,*)
(* whatever sockets close, answers are lost and is typed while they come.  *)
NothingLost ==
  \A i \in edits \cup creates : i \in Held \cup over \cup told \cup back \/ Done(i)

(* A command is done once (net.js, "adds one link rather than two"),       *)
(* however often it goes up: no text is in the server's log twice.         *)
DoneOnce ==
  \A j, k \in DOMAIN log : log[j].text = log[k].text => j = k

GoneUp ==
  wire \cup ToSet(log)
  \cup UNION {{Frame(waiting[t][k]) : k \in DOMAIN waiting[t]} : t \in Tabs}

(* One name is one command (offline.js named): once it has gone up its     *)
(* text is not rewritten, so a server that did the first does not answer   *)
(* for the second, and it is not called back, so a row taken back is not   *)
(* made after all.  A name that was refused starts over.                   *)
SentAlike ==
  \A f \in GoneUp : f.idem \notin declined =>
    /\ \A g \in GoneUp \cup {Frame(r) : r \in {x \in box : x.sending}} :
         g.idem = f.idem => g.text = f.text
    /\ f.idem \notin back

(* A drain ends (net.js, "Every pass drops, marks or backs off on every    *)
(* row it sees, so there is always one less to do"), also when the server  *)
(* only ever holds up, or the socket is open and answers nothing, and so   *)
(* does the turn of a tab that waits for it.                               *)
DrainEnds == \A t \in Tabs : t \in replaying ~> t \notin replaying

(* offline.js: a fold is "one edit from the text the server has to the     *)
(* text the person stopped at".  The newest edit is folded over by none.   *)
NewestKept == \A i \in over : \E j \in edits : j > i

(* net.js: a pass over a list read at the start would leave a change made  *)
(* while the queue is going up "sitting there until the next               *)
(* reconnection".  What waits is drained or will be by a tab that is about *)
(* to drain or has no socket yet.                                          *)
NoneLeftSitting ==
  (\E r \in box : Waits(r)) =>
    \E t \in Tabs : t \in owed \cup replaying \/ conn[t] # "up"

(* What the person made is done or held, once, and as it went up, however  *)
(* sockets close and answers are lost.                                     *)
EachAsMade == NothingLost /\ DoneOnce /\ SentAlike
=============================================================================
