------------------------------- MODULE Stream -------------------------------
(***************************************************************************)
(* One tab of one person and the two roads by which it hears what others   *)
(* did (internal/realtime/realtime.go, web/static/app/net.js): a websocket *)
(* that is handed the bus's events, filtered by the memberships the socket *)
(* keeps in step, and reads of the activity table, made when the socket    *)
(* opens and, while there is none, over and over as a poll.                *)
(*                                                                         *)
(* The bus drops what a slow subscriber cannot take and the socket is cut  *)
(* off when it drains too slowly; the tab draws an event only over an      *)
(* older one of the same row and keeps a cursor of what its reads covered. *)
(***************************************************************************)
EXTENDS Naturals, Sequences, FiniteSets, FiniteSetsExt

CONSTANTS
  Open, Other,           \* the proposition the tab shows, and another
  BusBuffer, OutBuffer,  \* busBuffer, outBuffer
  PageSize,              \* how many events one read returns at most
  Kinds,                 \* what others may do: [prop, entity, gone]
  MaxLog, MaxFailures    \* bounds

ASSUME StreamAssumption ==
  /\ Open # Other
  /\ Kinds \subseteq {k \in [prop : {Open, Other}, entity : {"card", "proposition", "member"},
                             gone : BOOLEAN] : k.entity = "card" => ~k.gone}
  /\ {BusBuffer, OutBuffer, PageSize} \subseteq Nat \ {0}
  /\ {MaxLog, MaxFailures} \subseteq Nat

Propositions == {Open, Other}

VARIABLES
  events,    \* the activity table, and whether the person could read it then
  pub,       \* how much of it the bus has published
  member,    \* the person's propositions, in the database
  live,      \* the propositions there are
  owner,     \* whether the person's role is owner
  srv,       \* the server's half of the tab's socket
  ws,        \* the tab's half: closed, connecting or open
  shown,     \* the newest event drawn of each row
  cursor,    \* streamSeq: the end of what completed reads covered
  caught, httpLive,
  reads,     \* the catchUps under way
  sure,      \* whether caught comes of a read made while subscribed
  failures

streamvars == <<events, pub, member, live, owner, srv, ws, shown, cursor, caught,
                httpLive, reads, sure, failures>>

activity == <<events, pub, member, live, owner>>
tab      == <<shown, cursor, caught, httpLive, reads, sure>>

Entities == {"card", "proposition", "member"}
Rows     == Propositions \X Entities

NoSocket == [pc |-> "none", sub |-> <<>>, dropped |-> 0, member |-> {}, out |-> <<>>,
             ack |-> 0, closed |-> FALSE]
NoRead   == [pc |-> "idle", by |-> "open", wait |-> FALSE, since |-> 0, from |-> 0,
             page |-> {}, subscribed |-> FALSE]
Reads    == {1, 2}   \* at most two overlap: the poll, and those of two sockets

StreamInit ==
  /\ events = <<>> /\ pub = 0
  /\ member = Propositions
  /\ live = Propositions
  /\ owner \in BOOLEAN
  /\ srv = NoSocket /\ ws = "closed"
  /\ shown = [r \in Rows |-> 0] /\ cursor = 0
  /\ caught = FALSE /\ httpLive = FALSE /\ sure = FALSE
  /\ reads = [k \in Reads |-> NoRead]
  /\ failures = 0

Readable(p) == p \in live /\ (owner \/ p \in member)
-----------------------------------------------------------------------------
(* Somebody's command commits: a row of a proposition is changed, the      *)
(* person joins or leaves it, or it is deleted.                            *)
Logged(p, entity, gone) ==
  events' = Append(events, [prop |-> p, entity |-> entity, gone |-> gone,
                            readable |-> Readable(p) \/ entity = "member"])

Commit(p, entity, gone) ==
  /\ Len(events) < MaxLog
  /\ p \in live
  /\ entity = "member" => (gone <=> p \in member)
  /\ Logged(p, entity, gone)
  /\ member' = IF gone THEN member \ {p}
               ELSE IF entity = "member" THEN member \cup {p} ELSE member
  /\ live' = IF entity = "proposition" /\ gone THEN live \ {p} ELSE live
  /\ UNCHANGED <<pub, owner, srv, ws, tab, failures>>

(* The tab's own command: the dispatcher answers it once it is published.  *)
Command ==
  /\ srv.pc = "serving" /\ ~srv.closed /\ srv.ack = 0 /\ ws = "open"
  /\ Len(events) < MaxLog
  /\ Readable(Open)
  /\ Logged(Open, "card", FALSE)
  /\ srv' = [srv EXCEPT !.ack = Len(events')]
  /\ UNCHANGED <<pub, member, live, owner, ws, tab, failures>>

(* Bus.Publish: a full subscription loses the event and counts it.         *)
Publish ==
  /\ pub < Len(events)
  /\ pub' = pub + 1
  /\ srv' = IF srv.pc \notin {"subscribed", "serving"} THEN srv
            ELSE IF Len(srv.sub) < BusBuffer THEN [srv EXCEPT !.sub = Append(@, pub')]
            ELSE [srv EXCEPT !.dropped = @ + 1]
  /\ UNCHANGED <<events, member, live, owner, ws, tab, failures>>
-----------------------------------------------------------------------------
(* The handshake, refused to a person who may not read the proposition.    *)
(* What runs on a socket the tab has left no longer matters to the tab.    *)
Accept ==
  /\ ws = "closed"
  /\ Readable(Open)
  /\ ws' = "connecting"
  /\ srv' = [NoSocket EXCEPT !.pc = "accepted"]
  /\ UNCHANGED <<activity, tab, failures>>

(* serve: the subscription is opened, and then the memberships are read.   *)
Subscribe ==
  /\ srv.pc = "accepted"
  /\ srv' = [srv EXCEPT !.pc = "subscribed"]
  /\ UNCHANGED <<activity, ws, tab, failures>>

Memberships ==
  /\ srv.pc = "subscribed"
  /\ srv' = [srv EXCEPT !.pc = "serving", !.member = member]
  /\ UNCHANGED <<activity, ws, tab, failures>>

CanRead(standing, p) == owner \/ p \in standing

(* wants: everything on the open proposition, and the rail's entries for   *)
(* the others the person may read.                                         *)
Wants(standing, e) ==
  /\ e.entity = "card" => e.prop = Open
  /\ CanRead(standing, e.prop)

(* membership: the memberships as the event leaves them.                   *)
Standing(e) ==
  IF e.gone THEN srv.member \ {e.prop}
  ELSE IF e.entity = "member" THEN srv.member \cup {e.prop}
  ELSE srv.member

\* Slip: the loss of an event is not noticed.
NeverBehind == FALSE

(* A subscription that lost an event is not believed again.                *)
Behind == srv.dropped > 0

\* Slip: the queue of a tab that does not drain grows.
QueuedAlways(s, i, final) == [s EXCEPT !.out = Append(@, [ev |-> i, final |-> final])]

(* queue: a tab that does not drain its socket is cut off.                 *)
Queued(s, i, final) ==
  IF Len(s.out) < OutBuffer THEN [s EXCEPT !.out = Append(@, [ev |-> i, final |-> final])]
  ELSE [s EXCEPT !.closed = TRUE]

(* forward: an event that takes the person's standing away is judged by    *)
(* what it was before, and is the last this socket sends if it is about    *)
(* the open proposition; every other by what it makes of it.               *)
Forward ==
  /\ srv.pc = "serving" /\ ~srv.closed
  /\ srv.sub # <<>>
  /\ \A k \in DOMAIN srv.out : ~srv.out[k].final
  /\ LET i    == Head(srv.sub)
         e    == events[i]
         last == ~owner /\ e.prop = Open
         next == [srv EXCEPT !.sub = Tail(@), !.member = Standing(e)]
     IN  srv' = CASE Behind -> [srv EXCEPT !.closed = TRUE]
                  [] ~Behind /\ e.gone /\ Wants(srv.member, e) -> Queued(next, i, last)
                  [] ~Behind /\ e.gone /\ ~Wants(srv.member, e) -> [next EXCEPT !.closed = last]
                  [] OTHER -> IF Wants(Standing(e), e) THEN Queued(next, i, FALSE) ELSE next
  /\ UNCHANGED <<activity, ws, tab, failures>>

(* dispatch: the answer joins the queue, past whatever forward still owes. *)
Answer ==
  /\ srv.pc = "serving" /\ ~srv.closed
  /\ srv.ack \in 1..pub
  /\ srv' = [Queued(srv, srv.ack, FALSE) EXCEPT !.ack = 0]
  /\ UNCHANGED <<activity, ws, tab, failures>>

-----------------------------------------------------------------------------
RowOf(i) == <<events[i].prop, events[i].entity>>

(* What is drawn of a row: a proposition's event carries its members.      *)
Drawn(m, r) ==
  IF r[2] = "member" /\ m[<<r[1], "proposition">>] > m[r] THEN m[<<r[1], "proposition">>] ELSE m[r]

\* Slip: events are drawn over whatever is there.
ApplyLast(m, arrived) ==
  [r \in Rows |-> LET new == {i \in arrived : RowOf(i) = r}
                  IN  IF new = {} THEN m[r] ELSE Max(new)]

(* apply: an event is drawn over an older one only; of those that arrive   *)
(* together, in the order of the table, the last of each row stays.        *)
Apply(m, arrived) ==
  [r \in Rows |-> LET new == {i \in arrived : RowOf(i) = r /\ i > Drawn(m, r)}
                  IN  IF new = {} THEN m[r] ELSE Max(new)]

\* Slip: an event that arrives moves the cursor over those before it.
CursorFollows(i) == IF i > cursor THEN i ELSE cursor

(* Only reads move the cursor: an answer overtakes events still to come.   *)
CursorAfter(i) == cursor

(* write and receive: a frame crosses and is drawn, and a final one closes *)
(* the socket behind it.  What is lost with a socket is lost in its queue. *)
Write ==
  /\ ws = "open" /\ srv.out # <<>> /\ ~srv.closed
  /\ shown' = Apply(shown, {Head(srv.out).ev})
  /\ srv' = [srv EXCEPT !.out = Tail(@), !.closed = Head(srv.out).final]
  /\ cursor' = CursorAfter(Head(srv.out).ev)
  /\ UNCHANGED <<activity, ws, caught, httpLive, reads, sure, failures>>

(* The socket opens: the stream is read from the cursor.  caught stands as *)
(* it was until the read comes back.                                       *)
Free(k) == reads[k].pc = "idle" /\ \A j \in Reads : reads[j].pc = "idle" => k <= j

SocketOpens(k) ==
  /\ ws = "connecting"
  /\ Free(k)
  /\ ws' = "open" /\ httpLive' = FALSE
  /\ reads' = [reads EXCEPT ![k] = [NoRead EXCEPT !.pc = "asked", !.since = cursor]]
  /\ UNCHANGED <<activity, srv, shown, cursor, caught, sure, failures>>

(* The close event: caught is false from here on.                          *)
Leave ==
  /\ ws # "closed"
  /\ ws' = "closed" /\ caught' = FALSE /\ sure' = FALSE
  /\ srv' = NoSocket
  /\ reads' = [k \in Reads |-> [reads[k] EXCEPT !.subscribed = FALSE]]
  /\ UNCHANGED <<activity, shown, cursor, httpLive>>

Closes == srv.closed /\ Leave /\ UNCHANGED failures

SocketCut == failures < MaxFailures /\ failures' = failures + 1 /\ Leave

(* fallbackOnce, one at a time and only without a socket.                  *)
Poll(k) ==
  /\ ws # "open"
  /\ Free(k)
  /\ \A j \in Reads : reads[j].pc = "idle" \/ reads[j].by # "poll"
  /\ reads' = [reads EXCEPT ![k] = [NoRead EXCEPT !.pc = "asked", !.by = "poll",
                                     !.wait = httpLive, !.since = cursor]]
  /\ UNCHANGED <<activity, srv, ws, shown, cursor, caught, httpLive, sure, failures>>
-----------------------------------------------------------------------------
Since(n) == {i \in n + 1..Len(events) : events[i].prop = Open}

(* The oldest of them, no more than fit a page.                            *)
FirstPage(due) == {i \in due : Cardinality({j \in due : j <= i}) <= PageSize}

(* EventsFor: who may not read is refused; the bus is subscribed to before *)
(* the table is read, so what commits meanwhile wakes a read that is held. *)
Query(k) ==
  /\ reads[k].pc = "asked"
  /\ Readable(Open)
  /\ LET due  == Since(reads[k].since)
         held == due = {} /\ reads[k].wait
     IN  reads' = [reads EXCEPT
           ![k].pc = IF held THEN "held" ELSE "answered",
           ![k].from = IF held THEN pub ELSE 0,
           ![k].page = FirstPage(due),
           ![k].subscribed = reads[k].by = "open" /\ srv.pc \in {"subscribed", "serving"}]
  /\ UNCHANGED <<activity, srv, ws, shown, cursor, caught, httpLive, sure, failures>>

(* A read with nothing to say is held until the bus has something, or the  *)
(* wait is over.                                                           *)
Wake(k) ==
  /\ reads[k].pc = "held"
  /\ LET heard == {i \in reads[k].from + 1..pub : events[i].prop = Open}
     IN  reads' = [reads EXCEPT ![k].pc = "answered",
           ![k].page = IF heard = {} THEN {} ELSE {Min(heard)}]
  /\ UNCHANGED <<activity, srv, ws, shown, cursor, caught, httpLive, sure, failures>>

(* catchUp: a page is drawn and the cursor moves over it; a full page is   *)
(* followed by the next, and after the last the tab has caught up.         *)
ReadAnswered(k) ==
  LET d    == reads[k]
      next == IF d.page = {} THEN d.since ELSE Max(d.page)
      more == Cardinality(d.page) = PageSize
  IN  /\ d.pc = "answered"
      /\ shown' = Apply(shown, d.page)
      /\ cursor' = IF next > cursor THEN next ELSE cursor
      /\ reads' = [reads EXCEPT ![k] =
                     IF more THEN [NoRead EXCEPT !.pc = "asked", !.by = d.by, !.since = next]
                     ELSE NoRead]
      /\ CASE more \/ (d.by = "poll" /\ ws = "open") -> UNCHANGED <<caught, httpLive, sure>>
           [] ~more /\ d.by = "open" ->
                caught' = TRUE /\ sure' = (ws = "open" /\ d.subscribed) /\ UNCHANGED httpLive
           [] OTHER -> caught' = TRUE /\ httpLive' = TRUE /\ sure' = FALSE
      /\ UNCHANGED <<activity, srv, ws, failures>>

(* A read that comes back with nothing: refused, or lost by the network.   *)
Failed(k) ==
  /\ reads' = [reads EXCEPT ![k] = NoRead]
  /\ IF reads[k].by = "poll" /\ ws = "open" THEN UNCHANGED <<caught, httpLive, sure>>
     ELSE /\ caught' = FALSE /\ sure' = FALSE
          /\ httpLive' = IF reads[k].by = "poll" THEN FALSE ELSE httpLive
  /\ UNCHANGED <<activity, srv, ws, shown, cursor>>

ReadRefused(k) == reads[k].pc = "asked" /\ ~Readable(Open) /\ Failed(k) /\ UNCHANGED failures

Fails(k) ==
  /\ reads[k].pc # "idle"
  /\ failures < MaxFailures /\ failures' = failures + 1
  /\ Failed(k)

Others ==
  \/ \E k \in Kinds : Commit(k.prop, k.entity, k.gone)
  \/ Command

Server ==
  \/ Publish \/ Accept \/ Subscribe \/ Memberships \/ Forward \/ Answer
  \/ \E k \in Reads : Query(k) \/ Wake(k)

Tab ==
  \/ Write \/ Closes \/ SocketCut
  \/ \E k \in Reads : SocketOpens(k) \/ Poll(k) \/ ReadAnswered(k) \/ ReadRefused(k) \/ Fails(k)

StreamNext == Others \/ Server \/ Tab

(* The server and the page run; the network fails finitely often, and no   *)
(* failure is owed.                                                        *)
StreamFairness ==
  /\ WF_streamvars(Publish) /\ WF_streamvars(Accept) /\ WF_streamvars(Subscribe)
  /\ WF_streamvars(Memberships) /\ WF_streamvars(Forward) /\ WF_streamvars(Answer)
  /\ WF_streamvars(Write) /\ WF_streamvars(Closes)
  /\ \A k \in Reads : /\ WF_streamvars(Query(k)) /\ WF_streamvars(Wake(k))
                       /\ WF_streamvars(ReadAnswered(k)) /\ WF_streamvars(ReadRefused(k))
  /\ WF_streamvars(\E k \in Reads : SocketOpens(k))

StreamSpec == StreamInit /\ [][StreamNext]_streamvars /\ StreamFairness
-----------------------------------------------------------------------------
Indices == 0..MaxLog

StreamTypeOK ==
  /\ pub <= Len(events)
  /\ Len(srv.sub) <= BusBuffer /\ Len(srv.out) <= OutBuffer
  /\ shown \in [Rows -> Indices] /\ cursor \in Indices
  /\ sure => caught /\ ws = "open"
  /\ httpLive => ws # "open"

Covered(i) == Drawn(shown, RowOf(i)) >= i

OnItsWay(i) ==
  \/ i > pub
  \/ \E k \in DOMAIN srv.sub : srv.sub[k] = i
  \/ \E k \in DOMAIN srv.out : srv.out[k].ev = i

Connected == ws = "open" /\ ~srv.closed /\ ~Behind

(* Every change of the proposition the person could read is drawn or will  *)
(* be, unless the socket is about to be closed for the person's removal.   *)
Hears ==
  \A i \in 1..Len(events) :
    events[i].prop = Open /\ events[i].readable =>
      \/ Covered(i) \/ OnItsWay(i)
      \/ \E j \in i..Len(events) : events[j].prop = Open /\ events[j].gone /\ OnItsWay(j)

(* A tab that has caught up over a socket already subscribed has drawn     *)
(* every change of its proposition or will be handed it by that socket     *)
(* (realtime.go forward, net.js catchUp): nothing falls between the read   *)
(* and the subscription, out of the bus's buffer or behind a newer answer. *)
HeardEverything == sure /\ Connected => Hears

(* What net.js says of caught: "only both together mean this tab has heard *)
(* everything there is to hear", a read finished since the socket opened   *)
(* and a connection to send on.                                            *)
CaughtUpHasHeard == caught /\ Connected => Hears

(* A person who is not on a proposition is not told it exists (realtime.go *)
(* wants): whatever is on its way to the tab was readable when it happened *)
(* or the person has joined since, also while events are lost, memberships *)
(* change and the socket is being opened.                                  *)
TellsOnlyReaders ==
  \A i \in 1..Len(events) :
    (\E k \in DOMAIN srv.out : srv.out[k].ev = i)
      => \/ events[i].readable
         \/ \E j \in i + 1..Len(events) :
              events[j].prop = events[i].prop /\ events[j].entity = "member" /\ ~events[j].gone

(* A change made while the tab was listening reaches it (net.js, "Only     *)
(* completed stream pages advance this cursor"), also when the socket is   *)
(* cut off before it does: the change is drawn in the end, unless the      *)
(* person may no longer read it, or a read failed on an open socket; then  *)
(* nothing asks again, and the tab does not claim to have caught up.       *)
KnowsItIsBehind == ws = "open" /\ ~caught /\ \A k \in Reads : reads[k].pc = "idle"

ReachesTheTab ==
  \A i \in 1..MaxLog :
    (sure /\ i = Len(events) /\ events[i].prop = Open /\ events[i].readable)
      ~> (~Readable(Open) \/ KnowsItIsBehind \/ (i <= Len(events) /\ Covered(i)))
=============================================================================
