------------------------------ MODULE Commands ------------------------------
(***************************************************************************)
(* The one shape every mutation has (internal/core): a command runs in an  *)
(* immediate SQLite transaction, is authorised there, is answered from the *)
(* activity log when its client key was spent before, and otherwise        *)
(* applies, writes its activity row and its key, commits and is published  *)
(* on the in-process bus before any later commit can be.                   *)
(*                                                                         *)
(* A frame is one client command; it may reach the server several times,   *)
(* and one frame may run several core commands (its steps), in one         *)
(* transaction (Together) or in one each.  Workers are the goroutines that *)
(* execute frames.  db is the committed database, tx the view of it the    *)
(* open transaction has; SQLite has one writer, so there is one tx.        *)
(***************************************************************************)
EXTENDS Naturals, Sequences, FiniteSets

CONSTANTS
  Users,     \* accounts
  Role,      \* Role[u]: users.role
  Frames,    \* client commands
  By,        \* By[f]: the user whose session sends f
  KeyOf,     \* KeyOf[f]: the client's key, or NoKey
  Steps,     \* Steps[f]: the core commands f runs, [eff, prop, user]
  Grouped,   \* Grouped[f]: f runs its steps inside Together
  Props0,    \* propositions there at the start
  Members0,  \* their members, <<user, proposition>>
  Workers, Subs, None, NoKey,
  Watched,   \* what a subscriber may ask for; zero is every proposition
  KeyLife,   \* how long a key is remembered, in ticks
  BusBuffer, \* how many events a subscriber may be behind
  MaxNow, MaxSends, MaxCrashes  \* bounds of the model

Can == [owner      |-> {"read", "edit", "delete", "settings"},
        editor     |-> {"read", "edit", "delete"},
        researcher |-> {"read", "edit"},
        guest      |-> {"read"}]

Effects == {"edit", "create", "seed", "delete", "add", "remove"}

ASSUME CommandsAssumption ==
  /\ Role \in [Users -> DOMAIN Can]
  /\ By \in [Frames -> Users]
  /\ Grouped \in [Frames -> BOOLEAN]
  /\ Steps \in [Frames -> Seq([eff : Effects, prop : Nat, user : Users])]
  /\ \A f \in Frames : Len(Steps[f]) >= 1
  \* No caller of Together deletes a proposition.
  /\ \A f \in Frames : Grouped[f] =>
       \A i \in 1..Len(Steps[f]) : Steps[f][i].eff # "delete"
  /\ Props0 \subseteq Nat \ {0} /\ IsFiniteSet(Props0)
  \* They were numbered as they were made (nextPropositionID).
  /\ \A p \in Props0 : p <= Cardinality(Props0)
  /\ Members0 \subseteq Users \X (Nat \ {0})
  /\ None \notin Workers /\ Watched \subseteq Nat
  /\ KeyLife \in Nat /\ BusBuffer \in Nat
  /\ MaxNow \in Nat /\ MaxSends \in Nat /\ MaxCrashes \in Nat

VARIABLES
  now,        \* the clock, s.Now()
  db,         \* what is committed
  tx,         \* what the open transaction sees
  lock,       \* the worker holding SQLite's write lock
  publishing, \* the worker holding Service.publishing
  worker,     \* what each worker is doing
  feed,       \* the rows the bus has been given since the process started
  boot,       \* how many rows were there when it started
  sub,        \* the bus's subscriptions
  sends,      \* deliveries of frames so far
  crashes

vars == <<now, db, tx, lock, publishing, worker, feed, boot, sub, sends,
          crashes>>

Idle == [pc |-> "idle", frame |-> None, step |-> 0, spent |-> 0,
         target |-> 0, answers |-> <<>>, events |-> <<>>]

Closed == [open |-> FALSE, prop |-> 0, q |-> <<>>, dropped |-> 0,
           from |-> 0, got |-> <<>>]

Init ==
  /\ now = 0
  /\ db = [rows |-> <<>>, present |-> {}, keys |-> {}, members |-> Members0,
           props |-> Props0, next |-> Cardinality(Props0) + 1]
  /\ tx = db
  /\ lock = None /\ publishing = None
  /\ worker = [w \in Workers |-> Idle]
  /\ feed = <<>> /\ boot = 0
  /\ sub = [s \in Subs |-> Closed]
  /\ sends = 0 /\ crashes = 0

-----------------------------------------------------------------------------
\* Slip: the role is checked and the membership is not.
AuthorisedByRole(d, u, p, need) == need \in Can[Role[u]]

(* authorise: the role must allow the action, and anyone but an owner must *)
(* be a member of the proposition; zero is no proposition yet.             *)
Authorised(d, u, p, need) ==
  /\ need \in Can[Role[u]]
  /\ p = 0 \/ Role[u] = "owner" \/ <<u, p>> \in d.members

Need(f, i) == IF Steps[f][i].eff = "delete" THEN "delete" ELSE "edit"

(* The proposition a step names: none for a create, and for the seed that  *)
(* follows one the id the create's event was answered with.                *)
Named(w) ==
  LET s == Steps[worker[w].frame][worker[w].step]
  IN  CASE s.eff = "create" -> 0
        [] s.eff = "seed"   -> worker[w].target
        [] OTHER            -> s.prop

(* spend: the first command takes the key, the n-th the key with #n.       *)
Spend(w) == worker[w].spent + 1

\* Slip: a group forgets its keys.
KeyedAlone(f) == KeyOf[f] # NoKey /\ ~Grouped[f]

Keyed(f) == KeyOf[f] # NoKey

\* Slip: a key is looked up without its actor.
OriginalsOfAnyone(d, f, n) ==
  {k.seq : k \in {x \in d.keys : x.key = KeyOf[f] /\ x.n = n}}

(* replayed: the activity rows the key already produced (at most one).     *)
Originals(d, f, n) ==
  {k.seq : k \in {x \in d.keys : x.by = By[f] /\ x.key = KeyOf[f] /\ x.n = n}}

\* Slip: the replay is not authorised again.
RereadableUnasked(d, f, row) == TRUE

(* A replay is authorised again, against the proposition its row is filed  *)
(* under; a row filed under none is a proposition's delete.                *)
Rereadable(d, f, row) ==
  Authorised(d, By[f], row.filed, IF row.filed = 0 THEN "settings" ELSE "read")

(* What applying a step does to the database: the change itself, its row   *)
(* and its key.  Deleting a proposition cascades to its rows, their keys   *)
(* and its members, and its own row is filed under none.                   *)
Apply(d, f, i, n, p, t) ==
  LET s    == Steps[f][i]
      made == IF s.eff = "create" THEN d.next ELSE p
      seq  == Len(d.rows) + 1
      gone == IF s.eff = "delete" THEN {r \in d.present : d.rows[r].filed = p}
              ELSE {}
      row  == [frame |-> f, step |-> i, by |-> By[f], key |-> KeyOf[f], n |-> n,
               prop |-> made, filed |-> IF s.eff = "delete" THEN 0 ELSE made,
               asked |-> p, at |-> t]
  IN  [rows    |-> Append(d.rows, row),
       present |-> (d.present \ gone) \cup {seq},
       keys    |-> {k \in d.keys : k.seq \notin gone} \cup
                   (IF Keyed(f) THEN {[by |-> By[f], key |-> KeyOf[f], n |-> n,
                                       seq |-> seq, at |-> t]}
                    ELSE {}),
       members |-> CASE s.eff = "create" -> d.members \cup {<<By[f], made>>}
                     [] s.eff = "add"    -> d.members \cup {<<s.user, p>>}
                     [] s.eff = "remove" -> d.members \ {<<s.user, p>>}
                     [] s.eff = "delete" -> {m \in d.members : m[2] # p}
                     [] OTHER            -> d.members,
       props   |-> CASE s.eff = "create" -> d.props \cup {made}
                     [] s.eff = "delete" -> d.props \ {p}
                     [] OTHER            -> d.props,
       next    |-> IF s.eff = "create" THEN d.next + 1 ELSE d.next]
-----------------------------------------------------------------------------
(* A frame reaches a worker: for the first time, or again because its      *)
(* client got no answer and sent it once more, or late, after the client   *)
(* had its answer from another copy.  Two copies may run at once.          *)
Deliver(w, f) ==
  /\ worker[w].pc = "idle"
  /\ sends < MaxSends
  /\ sends' = sends + 1
  /\ worker' = [worker EXCEPT ![w] = [Idle EXCEPT !.pc = "begin", !.frame = f,
                                                  !.step = 1]]
  /\ UNCHANGED <<now, db, tx, lock, publishing, feed, boot, sub, crashes>>

(* BeginTx with _txlock=immediate takes the write lock or waits for it.    *)
Begin(w) ==
  /\ worker[w].pc = "begin"
  /\ lock = None
  /\ lock' = w
  /\ tx' = db
  /\ worker' = [worker EXCEPT ![w].pc = "do"]
  /\ UNCHANGED <<now, db, publishing, feed, boot, sub, sends, crashes>>

\* Slip: Together commits after every command.
AfterEach(w, i) == "commit"

(* After a command: the next one in the same transaction inside Together,  *)
(* the commit otherwise.                                                   *)
After(w, i) ==
  LET f == worker[w].frame
  IN  IF Grouped[f] /\ i < Len(Steps[f]) THEN "do" ELSE "commit"

(* Do, when the key is new: the command applies in the open transaction.   *)
DoApply(w) ==
  LET f == worker[w].frame
      i == worker[w].step
      n == Spend(w)
      p == Named(w)
  IN  /\ worker[w].pc = "do"
      /\ Authorised(tx, By[f], p, Need(f, i))
      /\ ~Keyed(f) \/ Originals(tx, f, n) = {}
      /\ p = 0 \/ p \in tx.props
      /\ tx' = Apply(tx, f, i, n, p, now)
      /\ LET seq == Len(tx'.rows)
         IN  worker' = [worker EXCEPT
               ![w].pc = After(w, i), ![w].spent = n,
               ![w].step = IF After(w, i) = "do" THEN i + 1 ELSE i,
               ![w].target = IF @ = 0 THEN tx'.rows[seq].prop ELSE @,
               ![w].answers = Append(@, <<i, seq>>),
               ![w].events = Append(@, seq)]
      /\ UNCHANGED <<now, db, lock, publishing, feed, boot, sub, sends, crashes>>

(* Do, when the key was spent: the original event is the answer and        *)
(* nothing is applied.  Alone, the command's transaction is rolled back;   *)
(* in a group a hit may shorten what the group runs after it.              *)
DoReplay(w) ==
  LET f == worker[w].frame
      i == worker[w].step
      n == Spend(w)
      hit(seq, pc, j) ==
        worker' = [worker EXCEPT
          ![w].pc = pc, ![w].step = j, ![w].spent = n,
          ![w].target = IF @ = 0 THEN tx.rows[seq].filed ELSE @,
          ![w].answers = Append(@, <<i, seq>>)]
  IN  /\ worker[w].pc = "do"
      /\ Authorised(tx, By[f], Named(w), Need(f, i))
      /\ Keyed(f)
      /\ \E seq \in Originals(tx, f, n) :
           /\ Rereadable(tx, f, tx.rows[seq])
           /\ \/ /\ Grouped[f]
                 /\ \/ \E j \in (i + 1)..Len(Steps[f]) : hit(seq, "do", j)
                    \/ hit(seq, "commit", i)
                 /\ UNCHANGED <<lock, tx>>
              \/ /\ ~Grouped[f]
                 /\ IF i < Len(Steps[f]) THEN hit(seq, "begin", i + 1)
                    ELSE hit(seq, "reply", i)
                 /\ lock' = None /\ tx' = db
      /\ UNCHANGED <<now, db, publishing, feed, boot, sub, sends, crashes>>

(* Do refuses (not authorised, not found, a conflict) or the commit fails: *)
(* the transaction is rolled back and the command's error is its answer.   *)
Refuse(w) ==
  /\ worker[w].pc \in {"do", "commit"}
  /\ tx' = db
  /\ lock' = None
  /\ worker' = [worker EXCEPT ![w].pc = "reply", ![w].answers = <<>>,
                            ![w].events = <<>>]
  /\ UNCHANGED <<now, db, publishing, feed, boot, sub, sends, crashes>>

\* Slip: the commit does not wait for the publishing mutex.
CommitUnordered(w) ==
  /\ worker[w].pc = "commit"
  /\ publishing' = w
  /\ db' = tx
  /\ lock' = None
  /\ worker' = [worker EXCEPT ![w].pc = "publish"]
  /\ UNCHANGED <<now, tx, feed, boot, sub, sends, crashes>>

(* commit: under the publishing mutex the transaction commits, and the     *)
(* mutex is kept until its events are on the bus.                          *)
Commit(w) ==
  /\ worker[w].pc = "commit"
  /\ publishing = None
  /\ publishing' = w
  /\ db' = tx
  /\ lock' = None
  /\ worker' = [worker EXCEPT ![w].pc = "publish"]
  /\ UNCHANGED <<now, tx, feed, boot, sub, sends, crashes>>

Wants(s, e) == sub[s].prop \in {0, e.prop}

\* Slip: a full subscriber loses the event and no drop is counted.
GivenUncounted(s, e) ==
  IF sub[s].open /\ Wants(s, db.rows[e]) /\ Len(sub[s].q) < BusBuffer
  THEN [sub[s] EXCEPT !.q = Append(@, e)]
  ELSE sub[s]

\* Slip: the buffer has no end.
GivenUnbounded(s, e) ==
  IF sub[s].open /\ Wants(s, db.rows[e])
  THEN [sub[s] EXCEPT !.q = Append(@, e)]
  ELSE sub[s]

(* Bus.Publish to one subscriber: it is given the event if it wants it and *)
(* has room, and counts a drop if it has none; no send blocks.             *)
Given(s, e) ==
  IF ~sub[s].open \/ ~Wants(s, db.rows[e]) THEN sub[s]
  ELSE IF Len(sub[s].q) < BusBuffer
       THEN [sub[s] EXCEPT !.q = Append(@, e)]
       ELSE [sub[s] EXCEPT !.dropped = @ + 1]

Publish(w) ==
  /\ worker[w].pc = "publish"
  /\ worker[w].events # <<>>
  /\ LET e == Head(worker[w].events)
     IN  /\ feed' = Append(feed, e)
         /\ sub' = [s \in Subs |-> Given(s, e)]
  /\ worker' = [worker EXCEPT ![w].events = Tail(@)]
  /\ UNCHANGED <<now, db, tx, lock, publishing, boot, sends, crashes>>

(* The mutex is given back; a frame that runs each step in a transaction   *)
(* of its own goes on to the next.                                         *)
EndPublish(w) ==
  LET more == ~Grouped[worker[w].frame] /\
              worker[w].step < Len(Steps[worker[w].frame])
  IN  /\ worker[w].pc = "publish"
      /\ worker[w].events = <<>>
      /\ publishing' = None
      /\ worker' = [worker EXCEPT
           ![w].pc = IF more THEN "begin" ELSE "reply",
           ![w].step = IF more THEN @ + 1 ELSE @]
      /\ UNCHANGED <<now, db, tx, lock, feed, boot, sub, sends, crashes>>

(* The answer is written; whether anybody hears it is the client's affair. *)
Reply(w) ==
  /\ worker[w].pc = "reply"
  /\ worker' = [worker EXCEPT ![w] = Idle]
  /\ UNCHANGED <<now, db, tx, lock, publishing, feed, boot, sub, sends, crashes>>
-----------------------------------------------------------------------------
Subscribe(s, p) ==
  /\ ~sub[s].open
  /\ sub' = [sub EXCEPT ![s] = [Closed EXCEPT !.open = TRUE, !.prop = p,
                                              !.from = Len(feed)]]
  /\ UNCHANGED <<now, db, tx, lock, publishing, worker, feed, boot, sends, crashes>>

Take(s) ==
  /\ sub[s].q # <<>>
  /\ sub' = [sub EXCEPT ![s].q = Tail(@), ![s].got = Append(@, Head(sub[s].q))]
  /\ UNCHANGED <<now, db, tx, lock, publishing, worker, feed, boot, sends, crashes>>

Unsubscribe(s) ==
  /\ sub[s].open
  /\ sub' = [sub EXCEPT ![s] = Closed]
  /\ UNCHANGED <<now, db, tx, lock, publishing, worker, feed, boot, sends, crashes>>

\* Slip: a key is pruned at its last moment, not after it.
PruneKeysEarly ==
  /\ lock = None
  /\ db' = [db EXCEPT !.keys = {k \in @ : k.at + KeyLife > now}]
  /\ tx' = db'
  /\ UNCHANGED <<now, lock, publishing, worker, feed, boot, sub, sends, crashes>>

(* PruneKeys, on the hourly sweep: a write of its own.                     *)
PruneKeys ==
  /\ lock = None
  /\ db' = [db EXCEPT !.keys = {k \in @ : k.at + KeyLife >= now}]
  /\ tx' = db'
  /\ UNCHANGED <<now, lock, publishing, worker, feed, boot, sub, sends, crashes>>

Tick ==
  /\ now < MaxNow
  /\ now' = now + 1
  /\ UNCHANGED <<db, tx, lock, publishing, worker, feed, boot, sub, sends, crashes>>

(* The process dies and starts again: the open transaction, the workers    *)
(* and the bus are gone, what was committed and not published is never     *)
(* published, and the copies that had been delivered are not answered.     *)
Crash ==
  /\ crashes < MaxCrashes
  /\ crashes' = crashes + 1
  /\ tx' = db
  /\ lock' = None /\ publishing' = None
  /\ worker' = [w \in Workers |-> Idle]
  /\ feed' = <<>> /\ boot' = Len(db.rows)
  /\ sub' = [s \in Subs |-> Closed]
  /\ UNCHANGED <<now, db, sends>>

WorkerStep(w) ==
  \/ Begin(w) \/ DoApply(w) \/ DoReplay(w) \/ Refuse(w) \/ Commit(w)
  \/ Publish(w) \/ EndPublish(w) \/ Reply(w)

Next ==
  \/ \E w \in Workers, f \in Frames : Deliver(w, f)
  \/ \E w \in Workers : WorkerStep(w)
  \/ \E s \in Subs, p \in Watched : Subscribe(s, p)
  \/ \E s \in Subs : Take(s) \/ Unsubscribe(s)
  \/ PruneKeys \/ Tick \/ Crash

Spec == Init /\ [][Next]_vars
-----------------------------------------------------------------------------
Row == [frame : Frames, step : Nat, by : Users, key : {KeyOf[f] : f \in Frames},
        n : Nat, prop : Nat, filed : Nat, asked : Nat, at : Nat]

Key == [by : Users, key : {KeyOf[f] : f \in Frames}, n : Nat, seq : Nat,
        at : Nat]

Database == [rows : Seq(Row), present : SUBSET Nat, keys : SUBSET Key,
             members : SUBSET (Users \X Nat), props : SUBSET Nat, next : Nat]

Work == [pc : {"idle", "begin", "do", "commit", "publish", "reply"},
         frame : Frames \cup {None}, step : Nat, spent : Nat, target : Nat,
         answers : Seq(Nat \X Nat), events : Seq(Nat)]

Subscription == [open : BOOLEAN, prop : Nat, q : Seq(Nat), dropped : Nat,
                 from : Nat, got : Seq(Nat)]

(* Every variable has its type: the database and the transaction's view of *)
(* it, what each worker is doing, and the bus's bookkeeping.               *)
TypeOK ==
  /\ now \in Nat
  /\ db \in Database /\ tx \in Database
  /\ lock \in Workers \cup {None} /\ publishing \in Workers \cup {None}
  /\ worker \in [Workers -> Work]
  /\ feed \in Seq(Nat) /\ boot \in Nat
  /\ sub \in [Subs -> Subscription]
  /\ \A s \in Subs : Len(sub[s].q) <= BusBuffer
  /\ sends \in Nat /\ crashes \in Nat

(* A key is spent once (core.go Do, keys.go KeyLife): while a command's    *)
(* row is in the log, no second row is written under the same actor and    *)
(* key less than KeyLife later, however often the frame is delivered, to   *)
(* however many workers at once, and across crashes.                       *)
SpentOnce ==
  \A r \in db.present : \A s \in DOMAIN db.rows :
    LET a == db.rows[r]
        b == db.rows[s]
    IN  r < s /\ a.key # NoKey /\ a.by = b.by /\ a.key = b.key /\ a.n = b.n
        => b.at - a.at > KeyLife

(* The same of the client's command rather than of its key: no step of a   *)
(* frame is applied twice while its first row is there and its key lives,  *)
(* although a replayed group may skip steps and so renumber the rest.      *)
AppliedOnce ==
  \A r \in db.present : \A s \in DOMAIN db.rows :
    LET a == db.rows[r]
        b == db.rows[s]
    IN  r < s /\ a.key # NoKey /\ a.frame = b.frame /\ a.step = b.step
        => b.at - a.at > KeyLife

(* No answer is for something rolled back, or is anybody else's (keys.go,  *)
(* the run counter): what a client is told was done is committed, was done *)
(* by its own actor under its own key, and for a lone command and for the  *)
(* first of a group, whose payload callers read, by that very step.        *)
AnsweredByOwn ==
  \A w \in Workers : worker[w].pc = "reply" =>
    \A k \in DOMAIN worker[w].answers :
      LET f == worker[w].frame
          i == worker[w].answers[k][1]
          r == worker[w].answers[k][2]
      IN  /\ r \in DOMAIN db.rows
          /\ db.rows[r].by = By[f] /\ db.rows[r].key = KeyOf[f]
          /\ ~Grouped[f] \/ i = 1 => db.rows[r].step = i

(* Together is all or nothing (core.go Together): what is committed of a   *)
(* grouped frame is every step of it or none, whatever refused or crashed  *)
(* part way.                                                               *)
GroupsWhole ==
  \A f \in Frames : Grouped[f] =>
    LET made == {db.rows[r].step : r \in {x \in DOMAIN db.rows :
                                            db.rows[x].frame = f}}
    IN  made = {} \/ made = DOMAIN Steps[f]

(* The bus carries the log in commit order, leaving nothing out (the       *)
(* publishing mutex, core.go commit): the feed is the rows committed since *)
(* the process started, one after another, and with nobody holding the     *)
(* mutex it is all of them.                                                *)
PublishedInOrder ==
  /\ boot + Len(feed) <= Len(db.rows)
  /\ \A i \in DOMAIN feed : feed[i] = boot + i
  /\ publishing = None => boot + Len(feed) = Len(db.rows)

(* The events a subscriber was to be given since it subscribed, and those  *)
(* it was given, whether it has taken them or not.                         *)
Due(s) ==
  {e \in {feed[k] : k \in sub[s].from + 1..Len(feed)} : Wants(s, db.rows[e])}
GivenTo(s) == sub[s].got \o sub[s].q

(* No silent gap (bus.go Publish, Dropped): a subscriber that counts no    *)
(* drop has been given exactly the events of its proposition published     *)
(* since it subscribed.                                                    *)
NoSilentGap ==
  \A s \in Subs : sub[s].open /\ sub[s].dropped = 0
    => {GivenTo(s)[k] : k \in DOMAIN GivenTo(s)} = Due(s)

(* A drop is never invisible, and never disorders: what a subscriber has   *)
(* taken and queued is in log order and without repeats, and the drops it  *)
(* counts are the ones it misses.                                          *)
DropsCounted ==
  \A s \in Subs : sub[s].open =>
    /\ \A i, j \in DOMAIN GivenTo(s) : i < j => GivenTo(s)[i] < GivenTo(s)[j]
    /\ Len(GivenTo(s)) + sub[s].dropped = Cardinality(Due(s))

Entitled(d, u, p) == p = 0 \/ Role[u] = "owner" \/ <<u, p>> \in d.members

(* Nobody writes where they may not (core.go authorise, inside the         *)
(* transaction): every row a step commits was made by somebody who could   *)
(* write there in the database the step found, or in the one the group     *)
(* itself leaves; a membership another worker took away is seen.           *)
CommittedByMembers ==
  [][\A r \in DOMAIN db'.rows \ DOMAIN db.rows :
       LET a == db'.rows[r]
       IN  /\ Role[a.by] # "guest"
           /\ \E d \in {db, db'} : Entitled(d, a.by, a.asked)]_vars

(* A replay tells nobody what they may no longer read (core.go, the second *)
(* authorise): an answer taken from the log is of a row filed where its    *)
(* reader is a member at that moment, or the reader is an owner.           *)
ReplaysReadable ==
  [][\A w \in Workers :
       LET is == worker'[w].answers
       IN  Len(is) > Len(worker[w].answers) /\ tx' = tx =>
             LET row == tx.rows[is[Len(is)][2]]
             IN  /\ Entitled(db, row.by, row.filed)
                 /\ row.filed = 0 => Role[row.by] = "owner"]_vars

(* The core implements the command log: its log is the rows' identities,   *)
(* what it remembers is the keys, and what it has told is the bus's feed.  *)
Log == INSTANCE CommandLog WITH
  Keyless <- LAMBDA c : c[2] = NoKey,
  log     <- [r \in DOMAIN db.rows |-> <<db.rows[r].by, db.rows[r].key, db.rows[r].n>>],
  spent   <- {<<k.by, k.key, k.n>> : k \in db.keys},
  told    <- feed,
  since   <- boot

ImplementsLog == Log!Spec

(* What keys.go:44-46 says of a group: "they commit as one and a replay    *)
(* either finds all their keys or none".                                   *)
AllKeysOrNone ==
  \A f \in Frames : Keyed(f) /\ Grouped[f] =>
    LET found == {n \in DOMAIN Steps[f] : Originals(db, f, n) # {}}
    IN  found = {} \/ found = DOMAIN Steps[f]

(* What keys.go:31-33 says: "a replay applies nothing that was applied     *)
(* before", while its key lives (keys.go:61).                              *)
ReplayAppliesNothing ==
  \A r, s \in DOMAIN db.rows :
    LET a == db.rows[r]
        b == db.rows[s]
    IN  r < s /\ a.key # NoKey /\ a.frame = b.frame /\ a.step = b.step
        => b.at - a.at > KeyLife

(* A client is answered for what it asked: what a retry finds is the       *)
(* command it is a retry of, its own actor's, and all of a group of them.  *)
KeysAnswer == AnsweredByOwn /\ GroupsWhole

(* Nobody writes, and nobody is answered from the log, where they may not. *)
OnlyMembers == CommittedByMembers /\ ReplaysReadable

(* What a subscriber is told is in log order, with every gap counted.      *)
SubscribersTold == NoSilentGap /\ DropsCounted
=============================================================================
