------------------------------- MODULE Notify -------------------------------
(***************************************************************************)
(* The notifications of one account (internal/notify).  The watcher reads  *)
(* the committed log from a cursor and, in one transaction, writes a line  *)
(* for each event into the outbox rows of the account's channels and moves *)
(* the cursor (CatchUp).  The worker, once a day, writes the lines of the  *)
(* dates that fall due (Tick), then reads a batch of the rows that are due *)
(* and sends them one by one (once).                                       *)
(*                                                                         *)
(* There is no clock that counts: a row keeps how long it has still to     *)
(* wait (next_at), and how long ago it was made (created_at) and first     *)
(* tried (tried_at), up to the time after which it is given up; phase is   *)
(* the time of day.  A transaction holds the one write lock of SQLite from *)
(* its beginning (_txlock=immediate); a row's number is the first above    *)
(* those in use, which is how SQLite numbers INTEGER PRIMARY KEY.          *)
(***************************************************************************)
EXTENDS Integers, Sequences, FiniteSets, FiniteSetsExt, Functions

CONSTANTS
  Channels,             \* the account's channels, numbered 1..n
  Email, Digest,        \* those that are mail, those collected into the digest
  QuietFrom, QuietTo,   \* each channel's quiet hours, phases; equal for none
  Ticked,               \* notification_rules: <<event, channel>> pairs
  Day, DigestAt, TickLead,
  CollapseWindow, FirstRetry, MaxRetry, PollEvery, GiveUpAfter,
  BatchSize, CatchUpSize,
  MaxEvents, MaxDated, MaxEdits, MaxStops      \* bounds

Kinds == {"moved", "mentioned"}
Collapses(kind) == kind = "moved"

ASSUME NotifyAssumption ==
  /\ IsFiniteSet(Channels) /\ Channels = 1..Cardinality(Channels)
  /\ Email \subseteq Channels /\ Digest \subseteq Channels
  /\ {CollapseWindow, FirstRetry, MaxRetry, PollEvery, GiveUpAfter, BatchSize,
      CatchUpSize, Day} \subseteq Nat \ {0}
  /\ DigestAt \in 0..Day - 1 /\ TickLead \in 0..DigestAt
  /\ QuietFrom \in [Channels -> 0..Day - 1] /\ QuietTo \in [Channels -> 0..Day - 1]
  /\ Ticked \subseteq (Kinds \cup {"due"}) \X Channels
  /\ {MaxEvents, MaxDated, MaxEdits, MaxStops} \subseteq Nat

VARIABLES
  phase, tickedToday,
  log, cursor,     \* the events that match a rule; how many have been queued
  outbox,          \* rows by number
  verified,        \* the channels there are, and whether each is verified
  mailSet,         \* the settings name a mail server
  tx,              \* the watcher's transaction, which sees its own outbox
  worker,          \* its step and the rest of its batch, the row at hand first
  delivered,       \* <<line, channel>> a destination has taken
  again,           \* deliveries of rows with a line delivered already
  deleted,         \* channels that were deleted once
  late,            \* <<line, channel>> written when the worker had read the row (below)
  dated, edits, stops

notifyvars == <<phase, tickedToday, log, cursor, outbox, verified, mailSet, tx, worker,
          delivered, again, deleted, late, dated, edits, stops>>
time    == <<phase, tickedToday>>
events  == <<log, cursor, dated>>
history == <<delivered, again, deleted, late>>

NoTx  == [open |-> FALSE]
Never == -1             \* tried_at IS NULL
AtRest  == [pc |-> "tick", batch |-> <<>>]

NotifyInit ==
  /\ phase = 0 /\ tickedToday = FALSE
  /\ log = <<>> /\ cursor = 0 /\ outbox = <<>>
  /\ verified \in {v \in [Channels -> BOOLEAN] : \A c \in Email : v[c]}
  /\ mailSet \in BOOLEAN
  /\ tx = NoTx /\ worker = AtRest
  /\ delivered = {} /\ again = 0 /\ deleted = {} /\ late = {}
  /\ dated = 0 /\ edits = 0 /\ stops = 0

Free == ~tx.open
Verified(c) == c \in DOMAIN verified /\ verified[c]
Sendable(r) == r.tried < GiveUpAfter

-----------------------------------------------------------------------------
(* Queueing: when a line goes out on a channel, and what it may merge with. *)

NextDigest == IF DigestAt > phase THEN DigestAt - phase ELSE DigestAt + Day - phase

\* How much of the quiet window phase is inside is left; it may cross midnight.
QuietLeft(c) ==
  LET length == (QuietTo[c] + Day - QuietFrom[c]) % Day
      into   == (phase + Day - QuietFrom[c]) % Day
  IN  IF into < length THEN length - into ELSE 0

Schedule(c, kind) ==
  LET key == IF Collapses(kind) THEN kind ELSE ""
  IN  IF c \in Digest THEN [wait |-> NextDigest, collapse |-> "digest"]
      ELSE [collapse |-> key,
            wait |-> IF QuietLeft(c) > 0 THEN QuietLeft(c)
                     ELSE IF key # "" THEN CollapseWindow ELSE 0]

AtOnce == [wait |-> 0, collapse |-> ""]

\* Slip: a channel that waits is left to wait.
MentionWaits(slots, usable) ==
  IF DOMAIN slots # {} \/ usable = {} THEN slots ELSE [c \in {Min(usable)} |-> AtOnce]

(* Being named is not noise: the first channel that was to get it takes it *)
(* now, or if there was none the first that can.                           *)
MentionNow(slots, usable) ==
  LET takers == IF DOMAIN slots # {} THEN DOMAIN slots ELSE usable
  IN  IF takers = {} THEN slots
      ELSE [c \in DOMAIN slots \cup {Min(takers)} |-> IF c = Min(takers) THEN AtOnce ELSE slots[c]]

(* When each channel gets it, and under which key.                         *)
Slots(kind) ==
  LET usable == {c \in DOMAIN verified : verified[c]}
      slots  == [c \in {d \in usable : <<kind, d>> \in Ticked} |-> Schedule(c, kind)]
  IN  IF kind = "mentioned" /\ \A c \in DOMAIN slots : slots[c].wait > 0
      THEN MentionNow(slots, usable)
      ELSE slots

NewRow(c, slot, line) ==
  [channel |-> c, collapse |-> slot.collapse, items |-> <<line>>, wait |-> slot.wait,
   age |-> 0, tried |-> Never, attempts |-> 0, sent |-> FALSE]

\* Slip: a row whose turn has come takes the line too.
MergeableDue(rows, c, slot) ==
  {i \in DOMAIN rows :
    /\ rows[i].channel = c /\ rows[i].collapse = slot.collapse
    /\ ~rows[i].sent /\ Sendable(rows[i])}

\* The rows under slot's key whose turn has not come.
Mergeable(rows, c, slot) ==
  {i \in DOMAIN rows :
    /\ rows[i].channel = c /\ rows[i].collapse = slot.collapse
    /\ ~rows[i].sent /\ rows[i].wait > 0 /\ Sendable(rows[i])}

Merges(rows, c, slot) == slot.collapse # "" /\ Mergeable(rows, c, slot) # {}

(* The slots' writes, one after another: they are of different channels,   *)
(* so none merges into what another wrote, and the new rows are numbered   *)
(* in the order of their channels.                                         *)
Write(rows, slots, line) ==
  LET merging == {c \in DOMAIN slots : Merges(rows, c, slots[c])}
      new     == DOMAIN slots \ merging
      Number(c) == Max(DOMAIN rows \cup {0}) + Cardinality({d \in new : d <= c})
  IN  [i \in DOMAIN rows \cup {Number(c) : c \in new} |->
         IF i \notin DOMAIN rows
         THEN LET c == CHOOSE d \in new : Number(d) = i IN NewRow(c, slots[c], line)
         ELSE IF \E c \in merging : i = Min(Mergeable(rows, c, slots[c]))
         THEN [rows[i] EXCEPT !.items = Append(@, line)]
         ELSE rows[i]]

QueueUser(rows, kind, line) == Write(rows, Slots(kind), line)

-----------------------------------------------------------------------------
(* The watcher.                                                             *)

Happens(kind) ==
  /\ Free /\ Len(log) < MaxEvents
  /\ log' = Append(log, kind)
  /\ UNCHANGED <<time, cursor, dated, outbox, verified, mailSet, tx, worker, history, edits, stops>>

CatchUpBegins ==
  /\ Free /\ cursor < Len(log)
  /\ tx' = [open |-> TRUE, rows |-> outbox, cursor |-> cursor, fell |-> {}]
  /\ UNCHANGED <<time, events, outbox, verified, mailSet, worker, history, edits, stops>>

\* queueTx: the clock is read for each event, after the transaction began.
CatchUpQueues ==
  /\ tx.open /\ tx.cursor < Len(log) /\ tx.cursor - cursor < CatchUpSize
  /\ LET n == tx.cursor + 1
     IN  tx' = [tx EXCEPT !.rows = QueueUser(@, log[n], <<"log", n>>), !.cursor = n]
  /\ UNCHANGED <<time, events, outbox, verified, mailSet, worker, history, edits, stops>>

\* What the transaction adds to the rows.
Added(i) == Range(tx.rows[i].items) \ (IF i \in DOMAIN outbox THEN Range(outbox[i].items) ELSE {})

(* History: what is added to a row the worker has read, because it fell    *)
(* due since the line was queued (fell), or under a number whose row the   *)
(* worker read and which has gone since (gone).                            *)
Overlooked ==
  {p \in (UNION {Added(i) : i \in DOMAIN tx.rows}) \X Channels :
     \E k \in DOMAIN worker.batch :
       LET q == worker.batch[k]
       IN  /\ q.id \in DOMAIN tx.rows /\ p[1] \in Added(q.id) /\ p[2] = tx.rows[q.id].channel
           /\ q.gone \/ q.id \in tx.fell}

\* Slip: the cursor is not moved with the rows.
CommitsTheRows ==
  /\ tx.open /\ (tx.cursor = Len(log) \/ tx.cursor - cursor = CatchUpSize)
  /\ outbox' = tx.rows /\ tx' = NoTx /\ late' = late \cup Overlooked
  /\ UNCHANGED <<time, events, verified, mailSet, worker, delivered, again, deleted, edits, stops>>

CatchUpCommits ==
  /\ tx.open /\ (tx.cursor = Len(log) \/ tx.cursor - cursor = CatchUpSize)
  /\ outbox' = tx.rows /\ cursor' = tx.cursor /\ tx' = NoTx /\ late' = late \cup Overlooked
  /\ UNCHANGED <<time, log, dated, verified, mailSet, worker, delivered, again, deleted, edits, stops>>

CatchUpFails ==
  /\ tx.open /\ stops < MaxStops
  /\ tx' = NoTx /\ stops' = stops + 1
  /\ UNCHANGED <<time, events, outbox, verified, mailSet, worker, history, edits>>

-----------------------------------------------------------------------------
(* The worker.  The row at hand is the first of its batch, as it was read.  *)

Id   == worker.batch[1].id
Row  == outbox[Id]
Here == Id \in DOMAIN outbox

At(pc) == worker' = [worker EXCEPT !.pc = pc]
\* Slip: the batch ends one row late.
AfterRowLate(w) == [pc |-> "row", batch |-> Tail(w.batch)]
AfterRow(w) == IF Len(w.batch) > 1 THEN [pc |-> "row", batch |-> Tail(w.batch)] ELSE AtRest
Onward == worker' = AfterRow(worker)

\* An UPDATE of the row at hand, which may be gone.
Update(row) == outbox' = IF Here THEN [outbox EXCEPT ![Id] = row] ELSE outbox

GivenUp(row) == [row EXCEPT !.tried = GiveUpAfter]

\* The daily pass: what falls due is queued with the day it was queued on.
DailyTick ==
  /\ worker.pc = "tick" /\ Free
  /\ phase >= DigestAt - TickLead /\ ~tickedToday
  /\ tickedToday' = TRUE
  /\ \/ UNCHANGED <<outbox, dated>>
     \/ /\ dated < MaxDated
        /\ dated' = dated + 1
        /\ outbox' = QueueUser(outbox, "due", <<"due", dated + 1>>)
  /\ At("once")
  /\ UNCHANGED <<phase, log, cursor, verified, mailSet, tx, history, edits, stops>>

TickNotDue ==
  /\ worker.pc = "tick"
  /\ phase < DigestAt - TickLead \/ tickedToday
  /\ At("once")
  /\ UNCHANGED <<time, events, outbox, verified, mailSet, tx, history, edits, stops>>

\* Tick comes back with an error, and the loop goes on.
TickFails ==
  /\ worker.pc = "tick" /\ stops < MaxStops
  /\ phase >= DigestAt - TickLead /\ ~tickedToday
  /\ At("once") /\ stops' = stops + 1
  /\ UNCHANGED <<time, events, outbox, verified, mailSet, tx, history, edits>>

Due == {i \in DOMAIN outbox : ~outbox[i].sent /\ outbox[i].wait = 0 /\ Sendable(outbox[i])}

\* The rows that are due, the order of their lateness left open.
ReadBatch ==
  /\ worker.pc = "once"
  /\ IF Due = {} THEN worker' = AtRest
     ELSE \E ids \in Injection(1..Min({BatchSize, Cardinality(Due)}), Due) :
            worker' = [pc |-> "row",
              batch |-> [k \in DOMAIN ids |->
                [id |-> ids[k], channel |-> outbox[ids[k]].channel, items |-> outbox[ids[k]].items,
                 attempts |-> outbox[ids[k]].attempts, past |-> outbox[ids[k]].age >= GiveUpAfter,
                 gone |-> FALSE]]]
  /\ UNCHANGED <<time, events, outbox, verified, mailSet, tx, history, edits, stops>>

\* Slip: the day of retries is not asked again.
StillUnsent == Here /\ ~Row.sent

StillSendable == Here /\ ~Row.sent /\ Sendable(Row)

RowGoes ==
  /\ worker.pc = "row" /\ StillSendable /\ Verified(worker.batch[1].channel)
  /\ At("send")
  /\ UNCHANGED <<time, events, outbox, verified, mailSet, tx, history, edits, stops>>

Skips ==
  /\ worker.pc = "row" /\ ~StillSendable
  /\ Onward
  /\ UNCHANGED <<time, events, outbox, verified, mailSet, tx, history, edits, stops>>

\* The channel is gone or unverified.
Stops ==
  /\ worker.pc = "row" /\ StillSendable /\ ~Verified(worker.batch[1].channel) /\ Free
  /\ Update(GivenUp(Row)) /\ Onward
  /\ UNCHANGED <<time, events, verified, mailSet, tx, history, edits, stops>>

Unset == worker.batch[1].channel \in Email /\ ~mailSet
Carried == {<<worker.batch[1].items[k], worker.batch[1].channel>> : k \in DOMAIN worker.batch[1].items}

Arrives ==
  /\ worker.pc = "send" /\ ~Unset
  /\ again' = again + IF Carried \cap delivered = {} THEN 0 ELSE 1
  /\ delivered' = delivered \cup Carried
  /\ At("mark")
  /\ UNCHANGED <<time, events, outbox, verified, mailSet, tx, deleted, late, edits, stops>>

\* The destination refuses it, or there is no mail server to send it.
Refused ==
  /\ worker.pc = "send"
  /\ At(IF Unset THEN "unset" ELSE "failed")
  /\ UNCHANGED <<time, events, outbox, verified, mailSet, tx, history, edits, stops>>

\* Slip: a write that finds the lock taken is let go.
MarkSentIfFree ==
  /\ worker.pc = "mark"
  /\ IF Free
     THEN Update([Row EXCEPT !.sent = TRUE, !.wait = 0, !.age = 0, !.tried = Never, !.attempts = 0])
     ELSE UNCHANGED outbox
  /\ Onward
  /\ UNCHANGED <<time, events, verified, mailSet, tx, history, edits, stops>>

\* markSent.  Nothing reads the times of a sent row, and they are not kept.
MarkSent ==
  /\ worker.pc = "mark" /\ Free
  /\ Update([Row EXCEPT !.sent = TRUE, !.wait = 0, !.age = 0, !.tried = Never, !.attempts = 0])
  /\ Onward
  /\ UNCHANGED <<time, events, verified, mailSet, tx, history, edits, stops>>

Backoff(attempts) == Min({FirstRetry * 2 ^ (attempts - 1), MaxRetry})

Retries ==
  /\ worker.pc = "failed" /\ Free
  /\ Update([Row EXCEPT !.attempts = @ + 1, !.wait = Backoff(worker.batch[1].attempts + 1),
                        !.tried = IF @ = Never THEN 0 ELSE @])
  /\ Onward
  /\ UNCHANGED <<time, events, verified, mailSet, tx, history, edits, stops>>

\* Slip: mail waits for a server for ever.
WaitsAlways ==
  /\ worker.pc = "unset" /\ Free
  /\ Update([Row EXCEPT !.wait = PollEvery])
  /\ Onward
  /\ UNCHANGED <<time, events, verified, mailSet, tx, history, edits, stops>>

\* No attempt: the row waits past the next poll, for a day from its making.
\* A row that took the number of the one read was made since.
Waits ==
  /\ worker.pc = "unset" /\ Free
  /\ Update(IF worker.batch[1].past /\ ~worker.batch[1].gone THEN GivenUp(Row) ELSE [Row EXCEPT !.wait = PollEvery])
  /\ Onward
  /\ UNCHANGED <<time, events, verified, mailSet, tx, history, edits, stops>>

\* A read or a write that fails ends the batch; what was sent stays unmarked.
OnceFails ==
  /\ worker.pc \in {"row", "mark", "failed", "unset"} /\ stops < MaxStops
  /\ worker' = AtRest /\ stops' = stops + 1
  /\ UNCHANGED <<time, events, outbox, verified, mailSet, tx, history, edits>>

Dies ==
  /\ stops < MaxStops /\ (tx.open \/ worker.pc \notin {"tick", "once"})
  /\ tx' = NoTx /\ worker' = AtRest /\ stops' = stops + 1
  /\ UNCHANGED <<time, events, outbox, verified, mailSet, history, edits>>

-----------------------------------------------------------------------------
(* The clock and the account's owner.                                       *)

Older(age) == Min({age + 1, GiveUpAfter})

\* created_at is read only of mail that waits for a server, and kept only for mail.
Aged(row) ==
  IF row.sent THEN row
  ELSE [row EXCEPT !.wait = Max({@ - 1, 0}), !.tried = IF @ = Never THEN @ ELSE Older(@),
                   !.age = IF row.channel \in Email THEN Older(@) ELSE @]
AllAged(rows) == [i \in DOMAIN rows |-> Aged(rows[i])]

\* The rows that fall due with lines the open transaction has written to them.
FallDue ==
  {i \in DOMAIN outbox : /\ tx.rows[i].items # outbox[i].items
                         /\ tx.rows[i].wait # 0 /\ Aged(tx.rows[i]).wait = 0}

TimePasses ==
  /\ phase' = (phase + 1) % Day
  /\ tickedToday' = (tickedToday /\ phase' # 0)
  /\ outbox' = AllAged(outbox)
  /\ tx' = IF tx.open THEN [tx EXCEPT !.rows = AllAged(@), !.fell = @ \cup FallDue] ELSE tx
  /\ UNCHANGED <<events, verified, mailSet, worker, history, edits, stops>>

\* A test message that was sent to the channel, whenever that was, arrives.
Tested(c) ==
  /\ Free /\ c \in DOMAIN verified /\ ~verified[c]
  /\ verified' = [verified EXCEPT ![c] = TRUE]
  /\ UNCHANGED <<time, events, outbox, mailSet, tx, worker, history, edits, stops>>

\* The channel is pointed at another place, which nothing has reached.
EditsDestination(c) ==
  /\ Free /\ c \in DOMAIN verified \ Email /\ verified[c] /\ edits < MaxEdits
  /\ verified' = [verified EXCEPT ![c] = FALSE]
  /\ edits' = edits + 1
  /\ UNCHANGED <<time, events, outbox, mailSet, tx, worker, history, stops>>

\* The worker keeps what it has read of a channel's rows.
Cut(batch, c) == [k \in DOMAIN batch |-> [batch[k] EXCEPT !.gone = @ \/ batch[k].channel = c]]

\* The channel's rows go with it, also those the worker has read.
DeletesChannel(c) ==
  /\ Free /\ c \in DOMAIN verified /\ edits < MaxEdits
  /\ verified' = Restrict(verified, DOMAIN verified \ {c})
  /\ outbox' = Restrict(outbox, {i \in DOMAIN outbox : outbox[i].channel # c})
  /\ worker' = [worker EXCEPT !.batch = Cut(@, c)]
  /\ deleted' = deleted \cup {c}
  /\ edits' = edits + 1
  /\ UNCHANGED <<time, events, mailSet, tx, delivered, again, late, stops>>

\* A channel takes the first number above those in use, and its rules with it.
CreatesChannel ==
  LET c == 1 + Max(DOMAIN verified \cup {0})
  IN  /\ Free /\ c \in Channels
      /\ verified' = [d \in DOMAIN verified \cup {c} |-> IF d = c THEN c \in Email ELSE verified[d]]
      /\ UNCHANGED <<time, events, outbox, mailSet, tx, worker, history, edits, stops>>

SetsMail ==
  /\ Free /\ edits < MaxEdits
  /\ mailSet' = ~mailSet /\ edits' = edits + 1
  /\ UNCHANGED <<time, events, outbox, verified, tx, worker, history, stops>>

-----------------------------------------------------------------------------

Watcher == CatchUpBegins \/ CatchUpQueues \/ CatchUpCommits
Worker  == \/ DailyTick \/ TickNotDue \/ ReadBatch \/ RowGoes \/ Skips \/ Stops
           \/ Arrives \/ Refused \/ MarkSent \/ Retries \/ Waits
Owner   == \/ \E c \in Channels : Tested(c) \/ EditsDestination(c) \/ DeletesChannel(c)
           \/ CreatesChannel \/ SetsMail
Faults  == CatchUpFails \/ TickFails \/ OnceFails \/ Dies

NotifyNext ==
  \/ \E kind \in Kinds : Happens(kind)
  \/ Watcher \/ Worker \/ Owner \/ Faults \/ TimePasses

NotifySpec == NotifyInit /\ [][NotifyNext]_notifyvars
             /\ WF_notifyvars(Watcher) /\ WF_notifyvars(Worker) /\ WF_notifyvars(TimePasses)

-----------------------------------------------------------------------------

Lines == ({"log"} \X Nat) \cup ({"due"} \X Nat)
OutboxRow == [channel : Channels, collapse : {"", "digest"} \cup Kinds, items : Seq(Lines),
              wait : Nat, age : 0..GiveUpAfter, tried : Never..GiveUpAfter,
              attempts : Nat, sent : BOOLEAN]
Entry == [id : Nat, channel : Channels, items : Seq(Lines), attempts : Nat, past : BOOLEAN,
          gone : BOOLEAN]
IsOutbox(rows) == DOMAIN rows \subseteq Nat /\ \A i \in DOMAIN rows : rows[i] \in OutboxRow

(* The values the variables can take, and that the worker has a row at     *)
(* hand in every step but the first two.                                   *)
NotifyTypeOK ==
  /\ phase \in 0..Day - 1 /\ tickedToday \in BOOLEAN
  /\ log \in Seq(Kinds) /\ cursor \in 0..Len(log)
  /\ IsOutbox(outbox)
  /\ DOMAIN verified \subseteq Channels /\ \A c \in DOMAIN verified : verified[c] \in BOOLEAN
  /\ mailSet \in BOOLEAN
  /\ tx.open => /\ IsOutbox(tx.rows) /\ tx.cursor \in cursor..Len(log)
                /\ tx.fell \subseteq DOMAIN tx.rows
  /\ worker.pc \in {"tick", "once", "row", "send", "mark", "failed", "unset"}
  /\ worker.batch \in Seq(Entry)
  /\ worker.batch = <<>> <=> worker.pc \in {"tick", "once"}
  /\ delivered \cup late \subseteq Lines \X Channels /\ deleted \subseteq Channels
  /\ {again, dated, edits, stops} \subseteq Nat

(* Every line of a row that is marked sent has reached the row's channel,  *)
(* but for a line that merged into a row whose turn came, and which the    *)
(* worker read, before the merge was committed; and for what is written    *)
(* under the number of a row that went with its channel while the worker   *)
(* had it: the mark of the old row falls on the new one.                   *)
NothingLost ==
  \A i \in DOMAIN outbox : outbox[i].sent =>
    \A k \in DOMAIN outbox[i].items :
      <<outbox[i].items[k], outbox[i].channel>> \in delivered \cup late

(* What the comment at write says: no line is marked sent without ever     *)
(* going out.  Refuted: the clock moves between the merge and its commit.  *)
EveryLineGoes ==
  \A i \in DOMAIN outbox : outbox[i].sent =>
    \A k \in DOMAIN outbox[i].items : <<outbox[i].items[k], outbox[i].channel>> \in delivered

(* What the comment at stillSendable says: a row is gone with its channel, *)
(* so what the worker marks, retries or abandons is of the channel it      *)
(* read.  Refuted: numbers are given again.                                *)
HoldsItsRows ==
  \A k \in DOMAIN worker.batch : worker.batch[k].id \in DOMAIN outbox =>
    outbox[worker.batch[k].id].channel = worker.batch[k].channel

(* An event is queued once: no channel holds a line of it twice, neither   *)
(* by a mention that also sits in the digest nor by a transaction that     *)
(* failed and ran again; one the cursor has not passed is in no row; and   *)
(* one it has passed is held for each channel of mail that was there all   *)
(* along and asks for it (CatchUp, queueUser).                             *)
QueuedOnce ==
  /\ \A i, j \in DOMAIN outbox : outbox[i].channel = outbox[j].channel =>
       \A k \in DOMAIN outbox[i].items : \A l \in DOMAIN outbox[j].items :
         outbox[i].items[k] = outbox[j].items[l] => i = j /\ k = l
  /\ \A i \in DOMAIN outbox : \A k \in DOMAIN outbox[i].items :
       outbox[i].items[k] \in ({"log"} \X (1..cursor)) \cup ({"due"} \X (1..dated))
  /\ \A c \in Email \ deleted : \A n \in 1..cursor : <<log[n], c>> \in Ticked =>
       \E i \in DOMAIN outbox : outbox[i].channel = c /\ <<"log", n>> \in Range(outbox[i].items)

(* A line reaches a channel twice only when a crash or a failed write came *)
(* between its going out and its mark, or one each time.                   *)
ToldTwiceOnlyByFault == again <= stops

(* A mention that is queued while any channel can take it has a row that   *)
(* goes out at once, whatever the quiet hours, the digest and the rules.   *)
MentionGoesNow ==
  [][\A n \in cursor + 1..cursor' :
       log[n] = "mentioned" /\ (\E c \in DOMAIN verified : verified[c]) =>
         \E i \in DOMAIN outbox' : <<"log", n>> \in Range(outbox'[i].items) /\ outbox'[i].wait = 0]_notifyvars

InHand(i) == worker.pc \in {"send", "mark", "failed", "unset"} /\ Id = i
Dead(rows, i) == i \in DOMAIN rows /\ ~rows[i].sent /\ ~Sendable(rows[i])
Latest == IF tx.open THEN tx.rows ELSE outbox

(* A row that is given up, or abandoned with its channel, stays so: it is  *)
(* not taken up by a batch read before, is not written to and is never     *)
(* sent, unless it was being sent when its day ran out (stillSendable).    *)
(* That is of the rows as the one writer has them: a line it wrote before  *)
(* the day ran out comes in with its commit, or goes with its failure.     *)
GivenUpStays ==
  [][\A i \in DOMAIN Latest : Dead(Latest, i) /\ ~InHand(i) =>
       /\ ~InHand(i)'
       /\ i \in DOMAIN Latest' => /\ Dead(Latest, i)'
                                   /\ Range(Latest'[i].items) \subseteq Range(Latest[i].items)]_notifyvars

(* What the comment at write says of a row past its day: nothing merges    *)
(* into it.  Refuted: its day may run out before the merge is committed.   *)
NothingJoinsTheDead ==
  [][\A i \in DOMAIN outbox : Dead(outbox, i) /\ i \in DOMAIN outbox' =>
       outbox'[i].items = outbox[i].items]_notifyvars

(* Every event that is logged is queued, and each of its rows is sent, is  *)
(* given up or goes with its channel: neither a destination that never     *)
(* answers nor mail that is never set up keeps a row for ever.             *)
Unsettled(n) ==
  \/ cursor < n
  \/ \E i \in DOMAIN outbox : /\ <<"log", n>> \in Range(outbox[i].items)
                              /\ ~outbox[i].sent /\ Sendable(outbox[i])
NoticesSettle ==
  \A n \in 1..MaxEvents : (Len(log) >= n) ~> (Len(log) >= n /\ ~Unsettled(n))

(* Each event is one line for each channel that asks for it, and no line   *)
(* but those is lost in a row that is marked sent.                         *)
LinesKept == NothingLost /\ QueuedOnce

(* The worker tells what was asked and when: a mention at once, nothing    *)
(* twice but by a fault, and nothing once it is given up.                  *)
ToldAsAsked == []ToldTwiceOnlyByFault /\ MentionGoesNow /\ GivenUpStays
=============================================================================
