-------------------------------- MODULE Mail --------------------------------
(***************************************************************************)
(* The mail that carries one-time links (internal/mail/outbox.go) and the  *)
(* invitations and password resets whose links it carries (internal/auth,  *)
(* the team section of the settings page and the reset page).              *)
(*                                                                         *)
(* A link's token is one commit and the letter that carries it another, so *)
(* a request is modelled as the step that stores the token and the step    *)
(* that queues the letter, and other requests come between.  The worker    *)
(* reads a batch and sends it letter by letter, looking at each again just *)
(* before; the letters change under it.                                    *)
(***************************************************************************)
EXTENDS Naturals, FiniteSets, Sequences, FiniteSetsExt

CONSTANTS
  Invites, Reset,      \* numbers of invitations; the account asking for resets
  InviteLife, ResetLife, FirstRetry, MaxRetry, GiveUpAfter, BatchSize,
  MaxLetters, MaxNow, MaxTroubles    \* bounds

ASSUME MailAssumption ==
  /\ Invites \subseteq Nat \ {0} /\ IsFiniteSet(Invites)
  /\ Reset \in Nat \ ({0} \cup Invites)
  /\ {InviteLife, ResetLife, FirstRetry, MaxRetry, GiveUpAfter, BatchSize} \subseteq Nat \ {0}
  /\ {MaxLetters, MaxNow, MaxTroubles} \subseteq Nat

Letters == 1..MaxLetters

VARIABLES
  now,
  invitations,  \* the invitations table: [state, token, expires]
  resets,       \* the password_resets table: [token, expires, used]
  outbox,       \* the mail_outbox table
  requests,     \* requests between their two commits: [ref, token, late]
  worker,       \* [pc, batch]: the letters still to send
  configured,   \* the SMTP host and the from address are filled in
  delivered,    \* how often the server took each letter
  lost,         \* how often the mark of each letter was lost after the server took it
  fresh,        \* tokens drawn
  troubles      \* what failed, crashed and was retried, bounded by MaxTroubles

vars == <<now, invitations, resets, outbox, requests, worker, configured, delivered,
          lost, fresh, troubles>>

counts == <<lost, troubles>>

(* The letter that carries the n-th token drawn is letter n, if there is   *)
(* one; MaxLetters bounds both.  Its state is "none" (no row), "queued" *)
(* or "sent"; expires 0 marks it abandoned, tried 0 never tried.  late:    *)
(* another request replaced or withdrew its link before it was queued, or  *)
(* the letter that was to replace it never came.                           *)
NoLetter == [state |-> "none", ref |-> Reset, expires |-> 0, next |-> 0,
             attempts |-> 0, tried |-> 0, late |-> FALSE]

Rests == [pc |-> "idle", batch |-> <<>>]

Init ==
  /\ now = 1
  /\ invitations = [i \in Invites |-> [state |-> "none", token |-> 0, expires |-> 0]]
  /\ resets = {}
  /\ outbox = [l \in Letters |-> NoLetter]
  /\ requests = {}
  /\ worker = Rests
  /\ configured \in BOOLEAN
  /\ delivered = [l \in Letters |-> 0]
  /\ lost = [l \in Letters |-> 0]
  /\ fresh = 0 /\ troubles = 0

-----------------------------------------------------------------------------
(* The expiry a letter is queued with.                                     *)
Life(ref) == IF ref = Reset THEN ResetLife ELSE InviteLife

(* Invitation, PasswordResetUser: whether the link with this token opens,  *)
(* while its time runs.                                                    *)
Opens(ref, token) ==
  IF ref = Reset
  THEN {r \in resets : r.token = token /\ ~r.used} # {}
  ELSE invitations[ref].state = "pending" /\ invitations[ref].token = token

Sendable(m) ==
  /\ m.state = "queued"
  /\ m.expires > now
  /\ m.tried = 0 \/ now < m.tried + GiveUpAfter

(* Abandon: what is queued under the ref leaves the queue.                 *)
Abandoned(box, ref) ==
  [l \in Letters |-> IF box[l].state = "queued" /\ box[l].ref = ref
                     THEN [box[l] EXCEPT !.expires = 0]
                     ELSE box[l]]

\* Slip: the letters the new one replaces stay in the queue.
EnqueueBeside(box, q) ==
  [box EXCEPT
     ![q.token] =
       [NoLetter EXCEPT !.state = "queued", !.ref = q.ref, !.expires = now + Life(q.ref),
                        !.next = now, !.late = q.late]]

(* Enqueue: the older letters under the ref are abandoned, the new row is  *)
(* added.  Its expiry is counted from its own commit, a little after the   *)
(* link's.                                                                 *)
Enqueue(box, q) ==
  [Abandoned(box, q.ref) EXCEPT
     ![q.token] =
       [NoLetter EXCEPT !.state = "queued", !.ref = q.ref, !.expires = now + Life(q.ref),
                        !.next = now, !.late = q.late]]

(* The invitation's token is that of a request that has yet to queue its   *)
(* letter.                                                                 *)
Awaits(ref) == ref # Reset /\ \E q \in requests : q.ref = ref /\ ~q.late

(* The invitation's link is replaced or withdrawn: the requests that have  *)
(* yet to queue the old one's letter come late.  A reset's stays good.     *)
Overtaken(ref) ==
  {IF q.ref = ref /\ ref # Reset THEN [q EXCEPT !.late = TRUE] ELSE q : q \in requests}

(* The letters that wait under a ref whose new one does not come.          *)
Stranded(refs) ==
  [l \in Letters |-> [outbox[l] EXCEPT !.late = @ \/ outbox[l].ref \in refs]]

Trouble == troubles < MaxTroubles /\ troubles' = troubles + 1

(* INTEGER PRIMARY KEY: one more than the largest number in the table.     *)
NextInvite == Max({0} \cup {i \in Invites : invitations[i].state # "none"}) + 1

(* The request has committed the token and goes on to queue the letter.    *)
Asked(ref) ==
  /\ fresh < MaxLetters
  /\ fresh' = fresh + 1
  /\ requests' = Overtaken(ref) \cup {[ref |-> ref, token |-> fresh', late |-> FALSE]}

(* postInviteCreate: the invitation is made, its letter comes after.       *)
CreateInvitation(i) ==
  /\ i = NextInvite
  /\ Asked(i)
  /\ invitations' = [invitations EXCEPT
       ![i] = [state |-> "pending", token |-> fresh', expires |-> now + InviteLife]]
  /\ UNCHANGED <<now, resets, outbox, worker, configured, delivered, counts>>

(* postInviteResend: a pending invitation gets a new token and expiry.     *)
ReissueInvitation(i) ==
  /\ invitations[i].state = "pending"
  /\ Asked(i)
  /\ invitations' = [invitations EXCEPT ![i].token = fresh', ![i].expires = now + InviteLife]
  /\ UNCHANGED <<now, resets, outbox, worker, configured, delivered, counts>>

(* postReset: a token good for its hour; older ones stay good.             *)
CreatePasswordReset ==
  /\ Asked(Reset)
  /\ resets' = resets \cup {[token |-> fresh', expires |-> now + ResetLife, used |-> FALSE]}
  /\ UNCHANGED <<now, invitations, outbox, worker, configured, delivered, counts>>

(* The second commit of any of the three.                                  *)
QueueLetter(q) ==
  /\ outbox' = Enqueue(outbox, q)
  /\ requests' = requests \ {q}
  /\ UNCHANGED <<now, invitations, resets, worker, configured, delivered, fresh, counts>>

(* It fails: the page says that the letter was not queued, and the link    *)
(* that the first commit replaced is not put back.                         *)
QueueFails(q) ==
  /\ Trouble
  /\ requests' = requests \ {q}
  /\ outbox' = Stranded(IF q.late THEN {} ELSE {q.ref} \ {Reset})
  /\ UNCHANGED <<now, invitations, resets, worker, configured, delivered, fresh, lost>>

(* postInviteRevoke: the invitation and its letters in one transaction.    *)
RevokeInvitation(i) ==
  /\ invitations[i].state # "none"
  /\ invitations' = [invitations EXCEPT ![i] = [state |-> "none", token |-> 0, expires |-> 0]]
  /\ outbox' = Abandoned(outbox, i)
  /\ requests' = Overtaken(i)
  /\ UNCHANGED <<now, resets, worker, configured, delivered, fresh, counts>>

\* Slip: accepting leaves the invitation's letters in the queue.
AcceptQuietly(i) ==
  /\ invitations[i].state = "pending"
  /\ invitations[i].expires > now
  /\ invitations' = [invitations EXCEPT ![i].state = "accepted"]
  /\ requests' = Overtaken(i)
  /\ UNCHANGED <<now, resets, outbox, worker, configured, delivered, fresh, counts>>

(* The end of the enrollment an invitation led to.                         *)
AcceptInvitation(i) ==
  /\ invitations[i].state = "pending"
  /\ invitations[i].expires > now
  /\ invitations' = [invitations EXCEPT ![i].state = "accepted"]
  /\ outbox' = Abandoned(outbox, i)
  /\ requests' = Overtaken(i)
  /\ UNCHANGED <<now, resets, worker, configured, delivered, fresh, counts>>

(* ResetPassword spends a token that came in a letter.                     *)
ResetPassword(l) ==
  /\ delivered[l] > 0
  /\ outbox[l].ref = Reset
  /\ {r \in resets : r.token = l /\ ~r.used /\ r.expires > now} # {}
  /\ resets' = {IF r.token = l THEN [r EXCEPT !.used = TRUE] ELSE r : r \in resets}
  /\ UNCHANGED <<now, invitations, outbox, requests, worker, configured, delivered, fresh, counts>>

-----------------------------------------------------------------------------
Backoff(n) == Min({MaxRetry, FirstRetry * 2 ^ (n - 1)})

\* Slip: a letter that failed is not read again.
DueOnce == {l \in Letters : Sendable(outbox[l]) /\ outbox[l].tried = 0 /\ outbox[l].next <= now}

Due == {l \in Letters : Sendable(outbox[l]) /\ outbox[l].next <= now}

Sooner(a, b) ==
  \/ outbox[a].next < outbox[b].next
  \/ outbox[a].next = outbox[b].next /\ a < b

(* once: what is due, the longest waiting first.  Nothing is touched while *)
(* no server is named.                                                     *)
ReadBatch ==
  /\ worker.pc = "idle"
  /\ configured
  /\ Due # {}
  /\ \E due \in [1..Cardinality(Due) -> Due] :
       /\ \A i, j \in DOMAIN due : i < j => Sooner(due[i], due[j])
       /\ worker' = [pc |-> "look", batch |-> SubSeq(due, 1, Min({Len(due), BatchSize}))]
  /\ UNCHANGED <<now, invitations, resets, outbox, requests, configured, delivered, fresh, counts>>

(* On to the next letter of the batch.                                     *)
Rest ==
  LET left == Tail(worker.batch)
  IN  [pc |-> IF left = <<>> THEN "idle" ELSE "look", batch |-> left]

\* Slip: what was in the batch is sent as it was read.
LookNoMore ==
  /\ worker.pc = "look"
  /\ worker' = [worker EXCEPT !.pc = "send"]
  /\ UNCHANGED <<now, invitations, resets, outbox, requests, configured, delivered, fresh, counts>>

(* stillSendable: the letter is read again before it is sent.              *)
LookAgain ==
  /\ worker.pc = "look"
  /\ worker' = IF Sendable(outbox[Head(worker.batch)])
               THEN [worker EXCEPT !.pc = "send"]
               ELSE Rest
  /\ UNCHANGED <<now, invitations, resets, outbox, requests, configured, delivered, fresh, counts>>

Send ==
  /\ worker.pc = "send"
  /\ delivered' = [delivered EXCEPT ![Head(worker.batch)] = @ + 1]
  /\ worker' = [worker EXCEPT !.pc = "mark"]
  /\ UNCHANGED <<now, invitations, resets, outbox, requests, configured, fresh, counts>>

(* Fail: the letter is tried later.                                        *)
Failed(m) ==
  [m EXCEPT !.attempts = m.attempts + 1,
            !.next = now + Backoff(m.attempts + 1),
            !.tried = IF m.tried = 0 THEN now ELSE m.tried]

(* The server refuses it, whatever became of the row meanwhile.            *)
SendFails ==
  /\ worker.pc = "send"
  /\ Trouble
  /\ outbox' = [outbox EXCEPT ![Head(worker.batch)] = Failed(outbox[Head(worker.batch)])]
  /\ worker' = Rest
  /\ UNCHANGED <<now, invitations, resets, requests, configured, delivered, fresh, lost>>

\* Slip: a letter the server took is only counted as tried.
MarkTried ==
  /\ worker.pc = "mark"
  /\ outbox' = [outbox EXCEPT ![Head(worker.batch)].attempts = @ + 1]
  /\ worker' = Rest
  /\ UNCHANGED <<now, invitations, resets, requests, configured, delivered, fresh, counts>>

MarkSent ==
  /\ worker.pc = "mark"
  /\ outbox' = [outbox EXCEPT ![Head(worker.batch)].state = "sent"]
  /\ worker' = Rest
  /\ UNCHANGED <<now, invitations, resets, requests, configured, delivered, fresh, counts>>

(* The worker or the process stops here: a letter the server has just      *)
(* taken goes unmarked.                                                    *)
Drops ==
  /\ worker' = Rests
  /\ lost' = [l \in Letters |-> IF worker.pc = "mark" /\ Head(worker.batch) = l
                                THEN lost[l] + 1 ELSE lost[l]]

(* A statement of once fails, the second look, the mark or the count of a  *)
(* try, and the rest of the batch waits for the next.                      *)
TurnFails ==
  /\ worker.pc # "idle"
  /\ Trouble
  /\ Drops
  /\ UNCHANGED <<now, invitations, resets, outbox, requests, configured, delivered, fresh>>

(* RetryNow: another day for every unsent letter whose link still lives.   *)
RetryNow ==
  /\ Trouble
  /\ outbox' = [l \in Letters |->
       IF outbox[l].state = "queued" /\ outbox[l].expires > now
       THEN [outbox[l] EXCEPT !.attempts = 0, !.next = now, !.tried = 0]
       ELSE outbox[l]]
  /\ UNCHANGED <<now, invitations, resets, requests, worker, configured, delivered, fresh, lost>>

Configure ==
  /\ ~configured
  /\ configured' = TRUE
  /\ UNCHANGED <<now, invitations, resets, outbox, requests, worker, delivered, fresh, counts>>

Crash ==
  /\ Trouble
  /\ Drops
  /\ requests' = {}
  /\ outbox' = Stranded({i \in Invites : Awaits(i)})
  /\ UNCHANGED <<now, invitations, resets, configured, delivered, fresh>>

Tick ==
  /\ now < MaxNow
  /\ now' = now + 1
  /\ UNCHANGED <<invitations, resets, outbox, requests, worker, configured, delivered, fresh, counts>>

Turn == ReadBatch \/ LookAgain \/ Send \/ SendFails \/ MarkSent

Next ==
  \/ \E i \in Invites : \/ CreateInvitation(i) \/ ReissueInvitation(i)
                       \/ RevokeInvitation(i) \/ AcceptInvitation(i)
  \/ CreatePasswordReset
  \/ \E q \in requests : QueueLetter(q) \/ QueueFails(q)
  \/ \E l \in Letters : ResetPassword(l)
  \/ Turn \/ TurnFails \/ RetryNow \/ Configure \/ Crash \/ Tick

Spec == Init /\ [][Next]_vars /\ WF_vars(Turn) /\ WF_vars(Configure) /\ WF_vars(Tick)

-----------------------------------------------------------------------------
TypeOK ==
  /\ now \in Nat \ {0}
  /\ fresh \in 0..MaxLetters
  /\ invitations \in [Invites -> [state : {"none", "pending", "accepted"},
                                 token : 0..fresh, expires : Nat]]
  /\ resets \subseteq [token : 1..fresh, expires : Nat, used : BOOLEAN]
  /\ outbox \in [Letters -> [state : {"none", "queued", "sent"}, ref : Invites \cup {Reset},
                             expires : Nat, next : Nat, attempts : Nat, tried : Nat,
                             late : BOOLEAN]]
  /\ requests \subseteq [ref : Invites \cup {Reset}, token : 1..fresh, late : BOOLEAN]
  /\ worker \in [pc : {"idle", "look", "send", "mark"}, batch : Seq(Letters)]
  /\ worker.pc # "idle" => worker.batch # <<>>
  /\ configured \in BOOLEAN
  /\ {delivered, lost} \subseteq [Letters -> Nat]
  /\ troubles \in Nat

(* However requests cross, and whatever the worker is doing, at most one   *)
(* letter under a ref is still to be sent: the person gets one link.       *)
OneLetter ==
  \A l, m \in Letters :
    Sendable(outbox[l]) /\ Sendable(outbox[m]) /\ outbox[l].ref = outbox[m].ref => l = m

(* A letter still in the queue, which nobody has been sent, has a link     *)
(* that nobody has replaced, withdrawn or used, because reissuing,         *)
(* revoking and accepting take the letter out of the queue.  While the new *)
(* letter is on its way the old one is still there; and a late letter, one *)
(* that was overtaken on its own way by another request about the same     *)
(* invitation, or whose successor was never queued, has a dead link.       *)
LinksWork ==
  \A l \in Letters :
    /\ Sendable(outbox[l])
    /\ ~outbox[l].late
    /\ ~Awaits(outbox[l].ref)
    /\ delivered[l] = 0
    => Opens(outbox[l].ref, l)

(* What postInviteResend's comment has the abandoning of the ref's older   *)
(* letters come to: the one that waits is the one whose link works.        *)
(* Refuted: of two requests about an invitation the first may queue last.  *)
WaitingLinkWorks ==
  \A l \in Letters :
    Sendable(outbox[l]) /\ ~Awaits(outbox[l].ref) /\ delivered[l] = 0 => Opens(outbox[l].ref, l)

(* The server takes a letter again only when its mark was lost: the        *)
(* process stopped between the sending and the mark, or the mark failed.   *)
DeliveredOnce ==
  \A l \in Letters : delivered[l] <= 1 + lost[l]

(* Once a letter is abandoned or has run out nothing hands it to the       *)
(* server any more, in whatever batch it was read, and nothing puts it     *)
(* back in the queue: only a conversation already begun may still end.     *)
Begun(l) == worker.pc = "send" /\ Head(worker.batch) = l

AbandonedStays ==
  [][\A l \in Letters :
       outbox[l].state = "queued" /\ outbox[l].expires <= now /\ ~Begun(l)
       => delivered'[l] = delivered[l] /\ ~Begun(l)' /\ outbox'[l].expires <= now']_vars

(* A letter never waits for good: once a mail server is named it is sent,  *)
(* or stops being worth sending, within the time there is.                 *)
MailSettles ==
  \A l \in Letters :
    Sendable(outbox[l]) ~> (Sendable(outbox[l]) => now = MaxNow /\ outbox[l].next > now)

(* A person is sent one letter for a ref, with a link that works, and is   *)
(* sent it once.                                                           *)
LettersWork == OneLetter /\ LinksWork /\ DeliveredOnce
=============================================================================
