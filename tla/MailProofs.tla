----------------------------- MODULE MailProofs -----------------------------
(***************************************************************************)
(* Proofs about Mail, for every set of invitations, every number of        *)
(* letters and every life of a link: a person is sent one letter for a     *)
(* ref, with a link that works, again only when its mark was lost, and     *)
(* what is abandoned stays so.                                             *)
(***************************************************************************)
EXTENDS Mail, FiniteSetTheorems, SequenceTheorems, TLAPS

Refs == Invites \cup {Reset}

(* A row of mail_outbox; what it says of its retries needs no type here.   *)
Row(m) ==
  /\ m = [state |-> m.state, ref |-> m.ref, expires |-> m.expires, next |-> m.next,
          attempts |-> m.attempts, tried |-> m.tried, late |-> m.late]
  /\ m.state \in {"none", "queued", "sent"}
  /\ m.ref \in Refs /\ m.expires \in Nat /\ m.late \in BOOLEAN

Invitation(v) ==
  v \in [state : {"none", "pending", "accepted"}, token : Nat, expires : Nat]

Typed ==
  /\ now \in Nat /\ fresh \in 0..MaxLetters
  /\ DOMAIN invitations = Invites
  /\ invitations = [i \in Invites |-> invitations[i]]
  /\ \A i \in Invites : Invitation(invitations[i])
  /\ resets \subseteq [token : Nat, expires : Nat, used : BOOLEAN]
  /\ outbox = [l \in Letters |-> outbox[l]]
  /\ \A l \in Letters : Row(outbox[l])
  /\ requests \subseteq [ref : Refs, token : 1..fresh, late : BOOLEAN]
  /\ worker \in [pc : {"idle", "look", "send", "mark"}, batch : Seq(Letters)]
  /\ worker.pc # "idle" => worker.batch # <<>>
  /\ delivered \in [Letters -> Nat] /\ lost \in [Letters -> Nat]

(* A token is one request's, which has not queued its letter yet; a token  *)
(* not drawn has none.                                                     *)
Tokens ==
  /\ \A q \in requests : outbox[q.token].state = "none"
  /\ \A q, p \in requests : q.token = p.token => q = p
  /\ \A l \in Letters : l > fresh => outbox[l].state = "none"

(* Not abandoned, and not sent: what RetryNow could put back in the queue. *)
Alive(l) == outbox[l].state = "queued" /\ outbox[l].expires > now

OneAlive ==
  \A l, m \in Letters : Alive(l) /\ Alive(m) /\ outbox[l].ref = outbox[m].ref => l = m

AliveOpens ==
  \A l \in Letters :
    Alive(l) /\ ~outbox[l].late /\ ~Awaits(outbox[l].ref) /\ delivered[l] = 0
    => Opens(outbox[l].ref, l)

(* The letter in hand is still queued, and a letter the server took is     *)
(* sent, about to be marked so, or its mark was lost.                      *)
InHand ==
  worker.pc \in {"send", "mark"} => outbox[Head(worker.batch)].state = "queued"

Taken ==
  \A l \in Letters :
    \/ delivered[l] <= lost[l]
    \/ /\ delivered[l] <= lost[l] + 1
       /\ \/ outbox[l].state = "sent"
          \/ worker.pc = "mark" /\ Head(worker.batch) = l

(* The link of a letter on its way works, unless another request overtook  *)
(* it; and nobody has been sent a letter that has not been queued.         *)
Pending ==
  /\ \A q \in requests : ~q.late => Opens(q.ref, q.token)
  /\ \A l \in Letters : outbox[l].state = "none" => delivered[l] = 0

MailInv == Typed /\ Tokens /\ OneAlive /\ AliveOpens /\ InHand /\ Taken /\ Pending
-----------------------------------------------------------------------------
(* The smaller of two numbers is one of them.                              *)
LEMMA MinOfTwo ==
  ASSUME NEW a \in Nat, NEW b \in Nat
  PROVE  Min({a, b}) \in {a, b} /\ Min({a, b}) <= a
  <1>1. \E x \in {a, b} : \A y \in {a, b} : x <= y
    <2>1. CASE a <= b
      BY <2>1
    <2>2. CASE b <= a
      BY <2>2
    <2> QED
      BY <2>1, <2>2
  <1> QED
    BY <1>1 DEF Min

(* What is left of a batch is a batch.                                     *)
LEMMA RestTyped ==
  ASSUME Typed, worker.pc # "idle"
  PROVE  /\ Rest \in [pc : {"idle", "look", "send", "mark"}, batch : Seq(Letters)]
         /\ Rest.pc \in {"idle", "look"}
         /\ Rest.pc # "idle" => Rest.batch # <<>>
         /\ Head(worker.batch) \in Letters
  BY DEF Typed, Rest

(* The letters of the requests are letters.                                *)
LEMMA RequestsTyped ==
  ASSUME Typed
  PROVE  \A q \in requests : q.token \in Letters /\ q.ref \in Refs
  <1>1. 1..fresh \subseteq Letters
    BY MailAssumption DEF Typed, Letters
  <1> QED
    BY <1>1 DEF Typed

LEMMA Initially == Init => MailInv
  <1> SUFFICES ASSUME Init PROVE MailInv
    OBVIOUS
  <1>1. Typed
    <2>1. Row(NoLetter)
      BY DEF Row, Refs, NoLetter
    <2>2. \A i \in Invites : Invitation(invitations[i])
      BY DEF Init, Invitation
    <2>3. fresh \in 0..MaxLetters
      BY MailAssumption DEF Init
    <2>4. outbox = [l \in Letters |-> outbox[l]] /\ \A l \in Letters : outbox[l] = NoLetter
      BY DEF Init
    <2> QED
      BY <2>1, <2>2, <2>3, <2>4 DEF Init, Typed, Rests
  <1>2. Tokens /\ OneAlive /\ AliveOpens
    BY DEF Init, Tokens, OneAlive, AliveOpens, Alive, NoLetter
  <1>3. InHand /\ Taken /\ Pending
    BY DEF Init, InHand, Taken, Rests, Pending
  <1> QED
    BY <1>1, <1>2, <1>3 DEF MailInv
(* Abandoning touches the queued letters of a ref, and their expiry.       *)
LEMMA AbandonedRows ==
  ASSUME Typed, NEW ref
  PROVE  /\ Abandoned(outbox, ref) = [l \in Letters |-> Abandoned(outbox, ref)[l]]
         /\ \A l \in Letters :
              LET m == Abandoned(outbox, ref)[l]
              IN  /\ Row(m)
                  /\ m.state = outbox[l].state /\ m.ref = outbox[l].ref
                  /\ m.late = outbox[l].late
                  /\ m.expires = IF outbox[l].state = "queued" /\ outbox[l].ref = ref
                                 THEN 0 ELSE outbox[l].expires
  <1>1. ASSUME NEW l \in Letters
        PROVE  LET m == Abandoned(outbox, ref)[l]
               IN  /\ Row(m)
                   /\ m.state = outbox[l].state /\ m.ref = outbox[l].ref
                   /\ m.late = outbox[l].late
                   /\ m.expires = IF outbox[l].state = "queued" /\ outbox[l].ref = ref
                                  THEN 0 ELSE outbox[l].expires
    <2> DEFINE o == outbox[l]
    <2>1. Row(o)
      BY DEF Typed
    <2>2. Abandoned(outbox, ref)[l] = IF o.state = "queued" /\ o.ref = ref
                                      THEN [o EXCEPT !.expires = 0] ELSE o
      BY DEF Abandoned
    <2> HIDE DEF o
    <2>3. CASE o.state = "queued" /\ o.ref = ref
      BY <2>1, <2>2, <2>3 DEF Row, o
    <2>4. CASE ~(o.state = "queued" /\ o.ref = ref)
      BY <2>1, <2>2, <2>4 DEF o
    <2> QED
      BY <2>3, <2>4
  <1> QED
    BY <1>1 DEF Abandoned

(* The invariant looks at no other part of the state than these.           *)
Seen == <<now, fresh, lost, invitations, resets, outbox, requests, worker, delivered>>

LEMMA Stutters ==
  ASSUME MailInv, UNCHANGED Seen
  PROVE  MailInv'
  <1>1. Typed'
    BY DEF Seen, MailInv, Typed, Row, Invitation
  <1>2. Tokens' /\ OneAlive'
    BY DEF Seen, MailInv, Tokens, OneAlive, Alive
  <1>3. AliveOpens'
    BY DEF Seen, MailInv, AliveOpens, Alive, Awaits, Opens
  <1>4. InHand' /\ Taken'
    BY DEF Seen, MailInv, InHand, Taken
  <1>5. Pending'
    BY DEF Seen, MailInv, Pending, Opens
  <1> QED
    BY <1>1, <1>2, <1>3, <1>4, <1>5 DEF MailInv

(* What a reissue, a revocation or the end of an enrollment makes of the   *)
(* requests under way: those about the same invitation come late.          *)
LEMMA OvertakenIs ==
  ASSUME Typed, Tokens, NEW ref
  PROVE  /\ Overtaken(ref) \subseteq [ref : Refs, token : 1..fresh, late : BOOLEAN]
         /\ \A p \in Overtaken(ref) : \E q \in requests :
              /\ p.ref = q.ref /\ p.token = q.token
              /\ ~p.late => p = q /\ (ref = Reset \/ q.ref # ref)
         /\ \A q \in requests : ref = Reset \/ q.ref # ref => q \in Overtaken(ref)
         /\ \A p, q \in Overtaken(ref) : p.token = q.token => p = q
  <1> DEFINE over(q) == IF q.ref = ref /\ ref # Reset THEN [q EXCEPT !.late = TRUE] ELSE q
  <1>1. Overtaken(ref) = {over(q) : q \in requests}
    BY DEF Overtaken
  <1>2. ASSUME NEW q \in requests
        PROVE  /\ over(q) \in [ref : Refs, token : 1..fresh, late : BOOLEAN]
               /\ over(q).ref = q.ref /\ over(q).token = q.token
               /\ ref = Reset \/ q.ref # ref => over(q) = q
               /\ ~over(q).late => over(q) = q /\ (ref = Reset \/ q.ref # ref)
    <2>1. q \in [ref : Refs, token : 1..fresh, late : BOOLEAN]
      BY DEF Typed
    <2>2. CASE q.ref = ref /\ ref # Reset
      BY <2>1, <2>2
    <2>3. CASE ~(q.ref = ref /\ ref # Reset)
      BY <2>1, <2>3
    <2> QED
      BY <2>2, <2>3
  <1> HIDE DEF over
  <1>3. \A p, q \in Overtaken(ref) : p.token = q.token => p = q
    BY <1>1, <1>2 DEF Tokens
  <1>4. \A p \in Overtaken(ref) : \E q \in requests :
          /\ p.ref = q.ref /\ p.token = q.token
          /\ ~p.late => p = q /\ (ref = Reset \/ q.ref # ref)
    BY <1>1, <1>2
  <1> QED
    BY <1>1, <1>2, <1>3, <1>4

(* A request that has drawn the next token for a ref: no letter is queued, *)
(* the ref's wait for theirs, and the links of the others are as they were.*)
LEMMA AskedKeeps ==
  ASSUME MailInv, NEW ref \in Refs, Asked(ref),
         UNCHANGED <<now, outbox, worker, delivered, counts>>,
         Typed',
         \A r \in Refs : r # ref \/ ref = Reset =>
           \A l \in Letters : Opens(r, l) => Opens(r, l)',
         NEW t \in Nat, t = fresh + 1, Opens(ref, t)'
  PROVE  MailInv'
  <1> DEFINE new == [ref |-> ref, token |-> t, late |-> FALSE]
  <1> USE DEF MailInv
  <1>1. requests' = Overtaken(ref) \cup {new} /\ fresh' = fresh + 1 /\ lost' = lost
    BY DEF Asked, counts
  <1>2. new.ref = ref /\ new.token = t /\ ~new.late
    OBVIOUS
  <1> HIDE DEF new
  <1>3. fresh + 1 \in Letters /\ outbox[fresh + 1].state = "none"
    <2>1. MaxLetters \in Nat
      BY MailAssumption
    <2>2. fresh \in 0..MaxLetters /\ fresh < MaxLetters
      BY DEF Typed, Asked
    <2>3. fresh + 1 \in Letters /\ fresh + 1 > fresh
      BY <2>1, <2>2 DEF Letters
    <2> QED
      BY <2>3 DEF Tokens
  <1>4. \A p \in Overtaken(ref) : \E q \in requests :
          /\ p.ref = q.ref /\ p.token = q.token
          /\ ~p.late => p = q /\ (ref = Reset \/ q.ref # ref)
    BY OvertakenIs
  <1>5. \A q \in requests : q.token \in Letters /\ q.ref \in Refs /\ q.token # fresh + 1
    <2>1. \A q \in requests : q.token # fresh + 1
      BY DEF Typed
    <2> QED
      BY <2>1, RequestsTyped
  <1>6. Tokens'
    <2>1. \A q \in requests' : outbox[q.token].state = "none"
      BY <1>1, <1>2, <1>3, <1>4 DEF Tokens
    <2>2. \A q \in Overtaken(ref) : q.token # fresh + 1
      BY <1>4, <1>5
    <2>3. \A q, p \in requests' : q.token = p.token => q = p
      BY <1>1, <1>2, <2>2, OvertakenIs
    <2>4. \A l \in Letters : l > fresh' => outbox[l].state = "none"
      BY <1>1 DEF Tokens, Typed, Letters
    <2> QED
      BY <2>1, <2>3, <2>4 DEF Tokens
  <1>7. OneAlive'
    BY DEF OneAlive, Alive
  <1>8. AliveOpens'
    <2> SUFFICES ASSUME NEW l \in Letters, Alive(l)', ~outbox[l].late,
                        ~Awaits(outbox[l].ref)', delivered[l] = 0
                 PROVE  Opens(outbox[l].ref, l)'
      BY DEF AliveOpens
    <2>1. ref = Reset \/ Awaits(ref)'
      BY <1>1, <1>2 DEF Awaits
    <2>2. ref = Reset \/ outbox[l].ref # ref
      BY <2>1
    <2>3. ~Awaits(outbox[l].ref)
      BY <1>1, <2>2, OvertakenIs DEF Awaits
    <2>4. Opens(outbox[l].ref, l) /\ outbox[l].ref \in Refs
      BY <2>3 DEF AliveOpens, Alive, Typed, Row
    <2> QED
      BY <2>2, <2>4
  <1>9. InHand' /\ Taken'
    BY <1>1 DEF InHand, Taken
  <1>10. Pending'
    <2>1. ASSUME NEW p \in Overtaken(ref), ~p.late
          PROVE  Opens(p.ref, p.token)'
      <3>1. p \in requests /\ (ref = Reset \/ p.ref # ref)
        BY <1>4, <2>1
      <3>2. Opens(p.ref, p.token) /\ p.token \in Letters /\ p.ref \in Refs
        BY <1>5, <2>1, <3>1 DEF Pending
      <3> QED
        BY <3>1, <3>2
    <2>2. \A p \in requests' : p \in Overtaken(ref) \/ (p.ref = ref /\ p.token = t)
      BY <1>1, <1>2
    <2>3. \A p \in requests' : ~p.late => Opens(p.ref, p.token)'
      BY <2>1, <2>2
    <2>4. \A l \in Letters : outbox'[l].state = "none" => delivered'[l] = 0
      BY DEF Pending
    <2> QED
      BY <2>3, <2>4 DEF Pending
  <1> QED
    BY <1>6, <1>7, <1>8, <1>9, <1>10
(* The three requests that draw a token.                                   *)
LEMMA RequestsKeep ==
  ASSUME MailInv,
         \/ \E i \in Invites : CreateInvitation(i) \/ ReissueInvitation(i)
         \/ CreatePasswordReset
  PROVE  MailInv'
  <1>1. fresh \in Nat /\ MaxLetters \in Nat /\ now \in Nat /\ {InviteLife, ResetLife} \subseteq Nat
    BY MailAssumption DEF MailInv, Typed
  <1>2. ASSUME NEW ref \in Refs, Asked(ref)
        PROVE  /\ fresh' = fresh + 1 /\ fresh' \in 0..MaxLetters
               /\ requests' \subseteq [ref : Refs, token : 1..fresh', late : BOOLEAN]
    <2>1. fresh' = fresh + 1 /\ fresh' \in 0..MaxLetters /\ fresh' \in 1..fresh'
      BY <1>1, <1>2 DEF Asked
    <2>2. /\ Overtaken(ref) \subseteq [ref : Refs, token : 1..fresh, late : BOOLEAN]
          /\ requests' = Overtaken(ref) \cup {[ref |-> ref, token |-> fresh', late |-> FALSE]}
      BY <1>2, OvertakenIs DEF Asked, MailInv
    <2> DEFINE n == fresh'
    <2>3. n \in Nat /\ n = fresh + 1
      BY <1>1, <2>1
    <2> HIDE DEF n
    <2>4. 1..fresh \subseteq 1..n /\ n \in 1..n
      BY <1>1, <2>3
    <2>5. [ref : Refs, token : 1..fresh, late : BOOLEAN]
            \subseteq [ref : Refs, token : 1..n, late : BOOLEAN]
      BY <2>4
    <2>6. [ref |-> ref, token |-> n, late |-> FALSE] \in [ref : Refs, token : 1..n, late : BOOLEAN]
      BY <2>4
    <2> QED
      BY <2>1, <2>2, <2>5, <2>6 DEF n
  <1>3. ASSUME NEW i \in Invites, CreateInvitation(i) \/ ReissueInvitation(i)
        PROVE  MailInv'
    <2>1. /\ Asked(i) /\ i \in Refs /\ i # Reset
          /\ UNCHANGED <<now, resets, outbox, worker, delivered, counts>>
      BY <1>3, MailAssumption DEF CreateInvitation, ReissueInvitation, Refs
    <2>2. /\ invitations' = [j \in Invites |-> invitations'[j]]
          /\ \A j \in Invites : Invitation(invitations'[j])
          /\ \A j \in Invites \ {i} : invitations'[j] = invitations[j]
      <3>1. CASE CreateInvitation(i)
        <4> DEFINE v == [state |-> "pending", token |-> fresh', expires |-> now + InviteLife]
        <4>1. fresh' \in Nat /\ now + InviteLife \in Nat
          BY <2>1, <1>1, <1>2
        <4>2. Invitation(v)
          BY <4>1 DEF Invitation
        <4>3. invitations' = [invitations EXCEPT ![i] = v]
          BY <3>1 DEF CreateInvitation
        <4> HIDE DEF v
        <4> QED
          BY <4>2, <4>3 DEF MailInv, Typed
      <3>2. CASE ReissueInvitation(i)
        <4> DEFINE v == [invitations[i] EXCEPT !.token = fresh', !.expires = now + InviteLife]
        <4>1. Invitation(invitations[i]) /\ fresh' \in Nat /\ now + InviteLife \in Nat
          BY <2>1, <1>1, <1>2 DEF MailInv, Typed
        <4>2. Invitation(v)
          BY <4>1 DEF Invitation
        <4>3. invitations' = [invitations EXCEPT ![i] = v]
          BY <3>2 DEF ReissueInvitation
        <4> HIDE DEF v
        <4> QED
          BY <4>2, <4>3 DEF MailInv, Typed
      <3> QED
        BY <1>3, <3>1, <3>2
    <2>3. Typed'
      BY <1>2, <2>1, <2>2 DEF MailInv, Typed, counts, Row
    <2>4. \A r \in Refs \ {i} : \A l \in Letters : Opens(r, l) => Opens(r, l)'
      BY <2>1, <2>2 DEF Opens, Refs
    <2>5. invitations'[i].state = "pending" /\ invitations'[i].token = fresh'
      <3>1. Invitation(invitations[i]) /\ DOMAIN invitations = Invites
        BY DEF MailInv, Typed
      <3> QED
        BY <1>3, <3>1 DEF CreateInvitation, ReissueInvitation, Invitation
    <2>6. PICK t \in Nat : t = fresh + 1
      BY <1>1
    <2>7. Opens(i, t)'
      BY <1>2, <2>1, <2>5, <2>6 DEF Opens
    <2> QED
      BY <2>1, <2>3, <2>4, <2>6, <2>7, AskedKeeps
  <1>4. ASSUME CreatePasswordReset
        PROVE  MailInv'
    <2>1. /\ Asked(Reset) /\ Reset \in Refs
          /\ UNCHANGED <<now, invitations, outbox, worker, delivered, counts>>
      BY <1>4 DEF CreatePasswordReset, Refs
    <2>2. resets' \subseteq [token : Nat, expires : Nat, used : BOOLEAN]
      <3> DEFINE r == [token |-> fresh', expires |-> now + ResetLife, used |-> FALSE]
      <3>1. fresh' \in Nat /\ now + ResetLife \in Nat
        BY <1>1, <1>2, <2>1
      <3>2. r \in [token : Nat, expires : Nat, used : BOOLEAN]
        BY <3>1
      <3>3. resets' = resets \cup {r}
        BY <1>4 DEF CreatePasswordReset
      <3> QED
        BY <3>2, <3>3 DEF MailInv, Typed
    <2>3. Typed'
      BY <1>2, <2>1, <2>2 DEF MailInv, Typed, counts, Row, Invitation
    <2>4. \A r \in Refs : \A l \in Letters : Opens(r, l) => Opens(r, l)'
      <3>1. resets \subseteq resets'
        BY <1>4 DEF CreatePasswordReset
      <3> QED
        BY <2>1, <3>1 DEF Opens
    <2>5. PICK t \in Nat : t = fresh + 1
      BY <1>1
    <2>6. \E r \in resets' : r.token = t /\ ~r.used
      <3> DEFINE r == [token |-> fresh', expires |-> now + ResetLife, used |-> FALSE]
      <3>1. r \in resets' /\ r.token = fresh' /\ ~r.used
        BY <1>4 DEF CreatePasswordReset
      <3>2. fresh' = t
        BY <1>2, <2>1, <2>5
      <3> QED
        BY <3>1, <3>2
    <2>7. Opens(Reset, t)'
      BY <2>6 DEF Opens
    <2> QED
      BY <2>1, <2>3, <2>4, <2>5, <2>7, AskedKeeps
  <1> QED
    BY <1>3, <1>4

(* The second commit: the one letter of the ref that is alive is the new   *)
(* one, and it knows whether its link works.                               *)
LEMMA QueueLetterKeeps ==
  ASSUME MailInv, NEW q \in requests, QueueLetter(q)
  PROVE  MailInv'
  <1> DEFINE t == q.token
  <1> DEFINE box == Abandoned(outbox, q.ref)
  <1> DEFINE new == outbox'[t]
  <1>1. /\ t \in 1..fresh /\ q.ref \in Refs /\ t \in Letters /\ outbox[t].state = "none"
        /\ now \in Nat /\ Life(q.ref) \in Nat \ {0}
    <2>1. q.ref \in Refs /\ now \in Nat
      BY DEF MailInv, Typed
    <2>2. Life(q.ref) \in Nat \ {0}
      BY <2>1, MailAssumption DEF Life
    <2>3. t \in 1..fresh /\ fresh \in 0..MaxLetters
      BY DEF MailInv, Typed
    <2>4. t \in Letters
      BY <2>3, MailAssumption DEF Letters
    <2>5. outbox[t].state = "none"
      BY DEF MailInv, Tokens
    <2> QED
      BY <2>1, <2>2, <2>3, <2>4, <2>5
  <1>2. /\ new.state = "queued" /\ new.ref = q.ref /\ new.expires = now + Life(q.ref)
        /\ new.late = q.late /\ Row(new)
        /\ outbox' = [l \in Letters |-> outbox'[l]]
        /\ \A l \in Letters \ {t} : outbox'[l] = box[l]
    <2>1. box = [l \in Letters |-> box[l]]
      BY AbandonedRows DEF MailInv
    <2>2. outbox' = [box EXCEPT ![t] =
            [NoLetter EXCEPT !.state = "queued", !.ref = q.ref, !.expires = now + Life(q.ref),
                             !.next = now, !.late = q.late]]
      BY DEF QueueLetter, Enqueue
    <2> DEFINE o == q.late
    <2>3. o \in BOOLEAN
      BY DEF MailInv, Typed
    <2> HIDE DEF o
    <2>4. new = [state |-> "queued", ref |-> q.ref, expires |-> now + Life(q.ref), next |-> now,
                 attempts |-> 0, tried |-> 0, late |-> o]
      BY <1>1, <2>1, <2>2 DEF NoLetter, o
    <2>5. outbox' = [l \in Letters |-> outbox'[l]] /\ \A l \in Letters \ {t} : outbox'[l] = box[l]
      BY <1>1, <2>1, <2>2
    <2> HIDE DEF new
    <2>6. now + Life(q.ref) \in Nat
      BY <1>1
    <2>7. Row(new)
      BY <1>1, <2>3, <2>4, <2>6 DEF Row
    <2>8. /\ new.state = "queued" /\ new.ref = q.ref /\ new.expires = now + Life(q.ref)
          /\ new.late = o
      BY <2>4
    <2> QED
      BY <2>5, <2>7, <2>8 DEF o
  <1>3. /\ requests' = requests \ {q}
        /\ UNCHANGED <<now, invitations, resets, worker, delivered, fresh, lost>>
    BY DEF QueueLetter, counts
  <1>4. \A l \in Letters \ {t} :
          /\ Row(outbox'[l]) /\ outbox'[l].state = outbox[l].state /\ outbox'[l].ref = outbox[l].ref
          /\ outbox'[l].late = outbox[l].late
          /\ outbox'[l].expires = IF outbox[l].state = "queued" /\ outbox[l].ref = q.ref
                                  THEN 0 ELSE outbox[l].expires
    BY <1>2, AbandonedRows DEF MailInv
  <1> HIDE DEF new, box
  <1>5. Typed'
    BY <1>2, <1>3, <1>4 DEF MailInv, Typed, Invitation, new
  <1>6. Tokens'
    <2>1. \A p \in requests' : p.token \in Letters \ {t} /\ p \in requests
      <3>1. requests' = requests \ {q} /\ requests \subseteq [ref : Refs, token : 1..fresh, late : BOOLEAN]
        BY <1>3 DEF MailInv, Typed
      <3>2. 1..fresh \subseteq Letters
        BY MailAssumption DEF MailInv, Typed, Letters
      <3>3. \A p \in requests : p.token = q.token => p = q
        BY DEF MailInv, Tokens
      <3> QED
        BY <3>1, <3>2, <3>3
    <2>2. \A p \in requests' : outbox'[p.token].state = "none"
      BY <1>4, <2>1 DEF MailInv, Tokens
    <2>3. \A p, r \in requests' : p.token = r.token => p = r
      BY <2>1 DEF MailInv, Tokens
    <2>4. \A l \in Letters : l > fresh' => l # t
      BY <1>1, <1>3 DEF MailInv, Typed, Letters
    <2>5. \A l \in Letters : l > fresh' => outbox'[l].state = "none"
      BY <1>3, <1>4, <2>4 DEF MailInv, Tokens
    <2> QED
      BY <2>2, <2>3, <2>5 DEF Tokens
  <1>7. \A l \in Letters \ {t} : Alive(l)' => Alive(l) /\ outbox'[l].ref # q.ref
    BY <1>1, <1>3, <1>4 DEF Alive
  <1>8. OneAlive'
    BY <1>2, <1>4, <1>7 DEF MailInv, OneAlive, new
  <1>9. AliveOpens'
    <2> SUFFICES ASSUME NEW l \in Letters, Alive(l)', ~outbox'[l].late,
                        ~Awaits(outbox[l].ref)', delivered'[l] = 0
                 PROVE  Opens(outbox[l].ref, l)'
      BY DEF AliveOpens
    <2>1. \A r : Opens(r, l)' = Opens(r, l)
      BY <1>3 DEF Opens
    <2>2. CASE l = t
      <3>1. ~q.late /\ outbox'[l].ref = q.ref
        BY <1>2, <2>2 DEF new
      <3>2. Opens(q.ref, t)
        BY <3>1 DEF MailInv, Pending
      <3> QED
        BY <2>1, <2>2, <3>1, <3>2
    <2>3. CASE l # t
      <3>1. Alive(l) /\ outbox'[l].ref = outbox[l].ref /\ outbox[l].ref # q.ref /\ ~outbox[l].late
        BY <1>4, <1>7, <2>3
      <3>2. ~Awaits(outbox[l].ref)
        BY <1>3, <3>1 DEF Awaits
      <3> QED
        BY <1>3, <2>1, <3>1, <3>2 DEF MailInv, AliveOpens
    <2> QED
      BY <2>2, <2>3
  <1>10. InHand'
    BY <1>1, <1>2, <1>3, <1>4, RestTyped DEF MailInv, InHand, new, Typed
  <1>11. Taken'
    BY <1>1, <1>3, <1>4 DEF MailInv, Taken, InHand
  <1>12. Pending'
    <2>1. \A r, l : Opens(r, l)' = Opens(r, l)
      BY <1>3 DEF Opens
    <2>2. \A l \in Letters : outbox'[l].state = "none" => delivered'[l] = 0
      BY <1>2, <1>3, <1>4 DEF MailInv, Pending, new
    <2> QED
      BY <1>3, <2>1, <2>2 DEF MailInv, Pending
  <1> QED
    BY <1>5, <1>6, <1>8, <1>9, <1>10, <1>11, <1>12 DEF MailInv

(* A step that abandons the letters of an invitation whose link it closes. *)
LEMMA AbandonKeeps ==
  ASSUME MailInv, NEW i \in Invites, outbox' = Abandoned(outbox, i),
         requests' = Overtaken(i),
         UNCHANGED <<now, fresh, lost, resets, worker, delivered>>,
         invitations' = [j \in Invites |-> invitations'[j]],
         \A j \in Invites : Invitation(invitations'[j]),
         \A j \in Invites \ {i} : invitations'[j] = invitations[j]
  PROVE  MailInv'
  <1>1. /\ outbox' = [l \in Letters |-> outbox'[l]]
        /\ \A l \in Letters :
             /\ Row(outbox'[l])
             /\ outbox'[l].state = outbox[l].state /\ outbox'[l].ref = outbox[l].ref
             /\ outbox'[l].late = outbox[l].late
             /\ outbox'[l].expires = IF outbox[l].state = "queued" /\ outbox[l].ref = i
                                     THEN 0 ELSE outbox[l].expires
    BY AbandonedRows DEF MailInv
  <1>a. i # Reset
    BY MailAssumption
  <1>b. \A p \in requests' : \E q \in requests :
          p.ref = q.ref /\ p.token = q.token /\ (~p.late => p = q /\ q.ref # i)
    BY <1>a, OvertakenIs DEF MailInv
  <1>2. Typed'
    BY <1>1, OvertakenIs DEF MailInv, Typed
  <1>3. Tokens'
    <2>1. \A p \in requests' : outbox'[p.token].state = "none"
      BY <1>1, <1>b, RequestsTyped DEF MailInv, Tokens
    <2>2. \A p, q \in requests' : p.token = q.token => p = q
      BY OvertakenIs DEF MailInv
    <2> QED
      BY <1>1, <2>1, <2>2 DEF MailInv, Tokens
  <1>4. \A l \in Letters : Alive(l)' => Alive(l) /\ outbox[l].ref \in Refs \ {i}
    <2> SUFFICES ASSUME NEW l \in Letters, Alive(l)'
                 PROVE  Alive(l) /\ outbox[l].ref \in Refs \ {i}
      OBVIOUS
    <2>1. outbox[l].state = "queued" /\ outbox'[l].expires > now /\ now \in Nat
      BY <1>1 DEF Alive, MailInv, Typed
    <2>2. outbox[l].ref # i
      BY <1>1, <2>1
    <2>3. outbox[l].ref \in Refs
      BY DEF MailInv, Typed, Row
    <2> QED
      BY <1>1, <2>1, <2>2, <2>3 DEF Alive
  <1>5. OneAlive'
    BY <1>1, <1>4 DEF MailInv, OneAlive
  <1>c. \A r \in Refs \ {i} : \A l : Opens(r, l) => Opens(r, l)'
    BY MailAssumption DEF Opens, Refs
  <1>6. AliveOpens'
    <2>1. \A r \in Refs \ {i} : Awaits(r) => Awaits(r)'
      <3>1. \A q \in requests : q.ref # i => q \in requests'
        BY <1>a, OvertakenIs DEF MailInv
      <3> QED
        BY <3>1 DEF Awaits
    <2> QED
      BY <1>1, <1>4, <1>c, <2>1 DEF MailInv, AliveOpens
  <1>7. InHand'
    BY <1>1, RestTyped DEF MailInv, InHand
  <1>8. Taken'
    BY <1>1 DEF MailInv, Taken
  <1>9. Pending'
    <2>1. ASSUME NEW p \in requests', ~p.late
          PROVE  Opens(p.ref, p.token)'
      <3>1. p \in requests /\ p.ref # i
        BY <1>b, <2>1
      <3>2. p.ref \in Refs \ {i} /\ Opens(p.ref, p.token)
        BY <2>1, <3>1, RequestsTyped DEF MailInv, Pending
      <3> QED
        BY <1>c, <3>2
    <2> QED
      BY <1>1, <2>1 DEF MailInv, Pending
  <1> QED
    BY <1>2, <1>3, <1>5, <1>6, <1>7, <1>8, <1>9 DEF MailInv

LEMMA InvitationStepsKeep ==
  ASSUME MailInv, NEW i \in Invites, RevokeInvitation(i) \/ AcceptInvitation(i)
  PROVE  MailInv'
  <1>1. CASE RevokeInvitation(i)
    <2> DEFINE v == [state |-> "none", token |-> 0, expires |-> 0]
    <2>1. Invitation(v)
      BY DEF Invitation
    <2>2. invitations' = [invitations EXCEPT ![i] = v]
      BY <1>1 DEF RevokeInvitation
    <2> HIDE DEF v
    <2>3. /\ invitations' = [j \in Invites |-> invitations'[j]]
          /\ \A j \in Invites : Invitation(invitations'[j])
          /\ \A j \in Invites \ {i} : invitations'[j] = invitations[j]
      BY <2>1, <2>2 DEF MailInv, Typed
    <2> QED
      BY <1>1, <2>3, AbandonKeeps DEF RevokeInvitation, counts
  <1>2. CASE AcceptInvitation(i)
    <2> DEFINE v == [invitations[i] EXCEPT !.state = "accepted"]
    <2>1. Invitation(v)
      BY DEF MailInv, Typed, Invitation
    <2>2. invitations' = [invitations EXCEPT ![i] = v]
      BY <1>2 DEF AcceptInvitation
    <2> HIDE DEF v
    <2>3. /\ invitations' = [j \in Invites |-> invitations'[j]]
          /\ \A j \in Invites : Invitation(invitations'[j])
          /\ \A j \in Invites \ {i} : invitations'[j] = invitations[j]
      BY <2>1, <2>2 DEF MailInv, Typed
    <2> QED
      BY <1>2, <2>3, AbandonKeeps DEF AcceptInvitation, counts
  <1> QED
    BY <1>1, <1>2

(* A reset is spent by the letter that carried it: no other link closes.   *)
LEMMA ResetPasswordKeeps ==
  ASSUME MailInv, NEW l \in Letters, ResetPassword(l)
  PROVE  MailInv'
  <1> DEFINE spent(r) == IF r.token = l THEN [r EXCEPT !.used = TRUE] ELSE r
  <1>1. /\ delivered[l] > 0 /\ resets' = {spent(r) : r \in resets}
        /\ UNCHANGED <<now, fresh, lost, invitations, outbox, requests, worker, delivered>>
    BY DEF ResetPassword, counts
  <1>2. \A r \in resets : /\ spent(r) \in [token : Nat, expires : Nat, used : BOOLEAN]
                          /\ spent(r).token = r.token
                          /\ r.token # l => spent(r) = r
    <2> SUFFICES ASSUME NEW r \in resets
                 PROVE  /\ spent(r) \in [token : Nat, expires : Nat, used : BOOLEAN]
                        /\ spent(r).token = r.token
                        /\ r.token # l => spent(r) = r
      OBVIOUS
    <2>1. r \in [token : Nat, expires : Nat, used : BOOLEAN]
      BY DEF MailInv, Typed
    <2>2. CASE r.token = l
      BY <2>1, <2>2
    <2>3. CASE r.token # l
      BY <2>1, <2>3
    <2> QED
      BY <2>2, <2>3
  <1> HIDE DEF spent
  <1>3. resets' \subseteq [token : Nat, expires : Nat, used : BOOLEAN]
    BY <1>1, <1>2
  <1>4. Typed'
    BY <1>1, <1>3 DEF MailInv, Typed, Row, Invitation
  <1>5. Tokens' /\ OneAlive' /\ InHand' /\ Taken'
    BY <1>1 DEF MailInv, Tokens, OneAlive, Alive, InHand, Taken
  <1>6. \A r \in Refs : \A m \in Letters \ {l} : Opens(r, m) => Opens(r, m)'
    <2> SUFFICES ASSUME NEW r \in Refs, NEW m \in Letters \ {l}, Opens(r, m)
                 PROVE  Opens(r, m)'
      OBVIOUS
    <2>1. CASE r = Reset
      <3>1. PICK x \in resets : x.token = m /\ ~x.used
        BY <2>1 DEF Opens
      <3>2. x \in resets'
        BY <1>1, <1>2, <3>1
      <3> QED
        BY <2>1, <3>1, <3>2 DEF Opens
    <2>2. CASE r # Reset
      BY <1>1, <2>2 DEF Opens
    <2> QED
      BY <2>1, <2>2
  <1>7. AliveOpens'
    <2> SUFFICES ASSUME NEW m \in Letters, Alive(m)', ~outbox[m].late,
                        ~Awaits(outbox[m].ref)', delivered[m] = 0
                 PROVE  Opens(outbox[m].ref, m)'
      BY <1>1 DEF AliveOpens
    <2>1. m # l /\ Alive(m) /\ ~Awaits(outbox[m].ref) /\ outbox[m].ref \in Refs
      BY <1>1 DEF Alive, Awaits, MailInv, Typed, Row
    <2>2. Opens(outbox[m].ref, m)
      <3> HIDE DEF Letters
      <3> QED
        BY <2>1, <1>1 DEF MailInv, AliveOpens
    <2>3. Opens(outbox[m].ref, m)'
      <3> DEFINE r == outbox[m].ref
      <3>1. Opens(r, m) /\ r \in Refs /\ m \in Letters \ {l}
        BY <2>1, <2>2
      <3>2. outbox' = outbox /\ resets' = resets' /\ invitations' = invitations
        BY <1>1
      <3>3. \A x \in Refs : Opens(x, m) => Opens(x, m)'
        BY <1>6, <2>1
      <3> QED
        BY <3>1, <3>2, <3>3 DEF Opens
    <2> QED
      BY <2>3
  <1>8. Pending'
    <2>1. ASSUME NEW q \in requests, ~q.late
          PROVE  Opens(q.ref, q.token)'
      <3>1. outbox[q.token].state = "none" /\ q.token \in Letters /\ q.ref \in Refs
        BY RequestsTyped DEF MailInv, Tokens
      <3>2. delivered[q.token] = 0
        BY <3>1 DEF MailInv, Pending
      <3>3. q.token # l
        BY <1>1, <3>2
      <3>4. Opens(q.ref, q.token)
        BY <2>1 DEF MailInv, Pending
      <3> HIDE DEF Letters
      <3> QED
        BY <1>6, <3>1, <3>3, <3>4
    <2> QED
      BY <1>1, <2>1 DEF MailInv, Pending
  <1> QED
    BY <1>4, <1>5, <1>7, <1>8 DEF MailInv

(* A step of the worker or of time leaves every letter its ref and expiry, *)
(* and at most sends one that was queued.                                  *)
LEMMA LettersStay ==
  ASSUME MailInv, UNCHANGED <<fresh, invitations, resets, requests>>,
         now' \in Nat, now' >= now,
         \A l \in Letters :
           /\ \/ outbox'[l].state = outbox[l].state
              \/ outbox[l].state = "queued" /\ outbox'[l].state = "sent"
           /\ outbox'[l].ref = outbox[l].ref
           /\ outbox'[l].expires = outbox[l].expires
           /\ outbox'[l].late = outbox[l].late
           /\ delivered'[l] = 0 => delivered[l] = 0
           /\ outbox[l].state = "none" => delivered'[l] = delivered[l]
  PROVE  Tokens' /\ OneAlive' /\ AliveOpens' /\ Pending'
  <1>1. Tokens'
    BY RequestsTyped DEF MailInv, Tokens
  <1>2. \A l \in Letters : Alive(l)' => Alive(l)
    <2> SUFFICES ASSUME NEW l \in Letters, Alive(l)'
                 PROVE  Alive(l)
      OBVIOUS
    <2>1. outbox'[l].state = "queued" /\ outbox'[l].expires > now' /\ now \in Nat
          /\ outbox[l].expires \in Nat
      BY DEF Alive, MailInv, Typed, Row
    <2>2. outbox[l].state = "queued" /\ outbox[l].expires > now'
      BY <2>1
    <2> QED
      BY <2>1, <2>2 DEF Alive
  <1>3. OneAlive'
    BY <1>2 DEF MailInv, OneAlive
  <1>4. AliveOpens'
    <2> SUFFICES ASSUME NEW l \in Letters, Alive(l)', ~outbox'[l].late,
                        ~Awaits(outbox[l].ref)', delivered'[l] = 0
                 PROVE  Opens(outbox[l].ref, l)'
      BY DEF AliveOpens
    <2>1. Alive(l) /\ ~outbox[l].late /\ ~Awaits(outbox[l].ref) /\ delivered[l] = 0
          /\ outbox'[l].ref = outbox[l].ref
      BY <1>2 DEF Awaits
    <2>2. Opens(outbox[l].ref, l)
      BY <2>1 DEF MailInv, AliveOpens
    <2> QED
      BY <2>1, <2>2 DEF Opens
  <1>5. Pending'
    BY DEF MailInv, Pending, Opens
  <1> QED
    BY <1>1, <1>3, <1>4, <1>5

(* A batch is a sequence of letters, and never empty.                      *)
LEMMA BatchTyped ==
  ASSUME Typed, ReadBatch
  PROVE  /\ worker' \in [pc : {"idle", "look", "send", "mark"}, batch : Seq(Letters)]
         /\ worker'.pc = "look" /\ worker'.batch # <<>>
  <1>1. PICK due \in [1..Cardinality(Due) -> Due] :
          worker' = [pc |-> "look", batch |-> SubSeq(due, 1, Min({Len(due), BatchSize}))]
    BY DEF ReadBatch
  <1>2. IsFiniteSet(Due) /\ Due # {} /\ Due \subseteq Letters
    <2>1. MaxLetters \in Int /\ 1 \in Int
      BY MailAssumption
    <2>2. IsFiniteSet(Letters)
      BY <2>1, FS_Interval DEF Letters
    <2>3. Due \subseteq Letters
      BY DEF Due
    <2> QED
      BY <2>2, <2>3, FS_Subset DEF ReadBatch
  <1>3. Cardinality(Due) \in Nat \ {0}
    BY <1>2, FS_CardinalityType, FS_EmptySet
  <1>4. due \in Seq(Letters) /\ Len(due) \in Nat \ {0}
    <2> DEFINE n == Cardinality(Due)
    <2>1. n \in Nat \ {0} /\ due \in [1..n -> Letters]
      BY <1>1, <1>2, <1>3
    <2> HIDE DEF n
    <2> QED
      BY <2>1
  <1>5. Min({Len(due), BatchSize}) \in 1..Len(due)
    <2>1. Len(due) \in Nat \ {0} /\ BatchSize \in Nat \ {0}
      BY <1>4, MailAssumption
    <2>2. /\ Min({Len(due), BatchSize}) \in {Len(due), BatchSize}
          /\ Min({Len(due), BatchSize}) <= Len(due)
      BY <2>1, MinOfTwo
    <2> QED
      BY <2>1, <2>2
  <1>6. ASSUME NEW k \in 1..Len(due)
        PROVE  SubSeq(due, 1, k) \in Seq(Letters) /\ SubSeq(due, 1, k) # <<>>
    <2>1. k \in Nat /\ k >= 1 /\ \A j \in 1..k : due[j] \in Letters
      <3>1. k \in Nat /\ k >= 1 /\ k <= Len(due)
        BY <1>4
      <3>2. \A j \in 1..Len(due) : due[j] \in Letters
        BY <1>4, ElementOfSeq
      <3>3. \A j \in 1..k : j \in 1..Len(due)
        BY <1>4, <3>1
      <3> QED
        BY <3>1, <3>2, <3>3
    <2>2. SubSeq(due, 1, k) = [j \in 1..k |-> due[j]]
      BY <1>4, <2>1
    <2> QED
      BY <2>1, <2>2
  <1> QED
    BY <1>1, <1>5, <1>6

(* The worker reads a batch, looks at a letter again, and sends it.        *)
LEMMA LooksKeep ==
  ASSUME MailInv, ReadBatch \/ LookAgain \/ Send
  PROVE  MailInv'
  <1>1. UNCHANGED <<now, fresh, lost, invitations, resets, outbox, requests>>
    BY DEF ReadBatch, LookAgain, Send, counts
  <1>2. CASE ReadBatch
    <2>1. delivered' = delivered /\ worker.pc = "idle"
      BY <1>2 DEF ReadBatch
    <2>2. Typed'
      BY <1>1, <1>2, <2>1, BatchTyped DEF MailInv, Typed, Row, Invitation
    <2>3. Tokens' /\ OneAlive' /\ AliveOpens' /\ Pending'
      BY <1>1, <2>1, LettersStay DEF MailInv, Typed
    <2>4. InHand' /\ Taken'
      BY <1>1, <1>2, <2>1, BatchTyped DEF MailInv, InHand, Taken
    <2> QED
      BY <2>2, <2>3, <2>4 DEF MailInv
  <1>3. CASE LookAgain
    <2>1. delivered' = delivered /\ worker.pc = "look"
      BY <1>3 DEF LookAgain
    <2>2. /\ worker' \in [pc : {"idle", "look", "send", "mark"}, batch : Seq(Letters)]
          /\ worker'.pc # "idle" => worker'.batch # <<>>
          /\ worker'.pc # "mark"
          /\ worker'.pc = "send" => outbox[Head(worker'.batch)].state = "queued"
      <3>1. CASE Sendable(outbox[Head(worker.batch)])
        <4>1. worker' = [worker EXCEPT !.pc = "send"]
          BY <1>3, <3>1 DEF LookAgain
        <4> QED
          BY <2>1, <3>1, <4>1 DEF Sendable, MailInv, Typed
      <3>2. CASE ~Sendable(outbox[Head(worker.batch)])
        BY <1>3, <2>1, <3>2, RestTyped DEF LookAgain, MailInv
      <3> QED
        BY <3>1, <3>2
    <2>3. Typed'
      BY <1>1, <2>1, <2>2 DEF MailInv, Typed, Row, Invitation
    <2>4. Tokens' /\ OneAlive' /\ AliveOpens' /\ Pending'
      BY <1>1, <2>1, LettersStay DEF MailInv, Typed
    <2>5. InHand' /\ Taken'
      BY <1>1, <2>1, <2>2 DEF MailInv, InHand, Taken
    <2> QED
      BY <2>3, <2>4, <2>5 DEF MailInv
  <1>4. CASE Send
    <2> DEFINE h == Head(worker.batch)
    <2>1. h \in Letters /\ outbox[h].state = "queued"
      BY <1>4, RestTyped DEF Send, MailInv, InHand
    <2>2. /\ worker.pc = "send" /\ worker'.pc = "mark" /\ worker'.batch = worker.batch
          /\ worker' \in [pc : {"idle", "look", "send", "mark"}, batch : Seq(Letters)]
          /\ worker'.batch # <<>>
      BY <1>4 DEF Send, MailInv, Typed
    <2>3. /\ delivered' \in [Letters -> Nat] /\ delivered'[h] = delivered[h] + 1
          /\ \A l \in Letters \ {h} : delivered'[l] = delivered[l]
          /\ delivered[h] \in Nat
      BY <1>4, <2>1 DEF Send, MailInv, Typed
    <2>4. Typed'
      BY <1>1, <2>2, <2>3 DEF MailInv, Typed, Row, Invitation
    <2>5. \A l \in Letters : /\ delivered'[l] = 0 => delivered[l] = 0
                             /\ outbox[l].state = "none" => delivered'[l] = delivered[l]
      BY <2>1, <2>3
    <2>6. Tokens' /\ OneAlive' /\ AliveOpens' /\ Pending'
      BY <1>1, <2>5, LettersStay DEF MailInv, Typed
    <2>7. InHand'
      BY <1>1, <2>1, <2>2 DEF InHand
    <2>8. delivered'[h] <= lost'[h] + 1
      <3>1. lost'[h] = lost[h] /\ lost[h] \in Nat
        BY <1>1, <2>1 DEF MailInv, Typed
      <3>2. delivered[h] <= lost[h]
        BY <2>1, <2>2 DEF MailInv, Taken
      <3> QED
        BY <2>3, <3>1, <3>2
    <2>9. Taken'
      BY <1>1, <2>2, <2>3, <2>8 DEF MailInv, Taken
    <2> QED
      BY <2>4, <2>6, <2>7, <2>9 DEF MailInv
  <1> QED
    BY <1>2, <1>3, <1>4

(* A failed try leaves the letter its state, its ref and its expiry.       *)
LEMMA FailedRow ==
  ASSUME NEW m, Row(m)
  PROVE  /\ Row(Failed(m)) /\ Failed(m).state = m.state /\ Failed(m).ref = m.ref
         /\ Failed(m).expires = m.expires /\ Failed(m).late = m.late
  <1> DEFINE a == m.attempts + 1
  <1> DEFINE x == now + Backoff(a)
  <1> DEFINE t == IF m.tried = 0 THEN now ELSE m.tried
  <1>1. Failed(m) = [m EXCEPT !.attempts = a, !.next = x, !.tried = t]
    BY DEF Failed
  <1> HIDE DEF a, x, t
  <1>2. Failed(m) = [state |-> m.state, ref |-> m.ref, expires |-> m.expires, next |-> x,
                     attempts |-> a, tried |-> t, late |-> m.late]
    BY <1>1 DEF Row
  <1> QED
    BY <1>2 DEF Row

(* The server refuses the letter in hand.                                  *)
LEMMA SendFailsKeeps ==
  ASSUME MailInv, SendFails
  PROVE  MailInv'
  <1> DEFINE h == Head(worker.batch)
  <1> DEFINE o == outbox[h]
  <1>1. h \in Letters /\ Row(o) /\ worker.pc = "send"
    BY RestTyped DEF SendFails, MailInv, Typed
  <1>2. /\ UNCHANGED <<now, fresh, lost, invitations, resets, requests, delivered>>
        /\ worker' = Rest
    BY DEF SendFails
  <1>3. /\ Row(Failed(o)) /\ Failed(o).state = o.state /\ Failed(o).ref = o.ref
        /\ Failed(o).expires = o.expires /\ Failed(o).late = o.late
    BY <1>1, FailedRow
  <1>4. /\ outbox' = [l \in Letters |-> outbox'[l]]
        /\ outbox'[h] = Failed(o)
        /\ \A l \in Letters \ {h} : outbox'[l] = outbox[l]
    BY <1>1 DEF SendFails, MailInv, Typed
  <1> HIDE DEF h
  <1>5. \A l \in Letters :
          /\ Row(outbox'[l])
          /\ outbox'[l].state = outbox[l].state /\ outbox'[l].ref = outbox[l].ref
          /\ outbox'[l].expires = outbox[l].expires /\ outbox'[l].late = outbox[l].late
    <2>1. \A l \in Letters : Row(outbox[l])
      BY DEF MailInv, Typed
    <2> QED
      BY <1>3, <1>4, <2>1
  <1>6. Typed'
    BY <1>1, <1>2, <1>4, <1>5, RestTyped DEF MailInv, Typed, Invitation
  <1>7. Tokens' /\ OneAlive' /\ AliveOpens' /\ Pending'
    BY <1>2, <1>5, LettersStay DEF MailInv, Typed
  <1>8. InHand' /\ Taken'
    BY <1>1, <1>2, <1>5, RestTyped DEF MailInv, InHand, Taken
  <1> QED
    BY <1>6, <1>7, <1>8 DEF MailInv

(* The letter in hand is marked sent, and its taking accounted for.        *)
LEMMA MarkSentKeeps ==
  ASSUME MailInv, MarkSent
  PROVE  MailInv'
  <1> DEFINE h == Head(worker.batch)
  <1> DEFINE o == outbox[h]
  <1>1. h \in Letters /\ Row(o) /\ worker.pc = "mark" /\ o.state = "queued"
    BY RestTyped DEF MarkSent, MailInv, Typed, InHand
  <1>2. /\ UNCHANGED <<now, fresh, lost, invitations, resets, requests, delivered>>
        /\ worker' = Rest
    BY DEF MarkSent, counts
  <1>3. /\ outbox' = [l \in Letters |-> outbox'[l]]
        /\ outbox'[h] = [state |-> "sent", ref |-> o.ref, expires |-> o.expires, next |-> o.next,
                         attempts |-> o.attempts, tried |-> o.tried, late |-> o.late]
        /\ \A l \in Letters \ {h} : outbox'[l] = outbox[l]
    <2>1. o = [state |-> o.state, ref |-> o.ref, expires |-> o.expires, next |-> o.next,
               attempts |-> o.attempts, tried |-> o.tried, late |-> o.late]
      BY <1>1 DEF Row
    <2>2. outbox = [l \in Letters |-> outbox[l]]
      BY DEF MailInv, Typed
    <2>3. /\ outbox' = [l \in Letters |-> outbox'[l]]
          /\ outbox'[h] = [o EXCEPT !.state = "sent"]
          /\ \A l \in Letters \ {h} : outbox'[l] = outbox[l]
      BY <1>1, <2>2 DEF MarkSent
    <2>4. [o EXCEPT !.state = "sent"] =
            [state |-> "sent", ref |-> o.ref, expires |-> o.expires, next |-> o.next,
             attempts |-> o.attempts, tried |-> o.tried, late |-> o.late]
      <3> HIDE DEF o
      <3> QED
        BY <2>1
    <2> QED
      BY <2>3, <2>4
  <1> HIDE DEF h
  <1>4. /\ Row(outbox'[h]) /\ outbox'[h].state = "sent" /\ outbox'[h].ref = o.ref
        /\ outbox'[h].expires = o.expires /\ outbox'[h].late = o.late
    BY <1>1, <1>3 DEF Row
  <1>5. \A l \in Letters :
          /\ Row(outbox'[l])
          /\ \/ outbox'[l].state = outbox[l].state
             \/ outbox[l].state = "queued" /\ outbox'[l].state = "sent"
          /\ outbox'[l].ref = outbox[l].ref
          /\ outbox'[l].expires = outbox[l].expires /\ outbox'[l].late = outbox[l].late
    <2>1. \A l \in Letters : Row(outbox[l])
      BY DEF MailInv, Typed
    <2> QED
      BY <1>1, <1>3, <1>4, <2>1
  <1>6. Typed'
    <2>1. /\ worker' \in [pc : {"idle", "look", "send", "mark"}, batch : Seq(Letters)]
          /\ worker'.pc # "idle" => worker'.batch # <<>>
      BY <1>1, <1>2, RestTyped DEF MailInv
    <2>2. outbox' = [l \in Letters |-> outbox'[l]] /\ \A l \in Letters : Row(outbox'[l])
      BY <1>3, <1>5
    <2> QED
      BY <1>2, <2>1, <2>2 DEF MailInv, Typed, Invitation
  <1>7. Tokens' /\ OneAlive' /\ AliveOpens' /\ Pending'
    BY <1>2, <1>5, LettersStay DEF MailInv, Typed
  <1>8. InHand'
    BY <1>1, <1>2, RestTyped DEF MailInv, InHand
  <1>9. Taken'
    BY <1>1, <1>2, <1>3, <1>4 DEF MailInv, Taken, h
  <1> QED
    BY <1>6, <1>7, <1>8, <1>9 DEF MailInv

(* RetryNow touches neither the state, the ref nor the expiry of a letter. *)
LEMMA RetryKeeps ==
  ASSUME MailInv, RetryNow
  PROVE  MailInv'
  <1>1. UNCHANGED <<now, fresh, lost, invitations, resets, requests, worker, delivered>>
    BY DEF RetryNow
  <1>2. ASSUME NEW l \in Letters
        PROVE  /\ Row(outbox'[l])
               /\ outbox'[l].state = outbox[l].state /\ outbox'[l].ref = outbox[l].ref
               /\ outbox'[l].expires = outbox[l].expires /\ outbox'[l].late = outbox[l].late
    <2> DEFINE o == outbox[l]
    <2>1. Row(o)
      BY DEF MailInv, Typed
    <2>2. outbox'[l] \in {o, [o EXCEPT !.attempts = 0, !.next = now, !.tried = 0]}
      BY DEF RetryNow
    <2> HIDE DEF o
    <2>3. CASE outbox'[l] = o
      BY <2>1, <2>3 DEF o
    <2>4. CASE outbox'[l] = [o EXCEPT !.attempts = 0, !.next = now, !.tried = 0]
      <3>1. outbox'[l] = [state |-> o.state, ref |-> o.ref, expires |-> o.expires, next |-> now,
                          attempts |-> 0, tried |-> 0, late |-> o.late]
        BY <2>1, <2>4 DEF Row
      <3> QED
        BY <2>1, <3>1 DEF Row, o
    <2> QED
      BY <2>2, <2>3, <2>4
  <1>3. outbox' = [l \in Letters |-> outbox'[l]]
    BY DEF RetryNow
  <1>4. Typed'
    BY <1>1, <1>2, <1>3 DEF MailInv, Typed, Invitation
  <1>5. Tokens' /\ OneAlive' /\ AliveOpens' /\ Pending'
    BY <1>1, <1>2, LettersStay DEF MailInv, Typed
  <1>6. InHand'
    BY <1>1, <1>2, RestTyped DEF MailInv, InHand
  <1>7. Taken'
    BY <1>1, <1>2 DEF MailInv, Taken
  <1> QED
    BY <1>4, <1>5, <1>6, <1>7 DEF MailInv

(* Requests that end without a letter: what waits under their refs is late.*)
LEMMA StrandsKeep ==
  ASSUME MailInv, NEW refs, outbox' = Stranded(refs), requests' \subseteq requests,
         \A r \in Refs \ refs : Awaits(r) => Awaits(r)',
         UNCHANGED <<now, fresh, invitations, resets, delivered>>
  PROVE  /\ Tokens' /\ OneAlive' /\ AliveOpens' /\ Pending'
         /\ outbox' = [l \in Letters |-> outbox'[l]]
         /\ \A l \in Letters : /\ Row(outbox'[l]) /\ outbox'[l].state = outbox[l].state
                              /\ outbox'[l].expires = outbox[l].expires
  <1>1. ASSUME NEW l \in Letters
        PROVE  /\ Row(outbox'[l])
               /\ outbox'[l].state = outbox[l].state /\ outbox'[l].ref = outbox[l].ref
               /\ outbox'[l].expires = outbox[l].expires
               /\ ~outbox'[l].late => ~outbox[l].late /\ outbox[l].ref \notin refs
    <2> DEFINE o == outbox[l]
    <2> DEFINE d == o.late \/ o.ref \in refs
    <2>1. Row(o)
      BY DEF MailInv, Typed
    <2>2. outbox'[l] = [o EXCEPT !.late = d]
      BY DEF Stranded
    <2>3. d \in BOOLEAN /\ (~d => ~o.late /\ o.ref \notin refs)
      OBVIOUS
    <2> HIDE DEF d
    <2>4. outbox'[l] = [state |-> o.state, ref |-> o.ref, expires |-> o.expires, next |-> o.next,
                        attempts |-> o.attempts, tried |-> o.tried, late |-> d]
      <3> HIDE DEF o
      <3> QED
        BY <2>1, <2>2 DEF Row
    <2>5. /\ Row(outbox'[l]) /\ outbox'[l].state = o.state /\ outbox'[l].ref = o.ref
          /\ outbox'[l].expires = o.expires /\ outbox'[l].late = d
      <3> HIDE DEF o
      <3> QED
        BY <2>1, <2>3, <2>4 DEF Row
    <2> QED
      BY <2>3, <2>5
  <1>2. outbox' = [l \in Letters |-> outbox'[l]]
    BY DEF Stranded
  <1>3. Tokens' /\ OneAlive'
    BY <1>1, RequestsTyped DEF MailInv, Tokens, OneAlive, Alive
  <1>4. AliveOpens'
    <2> SUFFICES ASSUME NEW l \in Letters, Alive(l)', ~outbox'[l].late,
                        ~Awaits(outbox[l].ref)', delivered[l] = 0
                 PROVE  Opens(outbox[l].ref, l)'
      BY <1>1 DEF AliveOpens
    <2>1. Alive(l) /\ ~outbox[l].late /\ outbox[l].ref \in Refs \ refs
      BY <1>1 DEF Alive, MailInv, Typed, Row
    <2>2. ~Awaits(outbox[l].ref)
      BY <1>1, <2>1
    <2>3. Opens(outbox[l].ref, l)
      BY <2>1, <2>2 DEF MailInv, AliveOpens
    <2> QED
      BY <1>1, <2>3 DEF Opens
  <1>5. Pending'
    BY <1>1 DEF MailInv, Pending, Opens
  <1> QED
    BY <1>1, <1>2, <1>3, <1>4, <1>5

(* The worker stops where it is: a mark that is lost is counted.           *)
LEMMA DropsKeep ==
  ASSUME MailInv, Drops, delivered' = delivered,
         \A l \in Letters : outbox'[l].state = outbox[l].state
  PROVE  /\ worker' = Rests /\ lost' \in [Letters -> Nat]
         /\ InHand' /\ Taken'
  <1>1. /\ worker' = Rests /\ lost' \in [Letters -> Nat]
        /\ \A l \in Letters :
             lost'[l] = IF worker.pc = "mark" /\ Head(worker.batch) = l
                        THEN lost[l] + 1 ELSE lost[l]
    BY DEF Drops, MailInv, Typed
  <1>2. InHand'
    BY <1>1 DEF InHand, Rests
  <1>3. Taken'
    <2> SUFFICES ASSUME NEW l \in Letters
                 PROVE  \/ delivered[l] <= lost'[l]
                        \/ delivered[l] <= lost'[l] + 1 /\ outbox'[l].state = "sent"
      BY DEF Taken
    <2>1. delivered[l] \in Nat /\ lost[l] \in Nat
      BY DEF MailInv, Typed
    <2> QED
      BY <1>1, <2>1 DEF MailInv, Taken
  <1> QED
    BY <1>1, <1>2, <1>3

(* A crash forgets the requests and the batch.                             *)
LEMMA CrashKeeps ==
  ASSUME MailInv, Crash
  PROVE  MailInv'
  <1> DEFINE refs == {i \in Invites : Awaits(i)}
  <1>1. /\ UNCHANGED <<now, fresh, invitations, resets, delivered>>
        /\ requests' = {} /\ Drops /\ outbox' = Stranded(refs)
    BY DEF Crash
  <1>2. \A r \in Refs \ refs : ~Awaits(r)
    BY DEF Refs, Awaits
  <1> HIDE DEF refs
  <1>3. /\ Tokens' /\ OneAlive' /\ AliveOpens' /\ Pending'
        /\ outbox' = [l \in Letters |-> outbox'[l]]
        /\ \A l \in Letters : Row(outbox'[l]) /\ outbox'[l].state = outbox[l].state
    BY <1>1, <1>2, StrandsKeep
  <1>4. worker' = Rests /\ lost' \in [Letters -> Nat] /\ InHand' /\ Taken'
    BY <1>1, <1>3, DropsKeep
  <1>5. Typed'
    BY <1>1, <1>3, <1>4 DEF MailInv, Typed, Invitation, Rests
  <1> QED
    BY <1>3, <1>4, <1>5 DEF MailInv

(* A request that could not queue its letter is forgotten.                 *)
LEMMA QueueFailsKeeps ==
  ASSUME MailInv, NEW q \in requests, QueueFails(q)
  PROVE  MailInv'
  <1> DEFINE refs == IF q.late THEN {} ELSE {q.ref} \ {Reset}
  <1>1. /\ UNCHANGED <<now, fresh, lost, invitations, resets, delivered, worker>>
        /\ requests' = requests \ {q} /\ outbox' = Stranded(refs)
    BY DEF QueueFails
  <1>2. \A r \in Refs \ refs : Awaits(r) => Awaits(r)'
    BY <1>1 DEF Awaits
  <1> HIDE DEF refs
  <1>3. /\ Tokens' /\ OneAlive' /\ AliveOpens' /\ Pending'
        /\ outbox' = [l \in Letters |-> outbox'[l]]
        /\ \A l \in Letters : Row(outbox'[l]) /\ outbox'[l].state = outbox[l].state
    BY <1>1, <1>2, StrandsKeep
  <1>4. Typed'
    BY <1>1, <1>3 DEF MailInv, Typed, Invitation
  <1>5. InHand' /\ Taken'
    BY <1>1, <1>3, RestTyped DEF MailInv, InHand, Taken
  <1> QED
    BY <1>3, <1>4, <1>5 DEF MailInv

(* A turn of the worker that fails ends there.                             *)
LEMMA TurnFailsKeeps ==
  ASSUME MailInv, TurnFails
  PROVE  MailInv'
  <1>1. /\ UNCHANGED <<now, fresh, invitations, resets, delivered, outbox, requests>>
        /\ Drops
    BY DEF TurnFails
  <1>2. worker' = Rests /\ lost' \in [Letters -> Nat] /\ InHand' /\ Taken'
    BY <1>1, DropsKeep
  <1>3. Typed'
    BY <1>1, <1>2 DEF MailInv, Typed, Invitation, Rests, Row
  <1>4. Tokens' /\ OneAlive' /\ AliveOpens' /\ Pending'
    BY <1>1, LettersStay DEF MailInv, Typed
  <1> QED
    BY <1>2, <1>3, <1>4 DEF MailInv

LEMMA TickKeeps ==
  ASSUME MailInv, Tick
  PROVE  MailInv'
  <1>1. /\ UNCHANGED <<fresh, lost, invitations, resets, outbox, requests, worker, delivered>>
        /\ now' = now + 1 /\ now \in Nat
    BY DEF Tick, counts, MailInv, Typed
  <1>2. Typed'
    BY <1>1 DEF MailInv, Typed, Row, Invitation
  <1>3. Tokens' /\ OneAlive' /\ AliveOpens' /\ Pending'
    BY <1>1, LettersStay
  <1>4. InHand' /\ Taken'
    BY <1>1 DEF MailInv, InHand, Taken
  <1> QED
    BY <1>2, <1>3, <1>4 DEF MailInv

(* Every step keeps the invariant.                                         *)
LEMMA StepKeeps == MailInv /\ [Next]_vars => MailInv'
  <1> SUFFICES ASSUME MailInv, [Next]_vars PROVE MailInv'
    OBVIOUS
  <1>1. CASE \E i \in Invites : CreateInvitation(i) \/ ReissueInvitation(i)
    BY <1>1, RequestsKeep
  <1>2. CASE \E i \in Invites : RevokeInvitation(i) \/ AcceptInvitation(i)
    BY <1>2, InvitationStepsKeep
  <1>3. CASE CreatePasswordReset
    BY <1>3, RequestsKeep
  <1>4. CASE \E q \in requests : QueueLetter(q) \/ QueueFails(q)
    BY <1>4, QueueLetterKeeps, QueueFailsKeeps
  <1>5. CASE \E l \in Letters : ResetPassword(l)
    BY <1>5, ResetPasswordKeeps
  <1>6. CASE Turn \/ TurnFails
    BY <1>6, LooksKeep, SendFailsKeeps, MarkSentKeeps, TurnFailsKeeps DEF Turn
  <1>7. CASE RetryNow
    BY <1>7, RetryKeeps
  <1>8. CASE Configure
    BY <1>8, Stutters DEF Configure, Seen, counts
  <1>9. CASE Crash
    BY <1>9, CrashKeeps
  <1>10. CASE Tick
    BY <1>10, TickKeeps
  <1>11. CASE UNCHANGED vars
    BY <1>11, Stutters DEF vars, Seen
  <1> QED
    BY <1>1, <1>2, <1>3, <1>4, <1>5, <1>6, <1>7, <1>8, <1>9, <1>10, <1>11 DEF Next

LEMMA Invariant == Spec => []MailInv
  BY Initially, StepKeeps, PTL DEF Spec

(* Enqueue, Abandon, once and markSent: whichever way requests cross, the  *)
(* worker is read into, a statement fails and the process stops, a person  *)
(* has one letter for a ref still to come, with a link that works unless   *)
(* another request overtook it before it was queued, and is sent it again  *)
(* only when its mark was lost.                                            *)
THEOREM PersonGetsOneLink == Spec => []LettersWork
  <1>1. MailInv => LettersWork
    <2> SUFFICES ASSUME MailInv PROVE LettersWork
      OBVIOUS
    <2>1. \A l \in Letters : Sendable(outbox[l]) => Alive(l)
      BY DEF Sendable, Alive
    <2>2. OneLetter
      BY <2>1 DEF MailInv, OneAlive, OneLetter
    <2>3. LinksWork
      BY <2>1 DEF MailInv, AliveOpens, LinksWork
    <2>4. DeliveredOnce
      <3> SUFFICES ASSUME NEW l \in Letters PROVE delivered[l] <= 1 + lost[l]
        BY DEF DeliveredOnce
      <3>1. delivered[l] \in Nat /\ lost[l] \in Nat
        BY DEF MailInv, Typed
      <3>2. delivered[l] <= lost[l] \/ delivered[l] <= lost[l] + 1
        BY DEF MailInv, Taken
      <3> QED
        BY <3>1, <3>2
    <2> QED
      BY <2>2, <2>3, <2>4 DEF LettersWork
  <1> QED
    BY <1>1, Invariant, PTL

(* stillSendable: a letter that is abandoned or has run out is not handed  *)
(* to the server by any later step, and does not come back.                *)
THEOREM AbandonedIsLeft == Spec => AbandonedStays
  <1> DEFINE A == \A l \in Letters :
       outbox[l].state = "queued" /\ outbox[l].expires <= now /\ ~Begun(l)
       => delivered'[l] = delivered[l] /\ ~Begun(l)' /\ outbox'[l].expires <= now'
  <1>1. MailInv /\ [Next]_vars => [A]_vars
    <2> SUFFICES ASSUME MailInv, Next PROVE A
      OBVIOUS
    <2> SUFFICES ASSUME NEW l \in Letters, outbox[l].state = "queued",
                        outbox[l].expires <= now, ~Begun(l)
                 PROVE  delivered'[l] = delivered[l] /\ ~Begun(l)' /\ outbox'[l].expires <= now'
      OBVIOUS
    <2>1. now \in Nat /\ Row(outbox[l]) /\ outbox[l].expires \in Nat
      BY DEF MailInv, Typed, Row
    <2>2. CASE \/ \E i \in Invites : CreateInvitation(i) \/ ReissueInvitation(i)
               \/ CreatePasswordReset \/ Configure \/ \E m \in Letters : ResetPassword(m)
      BY <2>2 DEF CreateInvitation, ReissueInvitation, CreatePasswordReset, Configure,
                  ResetPassword, Begun
    <2>3. CASE \E i \in Invites : RevokeInvitation(i) \/ AcceptInvitation(i)
      <3>1. PICK i \in Invites : outbox' = Abandoned(outbox, i)
        BY <2>3 DEF RevokeInvitation, AcceptInvitation
      <3>2. UNCHANGED <<now, worker, delivered>>
        BY <2>3 DEF RevokeInvitation, AcceptInvitation
      <3>3. outbox'[l].expires \in {0, outbox[l].expires}
        BY <3>1, AbandonedRows DEF MailInv
      <3> QED
        BY <2>1, <3>2, <3>3 DEF Begun
    <2>12. CASE \/ \E q \in requests : QueueFails(q)
               \/ TurnFails \/ Crash
      <3>1. now' = now /\ delivered' = delivered
            /\ (worker' = worker \/ worker' = Rests)
        BY <2>12 DEF QueueFails, TurnFails, Crash, Drops
      <3>2. \/ outbox' = outbox
            \/ \E refs : outbox' = Stranded(refs)
        BY <2>12 DEF QueueFails, TurnFails, Crash
      <3>3. outbox'[l].expires = outbox[l].expires
        BY <2>1, <3>2 DEF Stranded, Row
      <3> QED
        BY <2>1, <3>1, <3>3 DEF Begun, Rests
    <2>4. CASE \E q \in requests : QueueLetter(q)
      <3>1. PICK q \in requests : QueueLetter(q)
        BY <2>4
      <3>2. UNCHANGED <<now, worker, delivered>>
        BY <3>1 DEF QueueLetter
      <3>3. q.token # l
        BY DEF MailInv, Tokens
      <3>4. outbox'[l] = Abandoned(outbox, q.ref)[l]
        BY <3>1, <3>3 DEF QueueLetter, Enqueue, Abandoned
      <3>5. outbox'[l].expires \in {0, outbox[l].expires}
        BY <3>4, AbandonedRows DEF MailInv
      <3> QED
        BY <2>1, <3>2, <3>5 DEF Begun
    <2>5. CASE ReadBatch
      BY <2>5, BatchTyped DEF ReadBatch, Begun, MailInv
    <2>6. CASE LookAgain
      <3>1. UNCHANGED <<now, outbox, delivered>> /\ worker.pc = "look"
        BY <2>6 DEF LookAgain
      <3>2. ~Begun(l)'
        <4>1. CASE Sendable(outbox[Head(worker.batch)])
          <5>1. worker'.batch = worker.batch
            BY <2>6, <4>1 DEF LookAgain, MailInv, Typed
          <5>2. Head(worker.batch) # l
            BY <2>1, <4>1 DEF Sendable
          <5> QED
            BY <5>1, <5>2 DEF Begun
        <4>2. CASE ~Sendable(outbox[Head(worker.batch)])
          BY <2>6, <3>1, <4>2, RestTyped DEF LookAgain, Begun, MailInv
        <4> QED
          BY <4>1, <4>2
      <3> QED
        BY <3>1, <3>2
    <2>7. CASE Send
      BY <2>7, RestTyped DEF Send, Begun, MailInv, Typed
    <2>8. CASE SendFails
      <3>1. UNCHANGED <<now, delivered>> /\ worker' = Rest /\ worker.pc = "send"
        BY <2>8 DEF SendFails
      <3>2. Head(worker.batch) # l
        BY <3>1 DEF Begun
      <3>3. outbox'[l] = outbox[l]
        BY <2>8, <3>2 DEF SendFails, MailInv, Typed
      <3> QED
        BY <3>1, <3>3, RestTyped DEF Begun, MailInv
    <2>9. CASE MarkSent
      <3>1. UNCHANGED <<now, delivered>> /\ worker' = Rest /\ worker.pc = "mark"
        BY <2>9 DEF MarkSent
      <3>2. Head(worker.batch) \in Letters /\ Row(outbox[Head(worker.batch)])
        BY <3>1, RestTyped DEF MailInv, Typed
      <3>3. outbox'[l].expires = outbox[l].expires
        BY <2>9, <3>2 DEF MarkSent, MailInv, Typed, Row
      <3> QED
        BY <3>1, <3>3, RestTyped DEF Begun, MailInv
    <2>10. CASE RetryNow
      <3>1. ~(outbox[l].expires > now)
        BY <2>1
      <3>2. outbox'[l] = outbox[l]
        BY <2>10, <3>1 DEF RetryNow
      <3> QED
        BY <2>10, <3>2 DEF RetryNow, Begun
    <2>11. CASE Tick
      BY <2>1, <2>11 DEF Tick, Begun
    <2> QED
      BY <2>2, <2>3, <2>12, <2>4, <2>5, <2>6, <2>7, <2>8, <2>9, <2>10, <2>11 DEF Next, Turn
  <1> QED
    BY <1>1, Invariant, PTL DEF Spec, AbandonedStays
=============================================================================
