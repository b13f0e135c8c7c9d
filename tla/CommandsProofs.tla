--------------------------- MODULE CommandsProofs ---------------------------
(***************************************************************************)
(* Proofs about Commands, for every set of accounts, frames, workers and   *)
(* subscribers: its type invariant, that a key is spent once while it      *)
(* lives, that the bus tells the log in commit order and a subscriber all  *)
(* of it or how much it lost, that the core implements CommandLog, that a  *)
(* retry is answered with its own, that only members command, and that no  *)
(* step of a short frame is applied twice while its key lives.             *)
(***************************************************************************)
EXTENDS Commands, FiniteSetTheorems, SequenceTheorems, TLAPS

(* A worker that is not idle has a frame and a step of it.                 *)
WorkOK ==
  \A w \in Workers : worker[w].pc # "idle" =>
    /\ worker[w].frame \in Frames
    /\ worker[w].step \in 1..Len(Steps[worker[w].frame])

(* Every key is of a row that is there, and names it.                      *)
KeysNameRows(d) ==
  /\ d.present \subseteq 1..Len(d.rows)
  /\ \A k \in d.keys :
       /\ k.seq \in d.present
       /\ d.rows[k.seq].by = k.by /\ d.rows[k.seq].key = k.key
       /\ d.rows[k.seq].n = k.n /\ d.rows[k.seq].at = k.at

(* No row is later than the clock t.                                       *)
RowsPast(d, t) == \A r \in 1..Len(d.rows) : d.rows[r].at <= t

(* A keyed row that is there has its key until the key's life is over.     *)
Remembered(d, t) ==
  \A r \in d.present : d.rows[r].key # NoKey =>
    \/ \E k \in d.keys : k.seq = r
    \/ t > d.rows[r].at + KeyLife

(* SpentOnce of any view of the database.                                  *)
SpentOnceIn(d) ==
  \A r \in d.present : \A s \in 1..Len(d.rows) :
    /\ r < s
    /\ d.rows[r].key # NoKey
    /\ d.rows[r].by = d.rows[s].by
    /\ d.rows[r].key = d.rows[s].key
    /\ d.rows[r].n = d.rows[s].n
    => d.rows[s].at - d.rows[r].at > KeyLife

KeysOK(d, t) ==
  /\ KeysNameRows(d)
  /\ RowsPast(d, t)
  /\ Remembered(d, t)
  /\ SpentOnceIn(d)

(* Whoever runs commands holds the write lock, and with nobody holding it  *)
(* there is no open transaction.                                           *)
LockOK ==
  /\ \A w \in Workers : worker[w].pc \in {"do", "commit"} => lock = w
  /\ lock = None => tx = db

TypeInv == TypeOK /\ WorkOK /\ KeysNameRows(db) /\ KeysNameRows(tx)

SpentInv == TypeInv /\ LockOK /\ KeysOK(db, now) /\ KeysOK(tx, now)
-----------------------------------------------------------------------------
(* What a step is, is typed.                                               *)
LEMMA StepType ==
  ASSUME NEW f \in Frames, NEW i \in 1..Len(Steps[f])
  PROVE  /\ Steps[f][i] \in [eff : Effects, prop : Nat, user : Users]
         /\ By[f] \in Users
         /\ KeyOf[f] \in {KeyOf[g] : g \in Frames}
         /\ Len(Steps[f]) \in Nat
  <1> DEFINE Step == [eff : Effects, prop : Nat, user : Users]
  <1>1. Steps[f] \in Seq(Step)
    BY CommandsAssumption
  <1> HIDE DEF Step
  <1>2. Steps[f][i] \in Step /\ Len(Steps[f]) \in Nat
    BY <1>1
  <1>3. By[f] \in Users
    BY CommandsAssumption
  <1>4. KeyOf[f] \in {KeyOf[g] : g \in Frames}
    OBVIOUS
  <1> QED
    BY <1>2, <1>3, <1>4 DEF Step

(* Applying a step to a database leaves a database one row longer.         *)
LEMMA ApplyType ==
  ASSUME NEW d \in Database, NEW f \in Frames, NEW i \in 1..Len(Steps[f]),
         NEW n \in Nat, NEW p \in Nat, NEW t \in Nat
  PROVE  /\ Apply(d, f, i, n, p, t) \in Database
         /\ Len(Apply(d, f, i, n, p, t).rows) = Len(d.rows) + 1
         /\ \A r \in 1..Len(d.rows) : Apply(d, f, i, n, p, t).rows[r] = d.rows[r]
  <1> DEFINE s    == Steps[f][i]
             made == IF s.eff = "create" THEN d.next ELSE p
             seq  == Len(d.rows) + 1
             gone == IF s.eff = "delete"
                     THEN {r \in d.present : d.rows[r].filed = p} ELSE {}
             row  == [frame |-> f, step |-> i, by |-> By[f], key |-> KeyOf[f],
                      n |-> n, prop |-> made,
                      filed |-> IF s.eff = "delete" THEN 0 ELSE made,
                      asked |-> p, at |-> t]
             new  == Apply(d, f, i, n, p, t)
  <1>1. s \in [eff : Effects, prop : Nat, user : Users] /\ By[f] \in Users
        /\ KeyOf[f] \in {KeyOf[g] : g \in Frames}
    BY StepType
  <1>2. /\ d.rows \in Seq(Row) /\ d.present \in SUBSET Nat /\ d.keys \in SUBSET Key
        /\ d.members \in SUBSET (Users \X Nat) /\ d.props \in SUBSET Nat
        /\ d.next \in Nat
    BY DEF Database
  <1>3. made \in Nat /\ i \in Nat
    BY <1>2
  <1>4. row \in Row
    BY <1>1, <1>3 DEF Row
  <1>5. new.rows = Append(d.rows, row)
    BY DEF Apply
  <1>6. new.rows \in Seq(Row) /\ Len(new.rows) = Len(d.rows) + 1
        /\ \A r \in 1..Len(d.rows) : new.rows[r] = d.rows[r]
    BY <1>2, <1>4, <1>5
  <1>7. new.present \in SUBSET Nat
    BY <1>2 DEF Apply
  <1>8. new.keys \in SUBSET Key
    BY <1>1, <1>2 DEF Apply, Key
  <1>9. new.members \in SUBSET (Users \X Nat)
    <2>1. <<By[f], made>> \in Users \X Nat /\ <<s.user, p>> \in Users \X Nat
      BY <1>1, <1>3
    <2>2. new.members = CASE s.eff = "create" -> d.members \cup {<<By[f], made>>}
                          [] s.eff = "add"    -> d.members \cup {<<s.user, p>>}
                          [] s.eff = "remove" -> d.members \ {<<s.user, p>>}
                          [] s.eff = "delete" -> {m \in d.members : m[2] # p}
                          [] OTHER            -> d.members
      BY DEF Apply
    <2> QED
      BY <1>2, <2>1, <2>2
  <1>10. new.props \in SUBSET Nat
    BY <1>2, <1>3 DEF Apply
  <1>11. new.next \in Nat
    BY <1>2 DEF Apply
  <1>12. new = [rows |-> new.rows, present |-> new.present, keys |-> new.keys,
                members |-> new.members, props |-> new.props, next |-> new.next]
    BY DEF Apply
  <1> HIDE DEF new
  <1>13. new \in Database
    BY <1>6, <1>7, <1>8, <1>9, <1>10, <1>11, <1>12 DEF Database
  <1> QED
    BY <1>6, <1>13 DEF new

(* Applying a step keeps the keys naming rows.                             *)
LEMMA ApplyNames ==
  ASSUME NEW d \in Database, NEW f \in Frames, NEW i \in 1..Len(Steps[f]),
         NEW n \in Nat, NEW p \in Nat, NEW t \in Nat, KeysNameRows(d)
  PROVE  KeysNameRows(Apply(d, f, i, n, p, t))
  <1> DEFINE new == Apply(d, f, i, n, p, t)
             seq == Len(d.rows) + 1
             gone == IF Steps[f][i].eff = "delete"
                     THEN {r \in d.present : d.rows[r].filed = p} ELSE {}
  <1>1. /\ Len(new.rows) = Len(d.rows) + 1
        /\ \A r \in 1..Len(d.rows) : new.rows[r] = d.rows[r]
        /\ Len(d.rows) \in Nat
    <2>1. Len(d.rows) \in Nat
      BY DEF Database
    <2>2. Len(new.rows) = Len(d.rows) + 1 /\ \A r \in 1..Len(d.rows) : new.rows[r] = d.rows[r]
      BY ApplyType
    <2> QED
      BY <2>1, <2>2
  <1>2. /\ new.rows[seq].by = By[f] /\ new.rows[seq].key = KeyOf[f]
        /\ new.rows[seq].n = n /\ new.rows[seq].at = t
    BY DEF Apply, Database
  <1>3. new.present = (d.present \ gone) \cup {seq}
    BY DEF Apply
  <1>4. new.keys \subseteq {k \in d.keys : k.seq \notin gone} \cup
          {[by |-> By[f], key |-> KeyOf[f], n |-> n, seq |-> seq, at |-> t]}
    BY DEF Apply
  <1> HIDE DEF new, gone
  <1>5. new.present \subseteq 1..Len(new.rows)
    BY <1>1, <1>3 DEF KeysNameRows
  <1>6. ASSUME NEW k \in new.keys
        PROVE  /\ k.seq \in new.present
               /\ new.rows[k.seq].by = k.by /\ new.rows[k.seq].key = k.key
               /\ new.rows[k.seq].n = k.n /\ new.rows[k.seq].at = k.at
    <2>1. CASE k \in d.keys /\ k.seq \notin gone
      <3>1. k.seq \in d.present /\ k.seq \in 1..Len(d.rows)
        BY <2>1 DEF KeysNameRows
      <3> QED
        BY <1>1, <1>3, <2>1, <3>1 DEF KeysNameRows
    <2>2. CASE k = [by |-> By[f], key |-> KeyOf[f], n |-> n, seq |-> seq, at |-> t]
      BY <1>2, <1>3, <2>2
    <2> QED
      BY <1>4, <2>1, <2>2
  <1> QED
    BY <1>5, <1>6 DEF KeysNameRows, new

(* Dropping keys leaves a database whose keys name rows.                   *)
LEMMA PruneType ==
  ASSUME NEW d \in Database, NEW t \in Nat, KeysNameRows(d)
  PROVE  LET new == [d EXCEPT !.keys = {k \in @ : k.at + KeyLife >= t}]
         IN  new \in Database /\ KeysNameRows(new)
  BY DEF Database, KeysNameRows

(* What a step names is a natural number.                                  *)
LEMMA NamedType ==
  ASSUME TypeInv, NEW w \in Workers, worker[w].pc # "idle"
  PROVE  Named(w) \in Nat
  <1> DEFINE f == worker[w].frame
             i == worker[w].step
  <1>1. f \in Frames /\ i \in 1..Len(Steps[f])
    BY DEF TypeInv, WorkOK
  <1>2. Steps[f][i].prop \in Nat
    BY <1>1, StepType
  <1>3. worker[w].target \in Nat
    BY DEF TypeInv, TypeOK, Work
  <1>4. Named(w) = CASE Steps[f][i].eff = "create" -> 0
                     [] Steps[f][i].eff = "seed"   -> worker[w].target
                     [] OTHER                      -> Steps[f][i].prop
    BY DEF Named
  <1> QED
    BY <1>2, <1>3, <1>4

(* A row a key names is a row.                                             *)
LEMMA OriginalRow ==
  ASSUME NEW d \in Database, KeysNameRows(d), NEW f, NEW n,
         NEW seq \in Originals(d, f, n)
  PROVE  seq \in 1..Len(d.rows) /\ d.rows[seq] \in Row
  <1>1. seq \in 1..Len(d.rows)
    BY DEF Originals, KeysNameRows
  <1>2. d.rows \in Seq(Row)
    BY DEF Database
  <1> QED
    BY <1>1, <1>2

LEMMA TypeInit == Init => TypeInv
  <1> SUFFICES ASSUME Init PROVE TypeInv
    OBVIOUS
  <1>1. Props0 \in SUBSET Nat /\ Members0 \in SUBSET (Users \X Nat)
        /\ KeyLife \in Nat /\ BusBuffer \in Nat
    BY CommandsAssumption
  <1>2. Cardinality(Props0) + 1 \in Nat
    BY FS_CardinalityType, CommandsAssumption
  <1>3. db \in Database
    BY <1>1, <1>2 DEF Init, Database
  <1>4. worker \in [Workers -> Work]
    BY DEF Init, Idle, Work
  <1>5. sub \in [Subs -> Subscription] /\ \A s \in Subs : Len(sub[s].q) <= BusBuffer
    BY <1>1 DEF Init, Closed, Subscription
  <1>6. TypeOK
    BY <1>3, <1>4, <1>5 DEF Init, TypeOK
  <1>7. WorkOK
    BY DEF Init, Idle, WorkOK
  <1>8. KeysNameRows(db) /\ KeysNameRows(tx)
    BY DEF Init, KeysNameRows
  <1> QED
    BY <1>6, <1>7, <1>8 DEF TypeInv

Places == {"idle", "begin", "do", "commit", "publish", "reply"}

(* What the actions make of a worker's or a subscriber's record is typed.  *)
LEMMA WorkMoved ==
  ASSUME NEW r \in Work, NEW pc \in Places, NEW j \in Nat
  PROVE  [r EXCEPT !.pc = pc, !.step = j] \in Work
  BY DEF Work, Places

LEMMA WorkAnswered ==
  ASSUME NEW r \in Work, NEW pc \in Places, NEW an \in Seq(Nat \X Nat),
         NEW e \in Seq(Nat)
  PROVE  [r EXCEPT !.pc = pc, !.answers = an, !.events = e] \in Work
  BY DEF Work, Places

LEMMA WorkReplayed ==
  ASSUME NEW r \in Work, NEW pc \in Places, NEW j \in Nat, NEW n \in Nat,
         NEW t \in Nat, NEW an \in Seq(Nat \X Nat)
  PROVE  [r EXCEPT !.pc = pc, !.step = j, !.spent = n, !.target = t,
                   !.answers = an] \in Work
  BY DEF Work, Places

LEMMA WorkApplied ==
  ASSUME NEW r \in Work, NEW pc \in Places, NEW j \in Nat, NEW n \in Nat,
         NEW t \in Nat, NEW an \in Seq(Nat \X Nat), NEW e \in Seq(Nat)
  PROVE  [r EXCEPT !.pc = pc, !.spent = n, !.step = j, !.target = t,
                   !.answers = an, !.events = e] \in Work
  BY DEF Work, Places

LEMMA IdleTyped ==
  ASSUME NEW pc \in Places, NEW f \in Frames, NEW j \in Nat
  PROVE  Idle \in Work /\ [Idle EXCEPT !.pc = pc, !.frame = f, !.step = j] \in Work
  <1>1. Idle \in Work
    BY DEF Idle, Work
  <1> QED
    BY <1>1 DEF Work, Places

LEMMA SubscriptionQueued ==
  ASSUME NEW r \in Subscription, NEW q \in Seq(Nat)
  PROVE  [r EXCEPT !.q = q] \in Subscription
  BY DEF Subscription

LEMMA SubscriptionDropped ==
  ASSUME NEW r \in Subscription, NEW d \in Nat
  PROVE  [r EXCEPT !.dropped = d] \in Subscription
  BY DEF Subscription

LEMMA SubscriptionOpened ==
  ASSUME NEW p \in Nat, NEW n \in Nat
  PROVE  [Closed EXCEPT !.open = TRUE, !.prop = p, !.from = n] \in Subscription
  <1>1. Closed \in Subscription
    BY DEF Closed, Subscription
  <1> QED
    BY <1>1 DEF Subscription

(* Giving a subscriber an event keeps its queue within the buffer.         *)
LEMMA GivenType ==
  ASSUME TypeOK, NEW s \in Subs, NEW e \in Nat
  PROVE  Given(s, e) \in Subscription /\ Len(Given(s, e).q) <= BusBuffer
  <1>1. sub[s] \in Subscription /\ Len(sub[s].q) <= BusBuffer /\ BusBuffer \in Nat
    BY CommandsAssumption DEF TypeOK
  <1>2. CASE Given(s, e) = sub[s]
    BY <1>1, <1>2
  <1>3. CASE Len(sub[s].q) < BusBuffer /\ Given(s, e) = [sub[s] EXCEPT !.q = Append(@, e)]
    <2>1. Append(sub[s].q, e) \in Seq(Nat) /\ Len(Append(sub[s].q, e)) = Len(sub[s].q) + 1
      BY <1>1 DEF Subscription
    <2>2. [sub[s] EXCEPT !.q = Append(@, e)] \in Subscription
      BY <1>1, <2>1, SubscriptionQueued
    <2>3. Given(s, e).q = Append(sub[s].q, e)
      BY <1>1, <1>3 DEF Subscription
    <2>4. Len(sub[s].q) \in Nat
      BY <1>1 DEF Subscription
    <2> QED
      BY <1>1, <1>3, <2>1, <2>2, <2>3, <2>4
  <1>4. CASE Given(s, e) = [sub[s] EXCEPT !.dropped = @ + 1]
    <2>1. sub[s].dropped + 1 \in Nat
      BY <1>1 DEF Subscription
    <2>2. [sub[s] EXCEPT !.dropped = @ + 1] \in Subscription
      BY <1>1, <2>1, SubscriptionDropped
    <2>3. Given(s, e).q = sub[s].q
      BY <1>1, <1>4 DEF Subscription
    <2> QED
      BY <1>1, <1>4, <2>2, <2>3
  <1> QED
    BY <1>1, <1>2, <1>3, <1>4 DEF Given, Subscription

(* A step that only moves worker w to x keeps the types, if x is typed.    *)
LEMMA WorkerMoves ==
  ASSUME TypeInv, NEW w \in Workers, NEW x \in Work,
         x.pc # "idle" => /\ x.frame \in Frames
                          /\ x.step \in 1..Len(Steps[x.frame]),
         worker' = [worker EXCEPT ![w] = x]
  PROVE  worker' \in [Workers -> Work] /\ WorkOK'
  BY DEF TypeInv, TypeOK, WorkOK

LEMMA TypeStep == TypeInv /\ [Next]_vars => TypeInv'
  <1> SUFFICES ASSUME TypeInv, [Next]_vars PROVE TypeInv'
    OBVIOUS
  <1> USE DEF TypeInv
  <1>1. ASSUME NEW w \in Workers, NEW f \in Frames, Deliver(w, f) PROVE TypeInv'
    <2> DEFINE x == [Idle EXCEPT !.pc = "begin", !.frame = f, !.step = 1]
    <2>1. x \in Work /\ x.frame = f /\ x.step = 1
      BY IdleTyped DEF Idle, Places
    <2>2. 1 \in 1..Len(Steps[f])
      BY CommandsAssumption, StepType
    <2>3. worker' = [worker EXCEPT ![w] = x]
      BY <1>1 DEF Deliver
    <2> HIDE DEF x
    <2>4. worker' \in [Workers -> Work] /\ WorkOK'
      BY <2>1, <2>2, <2>3, WorkerMoves
    <2> QED
      BY <1>1, <2>4 DEF Deliver, TypeOK, KeysNameRows
  <1>2. ASSUME NEW w \in Workers, Begin(w) PROVE TypeInv'
    <2> DEFINE x == [worker[w] EXCEPT !.pc = "do"]
    <2>1. x \in Work /\ x.frame = worker[w].frame /\ x.step = worker[w].step
      BY DEF TypeOK, Work
    <2>2. worker' = [worker EXCEPT ![w] = x] /\ worker[w].pc # "idle"
      BY <1>2 DEF Begin, TypeOK
    <2> HIDE DEF x
    <2>3. worker' \in [Workers -> Work] /\ WorkOK'
      BY <2>1, <2>2, WorkerMoves DEF WorkOK
    <2> QED
      BY <1>2, <2>3 DEF Begin, TypeOK, KeysNameRows
  <1>3. ASSUME NEW w \in Workers, DoApply(w) PROVE TypeInv'
    <2> DEFINE f   == worker[w].frame
               i   == worker[w].step
               n   == Spend(w)
               p   == Named(w)
               seq == Len(tx'.rows)
               x   == [worker[w] EXCEPT
                        !.pc = After(w, i), !.spent = n,
                        !.step = IF After(w, i) = "do" THEN i + 1 ELSE i,
                        !.target = IF @ = 0 THEN tx'.rows[seq].prop ELSE @,
                        !.answers = Append(@, <<i, seq>>),
                        !.events = Append(@, seq)]
    <2>1. worker[w].pc = "do" /\ worker[w] \in Work /\ now \in Nat /\ tx \in Database
      BY <1>3 DEF DoApply, TypeOK
    <2>2. f \in Frames /\ i \in 1..Len(Steps[f]) /\ Len(Steps[f]) \in Nat
      BY <2>1, StepType DEF WorkOK
    <2>3. n \in Nat
      BY <2>1 DEF Spend, Work
    <2>4. p \in Nat
      BY <2>1, NamedType
    <2>5. tx' = Apply(tx, f, i, n, p, now)
      BY <1>3 DEF DoApply
    <2> HIDE DEF n, p
    <2>6. tx' \in Database /\ Len(tx'.rows) = Len(tx.rows) + 1
      BY <2>1, <2>2, <2>3, <2>4, <2>5, ApplyType
    <2>7. KeysNameRows(tx)'
      <3>1. KeysNameRows(tx')
        BY <2>1, <2>2, <2>3, <2>4, <2>5, ApplyNames
      <3> QED
        BY <3>1 DEF KeysNameRows
    <2>8. seq \in Nat /\ tx'.rows[seq].prop \in Nat
      <3>1. tx'.rows \in Seq(Row) /\ tx.rows \in Seq(Row)
        BY <2>1, <2>6 DEF Database
      <3>2. seq \in Nat /\ seq \in 1..Len(tx'.rows)
        BY <3>1, <2>6
      <3>3. tx'.rows[seq] \in Row
        BY <3>1, <3>2
      <3> QED
        BY <3>2, <3>3 DEF Row
    <2>9. After(w, i) \in {"do", "commit"} /\ (After(w, i) = "do" => i < Len(Steps[f]))
      BY DEF After
    <2>10. worker' = [worker EXCEPT ![w] = x]
      BY <1>3 DEF DoApply, n, TypeOK
    <2>11. Append(worker[w].answers, <<i, seq>>) \in Seq(Nat \X Nat)
           /\ Append(worker[w].events, seq) \in Seq(Nat)
      BY <2>1, <2>2, <2>8 DEF Work
    <2> HIDE DEF seq
    <2>12. x \in Work /\ x.frame = f /\ x.step \in 1..Len(Steps[f])
      <3> DEFINE j == IF After(w, i) = "do" THEN i + 1 ELSE i
                 t == IF worker[w].target = 0 THEN tx'.rows[seq].prop
                      ELSE worker[w].target
      <3>1. j \in 1..Len(Steps[f]) /\ j \in Nat
        BY <2>2, <2>9
      <3>2. t \in Nat /\ After(w, i) \in Places
        BY <2>1, <2>8, <2>9 DEF Work, Places
      <3>3. x = [worker[w] EXCEPT
                  !.pc = After(w, i), !.spent = n, !.step = j, !.target = t,
                  !.answers = Append(worker[w].answers, <<i, seq>>),
                  !.events = Append(worker[w].events, seq)]
        OBVIOUS
      <3> HIDE DEF j, t, x
      <3>4. x \in Work
        BY <2>1, <2>3, <2>11, <3>1, <3>2, <3>3, WorkApplied
      <3>5. x.frame = f /\ x.step = j
        BY <2>1, <3>3 DEF Work
      <3> QED
        BY <3>1, <3>4, <3>5
    <2> HIDE DEF x
    <2>13. worker' \in [Workers -> Work] /\ WorkOK'
      BY <2>2, <2>10, <2>12, WorkerMoves
    <2> QED
      BY <1>3, <2>6, <2>7, <2>13 DEF DoApply, TypeOK, KeysNameRows
  <1>4. ASSUME NEW w \in Workers, DoReplay(w) PROVE TypeInv'
    <2> DEFINE f == worker[w].frame
               i == worker[w].step
               n == Spend(w)
               x(seq, pc, j) ==
                 [worker[w] EXCEPT
                   !.pc = pc, !.step = j, !.spent = n,
                   !.target = IF @ = 0 THEN tx.rows[seq].filed ELSE @,
                   !.answers = Append(@, <<i, seq>>)]
    <2>1. worker[w].pc = "do" /\ worker[w] \in Work /\ tx \in Database
      BY <1>4 DEF DoReplay, TypeOK
    <2>2. f \in Frames /\ i \in 1..Len(Steps[f]) /\ Len(Steps[f]) \in Nat
      BY <2>1, StepType DEF WorkOK
    <2>3. n \in Nat
      BY <2>1 DEF Spend, Work
    <2>4. \E seq \in Originals(tx, f, n), j \in 1..Len(Steps[f]),
             pc \in {"do", "commit", "begin", "reply"} :
               worker' = [worker EXCEPT ![w] = x(seq, pc, j)]
      <3> DEFINE hit(seq, pc, j) ==
            worker' = [worker EXCEPT
              ![w].pc = pc, ![w].step = j, ![w].spent = n,
              ![w].target = IF @ = 0 THEN tx.rows[seq].filed ELSE @,
              ![w].answers = Append(@, <<i, seq>>)]
      <3>1. PICK seq \in Originals(tx, f, n) :
              \/ \E j \in (i + 1)..Len(Steps[f]) : hit(seq, "do", j)
              \/ hit(seq, "commit", i)
              \/ i < Len(Steps[f]) /\ hit(seq, "begin", i + 1)
              \/ hit(seq, "reply", i)
        BY <1>4 DEF DoReplay
      <3>2. ASSUME NEW pc, NEW j, hit(seq, pc, j)
            PROVE  worker' = [worker EXCEPT ![w] = x(seq, pc, j)]
        BY <3>2 DEF TypeOK
      <3> HIDE DEF x, f, i, n, hit
      <3> QED
        BY <3>1, <3>2, <2>2
    <2>5. PICK seq \in Originals(tx, f, n), j \in 1..Len(Steps[f]),
              pc \in {"do", "commit", "begin", "reply"} :
            worker' = [worker EXCEPT ![w] = x(seq, pc, j)]
      BY <2>4
    <2>6. seq \in Nat /\ tx.rows[seq].filed \in Nat
      <3>1. seq \in 1..Len(tx.rows) /\ tx.rows[seq] \in Row
        BY <2>1, OriginalRow
      <3>2. Len(tx.rows) \in Nat
        BY <2>1 DEF Database
      <3>3. tx.rows[seq].filed \in Nat
        BY <3>1 DEF Row
      <3> QED
        BY <3>1, <3>2, <3>3
    <2>7. Append(worker[w].answers, <<i, seq>>) \in Seq(Nat \X Nat)
      BY <2>1, <2>2, <2>6 DEF Work
    <2> HIDE DEF n
    <2>8. x(seq, pc, j) \in Work /\ x(seq, pc, j).frame = f /\ x(seq, pc, j).step = j
      <3> DEFINE t == IF worker[w].target = 0 THEN tx.rows[seq].filed
                      ELSE worker[w].target
                 y == x(seq, pc, j)
      <3>1. t \in Nat /\ j \in Nat /\ pc \in Places
        BY <2>1, <2>2, <2>6 DEF Work, Places
      <3>2. y = [worker[w] EXCEPT !.pc = pc, !.step = j, !.spent = n, !.target = t,
                                  !.answers = Append(worker[w].answers, <<i, seq>>)]
        OBVIOUS
      <3> HIDE DEF t, y
      <3>3. y \in Work
        BY <2>1, <2>3, <2>7, <3>1, <3>2, WorkReplayed
      <3>4. y.frame = f /\ y.step = j
        BY <2>1, <3>2 DEF Work
      <3> QED
        BY <3>3, <3>4 DEF y
    <2> HIDE DEF x
    <2>9. worker' \in [Workers -> Work] /\ WorkOK'
      BY <2>2, <2>5, <2>8, WorkerMoves
    <2>10. UNCHANGED <<now, db, publishing, feed, boot, sub, sends, crashes>>
           /\ lock' \in {lock, None} /\ tx' \in {tx, db}
      BY <1>4 DEF DoReplay
    <2> QED
      BY <2>9, <2>10 DEF TypeOK, KeysNameRows
  <1>5. ASSUME NEW w \in Workers, Refuse(w) PROVE TypeInv'
    <2> DEFINE x == [worker[w] EXCEPT !.pc = "reply", !.answers = <<>>, !.events = <<>>]
    <2>1. x \in Work /\ x.frame = worker[w].frame /\ x.step = worker[w].step
      <3>1. worker[w] \in Work
        BY DEF TypeOK
      <3>2. x \in Work
        <4>1. <<>> \in Seq(Nat \X Nat) /\ <<>> \in Seq(Nat) /\ "reply" \in Places
          BY DEF Places
        <4> QED
          BY <3>1, <4>1, WorkAnswered
      <3> QED
        BY <3>1, <3>2 DEF Work
    <2>2. worker' = [worker EXCEPT ![w] = x] /\ worker[w].pc # "idle"
      BY <1>5 DEF Refuse, TypeOK
    <2> HIDE DEF x
    <2>3. worker' \in [Workers -> Work] /\ WorkOK'
      BY <2>1, <2>2, WorkerMoves DEF WorkOK
    <2> QED
      BY <1>5, <2>3 DEF Refuse, TypeOK, KeysNameRows
  <1>6. ASSUME NEW w \in Workers, Commit(w) PROVE TypeInv'
    <2> DEFINE x == [worker[w] EXCEPT !.pc = "publish"]
    <2>1. x \in Work /\ x.frame = worker[w].frame /\ x.step = worker[w].step
      BY DEF TypeOK, Work
    <2>2. worker' = [worker EXCEPT ![w] = x] /\ worker[w].pc # "idle"
      BY <1>6 DEF Commit, TypeOK
    <2> HIDE DEF x
    <2>3. worker' \in [Workers -> Work] /\ WorkOK'
      BY <2>1, <2>2, WorkerMoves DEF WorkOK
    <2> QED
      BY <1>6, <2>3 DEF Commit, TypeOK, KeysNameRows
  <1>7. ASSUME NEW w \in Workers, Publish(w) PROVE TypeInv'
    <2> DEFINE x == [worker[w] EXCEPT !.events = Tail(@)]
               e == Head(worker[w].events)
    <2>1. worker[w].events \in Seq(Nat) /\ worker[w].events # <<>>
      BY <1>7 DEF Publish, TypeOK, Work
    <2>2. e \in Nat /\ Tail(worker[w].events) \in Seq(Nat)
      BY <2>1
    <2>3. x \in Work /\ x.frame = worker[w].frame /\ x.step = worker[w].step
      BY <2>2 DEF TypeOK, Work
    <2>4. worker' = [worker EXCEPT ![w] = x] /\ worker[w].pc # "idle"
      BY <1>7 DEF Publish, TypeOK
    <2>5. feed' = Append(feed, e) /\ sub' = [s \in Subs |-> Given(s, e)]
      BY <1>7 DEF Publish
    <2> HIDE DEF x, e
    <2>6. worker' \in [Workers -> Work] /\ WorkOK'
      BY <2>3, <2>4, WorkerMoves DEF WorkOK
    <2>7. sub' \in [Subs -> Subscription] /\ \A s \in Subs : Len(sub'[s].q) <= BusBuffer
      BY <2>2, <2>5, GivenType
    <2>8. feed' \in Seq(Nat)
      BY <2>2, <2>5 DEF TypeOK
    <2> QED
      BY <1>7, <2>6, <2>7, <2>8 DEF Publish, TypeOK, KeysNameRows
  <1>8. ASSUME NEW w \in Workers, EndPublish(w) PROVE TypeInv'
    <2>1. worker[w] \in Work /\ worker[w].pc # "idle"
      BY <1>8 DEF EndPublish, TypeOK
    <2>2. worker[w].frame \in Frames /\ worker[w].step \in 1..Len(Steps[worker[w].frame])
          /\ Len(Steps[worker[w].frame]) \in Nat
      BY <2>1, StepType DEF WorkOK
    <2>3. PICK pc \in {"begin", "reply"}, j \in 1..Len(Steps[worker[w].frame]) :
            worker' = [worker EXCEPT ![w] = [worker[w] EXCEPT !.pc = pc, !.step = j]]
      <3>1. CASE ~Grouped[worker[w].frame] /\ worker[w].step < Len(Steps[worker[w].frame])
        <4>1. worker[w].step + 1 \in 1..Len(Steps[worker[w].frame])
          BY <3>1, <2>2
        <4> QED
          BY <1>8, <3>1, <4>1 DEF EndPublish, TypeOK
      <3>2. CASE ~(~Grouped[worker[w].frame] /\ worker[w].step < Len(Steps[worker[w].frame]))
        BY <1>8, <3>2, <2>2 DEF EndPublish, TypeOK
      <3> QED
        BY <3>1, <3>2
    <2> DEFINE x == [worker[w] EXCEPT !.pc = pc, !.step = j]
    <2>4. x \in Work /\ x.frame = worker[w].frame /\ x.step = j
      <3>1. j \in Nat /\ pc \in Places
        BY <2>2 DEF Places
      <3>2. x \in Work
        BY <2>1, <3>1, WorkMoved
      <3> QED
        BY <2>1, <3>2 DEF Work
    <2> HIDE DEF x
    <2>5. worker' \in [Workers -> Work] /\ WorkOK'
      BY <2>2, <2>3, <2>4, WorkerMoves DEF x
    <2> QED
      BY <1>8, <2>5 DEF EndPublish, TypeOK, KeysNameRows
  <1>9. ASSUME NEW w \in Workers, Reply(w) PROVE TypeInv'
    <2>1. Idle \in Work /\ Idle.pc = "idle"
      BY DEF Idle, Work
    <2>2. worker' \in [Workers -> Work] /\ WorkOK'
      BY <1>9, <2>1, WorkerMoves DEF Reply
    <2> QED
      BY <1>9, <2>2 DEF Reply, TypeOK, KeysNameRows
  <1>10. ASSUME NEW s \in Subs, NEW p \in Watched, Subscribe(s, p) PROVE TypeInv'
    <2>1. p \in Nat /\ BusBuffer \in Nat /\ Len(feed) \in Nat
      BY CommandsAssumption DEF TypeOK
    <2>2. [Closed EXCEPT !.open = TRUE, !.prop = p, !.from = Len(feed)] \in Subscription
      BY <2>1, SubscriptionOpened
    <2> QED
      BY <1>10, <2>1, <2>2 DEF Subscribe, TypeOK, WorkOK, KeysNameRows, Closed
  <1>11. ASSUME NEW s \in Subs, Take(s) PROVE TypeInv'
    <2>1. sub[s] \in Subscription /\ sub[s].q \in Seq(Nat) /\ sub[s].q # <<>>
          /\ sub[s].got \in Seq(Nat) /\ Len(sub[s].q) <= BusBuffer
      BY <1>11 DEF Take, TypeOK, Subscription
    <2>2. Tail(sub[s].q) \in Seq(Nat) /\ Append(sub[s].got, Head(sub[s].q)) \in Seq(Nat)
          /\ Len(Tail(sub[s].q)) = Len(sub[s].q) - 1
      BY <2>1
    <2>3. BusBuffer \in Nat /\ Len(Tail(sub[s].q)) <= BusBuffer
      BY <2>1, <2>2, CommandsAssumption
    <2>4. [sub[s] EXCEPT !.q = Tail(@), !.got = Append(@, Head(sub[s].q))] \in Subscription
      BY <2>1, <2>2 DEF Subscription
    <2>5. sub' \in [Subs -> Subscription] /\ \A t \in Subs : Len(sub'[t].q) <= BusBuffer
      BY <1>11, <2>1, <2>3, <2>4 DEF Take, TypeOK, Subscription
    <2> QED
      BY <1>11, <2>5 DEF Take, TypeOK, WorkOK, KeysNameRows
  <1>12. ASSUME NEW s \in Subs, Unsubscribe(s) PROVE TypeInv'
    <2>1. BusBuffer \in Nat
      BY CommandsAssumption
    <2>2. Closed \in Subscription /\ Len(Closed.q) <= BusBuffer
      BY <2>1 DEF Closed, Subscription
    <2> QED
      BY <1>12, <2>2 DEF Unsubscribe, TypeOK, WorkOK, KeysNameRows
  <1>13. CASE PruneKeys
    <2>1. db' \in Database /\ KeysNameRows(db')
      BY <1>13, PruneType DEF PruneKeys, TypeOK
    <2> QED
      BY <1>13, <2>1 DEF PruneKeys, TypeOK, WorkOK, KeysNameRows
  <1>14. CASE Tick
    BY <1>14 DEF Tick, TypeOK, WorkOK, KeysNameRows
  <1>15. CASE Crash
    <2>1. Idle \in Work /\ Idle.pc = "idle"
      BY DEF Idle, Work
    <2>2. worker' \in [Workers -> Work] /\ WorkOK'
      BY <1>15, <2>1 DEF Crash, WorkOK
    <2>3. BusBuffer \in Nat
      BY CommandsAssumption
    <2>4. Closed \in Subscription /\ Len(Closed.q) <= BusBuffer
      BY <2>3 DEF Closed, Subscription
    <2>5. boot' \in Nat /\ feed' \in Seq(Nat)
      BY <1>15 DEF Crash, TypeOK, Database
    <2> QED
      BY <1>15, <2>2, <2>4, <2>5 DEF Crash, TypeOK, KeysNameRows
  <1>16. CASE UNCHANGED vars
    BY <1>16 DEF vars, TypeOK, WorkOK, KeysNameRows
  <1> QED
    BY <1>1, <1>2, <1>3, <1>4, <1>5, <1>6, <1>7, <1>8, <1>9, <1>10, <1>11,
       <1>12, <1>13, <1>14, <1>15, <1>16 DEF Next, WorkerStep

(* In every behaviour of every instance the variables have their types     *)
(* (TypeOK), and no subscriber's queue outgrows its buffer.                *)
THEOREM TypeCorrect == Spec => []TypeOK
  <1>1. TypeInv => TypeOK
    BY DEF TypeInv
  <1> QED
    BY TypeInit, TypeStep, <1>1, PTL DEF Spec
-----------------------------------------------------------------------------
LEMMA RowAt ==
  ASSUME NEW d \in Database, NEW r \in 1..Len(d.rows)
  PROVE  d.rows[r].at \in Nat
  <1>1. d.rows \in Seq(Row)
    BY DEF Database
  <1>2. d.rows[r] \in Row
    BY <1>1
  <1> QED
    BY <1>2 DEF Row

(* Time passing and keys being pruned keep what keys promise.              *)
LEMMA TickKeys ==
  ASSUME NEW d \in Database, NEW t \in Nat, KeysOK(d, t)
  PROVE  KeysOK(d, t + 1)
  <1>1. d.rows \in Seq(Row) /\ KeyLife \in Nat
    BY CommandsAssumption DEF Database
  <1>2. \A r \in 1..Len(d.rows) : d.rows[r].at \in Nat
    BY RowAt
  <1>3. RowsPast(d, t + 1)
    BY <1>2 DEF KeysOK, RowsPast
  <1>4. Remembered(d, t + 1)
    BY <1>1, <1>2 DEF KeysOK, KeysNameRows, Remembered
  <1> QED
    BY <1>3, <1>4 DEF KeysOK

LEMMA PruneKeeps ==
  ASSUME NEW d \in Database, NEW t \in Nat, KeysOK(d, t)
  PROVE  KeysOK([d EXCEPT !.keys = {k \in @ : k.at + KeyLife >= t}], t)
  <1> DEFINE new == [d EXCEPT !.keys = {k \in @ : k.at + KeyLife >= t}]
  <1>1. /\ new.rows = d.rows /\ new.present = d.present
        /\ new.keys = {k \in d.keys : k.at + KeyLife >= t}
    BY DEF Database
  <1>2. d.rows \in Seq(Row) /\ d.keys \subseteq Key /\ KeyLife \in Nat
    BY CommandsAssumption DEF Database
  <1> HIDE DEF new
  <1>3. KeysNameRows(new)
    BY <1>1 DEF KeysOK, KeysNameRows
  <1>4. RowsPast(new, t) /\ SpentOnceIn(new)
    BY <1>1 DEF KeysOK, RowsPast, SpentOnceIn
  <1>5. ASSUME NEW r \in new.present, new.rows[r].key # NoKey
        PROVE  (\E k \in new.keys : k.seq = r) \/ t > new.rows[r].at + KeyLife
    <2>1. CASE t > d.rows[r].at + KeyLife
      BY <1>1, <2>1
    <2>2. CASE ~(t > d.rows[r].at + KeyLife)
      <3>1. PICK k \in d.keys : k.seq = r
        BY <1>1, <1>5, <2>2 DEF KeysOK, Remembered
      <3>2. d.rows[r].at = k.at /\ k.at \in Nat
        BY <1>2, <3>1 DEF KeysOK, KeysNameRows, Key
      <3>3. k \in new.keys
        BY <1>1, <1>2, <2>2, <3>2
      <3> QED
        BY <3>1, <3>3
    <2> QED
      BY <2>1, <2>2
  <1>6. Remembered(new, t)
    BY <1>5 DEF Remembered
  <1> QED
    BY <1>3, <1>4, <1>6 DEF KeysOK, new

(* Applying a command whose key was not found keeps what keys promise: a   *)
(* row under the same key is gone, or its key's life is over.              *)
LEMMA ApplyKeeps ==
  ASSUME NEW d \in Database, NEW f \in Frames, NEW i \in 1..Len(Steps[f]),
         NEW n \in Nat, NEW p \in Nat, NEW t \in Nat, KeysOK(d, t),
         ~Keyed(f) \/ Originals(d, f, n) = {}
  PROVE  KeysOK(Apply(d, f, i, n, p, t), t)
  <1> DEFINE new == Apply(d, f, i, n, p, t)
             seq == Len(d.rows) + 1
             gone == IF Steps[f][i].eff = "delete"
                     THEN {r \in d.present : d.rows[r].filed = p} ELSE {}
             key == [by |-> By[f], key |-> KeyOf[f], n |-> n, seq |-> seq, at |-> t]
  <1>1. /\ Len(new.rows) = seq
        /\ \A r \in 1..Len(d.rows) : new.rows[r] = d.rows[r]
        /\ Len(d.rows) \in Nat /\ KeyLife \in Nat
    <2>1. Len(d.rows) \in Nat /\ KeyLife \in Nat
      BY CommandsAssumption DEF Database
    <2> QED
      BY <2>1, ApplyType
  <1>2. /\ new.rows[seq].by = By[f] /\ new.rows[seq].key = KeyOf[f]
        /\ new.rows[seq].n = n /\ new.rows[seq].at = t
    BY DEF Apply, Database
  <1>3. new.present = (d.present \ gone) \cup {seq}
    BY DEF Apply
  <1>4. /\ {k \in d.keys : k.seq \notin gone} \subseteq new.keys
        /\ KeyOf[f] # NoKey => key \in new.keys
    BY DEF Apply, Keyed
  <1>5. KeysNameRows(new)
    BY ApplyNames DEF KeysOK
  <1> HIDE DEF new, gone
  <1>6. d.present \subseteq 1..Len(d.rows)
    BY DEF KeysOK, KeysNameRows
  <1>7. RowsPast(new, t)
    <2>1. \A r \in 1..Len(d.rows) : new.rows[r].at <= t
      BY <1>1 DEF KeysOK, RowsPast
    <2>2. new.rows[seq].at <= t
      BY <1>2
    <2>3. \A r \in 1..Len(new.rows) : r \in 1..Len(d.rows) \/ r = seq
      BY <1>1
    <2> QED
      BY <2>1, <2>2, <2>3 DEF RowsPast
  <1>8. ASSUME NEW r \in new.present, new.rows[r].key # NoKey
        PROVE  (\E k \in new.keys : k.seq = r) \/ t > new.rows[r].at + KeyLife
    <2>1. CASE r = seq
      BY <1>2, <1>4, <1>8, <2>1
    <2>2. CASE r \in d.present /\ r \notin gone
      <3>1. new.rows[r] = d.rows[r]
        BY <1>1, <1>6, <2>2
      <3>2. (\E k \in d.keys : k.seq = r) \/ t > d.rows[r].at + KeyLife
        BY <1>8, <2>2, <3>1 DEF KeysOK, Remembered
      <3> QED
        BY <1>4, <2>2, <3>1, <3>2
    <2> QED
      BY <1>3, <2>1, <2>2
  <1>9. Remembered(new, t)
    BY <1>8 DEF Remembered
  <1>10. ASSUME NEW r \in new.present, NEW s \in 1..Len(new.rows), r < s,
                new.rows[r].key # NoKey, new.rows[r].by = new.rows[s].by,
                new.rows[r].key = new.rows[s].key, new.rows[r].n = new.rows[s].n
         PROVE  new.rows[s].at - new.rows[r].at > KeyLife
    <2>1. r \in d.present /\ r \in 1..Len(d.rows) /\ new.rows[r] = d.rows[r]
      <3>1. s <= seq /\ seq \in Nat /\ s \in Nat
        BY <1>1
      <3>2. r # seq
        BY <1>10, <3>1
      <3>3. r \in d.present
        BY <1>3, <3>2
      <3> QED
        BY <1>1, <1>6, <3>3
    <2>2. CASE s \in 1..Len(d.rows)
      <3>1. new.rows[s] = d.rows[s]
        BY <1>1, <2>2
      <3> QED
        BY <1>10, <2>1, <2>2, <3>1 DEF KeysOK, SpentOnceIn
    <2>3. CASE s = seq
      <3>1. /\ d.rows[r].key # NoKey /\ d.rows[r].by = By[f]
            /\ d.rows[r].key = KeyOf[f] /\ d.rows[r].n = n
        BY <1>2, <1>10, <2>1, <2>3
      <3>2. ~\E k \in d.keys : k.seq = r
        <4>1. SUFFICES ASSUME NEW k \in d.keys, k.seq = r PROVE FALSE
          OBVIOUS
        <4>2. k.by = By[f] /\ k.key = KeyOf[f] /\ k.n = n
          BY <3>1, <4>1 DEF KeysOK, KeysNameRows
        <4>3. r \in Originals(d, f, n)
          BY <4>1, <4>2 DEF Originals
        <4> QED
          BY <3>1, <4>3 DEF Keyed
      <3>3. t > d.rows[r].at + KeyLife
        BY <2>1, <3>1, <3>2 DEF KeysOK, Remembered
      <3>4. d.rows[r].at \in Nat
        BY <2>1, RowAt
      <3>5. new.rows[s].at = t /\ new.rows[r].at = d.rows[r].at /\ KeyLife \in Nat
        BY <1>1, <1>2, <2>1, <2>3
      <3> QED
        BY <3>3, <3>4, <3>5
    <2> QED
      BY <1>1, <2>2, <2>3
  <1>11. SpentOnceIn(new)
    BY <1>10 DEF SpentOnceIn
  <1> QED
    BY <1>5, <1>7, <1>9, <1>11 DEF KeysOK, new

LEMMA SpentInit == Init => SpentInv
  <1> SUFFICES ASSUME Init PROVE SpentInv
    OBVIOUS
  <1>1. LockOK
    BY DEF Init, LockOK, Idle
  <1>2. KeysOK(db, now) /\ tx = db
    BY DEF Init, KeysOK, KeysNameRows, RowsPast, Remembered, SpentOnceIn
  <1> QED
    BY <1>1, <1>2, TypeInit DEF SpentInv

LEMMA SpentStep == SpentInv /\ [Next]_vars => SpentInv'
  <1> SUFFICES ASSUME SpentInv, [Next]_vars PROVE SpentInv'
    OBVIOUS
  <1> USE DEF SpentInv
  <1>1. TypeInv'
    BY TypeStep
  <1>2. /\ worker \in [Workers -> Work] /\ None \notin Workers
        /\ db \in Database /\ tx \in Database /\ now \in Nat
    BY CommandsAssumption DEF TypeInv, TypeOK
  <1>3. SUFFICES LockOK' /\ KeysOK(db', now') /\ KeysOK(tx', now')
    BY <1>1 DEF KeysOK, KeysNameRows, RowsPast, Remembered, SpentOnceIn
  <1>4. ASSUME NEW w \in Workers, NEW f \in Frames, Deliver(w, f)
        PROVE  LockOK' /\ KeysOK(db', now') /\ KeysOK(tx', now')
    BY <1>2, <1>4 DEF Deliver, LockOK
  <1>5. ASSUME NEW w \in Workers, Begin(w)
        PROVE  LockOK' /\ KeysOK(db', now') /\ KeysOK(tx', now')
    BY <1>2, <1>5 DEF Begin, LockOK
  <1>6. ASSUME NEW w \in Workers, DoApply(w)
        PROVE  LockOK' /\ KeysOK(db', now') /\ KeysOK(tx', now')
    <2> DEFINE f == worker[w].frame
               i == worker[w].step
    <2>1. worker[w].pc = "do" /\ worker[w] \in Work
      BY <1>2, <1>6 DEF DoApply
    <2>2. f \in Frames /\ i \in 1..Len(Steps[f])
      BY <2>1 DEF TypeInv, WorkOK
    <2>3. Spend(w) \in Nat
      BY <2>1 DEF Spend, Work
    <2>4. Named(w) \in Nat
      BY <2>1, NamedType
    <2>5. /\ tx' = Apply(tx, f, i, Spend(w), Named(w), now)
          /\ ~Keyed(f) \/ Originals(tx, f, Spend(w)) = {}
          /\ UNCHANGED <<now, db, lock>>
      BY <1>6 DEF DoApply
    <2>6. KeysOK(tx', now)
      BY <1>2, <2>2, <2>3, <2>4, <2>5, ApplyKeeps
    <2>7. LockOK'
      <3>1. lock = w
        BY <2>1 DEF LockOK
      <3>2. \A v \in Workers \ {w} : worker'[v] = worker[v]
        BY <1>2, <1>6 DEF DoApply
      <3> QED
        BY <1>2, <2>5, <3>1, <3>2 DEF LockOK
    <2> QED
      BY <2>5, <2>6, <2>7
  <1>7. ASSUME NEW w \in Workers, DoReplay(w)
        PROVE  LockOK' /\ KeysOK(db', now') /\ KeysOK(tx', now')
    <2>1. lock = w
      BY <1>7 DEF DoReplay, LockOK
    <2>2. \A v \in Workers \ {w} : worker'[v] = worker[v]
      BY <1>2, <1>7 DEF DoReplay
    <2>3. CASE lock' = lock /\ tx' = tx
      BY <1>2, <1>7, <2>1, <2>2, <2>3 DEF DoReplay, LockOK
    <2>4. CASE lock' = None /\ tx' = db /\ worker'[w].pc \notin {"do", "commit"}
      BY <1>2, <1>7, <2>1, <2>2, <2>4 DEF DoReplay, LockOK
    <2>5. \/ lock' = lock /\ tx' = tx
          \/ lock' = None /\ tx' = db /\ worker'[w].pc \in {"begin", "reply"}
      <3> DEFINE f == worker[w].frame
                 i == worker[w].step
                 hit(seq, pc, j) ==
                   worker' = [worker EXCEPT
                     ![w].pc = pc, ![w].step = j, ![w].spent = Spend(w),
                     ![w].target = IF @ = 0 THEN tx.rows[seq].filed ELSE @,
                     ![w].answers = Append(@, <<i, seq>>)]
      <3>1. \/ lock' = lock /\ tx' = tx
            \/ /\ lock' = None /\ tx' = db
               /\ \E seq : hit(seq, "begin", i + 1) \/ hit(seq, "reply", i)
        BY <1>7 DEF DoReplay
      <3>2. ASSUME NEW seq, NEW pc, NEW j, hit(seq, pc, j) PROVE worker'[w].pc = pc
        BY <1>2, <3>2 DEF Work
      <3> HIDE DEF hit
      <3> QED
        BY <3>1, <3>2
    <2> QED
      BY <2>3, <2>4, <2>5
  <1>8. ASSUME NEW w \in Workers, Refuse(w)
        PROVE  LockOK' /\ KeysOK(db', now') /\ KeysOK(tx', now')
    BY <1>2, <1>8 DEF Refuse, LockOK
  <1>9. ASSUME NEW w \in Workers, Commit(w)
        PROVE  LockOK' /\ KeysOK(db', now') /\ KeysOK(tx', now')
    BY <1>2, <1>9 DEF Commit, LockOK
  <1>10. ASSUME NEW w \in Workers, Publish(w)
         PROVE  LockOK' /\ KeysOK(db', now') /\ KeysOK(tx', now')
    BY <1>2, <1>10 DEF Publish, LockOK
  <1>11. ASSUME NEW w \in Workers, EndPublish(w)
         PROVE  LockOK' /\ KeysOK(db', now') /\ KeysOK(tx', now')
    <2>1. worker'[w].pc \in {"begin", "reply"}
          /\ \A v \in Workers \ {w} : worker'[v] = worker[v]
      BY <1>2, <1>11 DEF EndPublish
    <2> QED
      BY <1>2, <1>11, <2>1 DEF EndPublish, LockOK
  <1>12. ASSUME NEW w \in Workers, Reply(w)
         PROVE  LockOK' /\ KeysOK(db', now') /\ KeysOK(tx', now')
    BY <1>2, <1>12 DEF Reply, LockOK, Idle
  <1>13. ASSUME NEW s \in Subs, (\E p \in Watched : Subscribe(s, p)) \/ Take(s) \/ Unsubscribe(s)
         PROVE  LockOK' /\ KeysOK(db', now') /\ KeysOK(tx', now')
    BY <1>13 DEF Subscribe, Take, Unsubscribe, LockOK
  <1>14. CASE PruneKeys
    <2>1. KeysOK(db', now)
      BY <1>2, <1>14, PruneKeeps DEF PruneKeys
    <2> QED
      BY <1>14, <2>1 DEF PruneKeys, LockOK
  <1>15. CASE Tick
    <2>1. KeysOK(db, now + 1) /\ KeysOK(tx, now + 1)
      BY <1>2, TickKeys
    <2> QED
      BY <1>15, <2>1 DEF Tick, LockOK
  <1>16. CASE Crash
    BY <1>2, <1>16 DEF Crash, LockOK, Idle
  <1>17. CASE UNCHANGED vars
    BY <1>17 DEF vars, LockOK
  <1> QED
    BY <1>4, <1>5, <1>6, <1>7, <1>8, <1>9, <1>10, <1>11, <1>12, <1>13, <1>14,
       <1>15, <1>16, <1>17 DEF Next, WorkerStep

(* A key is spent once (SpentOnce), for every set of accounts, frames and  *)
(* workers, however often frames are delivered and wherever it crashes.    *)
THEOREM KeySpentOnce == Spec => []SpentOnce
  <1>1. SpentInv => SpentOnce
    <2> SUFFICES ASSUME SpentInv, NEW r \in db.present, NEW s \in DOMAIN db.rows
                 PROVE  LET a == db.rows[r]
                            b == db.rows[s]
                        IN  r < s /\ a.key # NoKey /\ a.by = b.by /\ a.key = b.key
                            /\ a.n = b.n => b.at - a.at > KeyLife
      BY DEF SpentOnce
    <2>1. SpentOnceIn(db) /\ db.rows \in Seq(Row)
      BY DEF SpentInv, KeysOK, TypeInv, TypeOK, Database
    <2>2. s \in 1..Len(db.rows)
      BY <2>1
    <2> QED
      BY <2>1, <2>2 DEF SpentOnceIn
  <1> QED
    BY SpentInit, SpentStep, <1>1, PTL DEF Spec
-----------------------------------------------------------------------------
(* What w has to tell is the end of its transaction's log while it runs    *)
(* commands, the part of the log the feed has yet to tell while it         *)
(* publishes, and nothing otherwise.                                       *)
ToTell(w) ==
  LET es == worker[w].events
  IN  /\ worker[w].pc \in {"do", "commit"} =>
           /\ Len(tx.rows) = Len(db.rows) + Len(es)
           /\ \A k \in 1..Len(es) : es[k] = Len(db.rows) + k
      /\ worker[w].pc = "do" /\ ~Grouped[worker[w].frame] => es = <<>>
      /\ worker[w].pc = "publish" =>
           /\ publishing = w
           /\ Len(db.rows) = boot + Len(feed) + Len(es)
           /\ \A k \in 1..Len(es) : es[k] = boot + Len(feed) + k
      /\ worker[w].pc \in {"idle", "begin", "reply"} => es = <<>>

FeedOK ==
  /\ \A w \in Workers : ToTell(w)
  /\ publishing # None => worker[publishing].pc = "publish"
  /\ publishing = None => boot + Len(feed) = Len(db.rows)
  /\ \A k \in 1..Len(feed) : feed[k] = boot + k

OrderInv == SpentInv /\ FeedOK

LEMMA OrderInit == Init => OrderInv
  <1> SUFFICES ASSUME Init PROVE OrderInv
    OBVIOUS
  <1>1. FeedOK
    BY DEF Init, FeedOK, ToTell, Idle
  <1> QED
    BY <1>1, SpentInit DEF OrderInv

LEMMA OrderStep == OrderInv /\ [Next]_vars => OrderInv'
  <1> SUFFICES ASSUME OrderInv, [Next]_vars PROVE FeedOK'
    BY SpentStep DEF OrderInv
  <1> USE DEF OrderInv
  <1>1. /\ worker \in [Workers -> Work] /\ None \notin Workers
        /\ db \in Database /\ tx \in Database
        /\ publishing \in Workers \cup {None}
    BY CommandsAssumption DEF SpentInv, TypeInv, TypeOK
  <1>2. /\ Len(db.rows) \in Nat /\ Len(tx.rows) \in Nat /\ boot \in Nat
        /\ feed \in Seq(Nat) /\ Len(feed) \in Nat
        /\ \A w \in Workers : worker[w].events \in Seq(Nat)
    <2>1. db.rows \in Seq(Row) /\ tx.rows \in Seq(Row)
      BY <1>1 DEF Database
    <2>2. feed \in Seq(Nat) /\ boot \in Nat
      BY DEF SpentInv, TypeInv, TypeOK
    <2>3. \A w \in Workers : worker[w].events \in Seq(Nat)
      BY <1>1 DEF Work
    <2> QED
      BY <2>1, <2>2, <2>3
  <1>3. /\ \A w \in Workers : worker[w].pc \in {"do", "commit"} => lock = w
        /\ lock = None => tx = db
    BY DEF SpentInv, LockOK
  \* Steps that move only worker w, to a place with nothing to tell.
  <1>4. ASSUME NEW w \in Workers,
               worker' \in [Workers -> Work],
               \A v \in Workers \ {w} : worker'[v] = worker[v],
               worker'[w].events = <<>>, worker'[w].pc \in {"idle", "begin", "reply"},
               worker[w].pc # "publish",
               UNCHANGED <<db, publishing, boot, feed>>,
               tx' = tx \/ worker[w].pc \in {"do", "commit"}
        PROVE  FeedOK'
    <2>1. ASSUME NEW v \in Workers PROVE ToTell(v)'
      <3>1. CASE v = w
        BY <1>4, <3>1 DEF ToTell
      <3>2. CASE v # w
        <4>1. worker'[v] = worker[v] /\ ToTell(v)
          BY <1>4, <3>2 DEF FeedOK
        <4>2. worker[v].pc \in {"do", "commit"} => tx' = tx
          BY <1>3, <1>4, <3>2
        <4> QED
          BY <1>4, <4>1, <4>2 DEF ToTell
      <3> QED
        BY <3>1, <3>2
    <2>2. publishing # None => publishing # w /\ worker'[publishing].pc = "publish"
      BY <1>1, <1>4 DEF FeedOK
    <2> QED
      BY <1>4, <2>1, <2>2 DEF FeedOK
  <1>5. ASSUME NEW w \in Workers, NEW f \in Frames, Deliver(w, f) PROVE FeedOK'
    <2>1. worker'[w].events = <<>> /\ worker'[w].pc = "begin"
      BY <1>1, <1>5 DEF Deliver, Idle
    <2> QED
      BY <1>1, <1>4, <1>5, <2>1, TypeStep DEF Deliver, SpentInv, TypeInv, TypeOK
  <1>6. ASSUME NEW w \in Workers, Begin(w) PROVE FeedOK'
    <2>1. /\ worker' = [worker EXCEPT ![w].pc = "do"] /\ worker[w].pc = "begin"
          /\ lock = None /\ tx' = db
          /\ UNCHANGED <<db, publishing, boot, feed>>
      BY <1>6 DEF Begin
    <2>2. worker'[w].pc = "do" /\ worker'[w].events = <<>> /\ worker[w].events = <<>>
      BY <1>1, <2>1 DEF FeedOK, ToTell, Work
    <2>3. ASSUME NEW v \in Workers PROVE ToTell(v)'
      <3>1. CASE v = w
        <4>1. Len(tx'.rows) = Len(db'.rows) + 0 /\ Len(<<>>) = 0 /\ 1..0 = {}
          BY <1>2, <2>1
        <4> QED
          BY <2>2, <3>1, <4>1 DEF ToTell
      <3>2. CASE v # w
        BY <1>1, <1>3, <2>1, <3>2 DEF ToTell, FeedOK
      <3> QED
        BY <3>1, <3>2
    <2> QED
      BY <1>1, <2>1, <2>3 DEF FeedOK
  <1>7. ASSUME NEW w \in Workers, DoApply(w) PROVE FeedOK'
    <2> DEFINE f   == worker[w].frame
               i   == worker[w].step
               es  == worker[w].events
               seq == Len(tx'.rows)
    <2>1. worker[w].pc = "do" /\ lock = w /\ ToTell(w)
      BY <1>3, <1>7 DEF DoApply, FeedOK
    <2>2. seq = Len(tx.rows) + 1
      <3>1. f \in Frames /\ i \in 1..Len(Steps[f])
        BY <2>1 DEF SpentInv, TypeInv, WorkOK
      <3>2. Spend(w) \in Nat /\ Named(w) \in Nat /\ now \in Nat
        <4>1. TypeInv /\ worker[w] \in Work /\ worker[w].pc # "idle"
          BY <1>1, <2>1 DEF SpentInv
        <4>2. Spend(w) \in Nat
          BY <4>1 DEF Spend, Work
        <4>3. now \in Nat
          BY <4>1 DEF TypeInv, TypeOK
        <4> QED
          BY <4>1, <4>2, <4>3, NamedType
      <3>3. tx' = Apply(tx, f, i, Spend(w), Named(w), now)
        BY <1>7 DEF DoApply
      <3> QED
        BY <1>1, <3>1, <3>2, <3>3, ApplyType
    <2>3. /\ worker'[w].pc = After(w, i) /\ worker'[w].frame = f
          /\ worker'[w].events = Append(es, seq)
          /\ \A v \in Workers \ {w} : worker'[v] = worker[v]
          /\ UNCHANGED <<db, publishing, boot, feed>>
      BY <1>1, <1>7 DEF DoApply, Work
    <2>4. After(w, i) \in {"do", "commit"} /\ (After(w, i) = "do" => Grouped[f])
      BY DEF After
    <2>5. /\ Len(Append(es, seq)) = Len(es) + 1
          /\ \A k \in 1..(Len(es) + 1) :
               Append(es, seq)[k] = IF k = Len(es) + 1 THEN seq ELSE es[k]
          /\ Len(es) \in Nat
      <3>1. es \in Seq(Nat) /\ seq \in Nat
        BY <1>2, <2>2
      <3> HIDE DEF es, seq
      <3> QED
        BY <3>1
    <2>6. /\ Len(tx.rows) = Len(db.rows) + Len(es)
          /\ \A k \in 1..Len(es) : es[k] = Len(db.rows) + k
      BY <2>1 DEF ToTell
    <2>7. ToTell(w)'
      <3> HIDE DEF es, seq, f
      <3> DEFINE new == worker'[w].events
      <3>1. /\ new = Append(es, seq) /\ Len(new) = Len(es) + 1
            /\ \A k \in 1..(Len(es) + 1) :
                 new[k] = IF k = Len(es) + 1 THEN seq ELSE es[k]
        BY <2>3, <2>5
      <3> HIDE DEF new
      <3>2. /\ seq = Len(db.rows) + Len(es) + 1 /\ Len(es) \in Nat
            /\ Len(db.rows) \in Nat
        BY <1>2, <2>2, <2>5, <2>6
      <3> DEFINE a == Len(db.rows)
                 b == Len(es)
                 c == Len(new)
      <3>3. a \in Nat /\ b \in Nat /\ c = b + 1 /\ seq = a + b + 1
        BY <3>1, <3>2
      <3> HIDE DEF a, b, c
      <3>4. seq = a + c /\ seq = a + (b + 1)
        BY <3>3
      <3>5. ASSUME NEW k \in 1..Len(new) PROVE new[k] = Len(db.rows) + k
        <4>1. CASE k = Len(es) + 1
          <5>1. new[k] = seq /\ k = b + 1
            BY <3>1, <3>2, <4>1 DEF b
          <5> QED
            BY <3>4, <5>1 DEF a
        <4>2. CASE k \in 1..Len(es)
          BY <2>6, <3>1, <3>2, <4>2
        <4> QED
          BY <3>1, <3>2, <4>1, <4>2
      <3> QED
        BY <2>3, <2>4, <3>4, <3>5 DEF ToTell, seq, new, f, a, c
    <2>8. ASSUME NEW v \in Workers, v # w PROVE ToTell(v)'
      <3>1. worker'[v] = worker[v] /\ worker[v].pc \notin {"do", "commit"} /\ ToTell(v)
        BY <1>3, <2>1, <2>3, <2>8 DEF FeedOK
      <3> QED
        BY <2>3, <3>1 DEF ToTell
    <2>9. publishing # None => publishing # w /\ worker'[publishing].pc = "publish"
      BY <1>1, <2>1, <2>3 DEF FeedOK
    <2> QED
      BY <2>3, <2>7, <2>8, <2>9 DEF FeedOK
  <1>8. ASSUME NEW w \in Workers, DoReplay(w) PROVE FeedOK'
    <2> DEFINE f == worker[w].frame
               i == worker[w].step
               hit(seq, pc, j) ==
                 worker' = [worker EXCEPT
                   ![w].pc = pc, ![w].step = j, ![w].spent = Spend(w),
                   ![w].target = IF @ = 0 THEN tx.rows[seq].filed ELSE @,
                   ![w].answers = Append(@, <<i, seq>>)]
    <2>1. worker[w].pc = "do" /\ lock = w /\ ToTell(w)
          /\ UNCHANGED <<db, publishing, boot, feed>>
      BY <1>3, <1>8 DEF DoReplay, FeedOK
    <2>2. ASSUME NEW seq, NEW pc, NEW j, hit(seq, pc, j)
          PROVE  /\ worker'[w].pc = pc /\ worker'[w].frame = f
                 /\ worker'[w].events = worker[w].events
                 /\ \A v \in Workers \ {w} : worker'[v] = worker[v]
      BY <1>1, <2>2 DEF Work
    <2>3. \/ /\ tx' = tx /\ Grouped[f]
             /\ \E seq, j : hit(seq, "do", j) \/ hit(seq, "commit", j)
          \/ /\ ~Grouped[f]
             /\ \E seq, j : hit(seq, "begin", j) \/ hit(seq, "reply", j)
      BY <1>8 DEF DoReplay
    <2> HIDE DEF hit
    <2>4. \A v \in Workers \ {w} : worker'[v] = worker[v]
      BY <2>2, <2>3
    <2>5. CASE /\ tx' = tx /\ Grouped[f]
               /\ \E seq, j : hit(seq, "do", j) \/ hit(seq, "commit", j)
      <3>1. /\ worker'[w].pc \in {"do", "commit"} /\ worker'[w].frame = f
            /\ worker'[w].events = worker[w].events
        BY <2>2, <2>5
      <3>2. ToTell(w)'
        BY <2>1, <2>5, <3>1 DEF ToTell
      <3>3. ASSUME NEW v \in Workers \ {w} PROVE ToTell(v)'
        <4>1. worker'[v] = worker[v] /\ ToTell(v)
          BY <2>4 DEF FeedOK
        <4> QED
          BY <2>1, <2>5, <4>1 DEF ToTell
      <3>4. publishing # None => publishing # w /\ worker'[publishing].pc = "publish"
        BY <1>1, <2>1, <2>4 DEF FeedOK
      <3> QED
        BY <2>1, <3>2, <3>3, <3>4 DEF FeedOK
    <2>6. CASE /\ ~Grouped[f]
               /\ \E seq, j : hit(seq, "begin", j) \/ hit(seq, "reply", j)
      <3>1. worker'[w].pc \in {"begin", "reply"} /\ worker'[w].events = <<>>
        BY <2>1, <2>2, <2>6 DEF ToTell
      <3>2. worker' \in [Workers -> Work]
        BY TypeStep DEF SpentInv, TypeInv, TypeOK
      <3> QED
        BY <1>4, <2>1, <2>4, <3>1, <3>2
    <2> QED
      BY <2>3, <2>5, <2>6
  <1>9. ASSUME NEW w \in Workers, Refuse(w) PROVE FeedOK'
    <2>1. worker'[w].pc = "reply" /\ worker'[w].events = <<>>
          /\ \A v \in Workers \ {w} : worker'[v] = worker[v]
      BY <1>1, <1>9 DEF Refuse, Work
    <2>2. worker' \in [Workers -> Work]
      BY TypeStep DEF SpentInv, TypeInv, TypeOK
    <2> QED
      BY <1>4, <1>9, <2>1, <2>2 DEF Refuse
  <1>10. ASSUME NEW w \in Workers, Commit(w) PROVE FeedOK'
    <2>1. worker[w].pc = "commit" /\ lock = w /\ ToTell(w) /\ publishing = None
          /\ db' = tx /\ publishing' = w /\ UNCHANGED <<tx, boot, feed>>
      BY <1>3, <1>10 DEF Commit, FeedOK
    <2>2. worker'[w].pc = "publish" /\ worker'[w].events = worker[w].events
          /\ \A v \in Workers \ {w} : worker'[v] = worker[v]
      BY <1>1, <1>10 DEF Commit, Work
    <2>3. boot + Len(feed) = Len(db.rows)
      BY <2>1 DEF FeedOK
    <2>4. ToTell(w)'
      BY <1>2, <2>1, <2>2, <2>3 DEF ToTell
    <2>5. ASSUME NEW v \in Workers, v # w PROVE ToTell(v)'
      <3>1. worker[v].pc \notin {"do", "commit", "publish"}
        BY <1>1, <1>3, <2>1, <2>5 DEF FeedOK, ToTell
      <3> QED
        BY <2>2, <2>5, <3>1 DEF FeedOK, ToTell
    <2> QED
      BY <1>1, <2>1, <2>2, <2>4, <2>5 DEF FeedOK
  <1>11. ASSUME NEW w \in Workers, Publish(w) PROVE FeedOK'
    <2> DEFINE es == worker[w].events
    <2>1. /\ worker[w].pc = "publish" /\ es # <<>> /\ ToTell(w)
          /\ feed' = Append(feed, Head(es))
          /\ UNCHANGED <<db, tx, boot, publishing>>
      BY <1>11 DEF Publish, FeedOK
    <2>2. worker'[w].pc = "publish" /\ worker'[w].events = Tail(es)
          /\ \A v \in Workers \ {w} : worker'[v] = worker[v]
      BY <1>1, <1>11 DEF Publish, Work
    <2>3. /\ publishing = w
          /\ Len(db.rows) = boot + Len(feed) + Len(es)
          /\ \A k \in 1..Len(es) : es[k] = boot + Len(feed) + k
      BY <2>1 DEF ToTell
    <2>4. /\ Len(es) \in Nat \ {0} /\ Head(es) = es[1] /\ Len(Tail(es)) = Len(es) - 1
          /\ \A k \in 1..(Len(es) - 1) : Tail(es)[k] = es[k + 1]
          /\ Head(es) \in Nat
      BY <1>2, <2>1
    <2>5. /\ Len(feed') = Len(feed) + 1
          /\ \A k \in 1..Len(feed) : feed'[k] = feed[k]
          /\ feed'[Len(feed) + 1] = boot + Len(feed) + 1
      BY <1>2, <2>1, <2>3, <2>4
    <2> HIDE DEF es
    <2>6. ToTell(w)'
      <3>1. Len(db.rows) = boot + Len(feed') + Len(worker'[w].events)
        BY <1>2, <2>2, <2>3, <2>4, <2>5
      <3>2. ASSUME NEW k \in 1..Len(worker'[w].events)
            PROVE  worker'[w].events[k] = boot + Len(feed') + k
        <4>1. k \in 1..(Len(es) - 1) /\ k + 1 \in 1..Len(es)
          BY <2>2, <2>4
        <4> QED
          BY <1>2, <2>2, <2>3, <2>4, <2>5, <4>1
      <3> QED
        BY <2>1, <2>2, <2>3, <3>1, <3>2 DEF ToTell
    <2>7. ASSUME NEW v \in Workers, v # w PROVE ToTell(v)'
      <3>1. worker[v].pc # "publish" /\ worker'[v] = worker[v] /\ ToTell(v)
        BY <2>2, <2>3, <2>7 DEF FeedOK, ToTell
      <3> QED
        BY <2>1, <3>1 DEF ToTell
    <2>8. ASSUME NEW k \in 1..Len(feed') PROVE feed'[k] = boot + k
      <3>1. k \in 1..Len(feed) \/ k = Len(feed) + 1
        BY <1>2, <2>5
      <3>2. CASE k \in 1..Len(feed)
        BY <2>5, <3>2 DEF FeedOK
      <3>3. CASE k = Len(feed) + 1
        BY <1>2, <2>5, <3>3
      <3> QED
        BY <3>1, <3>2, <3>3
    <2> QED
      BY <1>1, <2>1, <2>2, <2>3, <2>6, <2>7, <2>8 DEF FeedOK
  <1>12. ASSUME NEW w \in Workers, EndPublish(w) PROVE FeedOK'
    <2>1. worker[w].pc = "publish" /\ worker[w].events = <<>> /\ ToTell(w)
          /\ publishing' = None /\ UNCHANGED <<db, tx, boot, feed>>
      BY <1>12 DEF EndPublish, FeedOK
    <2>2. worker'[w].pc \in {"begin", "reply"} /\ worker'[w].events = <<>>
          /\ \A v \in Workers \ {w} : worker'[v] = worker[v]
      BY <1>1, <1>12 DEF EndPublish, Work
    <2>3. publishing = w /\ boot + Len(feed) = Len(db.rows)
      BY <1>2, <2>1 DEF ToTell
    <2>4. ASSUME NEW v \in Workers PROVE ToTell(v)'
      <3>1. CASE v = w
        BY <2>2, <3>1 DEF ToTell
      <3>2. CASE v # w
        <4>1. worker[v].pc # "publish" /\ worker'[v] = worker[v] /\ ToTell(v)
          BY <2>2, <2>3, <3>2 DEF FeedOK, ToTell
        <4> QED
          BY <2>1, <4>1 DEF ToTell
      <3> QED
        BY <3>1, <3>2
    <2> QED
      BY <2>1, <2>3, <2>4 DEF FeedOK
  <1>13. ASSUME NEW w \in Workers, Reply(w) PROVE FeedOK'
    <2>1. worker'[w].events = <<>> /\ worker'[w].pc = "idle"
          /\ \A v \in Workers \ {w} : worker'[v] = worker[v]
      BY <1>1, <1>13 DEF Reply, Idle
    <2>2. worker' \in [Workers -> Work]
      BY TypeStep DEF SpentInv, TypeInv, TypeOK
    <2> QED
      BY <1>4, <1>13, <2>1, <2>2 DEF Reply
  <1>14. ASSUME NEW s \in Subs, (\E p \in Watched : Subscribe(s, p)) \/ Take(s) \/ Unsubscribe(s)
         PROVE  FeedOK'
    <2>1. UNCHANGED <<db, tx, publishing, worker, feed, boot>>
      BY <1>14 DEF Subscribe, Take, Unsubscribe
    <2> QED
      BY <2>1 DEF FeedOK, ToTell
  <1>15. CASE PruneKeys
    <2>1. db'.rows = db.rows /\ lock = None
      BY <1>1, <1>15 DEF PruneKeys, Database
    <2>2. \A w \in Workers : worker[w].pc \notin {"do", "commit"}
      BY <1>1, <1>3, <2>1
    <2> QED
      BY <1>15, <2>1, <2>2 DEF PruneKeys, FeedOK, ToTell
  <1>16. CASE Tick
    BY <1>16 DEF Tick, FeedOK, ToTell
  <1>17. CASE Crash
    BY <1>2, <1>17 DEF Crash, FeedOK, ToTell, Idle
  <1>18. CASE UNCHANGED vars
    BY <1>18 DEF vars, FeedOK, ToTell
  <1> QED
    BY <1>5, <1>6, <1>7, <1>8, <1>9, <1>10, <1>11, <1>12, <1>13, <1>14, <1>15,
       <1>16, <1>17, <1>18 DEF Next, WorkerStep

LEMMA OrderSaid == OrderInv => PublishedInOrder
  <1> SUFFICES ASSUME OrderInv PROVE PublishedInOrder
    OBVIOUS
  <1>1. /\ feed \in Seq(Nat) /\ Len(feed) \in Nat /\ boot \in Nat
        /\ db.rows \in Seq(Row) /\ Len(db.rows) \in Nat
        /\ publishing \in Workers \cup {None}
        /\ worker \in [Workers -> Work]
    BY DEF OrderInv, SpentInv, TypeInv, TypeOK, Database
  <1>2. CASE publishing = None
    <2>1. /\ boot + Len(feed) = Len(db.rows)
          /\ \A k \in 1..Len(feed) : feed[k] = boot + k
      BY <1>2 DEF OrderInv, FeedOK
    <2>2. DOMAIN feed = 1..Len(feed)
      BY <1>1
    <2>3. boot + Len(feed) <= Len(db.rows)
      <3> DEFINE b == Len(db.rows)
      <3>1. b \in Nat /\ boot + Len(feed) = b
        BY <1>1, <2>1
      <3> HIDE DEF b
      <3>2. boot + Len(feed) <= b
        BY <3>1
      <3> QED
        BY <3>2 DEF b
    <2> QED
      BY <2>1, <2>2, <2>3 DEF PublishedInOrder
  <1>3. CASE publishing \in Workers /\ publishing # None
    <2>1. Len(worker[publishing].events) \in Nat
      BY <1>1, <1>3 DEF Work
    <2>2. Len(db.rows) = boot + Len(feed) + Len(worker[publishing].events)
      BY <1>3 DEF OrderInv, FeedOK, ToTell
    <2>3. boot + Len(feed) <= Len(db.rows)
      <3> DEFINE a == Len(feed)
                 b == Len(db.rows)
                 c == Len(worker[publishing].events)
      <3>1. a \in Nat /\ b \in Nat /\ c \in Nat /\ boot \in Nat /\ b = boot + a + c
        BY <1>1, <2>1, <2>2
      <3> HIDE DEF a, b, c
      <3>2. boot + a <= b
        BY <3>1
      <3> QED
        BY <3>2 DEF a, b
    <2>4. \A i \in DOMAIN feed : feed[i] = boot + i
      <3>1. \A k \in 1..Len(feed) : feed[k] = boot + k
        BY DEF OrderInv, FeedOK
      <3>2. DOMAIN feed = 1..Len(feed)
        BY <1>1
      <3> QED
        BY <3>1, <3>2
    <2> QED
      BY <1>3, <2>3, <2>4 DEF PublishedInOrder
  <1> QED
    BY <1>1, <1>2, <1>3

(* The bus tells the log in commit order and leaves nothing out            *)
(* (PublishedInOrder), for any number of workers: the publishing mutex is  *)
(* taken before the commit and kept until the commit's events are told.    *)
THEOREM LogPublishedInOrder == Spec => []PublishedInOrder
  BY OrderInit, OrderStep, OrderSaid, PTL DEF Spec
-----------------------------------------------------------------------------
(* The command log that the core implements.  A transaction only adds to   *)
(* the log: its rows are its own frame's, under keys that nobody has spent *)
(* and that differ from each other, and it has no key but theirs and those *)
(* that were there.                                                        *)
News == (Len(db.rows) + 1)..Len(tx.rows)

Within(w) ==
  LET f == worker[w].frame
  IN  /\ Len(db.rows) <= Len(tx.rows)
      /\ \A r \in 1..Len(db.rows) : tx.rows[r] = db.rows[r]
      /\ \A r \in News :
           /\ tx.rows[r].by = By[f] /\ tx.rows[r].key = KeyOf[f]
           /\ tx.rows[r].n <= worker[w].spent
           /\ Keyed(f) => \A k \in db.keys :
                ~(k.by = By[f] /\ k.key = KeyOf[f] /\ k.n = tx.rows[r].n)
      /\ \A r, s \in News : r # s => tx.rows[r].n # tx.rows[s].n
      /\ \A k \in tx.keys : k \in db.keys \/ k.seq \in News
      /\ worker[w].pc = "do" => db.keys \subseteq tx.keys
      /\ worker[w].pc = "do" /\ ~Grouped[f] => tx = db

KeyedOnly(d) == \A k \in d.keys : k.key # NoKey

LogInv ==
  /\ OrderInv /\ KeyedOnly(db) /\ KeyedOnly(tx)
  /\ \A w \in Workers : worker[w].pc \in {"do", "commit"} => Within(w)

(* What applying a step adds.                                              *)
LEMMA ApplyAdds ==
  ASSUME NEW d \in Database, NEW f \in Frames, NEW i \in 1..Len(Steps[f]),
         NEW n \in Nat, NEW p \in Nat, NEW t \in Nat, NEW new, new = Apply(d, f, i, n, p, t)
  PROVE  /\ new.rows[Len(new.rows)].by = By[f]
         /\ new.rows[Len(new.rows)].key = KeyOf[f]
         /\ new.rows[Len(new.rows)].n = n
         /\ \A k \in new.keys :
              k \in d.keys \/ (k.seq = Len(new.rows) /\ k.key = KeyOf[f] /\ Keyed(f))
         /\ Steps[f][i].eff # "delete" => d.keys \subseteq new.keys
  <1> DEFINE gone == IF Steps[f][i].eff = "delete"
                     THEN {r \in d.present : d.rows[r].filed = p} ELSE {}
             seq == Len(d.rows) + 1
             k0 == [by |-> By[f], key |-> KeyOf[f], n |-> n, seq |-> seq, at |-> t]
  <1>1. new.rows[seq].by = By[f] /\ new.rows[seq].key = KeyOf[f] /\ new.rows[seq].n = n
    BY DEF Apply, Database
  <1>2. new.keys = {k \in d.keys : k.seq \notin gone} \cup (IF Keyed(f) THEN {k0} ELSE {})
    BY DEF Apply
  <1>3. k0.seq = seq /\ k0.key = KeyOf[f]
    OBVIOUS
  <1>4. Steps[f][i].eff # "delete" => gone = {}
    OBVIOUS
  <1>5. Len(new.rows) = seq
    BY ApplyType DEF Database
  <1> HIDE DEF gone, k0, seq
  <1>6. \A k \in new.keys : k \in d.keys \/ (k.seq = seq /\ k.key = KeyOf[f] /\ Keyed(f))
    BY <1>2, <1>3
  <1>7. Steps[f][i].eff # "delete" => d.keys \subseteq new.keys
    BY <1>2, <1>4
  <1> QED
    BY <1>1, <1>5, <1>6, <1>7

LEMMA LogInit == Init => LogInv
  <1> SUFFICES ASSUME Init PROVE LogInv
    OBVIOUS
  <1>1. KeyedOnly(db) /\ KeyedOnly(tx)
    BY DEF Init, KeyedOnly
  <1>2. \A w \in Workers : worker[w].pc = "idle"
    BY DEF Init, Idle
  <1> QED
    BY <1>1, <1>2, OrderInit DEF LogInv

(* A step that leaves the databases alone and moves w out of or within its *)
(* transaction, or anywhere while it has none.                             *)
LEMMA LogStays ==
  ASSUME LogInv, OrderInv', UNCHANGED <<db, tx>>, NEW w \in Workers,
         \A v \in Workers \ {w} : worker'[v] = worker[v],
         worker'[w].pc \in {"do", "commit"} => Within(w)'
  PROVE  LogInv'
  <1>1. ASSUME NEW v \in Workers, worker'[v].pc \in {"do", "commit"} PROVE Within(v)'
    <2>1. CASE v = w
      BY <1>1, <2>1
    <2>2. CASE v # w
      BY <1>1, <2>2 DEF LogInv, Within, News
    <2> QED
      BY <2>1, <2>2
  <1> QED
    BY <1>1 DEF LogInv, KeyedOnly

(* A step that leaves no transaction open.                                 *)
LEMMA LogCloses ==
  ASSUME LogInv, OrderInv', KeyedOnly(db'), KeyedOnly(tx'),
         \A v \in Workers : worker'[v].pc \notin {"do", "commit"}
  PROVE  LogInv'
  BY DEF LogInv, KeyedOnly

LEMMA LogApplies ==
  ASSUME LogInv, OrderInv', NEW w \in Workers, DoApply(w)
  PROVE  LogInv'
  <1> DEFINE f == worker[w].frame
             i == worker[w].step
             n == Spend(w)
             p == Named(w)
             seq == Len(tx.rows) + 1
  <1>1. /\ worker \in [Workers -> Work] /\ tx \in Database /\ db \in Database /\ now \in Nat
        /\ f \in Frames /\ i \in 1..Len(Steps[f]) /\ worker[w].spent \in Nat
        /\ Len(tx.rows) \in Nat /\ Len(db.rows) \in Nat
        /\ KeyedOnly(tx) /\ KeyedOnly(db) /\ TypeInv /\ worker[w].pc # "idle"
    <2>1. TypeInv /\ KeyedOnly(tx) /\ KeyedOnly(db) /\ worker[w].pc = "do"
      BY DEF DoApply, LogInv, OrderInv, SpentInv
    <2>2. worker \in [Workers -> Work] /\ tx \in Database /\ db \in Database /\ now \in Nat
      BY <2>1 DEF TypeInv, TypeOK
    <2>3. f \in Frames /\ i \in 1..Len(Steps[f])
      BY <2>1 DEF TypeInv, WorkOK
    <2>4. worker[w].spent \in Nat
      BY <2>2 DEF Work
    <2>5. Len(tx.rows) \in Nat /\ Len(db.rows) \in Nat
      BY <2>2 DEF Database
    <2> QED
      BY <2>1, <2>2, <2>3, <2>4, <2>5
  <1>2. p \in Nat /\ n \in Nat /\ n = worker[w].spent + 1
    BY <1>1, NamedType DEF Spend
  <1>3. /\ worker[w].pc = "do" /\ db' = db /\ tx' = Apply(tx, f, i, n, p, now)
        /\ (~Keyed(f) \/ Originals(tx, f, n) = {})
        /\ \A v \in Workers \ {w} : worker'[v] = worker[v]
    BY <1>1 DEF DoApply
  <1>4. /\ worker'[w].frame = f /\ worker'[w].spent = n
        /\ worker'[w].pc = After(w, i)
    <2>1. worker'[w].frame = f
      BY <1>1 DEF DoApply, Work
    <2>2. worker'[w].spent = n
      BY <1>1 DEF DoApply, Work
    <2>3. worker'[w].pc = After(w, i)
      BY <1>1 DEF DoApply, Work
    <2> QED
      BY <2>1, <2>2, <2>3
  <1>5. Within(w)
    BY <1>3 DEF LogInv
  <1> HIDE DEF p, n
  <1>6. /\ Len(tx'.rows) = Len(tx.rows) + 1
        /\ \A r \in 1..Len(tx.rows) : tx'.rows[r] = tx.rows[r]
        /\ tx'.rows[seq].by = By[f] /\ tx'.rows[seq].key = KeyOf[f] /\ tx'.rows[seq].n = n
        /\ \A k \in tx'.keys : k \in tx.keys \/ (k.seq = seq /\ k.key = KeyOf[f] /\ Keyed(f))
        /\ Steps[f][i].eff # "delete" => tx.keys \subseteq tx'.keys
    <2> DEFINE new == Apply(tx, f, i, n, p, now)
    <2> HIDE DEF f, i
    <2>1. /\ Len(new.rows) = Len(tx.rows) + 1
          /\ \A r \in 1..Len(tx.rows) : new.rows[r] = tx.rows[r]
      <3>1. tx \in Database /\ f \in Frames /\ i \in 1..Len(Steps[f]) /\ now \in Nat
        BY <1>1
      <3>2. n \in Nat /\ p \in Nat
        BY <1>2
      <3> HIDE DEF new
      <3>3. new = Apply(tx, f, i, n, p, now)
        BY DEF new
      <3> QED
        BY <3>1, <3>2, <3>3, ApplyType
    <2>2. tx' = new
      BY <1>3
    <2> HIDE DEF new
    <2>3. Len(tx'.rows) = seq
      BY <1>1, <2>1, <2>2
    <2>4. /\ tx'.rows[Len(tx'.rows)].by = By[f] /\ tx'.rows[Len(tx'.rows)].key = KeyOf[f]
          /\ tx'.rows[Len(tx'.rows)].n = n
          /\ \A k \in tx'.keys :
               k \in tx.keys \/ (k.seq = Len(tx'.rows) /\ k.key = KeyOf[f] /\ Keyed(f))
          /\ Steps[f][i].eff # "delete" => tx.keys \subseteq tx'.keys
      <3>1. tx \in Database /\ f \in Frames /\ i \in 1..Len(Steps[f]) /\ now \in Nat
        BY <1>1
      <3>2. n \in Nat /\ p \in Nat
        BY <1>2
      <3>3. tx' = Apply(tx, f, i, n, p, now)
        BY <2>2 DEF new
      <3> QED
        BY <3>1, <3>2, <3>3, ApplyAdds
    <2> HIDE DEF seq
    <2> QED
      BY <2>1, <2>2, <2>3, <2>4
  <1>7. /\ db.keys \subseteq tx.keys /\ (~Grouped[f] => tx = db)
        /\ Len(db.rows) <= Len(tx.rows)
    BY <1>3, <1>5 DEF Within
  <1>8. worker'[w].pc = "do" => Grouped[f]
    BY <1>4 DEF After
  <1>9. News' = News \cup {seq} /\ seq \notin News
    BY <1>1, <1>3, <1>6, <1>7 DEF News
  <1>10. ASSUME NEW r \in News
         PROVE  /\ tx'.rows[r] = tx.rows[r] /\ tx.rows[r].by = By[f]
                /\ tx.rows[r].key = KeyOf[f] /\ tx.rows[r].n <= worker[w].spent
                /\ tx.rows[r].n \in Nat
                /\ Keyed(f) => \A k \in db.keys :
                     ~(k.by = By[f] /\ k.key = KeyOf[f] /\ k.n = tx.rows[r].n)
    <2>1. r \in 1..Len(tx.rows)
      BY <1>1 DEF News
    <2>2. tx.rows \in Seq(Row)
      BY <1>1 DEF Database
    <2>3. tx.rows[r] \in Row
      BY <2>1, <2>2
    <2> QED
      BY <1>5, <1>6, <2>1, <2>3 DEF Within, Row
  (* A new key is in nobody's hands when it is spent.                      *)
  <1>11. Keyed(f) => \A k \in db.keys : ~(k.by = By[f] /\ k.key = KeyOf[f] /\ k.n = n)
    <2> SUFFICES ASSUME Keyed(f), NEW k \in db.keys, k.by = By[f], k.key = KeyOf[f], k.n = n
                 PROVE  FALSE
      OBVIOUS
    <2>1. k.seq \in Originals(tx, f, n)
      BY <1>7 DEF Originals
    <2>2. Originals(tx, f, n) = {}
      BY <1>3
    <2> QED
      BY <2>1, <2>2
  <1>12. \A r \in News' :
           /\ tx'.rows[r].by = By[f] /\ tx'.rows[r].key = KeyOf[f]
           /\ tx'.rows[r].n <= n
           /\ Keyed(f) => \A k \in db.keys :
                ~(k.by = By[f] /\ k.key = KeyOf[f] /\ k.n = tx'.rows[r].n)
    <2>1. ASSUME NEW r \in News
          PROVE  /\ tx'.rows[r].by = By[f] /\ tx'.rows[r].key = KeyOf[f]
                 /\ tx'.rows[r].n <= n
                 /\ Keyed(f) => \A k \in db.keys :
                      ~(k.by = By[f] /\ k.key = KeyOf[f] /\ k.n = tx'.rows[r].n)
      BY <1>1, <1>2, <1>10
    <2>2. /\ tx'.rows[seq].by = By[f] /\ tx'.rows[seq].key = KeyOf[f] /\ tx'.rows[seq].n <= n
          /\ Keyed(f) => \A k \in db.keys :
               ~(k.by = By[f] /\ k.key = KeyOf[f] /\ k.n = tx'.rows[seq].n)
      BY <1>2, <1>6, <1>11
    <2> QED
      BY <1>9, <2>1, <2>2
  <1>13. \A r, s \in News' : r # s => tx'.rows[r].n # tx'.rows[s].n
    <2>1. \A r, s \in News : r # s => tx'.rows[r].n # tx'.rows[s].n
      BY <1>5, <1>10 DEF Within
    <2>2. \A r \in News : tx'.rows[r].n # n
      BY <1>1, <1>2, <1>10
    <2> QED
      BY <1>6, <1>9, <2>1, <2>2
  <1>14. \A k \in tx'.keys : k \in db.keys \/ k.seq \in News'
    BY <1>5, <1>6, <1>9 DEF Within
  <1>15. worker'[w].pc = "do" => db.keys \subseteq tx'.keys
    <2>1. Grouped[f] => Steps[f][i].eff # "delete"
      BY <1>1, CommandsAssumption
    <2> QED
      BY <1>6, <1>7, <1>8, <2>1
  <1>16. \A r \in 1..Len(db.rows) : tx'.rows[r] = db.rows[r]
    <2>1. \A r \in 1..Len(db.rows) : r \in 1..Len(tx.rows)
      BY <1>1, <1>7
    <2>2. \A r \in 1..Len(db.rows) : tx.rows[r] = db.rows[r]
      BY <1>5 DEF Within
    <2> QED
      BY <1>6, <2>1, <2>2
  <1>17. Within(w)'
    <2> HIDE DEF f, i, seq
    <2>1. Len(db.rows) <= Len(tx'.rows)
      BY <1>1, <1>6, <1>7
    <2> QED
      BY <1>3, <1>4, <1>8, <1>12, <1>13, <1>14, <1>15, <1>16, <2>1 DEF Within, Keyed
  <1>18. KeyedOnly(tx')
    BY <1>1, <1>6 DEF KeyedOnly, Keyed
  <1>19. \A v \in Workers \ {w} : worker'[v].pc \notin {"do", "commit"}
    BY <1>3 DEF LogInv, OrderInv, SpentInv, LockOK
  <1> QED
    BY <1>1, <1>3, <1>17, <1>18, <1>19 DEF LogInv, KeyedOnly

LEMMA LogStep == LogInv /\ [Next]_vars => LogInv'
  <1> SUFFICES ASSUME LogInv, [Next]_vars PROVE LogInv'
    OBVIOUS
  <1>1. /\ worker \in [Workers -> Work] /\ db \in Database /\ tx \in Database
        /\ None \notin Workers /\ Len(db.rows) \in Nat
    BY CommandsAssumption DEF LogInv, OrderInv, SpentInv, TypeInv, TypeOK, Database
  <1>2. /\ \A w \in Workers : worker[w].pc \in {"do", "commit"} => lock = w /\ Within(w)
        /\ lock = None => tx = db
        /\ KeyedOnly(db) /\ KeyedOnly(tx)
    BY DEF LogInv, OrderInv, SpentInv, LockOK
  <1>3. OrderInv'
    BY OrderStep DEF LogInv
  <1>4. CASE \E w \in Workers, f \in Frames : Deliver(w, f)
    <2>1. PICK w \in Workers, f \in Frames : Deliver(w, f)
      BY <1>4
    <2>2. worker'[w].pc = "begin" /\ \A v \in Workers \ {w} : worker'[v] = worker[v]
      BY <1>1, <2>1 DEF Deliver, Idle
    <2> QED
      BY <1>3, <2>1, <2>2, LogStays DEF Deliver
  <1>5. ASSUME NEW w \in Workers, Begin(w) PROVE LogInv'
    <2>1. UNCHANGED <<db, tx>> /\ tx = db
      BY <1>2, <1>5 DEF Begin
    <2>2. \A v \in Workers \ {w} : worker'[v] = worker[v]
      BY <1>1, <1>5 DEF Begin
    <2>3. Within(w)'
      BY <1>1, <2>1 DEF Within, News
    <2> QED
      BY <1>3, <2>1, <2>2, <2>3, LogStays
  <1>6. ASSUME NEW w \in Workers, DoReplay(w) PROVE LogInv'
    <2> DEFINE f == worker[w].frame
               i == worker[w].step
               hit(seq, pc, j) ==
                 worker' = [worker EXCEPT
                   ![w].pc = pc, ![w].step = j, ![w].spent = Spend(w),
                   ![w].target = IF @ = 0 THEN tx.rows[seq].filed ELSE @,
                   ![w].answers = Append(@, <<i, seq>>)]
    <2>1. worker[w].pc = "do" /\ db' = db /\ Within(w) /\ worker[w].spent \in Nat
      BY <1>1, <1>2, <1>6 DEF DoReplay, Work
    <2>2. ASSUME NEW seq, NEW pc, NEW j, hit(seq, pc, j)
          PROVE  /\ worker'[w].pc = pc /\ worker'[w].frame = f
                 /\ worker'[w].spent = worker[w].spent + 1
                 /\ \A v \in Workers \ {w} : worker'[v] = worker[v]
      BY <1>1, <2>2 DEF Work, Spend
    <2>3. \/ /\ tx' = tx /\ Grouped[f]
             /\ \E seq, j : hit(seq, "do", j) \/ hit(seq, "commit", j)
          \/ /\ ~Grouped[f] /\ tx' = db
             /\ \E seq, j : hit(seq, "begin", j) \/ hit(seq, "reply", j)
      BY <1>6 DEF DoReplay
    <2> HIDE DEF hit
    <2>4. UNCHANGED <<db, tx>> /\ \A v \in Workers \ {w} : worker'[v] = worker[v]
      BY <2>1, <2>2, <2>3 DEF Within
    <2>5. worker'[w].pc \in {"do", "commit"} => Within(w)'
      <3>1. SUFFICES ASSUME worker'[w].pc \in {"do", "commit"} PROVE Within(w)'
        OBVIOUS
      <3>2. /\ worker'[w].frame = f /\ worker'[w].spent = worker[w].spent + 1
            /\ Grouped[f]
        BY <2>2, <2>3, <3>1
      <3>3. \A r \in News : tx.rows[r].n \in Nat
        <4>1. tx.rows \in Seq(Row)
          BY <1>1 DEF Database
        <4>2. ASSUME NEW r \in News PROVE tx.rows[r] \in Row
          <5>1. r \in 1..Len(tx.rows)
            BY <1>1 DEF News
          <5> QED
            BY <4>1, <5>1
        <4> QED
          BY <4>2 DEF Row
      <3>4. \A r \in News : tx.rows[r].n <= worker'[w].spent
        BY <2>1, <3>2, <3>3 DEF Within
      <3> HIDE DEF f, i
      <3>5. News' = News
        BY <2>4 DEF News
      <3> QED
        BY <2>1, <2>4, <3>2, <3>4, <3>5 DEF Within, Keyed, f
    <2> QED
      BY <1>3, <2>4, <2>5, LogStays
  <1>7. ASSUME NEW w \in Workers, Refuse(w) PROVE LogInv'
    <2>1. worker[w].pc \in {"do", "commit"} /\ lock = w /\ tx' = db /\ db' = db
      BY <1>2, <1>7 DEF Refuse
    <2>2. worker'[w].pc = "reply" /\ \A v \in Workers \ {w} : worker'[v] = worker[v]
      BY <1>1, <1>7 DEF Refuse, Work
    <2>3. \A v \in Workers : worker'[v].pc \notin {"do", "commit"}
      BY <1>2, <2>1, <2>2
    <2> QED
      BY <1>2, <1>3, <2>1, <2>3, LogCloses
  <1>8. ASSUME NEW w \in Workers, Commit(w) PROVE LogInv'
    <2>1. worker[w].pc = "commit" /\ lock = w /\ tx' = tx /\ db' = tx
      BY <1>2, <1>8 DEF Commit
    <2>2. worker'[w].pc = "publish" /\ \A v \in Workers \ {w} : worker'[v] = worker[v]
      BY <1>1, <1>8 DEF Commit, Work
    <2>3. \A v \in Workers : worker'[v].pc \notin {"do", "commit"}
      BY <1>2, <2>1, <2>2
    <2> QED
      BY <1>2, <1>3, <2>1, <2>3, LogCloses
  <1>9. ASSUME NEW w \in Workers, Publish(w) \/ EndPublish(w) \/ Reply(w) PROVE LogInv'
    <2>1. UNCHANGED <<db, tx>> /\ \A v \in Workers \ {w} : worker'[v] = worker[v]
      BY <1>1, <1>9 DEF Publish, EndPublish, Reply
    <2>2. worker'[w].pc \notin {"do", "commit"}
      <3>1. Publish(w) => worker'[w].pc = "publish"
        BY <1>1 DEF Publish, Work
      <3>2. EndPublish(w) => worker'[w].pc \in {"begin", "reply"}
        BY <1>1 DEF EndPublish, Work
      <3>3. Reply(w) => worker'[w].pc = "idle"
        BY <1>1 DEF Reply, Idle
      <3> QED
        BY <1>9, <3>1, <3>2, <3>3
    <2> QED
      BY <1>3, <2>1, <2>2, LogStays
  <1>10. ASSUME UNCHANGED <<db, tx, worker>> PROVE LogInv'
    BY <1>2, <1>3, <1>10 DEF LogInv, KeyedOnly, Within, News
  <1>11. CASE PruneKeys
    <2>1. lock = None /\ tx' = db' /\ worker' = worker
          /\ db'.keys = {k \in db.keys : k.at + KeyLife >= now}
      BY <1>1, <1>11 DEF PruneKeys, Database
    <2>2. \A v \in Workers : worker'[v].pc \notin {"do", "commit"}
      BY <1>1, <1>2, <2>1
    <2>3. KeyedOnly(db') /\ KeyedOnly(tx')
      BY <1>2, <2>1 DEF KeyedOnly
    <2> QED
      BY <1>3, <2>2, <2>3, LogCloses
  <1>12. CASE Crash
    <2>1. db' = db /\ tx' = db /\ \A v \in Workers : worker'[v].pc \notin {"do", "commit"}
      BY <1>12 DEF Crash, Idle
    <2> QED
      BY <1>2, <1>3, <2>1, LogCloses
  <1>13. CASE \/ \E s \in Subs : (\E p \in Watched : Subscribe(s, p)) \/ Take(s) \/ Unsubscribe(s)
              \/ Tick \/ UNCHANGED vars
    BY <1>10, <1>13 DEF Subscribe, Take, Unsubscribe, Tick, vars
  <1>14. ASSUME NEW w \in Workers, DoApply(w) PROVE LogInv'
    BY <1>3, <1>14, LogApplies
  <1> QED
    BY <1>4, <1>5, <1>6, <1>7, <1>8, <1>9, <1>11, <1>12, <1>13, <1>14 DEF Next, WorkerStep
-----------------------------------------------------------------------------
(* The command log of a database, and what it remembers.                   *)
LogOf(d) == [r \in DOMAIN d.rows |-> <<d.rows[r].by, d.rows[r].key, d.rows[r].n>>]
SpentOf(d) == {<<k.by, k.key, k.n>> : k \in d.keys}

(* CommandLog's Perform, of a log l that becomes m.                        *)
Performs(l, m, s, t) ==
  LET new == (Len(l) + 1)..Len(m)
  IN  /\ boot + Len(feed) = Len(l)
      /\ Len(m) > Len(l)
      /\ SubSeq(m, 1, Len(l)) = l
      /\ \A i \in new : m[i] \notin s
      /\ \A i, j \in new : i # j /\ ~(m[i][2] = NoKey) => m[i] # m[j]
      /\ t \subseteq s \cup {m[i] : i \in new}
      /\ \A i \in new : m[i][2] = NoKey => m[i] \notin t
      /\ UNCHANGED <<feed, boot>>

LEMMA PerformIs ==
  ASSUME Performs(LogOf(db), LogOf(db'), SpentOf(db), SpentOf(db'))
  PROVE  Log!Perform
  BY Zenon DEF Log!Perform, LogOf, SpentOf, Performs

LEMMA ForgetIs ==
  ASSUME LogOf(db') = LogOf(db), SpentOf(db') \subseteq SpentOf(db), UNCHANGED <<feed, boot>>
  PROVE  Log!Forget
  BY DEF Log!Forget, LogOf, SpentOf

LEMMA TellIs ==
  ASSUME boot + Len(feed) < Len(LogOf(db)), feed' = Append(feed, boot + Len(feed) + 1),
         UNCHANGED <<db, boot>>
  PROVE  Log!Tell
  BY Zenon DEF Log!Tell, LogOf, SpentOf

LEMMA RestartIs ==
  ASSUME feed' = <<>>, boot' = Len(LogOf(db)), UNCHANGED db
  PROVE  Log!Restart
  BY Zenon DEF Log!Restart, LogOf, SpentOf

LEMMA LogLength ==
  ASSUME NEW d \in Database
  PROVE  /\ LogOf(d) \in Seq(Users \X {KeyOf[f] : f \in Frames} \X Nat)
         /\ Len(LogOf(d)) = Len(d.rows) /\ Len(d.rows) \in Nat
         /\ \A r \in 1..Len(d.rows) :
              /\ LogOf(d)[r] = <<d.rows[r].by, d.rows[r].key, d.rows[r].n>>
              /\ d.rows[r] \in Row
  <1>1. d.rows \in Seq(Row)
    BY DEF Database
  <1>2. /\ Len(d.rows) \in Nat /\ DOMAIN d.rows = 1..Len(d.rows)
        /\ \A r \in 1..Len(d.rows) : d.rows[r] \in Row
    BY <1>1
  <1>3. \A r \in 1..Len(d.rows) :
          /\ LogOf(d)[r] = <<d.rows[r].by, d.rows[r].key, d.rows[r].n>>
          /\ LogOf(d)[r] \in Users \X {KeyOf[f] : f \in Frames} \X Nat
    BY <1>2 DEF LogOf, Row
  <1>4. DOMAIN LogOf(d) = 1..Len(d.rows) /\ LogOf(d) = [r \in 1..Len(d.rows) |-> LogOf(d)[r]]
    BY <1>2 DEF LogOf
  <1>5. ASSUME NEW S, NEW n \in Nat, NEW g, g = [r \in 1..n |-> g[r]],
               \A r \in 1..n : g[r] \in S
        PROVE  g \in Seq(S) /\ Len(g) = n
    <2>1. g \in [1..n -> S]
      BY <1>5
    <2> QED
      BY <2>1
  <1>6. LogOf(d) \in Seq(Users \X {KeyOf[f] : f \in Frames} \X Nat) /\ Len(LogOf(d)) = Len(d.rows)
    <2> DEFINE C == Users \X {KeyOf[f] : f \in Frames} \X Nat
               g == LogOf(d)
               n == Len(d.rows)
    <2>1. n \in Nat /\ g = [r \in 1..n |-> g[r]] /\ \A r \in 1..n : g[r] \in C
      BY <1>2, <1>3, <1>4
    <2> HIDE DEF C, g, n
    <2>2. g \in Seq(C) /\ Len(g) = n
      BY <1>5, <2>1
    <2> QED
      BY <2>2 DEF C, g, n
  <1> QED
    BY <1>2, <1>3, <1>6

(* A commit performs the commands of its transaction, or forgets nothing   *)
(* and performs none.                                                      *)
LEMMA CommitPerforms ==
  ASSUME LogInv, NEW w \in Workers, Commit(w)
  PROVE  Log!Perform \/ Log!Forget
  <1> DEFINE f == worker[w].frame
             l == LogOf(db)
             m == LogOf(tx)
  <1>1. /\ db \in Database /\ tx \in Database /\ KeysNameRows(tx)
        /\ Within(w) /\ KeyedOnly(db) /\ KeyedOnly(tx)
    BY DEF Commit, LogInv, OrderInv, SpentInv, TypeInv, TypeOK
  <1>2. db' = tx /\ UNCHANGED <<feed, boot>> /\ boot + Len(feed) = Len(db.rows)
    BY DEF Commit, LogInv, OrderInv, FeedOK
  <1>3. /\ Len(l) = Len(db.rows) /\ Len(m) = Len(tx.rows)
        /\ Len(db.rows) \in Nat /\ Len(tx.rows) \in Nat /\ Len(db.rows) <= Len(tx.rows)
        /\ l \in Seq(Users \X {KeyOf[g] : g \in Frames} \X Nat)
        /\ m \in Seq(Users \X {KeyOf[g] : g \in Frames} \X Nat)
        /\ \A r \in 1..Len(db.rows) : l[r] = <<db.rows[r].by, db.rows[r].key, db.rows[r].n>>
        /\ \A r \in 1..Len(tx.rows) : m[r] = <<tx.rows[r].by, tx.rows[r].key, tx.rows[r].n>>
    BY <1>1, LogLength DEF Within
  <1>4. \A r \in 1..Len(db.rows) : m[r] = l[r]
    <2> HIDE DEF l, m
    <2>1. SUFFICES ASSUME NEW r \in 1..Len(db.rows) PROVE m[r] = l[r]
      OBVIOUS
    <2>2. r \in 1..Len(tx.rows) /\ tx.rows[r] = db.rows[r]
      BY <1>1, <1>3 DEF Within
    <2> QED
      BY <1>3, <2>2
  <1>5. \A r \in News : m[r] = <<By[f], KeyOf[f], tx.rows[r].n>>
    BY <1>1, <1>3 DEF Within, News
  (* What is remembered after it was remembered before, or is new.         *)
  <1>6. SpentOf(tx) \subseteq SpentOf(db) \cup {m[r] : r \in News}
    <2>1. ASSUME NEW k \in tx.keys
          PROVE  <<k.by, k.key, k.n>> \in SpentOf(db) \cup {m[r] : r \in News}
      <3>1. CASE k \in db.keys
        BY <3>1 DEF SpentOf
      <3>2. CASE k.seq \in News
        <4>1. k.seq \in 1..Len(tx.rows)
          BY <1>3, <3>2 DEF News
        <4>2. m[k.seq] = <<k.by, k.key, k.n>>
          BY <1>1, <1>3, <4>1 DEF KeysNameRows
        <4> QED
          BY <3>2, <4>2
      <3> QED
        BY <1>1, <3>1, <3>2 DEF Within
    <2> QED
      BY <2>1 DEF SpentOf
  <1>7. CASE Len(tx.rows) = Len(db.rows)
    <2>1. News = {}
      BY <1>3, <1>7 DEF News
    <2>2. m = l
      <3>1. /\ m = [r \in 1..Len(tx.rows) |-> m[r]]
            /\ l = [r \in 1..Len(db.rows) |-> l[r]]
        <4> HIDE DEF l, m
        <4> QED
          BY <1>3
      <3> HIDE DEF l, m
      <3> QED
        BY <1>4, <1>7, <3>1
    <2> QED
      BY <1>2, <1>6, <2>1, <2>2, ForgetIs
  <1>8. CASE Len(tx.rows) > Len(db.rows)
    <2>1. \A r \in News : m[r] \notin SpentOf(db)
      <3>1. SUFFICES ASSUME NEW r \in News, NEW k \in db.keys, m[r] = <<k.by, k.key, k.n>>
                     PROVE  FALSE
        BY DEF SpentOf
      <3>2. k.by = By[f] /\ k.key = KeyOf[f] /\ k.n = tx.rows[r].n
        BY <1>5, <3>1
      <3>3. Keyed(f)
        BY <1>1, <3>2 DEF KeyedOnly, Keyed
      <3> QED
        BY <1>1, <3>2, <3>3 DEF Within
    <2>2. \A r, s \in News : r # s /\ ~(m[r][2] = NoKey) => m[r] # m[s]
      BY <1>1, <1>5 DEF Within
    <2>3. \A r \in News : m[r][2] = NoKey => m[r] \notin SpentOf(tx)
      <3>1. SUFFICES ASSUME NEW r \in News, NEW k \in tx.keys, m[r] = <<k.by, k.key, k.n>>,
                            m[r][2] = NoKey
                     PROVE  FALSE
        BY DEF SpentOf
      <3> QED
        BY <1>1, <3>1 DEF KeyedOnly
    <2>4. SubSeq(m, 1, Len(l)) = l
      <3> HIDE DEF l, m
      <3> QED
        BY <1>3, <1>4
    <2>5. News = (Len(l) + 1)..Len(m)
      BY <1>3 DEF News
    <2> HIDE DEF l, m
    <2>6. Performs(l, m, SpentOf(db), SpentOf(tx))
      BY <1>2, <1>3, <1>6, <1>8, <2>1, <2>2, <2>3, <2>4, <2>5 DEF Performs
    <2> QED
      BY <1>2, <2>6, PerformIs DEF l, m
  <1> QED
    BY <1>3, <1>7, <1>8

(* Every step of the core is one of the log's, or none.                    *)
LEMMA StepRefines ==
  ASSUME LogInv, [Next]_vars
  PROVE  [Log!Next]_Log!vars
  <1>1. /\ db \in Database /\ worker \in [Workers -> Work] /\ feed \in Seq(Nat) /\ boot \in Nat
        /\ Len(LogOf(db)) = Len(db.rows) /\ Len(db.rows) \in Nat /\ Len(feed) \in Nat
    <2>1. db \in Database /\ worker \in [Workers -> Work] /\ feed \in Seq(Nat) /\ boot \in Nat
      BY DEF LogInv, OrderInv, SpentInv, TypeInv, TypeOK
    <2>2. Len(LogOf(db)) = Len(db.rows) /\ Len(db.rows) \in Nat
      <3>1. db \in Database
        BY <2>1
      <3> QED
        BY <3>1, LogLength
    <2>3. Len(feed) \in Nat
      BY <2>1
    <2> QED
      BY <2>1, <2>2, <2>3
  <1>2. ASSUME UNCHANGED <<db, feed, boot>> PROVE UNCHANGED Log!vars
    BY Zenon, <1>2 DEF Log!vars
  <1>3. ASSUME NEW w \in Workers, Commit(w) PROVE Log!Next
    BY <1>3, CommitPerforms DEF LogInv, Log!Next
  <1>4. ASSUME NEW w \in Workers, Publish(w) PROVE Log!Next
    <2> DEFINE es == worker[w].events
    <2>1. /\ es # <<>> /\ feed' = Append(feed, Head(es)) /\ UNCHANGED <<db, boot>>
          /\ worker[w].pc = "publish" /\ ToTell(w)
      BY <1>4 DEF Publish, LogInv, OrderInv, FeedOK
    <2>2. es \in Seq(Nat)
      BY <1>1 DEF Work
    <2>3. /\ Len(db.rows) = boot + Len(feed) + Len(es)
          /\ \A k \in 1..Len(es) : es[k] = boot + Len(feed) + k
      BY <2>1 DEF ToTell
    <2> HIDE DEF es
    <2>4. Len(es) \in Nat \ {0} /\ Head(es) = es[1]
      BY <2>1, <2>2
    <2>5. Head(es) = boot + Len(feed) + 1 /\ boot + Len(feed) < Len(LogOf(db))
      BY <1>1, <2>3, <2>4
    <2> QED
      BY <2>1, <2>5, TellIs DEF Log!Next
  <1>5. CASE PruneKeys
    <2>1. /\ db'.rows = db.rows /\ db'.keys \subseteq db.keys /\ UNCHANGED <<feed, boot>>
      BY <1>1, <1>5 DEF PruneKeys, Database
    <2>2. LogOf(db') = LogOf(db) /\ SpentOf(db') \subseteq SpentOf(db)
      BY <2>1 DEF LogOf, SpentOf
    <2> QED
      BY <2>1, <2>2, ForgetIs DEF Log!Next
  <1>6. CASE Crash
    <2>1. feed' = <<>> /\ boot' = Len(LogOf(db)) /\ UNCHANGED db
      BY <1>1, <1>6 DEF Crash
    <2> QED
      BY <2>1, RestartIs DEF Log!Next
  <1>7. ASSUME NEW w \in Workers,
               \/ \E f \in Frames : Deliver(w, f)
               \/ Begin(w) \/ DoApply(w) \/ DoReplay(w) \/ Refuse(w) \/ EndPublish(w) \/ Reply(w)
        PROVE  UNCHANGED Log!vars
    BY <1>2, <1>7 DEF Deliver, Begin, DoApply, DoReplay, Refuse, EndPublish, Reply
  <1>8. CASE \/ \E s \in Subs : (\E p \in Watched : Subscribe(s, p)) \/ Take(s) \/ Unsubscribe(s)
             \/ Tick \/ UNCHANGED vars
    BY <1>2, <1>8 DEF Subscribe, Take, Unsubscribe, Tick, vars
  <1> QED
    BY <1>3, <1>4, <1>5, <1>6, <1>7, <1>8 DEF Next, WorkerStep

LEMMA InitRefines == Init => Log!Init
  BY DEF Init, Log!Init

(* Every behaviour of the core is one of the command log (ImplementsLog):  *)
(* a transaction is one step of it, in which nothing that is remembered is *)
(* performed again and nothing twice, and the bus tells the log in order   *)
(* and all of it before it grows.                                          *)
THEOREM CoreImplementsLog == Spec => ImplementsLog
  BY LogInit, LogStep, InitRefines, StepRefines, PTL DEF Spec, ImplementsLog, Log!Spec
-----------------------------------------------------------------------------
(* What subscribers hear.  A row that is there stays as it is.             *)
LEMMA RowsStay ==
  ASSUME LogInv, [Next]_vars
  PROVE  \A r \in 1..Len(db.rows) : db'.rows[r] = db.rows[r]
  <1>1. db \in Database /\ worker \in [Workers -> Work]
    BY DEF LogInv, OrderInv, SpentInv, TypeInv, TypeOK
  <1>2. ASSUME NEW w \in Workers, WorkerStep(w)
        PROVE  \A r \in 1..Len(db.rows) : db'.rows[r] = db.rows[r]
    <2>1. CASE Commit(w)
      BY <2>1 DEF Commit, LogInv, Within
    <2>2. CASE ~Commit(w)
      <3>1. db' = db
        BY <1>2, <2>2 DEF WorkerStep, Begin, DoApply, DoReplay, Refuse, Publish, EndPublish, Reply
      <3> QED
        BY <3>1
    <2> QED
      BY <2>1, <2>2
  <1>3. CASE PruneKeys
    <2>1. db'.rows = db.rows
      BY <1>1, <1>3 DEF PruneKeys, Database
    <2> QED
      BY <2>1
  <1>4. CASE ~PruneKeys /\ ~ \E w \in Workers : WorkerStep(w)
    <2>1. db' = db
      BY <1>4 DEF Next, Deliver, Subscribe, Take, Unsubscribe, Tick, Crash, vars
    <2> QED
      BY <2>1
  <1> QED
    BY <1>2, <1>3, <1>4

(* A list in order of some of the events due, and how many are missing.    *)
Counted(all, dropped, due) ==
  /\ all \in Seq(Nat) /\ dropped \in Nat
  /\ \A k \in 1..Len(all) : all[k] \in due
  /\ \A i, j \in 1..Len(all) : i < j => all[i] < all[j]
  /\ IsFiniteSet(due) /\ Len(all) + dropped = Cardinality(due)

LEMMA CountedGiven ==
  ASSUME NEW all, NEW dropped, NEW due, Counted(all, dropped, due),
         NEW e \in Nat, \A x \in due : x < e
  PROVE  /\ Counted(Append(all, e), dropped, due \cup {e})
         /\ Counted(all, dropped + 1, due \cup {e})
  <1>1. /\ all \in Seq(Nat) /\ Len(all) \in Nat /\ dropped \in Nat /\ IsFiniteSet(due)
        /\ Len(all) + dropped = Cardinality(due)
    BY DEF Counted
  <1>2. e \notin due
    OBVIOUS
  <1>3. IsFiniteSet(due \cup {e}) /\ Cardinality(due \cup {e}) = Cardinality(due) + 1
    BY <1>1, <1>2, FS_AddElement
  <1> DEFINE new == Append(all, e)
  <1>4. /\ new \in Seq(Nat) /\ Len(new) = Len(all) + 1 /\ new[Len(all) + 1] = e
        /\ \A k \in 1..Len(all) : new[k] = all[k]
    BY <1>1
  <1> HIDE DEF new
  <1>5. Len(new) + dropped = Cardinality(due \cup {e}) /\ Len(all) + (dropped + 1) = Cardinality(due \cup {e})
    BY <1>1, <1>3, <1>4
  <1>6. \A k \in 1..Len(new) : k \in 1..Len(all) \/ k = Len(all) + 1
    BY <1>1, <1>4
  <1>7. \A k \in 1..Len(new) : new[k] \in due \cup {e}
    BY <1>4, <1>6 DEF Counted
  <1>8. ASSUME NEW i \in 1..Len(new), NEW j \in 1..Len(new), i < j PROVE new[i] < new[j]
    <2>1. i \in 1..Len(all)
      BY <1>1, <1>4, <1>6, <1>8
    <2>2. CASE j \in 1..Len(all)
      BY <1>4, <1>8, <2>1, <2>2 DEF Counted
    <2>3. CASE j = Len(all) + 1
      BY <1>4, <2>1, <2>3 DEF Counted
    <2> QED
      BY <1>6, <2>2, <2>3
  <1> QED
    BY <1>1, <1>3, <1>4, <1>5, <1>7, <1>8 DEF Counted, new

(* Handing an event over changes nothing of what was given; queueing one   *)
(* puts it last.                                                           *)
IsList(s) == s \in Seq(Nat)

LEMMA HandedOver ==
  ASSUME NEW got, NEW q, IsList(got), IsList(q)
  PROVE  /\ q # <<>> => Append(got, Head(q)) \o Tail(q) = got \o q
         /\ \A e \in Nat : got \o Append(q, e) = Append(got \o q, e)
         /\ got \o q \in Seq(Nat)
  <1>0. got \in Seq(Nat) /\ q \in Seq(Nat)
    BY DEF IsList
  <1>1. got \o q \in Seq(Nat)
    BY <1>0, ConcatProperties
  <1>2. ASSUME NEW e \in Nat PROVE got \o Append(q, e) = Append(got \o q, e)
    <2>1. <<e>> \in Seq(Nat)
      OBVIOUS
    <2>2. Append(q, e) = q \o <<e>> /\ Append(got \o q, e) = (got \o q) \o <<e>>
      BY <1>0, <1>1, <1>2, AppendIsConcat
    <2>3. (got \o q) \o <<e>> = got \o (q \o <<e>>)
      BY <1>0, <2>1
    <2> QED
      BY <2>2, <2>3
  <1>3. ASSUME q # <<>> PROVE Append(got, Head(q)) \o Tail(q) = got \o q
    <2> DEFINE h == Head(q)
               t == Tail(q)
    <2>1. h \in Nat /\ t \in Seq(Nat) /\ <<h>> \in Seq(Nat) /\ Len(t) = Len(q) - 1 /\ Len(q) \in Nat /\ h = q[1]
          /\ \A i \in 1..Len(t) : t[i] = q[i + 1]
      BY <1>0, <1>3, HeadTailProperties
    <2> HIDE DEF h, t
    <2>2. <<h>> \o t = q
      <3> DEFINE r == <<h>> \o t
      <3>1. r \in Seq(Nat) /\ Len(r) = Len(q)
        BY <2>1, ConcatProperties
      <3>2. \A i \in 1..Len(q) : r[i] = q[i]
        BY <2>1
      <3> HIDE DEF r
      <3>3. r = q
        BY <1>0, <3>1, <3>2, SeqEqual
      <3> QED
        BY <3>3 DEF r
    <2>3. Append(got, h) = got \o <<h>>
      BY <1>0, <2>1, AppendIsConcat
    <2>4. (got \o <<h>>) \o t = got \o (<<h>> \o t)
      BY <1>0, <2>1
    <2> QED
      BY <2>2, <2>3, <2>4 DEF h, t
  <1> QED
    BY <1>1, <1>2, <1>3

Heard(s) == sub[s].open =>
  /\ sub[s].from <= Len(feed)
  /\ Counted(GivenTo(s), sub[s].dropped, Due(s))

HeardInv == LogInv /\ \A s \in Subs : Heard(s)

LEMMA FeedIs ==
  ASSUME LogInv
  PROVE  /\ feed \in Seq(Nat) /\ Len(feed) \in Nat /\ boot \in Nat /\ sub \in [Subs -> Subscription]
         /\ db.rows \in Seq(Row) /\ Len(db.rows) \in Nat /\ worker \in [Workers -> Work]
         /\ \A k \in 1..Len(feed) : feed[k] = boot + k /\ feed[k] \in 1..Len(db.rows)
  <1>1. /\ feed \in Seq(Nat) /\ Len(feed) \in Nat /\ boot \in Nat /\ sub \in [Subs -> Subscription]
        /\ db.rows \in Seq(Row) /\ Len(db.rows) \in Nat /\ worker \in [Workers -> Work]
    BY DEF LogInv, OrderInv, SpentInv, TypeInv, TypeOK, Database
  <1>2. boot + Len(feed) <= Len(db.rows) /\ \A k \in DOMAIN feed : feed[k] = boot + k
    BY OrderSaid DEF LogInv, PublishedInOrder
  <1> DEFINE l == Len(db.rows)
             m == Len(feed)
  <1>3. l \in Nat /\ m \in Nat /\ boot + m <= l /\ DOMAIN feed = 1..m
    BY <1>1, <1>2
  <1> HIDE DEF l, m
  <1>4. \A k \in 1..m : boot + k \in 1..l
    BY <1>1, <1>3
  <1> QED
    BY <1>1, <1>2, <1>3, <1>4 DEF l, m

LEMMA DueStays ==
  ASSUME LogInv, [Next]_vars, feed' = feed, NEW s \in Subs,
         sub'[s].prop = sub[s].prop, sub'[s].from = sub[s].from, sub[s].from \in Nat
  PROVE  Due(s)' = Due(s)
  <1>1. \A k \in sub[s].from + 1..Len(feed) : db'.rows[feed[k]] = db.rows[feed[k]]
    <2>1. Len(feed) \in Nat /\ \A k \in 1..Len(feed) : feed[k] \in 1..Len(db.rows)
      BY FeedIs
    <2>2. \A k \in sub[s].from + 1..Len(feed) : k \in 1..Len(feed)
      BY <2>1
    <2> QED
      BY <2>1, <2>2, RowsStay
  <1> QED
    BY <1>1 DEF Due, Wants

LEMMA HeardStays ==
  ASSUME HeardInv, [Next]_vars, UNCHANGED <<feed, sub>>, NEW s \in Subs
  PROVE  Heard(s)'
  <1>1. sub[s].from \in Nat
    BY FeedIs DEF HeardInv, Subscription
  <1>2. Due(s)' = Due(s)
    BY <1>1, DueStays DEF HeardInv
  <1> QED
    BY <1>2 DEF HeardInv, Heard, GivenTo

LEMMA HeardPublished ==
  ASSUME HeardInv, LogInv', [Next]_vars, NEW w \in Workers, Publish(w), NEW s \in Subs
  PROVE  Heard(s)'
  <1> DEFINE e == Head(worker[w].events)
  <1>1. /\ feed' = Append(feed, e) /\ sub' = [t \in Subs |-> Given(t, e)] /\ db' = db
        /\ worker[w].pc = "publish" /\ worker[w].events # <<>>
    BY DEF Publish
  <1>2. /\ feed \in Seq(Nat) /\ Len(feed) \in Nat /\ boot \in Nat /\ sub[s] \in Subscription
        /\ worker[w] \in Work
        /\ \A k \in 1..Len(feed) : feed[k] = boot + k
    BY FeedIs DEF HeardInv
  <1>3. e \in Nat /\ feed' \in Seq(Nat)
    BY <1>1, <1>2 DEF Work
  <1> HIDE DEF e
  <1>4. Len(feed') = Len(feed) + 1 /\ feed'[Len(feed) + 1] = e /\ \A k \in 1..Len(feed) : feed'[k] = feed[k]
    BY <1>1, <1>2, <1>3
  <1>5. e = boot + (Len(feed) + 1) /\ boot' = boot
    <2>1. LogInv' /\ boot' = boot
      BY DEF Publish
    <2>2. \A k \in 1..Len(feed') : feed'[k] = boot' + k
      BY <2>1 DEF LogInv, OrderInv, FeedOK
    <2> QED
      BY <1>2, <1>4, <2>1, <2>2
  <1>6. SUFFICES ASSUME sub'[s].open PROVE sub'[s].from <= Len(feed') /\ Counted(GivenTo(s)', sub'[s].dropped, Due(s)')
    BY DEF Heard
  <1>7. sub'[s] = Given(s, e)
    BY <1>1
  <1>8. sub[s].open /\ sub'[s].prop = sub[s].prop /\ sub'[s].from = sub[s].from
    BY <1>2, <1>6, <1>7 DEF Given, Subscription
  <1>9. sub[s].from \in Nat /\ sub[s].from <= Len(feed) /\ Counted(GivenTo(s), sub[s].dropped, Due(s))
    BY <1>2, <1>8 DEF HeardInv, Heard, Subscription
  <1>10. sub'[s].from <= Len(feed')
    BY <1>2, <1>4, <1>8, <1>9
  <1> DEFINE old == {feed[k] : k \in sub[s].from + 1..Len(feed)}
             new == {feed'[k] : k \in sub[s].from + 1..Len(feed')}
  <1>11. new = old \cup {e}
    <2> DEFINE a == sub[s].from + 1
               b == Len(feed)
    <2>1. a \in Nat /\ b \in Nat /\ a <= b + 1 /\ a >= 1 /\ Len(feed') = b + 1
      BY <1>2, <1>4, <1>9
    <2> HIDE DEF a, b
    <2>2. \A k \in a..b + 1 : k \in a..b \/ k = b + 1
      BY <2>1
    <2>3. b + 1 \in a..b + 1 /\ a..b \subseteq a..b + 1 /\ a..b \subseteq 1..b
      BY <2>1
    <2>4. {feed'[k] : k \in a..b + 1} = {feed[k] : k \in a..b} \cup {e}
      BY <1>4, <2>2, <2>3 DEF b
    <2> QED
      BY <2>1, <2>4 DEF a, b
  <1>12. \A x \in old : x < e
    <2>1. \A k \in sub[s].from + 1..Len(feed) : k \in 1..Len(feed)
      BY <1>2, <1>9
    <2>2. \A k \in 1..Len(feed) : feed[k] < e
      BY <1>2, <1>5
    <2> QED
      BY <2>1, <2>2
  <1>13. Due(s) = {x \in old : Wants(s, db.rows[x])} /\ Due(s)' = {x \in new : Wants(s, db.rows[x])}
    <2>1. \A x : Wants(s, db.rows[x])' <=> Wants(s, db.rows[x])
      BY <1>1, <1>8 DEF Wants
    <2> QED
      BY <1>8, <2>1 DEF Due
  <1> HIDE DEF old, new
  <1>14. \A x \in Due(s) : x < e
    BY <1>12, <1>13
  <1> DEFINE all == GivenTo(s)
             dropped == sub[s].dropped
             due == Due(s)
  <1>18. Counted(all, dropped, due) /\ \A x \in due : x < e
    BY <1>9, <1>14
  <1> HIDE DEF all, dropped, due
  <1>15. CASE ~Wants(s, db.rows[e])
    <2>1. Due(s)' = Due(s) /\ sub'[s] = sub[s]
      BY <1>7, <1>11, <1>13, <1>15 DEF Given
    <2> QED
      BY <1>9, <1>10, <2>1 DEF GivenTo
  <1>16. CASE Wants(s, db.rows[e]) /\ Len(sub[s].q) < BusBuffer
    <2>1. Due(s)' = Due(s) \cup {e} /\ sub'[s] = [sub[s] EXCEPT !.q = Append(@, e)]
      BY <1>7, <1>8, <1>11, <1>13, <1>16 DEF Given
    <2>2. sub'[s].q = Append(sub[s].q, e) /\ sub'[s].got = sub[s].got /\ sub'[s].dropped = sub[s].dropped
          /\ sub[s].q \in Seq(Nat) /\ sub[s].got \in Seq(Nat)
      BY <1>2, <2>1 DEF Subscription
    <2>3. GivenTo(s)' = Append(GivenTo(s), e)
      <3>1. IsList(sub[s].got) /\ IsList(sub[s].q)
        BY <2>2 DEF IsList
      <3>2. sub[s].got \o Append(sub[s].q, e) = Append(sub[s].got \o sub[s].q, e)
        BY <1>3, <3>1, HandedOver
      <3> QED
        BY <2>2, <3>2 DEF GivenTo
    <2>4. Counted(Append(all, e), dropped, due \cup {e})
      BY <1>3, <1>18, CountedGiven
    <2> QED
      BY <1>10, <2>1, <2>2, <2>3, <2>4 DEF all, dropped, due
  <1>17. CASE Wants(s, db.rows[e]) /\ ~(Len(sub[s].q) < BusBuffer)
    <2>1. Due(s)' = Due(s) \cup {e} /\ sub'[s] = [sub[s] EXCEPT !.dropped = @ + 1]
      BY <1>7, <1>8, <1>11, <1>13, <1>17 DEF Given
    <2>2. GivenTo(s)' = GivenTo(s) /\ sub'[s].dropped = sub[s].dropped + 1
      BY <1>2, <2>1 DEF GivenTo, Subscription
    <2>3. Counted(all, dropped + 1, due \cup {e})
      BY <1>3, <1>18, CountedGiven
    <2> QED
      BY <1>10, <2>1, <2>2, <2>3 DEF all, dropped, due
  <1> QED
    BY <1>15, <1>16, <1>17

LEMMA HeardStep == HeardInv /\ [Next]_vars => HeardInv'
  <1> SUFFICES ASSUME HeardInv, [Next]_vars, NEW s \in Subs PROVE Heard(s)'
    BY LogStep DEF HeardInv
  <1>1. LogInv'
    BY LogStep DEF HeardInv
  <1>2. sub \in [Subs -> Subscription]
    BY FeedIs DEF HeardInv
  <1>3. CASE UNCHANGED <<feed, sub>>
    BY <1>3, HeardStays
  <1>4. ASSUME NEW w \in Workers, Publish(w) PROVE Heard(s)'
    BY <1>1, <1>4, HeardPublished
  <1>5. CASE Crash
    BY <1>5 DEF Crash, Heard, Closed
  <1>6. ASSUME NEW t \in Subs, NEW p \in Watched, Subscribe(t, p) PROVE Heard(s)'
    <2>1. CASE s # t
      <3>1. sub'[s] = sub[s] /\ feed' = feed
        BY <1>2, <1>6, <2>1 DEF Subscribe
      <3>2. sub[s].from \in Nat
        BY <1>2 DEF Subscription
      <3>3. Due(s)' = Due(s)
        BY <3>1, <3>2, DueStays DEF HeardInv
      <3> QED
        BY <3>1, <3>3 DEF HeardInv, Heard, GivenTo
    <2>2. CASE s = t
      <3>1. sub'[s] = [Closed EXCEPT !.open = TRUE, !.prop = p, !.from = Len(feed)] /\ feed' = feed
        BY <1>2, <1>6, <2>2 DEF Subscribe
      <3>2. sub'[s].from = Len(feed) /\ sub'[s].q = <<>> /\ sub'[s].got = <<>> /\ sub'[s].dropped = 0
        BY <3>1 DEF Closed
      <3>3. Len(feed) \in Nat
        BY FeedIs DEF HeardInv
      <3>4. Due(s)' = {}
        BY <3>1, <3>2, <3>3 DEF Due
      <3>5. GivenTo(s)' = <<>> \o <<>> /\ <<>> \o <<>> = <<>>
        BY <3>2 DEF GivenTo
      <3>6. <<>> \in Seq(Nat) /\ Len(<<>>) = 0 /\ IsFiniteSet({}) /\ Cardinality({}) = 0
        BY FS_EmptySet
      <3>7. Counted(<<>>, 0, {})
        BY <3>6 DEF Counted
      <3>8. Counted(GivenTo(s)', sub'[s].dropped, Due(s)')
        BY <3>2, <3>4, <3>5, <3>7
      <3>9. sub'[s].from <= Len(feed')
        BY <3>1, <3>2, <3>3
      <3> QED
        BY <3>8, <3>9 DEF Heard
    <2> QED
      BY <2>1, <2>2
  <1>7. ASSUME NEW t \in Subs, Take(t) PROVE Heard(s)'
    <2>1. /\ sub' = [sub EXCEPT ![t].q = Tail(@), ![t].got = Append(@, Head(sub[t].q))]
          /\ feed' = feed /\ sub[t].q # <<>>
      BY <1>7 DEF Take
    <2>2. /\ sub'[s].open = sub[s].open /\ sub'[s].prop = sub[s].prop /\ sub'[s].from = sub[s].from
          /\ sub'[s].dropped = sub[s].dropped /\ sub[s].from \in Nat
          /\ sub[s].q \in Seq(Nat) /\ sub[s].got \in Seq(Nat)
      BY <1>2, <2>1 DEF Subscription
    <2>3. Due(s)' = Due(s)
      BY <2>1, <2>2, DueStays DEF HeardInv
    <2>4. GivenTo(s)' = GivenTo(s)
      <3>1. CASE s = t
        <4>1. sub'[s].q = Tail(sub[s].q) /\ sub'[s].got = Append(sub[s].got, Head(sub[s].q))
          BY <1>2, <2>1, <3>1 DEF Subscription
        <4>2. IsList(sub[s].got) /\ IsList(sub[s].q)
          BY <2>2, <3>1 DEF IsList
        <4>3. Append(sub[s].got, Head(sub[s].q)) \o Tail(sub[s].q) = sub[s].got \o sub[s].q
          BY <2>1, <3>1, <4>2, HandedOver
        <4> QED
          BY <4>1, <4>3 DEF GivenTo
      <3>2. CASE s # t
        BY <1>2, <2>1, <3>2 DEF GivenTo
      <3> QED
        BY <3>1, <3>2
    <2> QED
      BY <2>1, <2>2, <2>3, <2>4 DEF HeardInv, Heard
  <1>8. ASSUME NEW t \in Subs, Unsubscribe(t) PROVE Heard(s)'
    <2>1. CASE s # t
      <3>1. sub'[s] = sub[s] /\ feed' = feed
        BY <1>2, <1>8, <2>1 DEF Unsubscribe
      <3>2. sub[s].from \in Nat
        BY <1>2 DEF Subscription
      <3>3. Due(s)' = Due(s)
        BY <3>1, <3>2, DueStays DEF HeardInv
      <3> QED
        BY <3>1, <3>3 DEF HeardInv, Heard, GivenTo
    <2>2. CASE s = t
      BY <1>2, <1>8, <2>2 DEF Unsubscribe, Heard, Closed
    <2> QED
      BY <2>1, <2>2
  <1>9. ASSUME NEW w \in Workers, WorkerStep(w) PROVE Heard(s)'
    <2>1. CASE ~Publish(w)
      <3>1. UNCHANGED <<feed, sub>>
        BY <1>9, <2>1 DEF WorkerStep, Begin, DoApply, DoReplay, Refuse, Commit, EndPublish, Reply
      <3> QED
        BY <1>3, <3>1
    <2> QED
      BY <1>4, <2>1
  <1>10. CASE \/ \E w \in Workers, f \in Frames : Deliver(w, f)
              \/ PruneKeys \/ Tick \/ UNCHANGED vars
    <2>1. UNCHANGED <<feed, sub>>
      BY <1>10 DEF Deliver, PruneKeys, Tick, vars
    <2> QED
      BY <1>3, <2>1
  <1> QED
    BY <1>5, <1>6, <1>7, <1>8, <1>9, <1>10 DEF Next

(* What a subscriber is told is in log order, and it can count what it is  *)
(* not told (SubscribersTold, bus.go Publish): however far behind it is,   *)
(* whenever it subscribes, wherever the process dies.                      *)
THEOREM SubscribersAreTold == Spec => []SubscribersTold
  <1>1. Init => HeardInv
    BY LogInit DEF HeardInv, Heard, Init, Closed
  <1>2. HeardInv => SubscribersTold
    <2> SUFFICES ASSUME HeardInv, NEW s \in Subs, sub[s].open
                 PROVE  /\ sub[s].dropped = 0 => {GivenTo(s)[k] : k \in DOMAIN GivenTo(s)} = Due(s)
                        /\ \A i, j \in DOMAIN GivenTo(s) : i < j => GivenTo(s)[i] < GivenTo(s)[j]
                        /\ Len(GivenTo(s)) + sub[s].dropped = Cardinality(Due(s))
      BY DEF SubscribersTold, NoSilentGap, DropsCounted
    <2> DEFINE all == GivenTo(s)
               due == Due(s)
               dropped == sub[s].dropped
    <2>1. Counted(all, dropped, due)
      BY DEF HeardInv, Heard
    <2> HIDE DEF all, due, dropped
    <2>2. all \in Seq(Nat) /\ DOMAIN all = 1..Len(all) /\ Len(all) \in Nat /\ IsFiniteSet(due)
          /\ Len(all) + dropped = Cardinality(due) /\ \A i, j \in DOMAIN all : i < j => all[i] < all[j]
      BY <2>1 DEF Counted
    <2>3. ASSUME dropped = 0 PROVE {all[k] : k \in DOMAIN all} = due
      <3> DEFINE n == Len(all)
      <3>1. n \in Nat /\ n = Cardinality(due) /\ DOMAIN all = 1..n /\ all \in [1..n -> due]
        BY <2>1, <2>2, <2>3 DEF Counted
      <3>2. \A i \in 1..n : all[i] \in Nat
        BY <2>2
      <3>3. \A i, j \in 1..n : i < j => all[i] < all[j]
        BY <2>2
      <3> HIDE DEF n
      <3>4. \A i, j \in 1..n : all[i] = all[j] => i = j
        BY <3>1, <3>2, <3>3
      <3>5. all \in Injection(1..n, due)
        BY <3>1, <3>4 DEF Injection, IsInjective
      <3>6. IsFiniteSet(1..n) /\ Cardinality(1..n) = n
        BY <3>1, FS_Interval
      <3>7. all \in Surjection(1..n, due)
        BY <2>2, <3>1, <3>5, <3>6, FS_Injection
      <3>8. \A x \in due : \E k \in 1..n : all[k] = x
        BY <3>7 DEF Surjection
      <3> QED
        BY <3>1, <3>8
    <2> QED
      BY <2>2, <2>3 DEF all, due, dropped
  <1> QED
    BY <1>1, <1>2, HeardStep, PTL DEF Spec

-----------------------------------------------------------------------------
(* What a retry is answered with.  A client draws the key of a group for   *)
(* that group alone: no other frame of its actor has it.                   *)
GroupKeysOwn ==
  \A f, g \in Frames :
    Grouped[f] /\ g # f /\ Keyed(f) => By[g] # By[f] \/ KeyOf[g] # KeyOf[f]

(* A row is its frame's: of one of its steps, by its actor and under its   *)
(* key.  Alone a step has the number of its place; in a group only the     *)
(* first is sure to.                                                       *)
RowSays(a) ==
  /\ a.frame \in Frames /\ a.step \in 1..Len(Steps[a.frame]) /\ a.n \in Nat
  /\ a.by = By[a.frame] /\ a.key = KeyOf[a.frame]
  /\ ~Grouped[a.frame] => a.n = a.step
  /\ a.n = 1 => a.step = 1

RowsSay(d) == \A r \in 1..Len(d.rows) : RowSays(d.rows[r])

(* How many keys a worker has spent tells where it is.                     *)
Counts(x) ==
  /\ x.pc \in {"begin", "do"} => /\ x.spent = 0 <=> x.step = 1
                                 /\ ~Grouped[x.frame] => x.spent = x.step - 1
  /\ x.pc = "begin" /\ Grouped[x.frame] => x.step = 1
  /\ x.pc \in {"commit", "publish"} /\ ~Grouped[x.frame] => x.spent = x.step

(* One answer of a worker is a row of d of its own actor and key, and of   *)
(* the step it answers where callers read that.                            *)
AnswerFrom(x, a, d) ==
  LET r == a[2]
  IN  /\ r \in 1..Len(d.rows)
      /\ d.rows[r].by = By[x.frame] /\ d.rows[r].key = KeyOf[x.frame]
      /\ ~Grouped[x.frame] \/ a[1] = 1 => d.rows[r].step = a[1]

AnsweredFrom(x, d) == \A k \in 1..Len(x.answers) : AnswerFrom(x, x.answers[k], d)

(* The steps of f that d has, and that of no group it has only a part.     *)
Made(d, f) == {d.rows[r].step : r \in {q \in 1..Len(d.rows) : d.rows[q].frame = f}}

Groups(d) ==
  \A f \in Frames : Grouped[f] => Made(d, f) = {} \/ Made(d, f) = 1..Len(Steps[f])

(* The transaction t of x over d adds only its own frame's rows; a group   *)
(* that d has nothing of has made every step it came to, and has no key    *)
(* but those it spent.                                                     *)
Making(x, d, t) ==
  LET f == x.frame
  IN  /\ \A r \in Len(d.rows) + 1..Len(t.rows) : t.rows[r].frame = f
      /\ Grouped[f] /\ Made(d, f) = {} =>
           /\ Made(t, f) = IF x.pc = "do" THEN 1..x.step - 1 ELSE 1..Len(Steps[f])
           /\ Keyed(f) => \A k \in t.keys : k.by = By[f] /\ k.key = KeyOf[f] => k.n <= x.spent

WorkSays(x, d, t) ==
  /\ Counts(x)
  /\ x.pc \in {"do", "commit"} => AnsweredFrom(x, t) /\ Making(x, d, t)
  /\ x.pc \in {"begin", "publish", "reply"} => AnsweredFrom(x, d)

AnswerInv ==
  /\ LogInv /\ RowsSay(db) /\ RowsSay(tx) /\ Groups(db)
  /\ \A w \in Workers : WorkSays(worker[w], db, tx)

(* A database with more rows keeps what is said of the rows it had.        *)
Longer(d, e) ==
  /\ Len(d.rows) \in Nat /\ Len(e.rows) \in Nat /\ Len(d.rows) <= Len(e.rows)
  /\ \A r \in 1..Len(d.rows) : e.rows[r] = d.rows[r]

LEMMA AnsweredStays ==
  ASSUME NEW x, NEW y, NEW d, NEW e, AnsweredFrom(x, d), Longer(d, e),
         y.answers = x.answers, y.frame = x.frame
  PROVE  AnsweredFrom(y, e)
  <1>1. \A r \in 1..Len(d.rows) : r \in 1..Len(e.rows) /\ e.rows[r] = d.rows[r]
    BY DEF Longer
  <1>2. ASSUME NEW a, AnswerFrom(x, a, d) PROVE AnswerFrom(y, a, e)
    <2>1. a[2] \in 1..Len(e.rows) /\ e.rows[a[2]] = d.rows[a[2]]
      BY <1>1, <1>2 DEF AnswerFrom
    <2> QED
      BY <1>2, <2>1 DEF AnswerFrom
  <1> QED
    BY <1>2 DEF AnsweredFrom

LEMMA SaysElsewhere ==
  ASSUME NEW x, NEW d, NEW t, NEW e, NEW u, WorkSays(x, d, t), Longer(d, e),
         x.pc \notin {"do", "commit"}
  PROVE  WorkSays(x, e, u)
  <1>1. AnsweredFrom(x, d) => AnsweredFrom(x, e)
    BY AnsweredStays
  <1> QED
    BY <1>1 DEF WorkSays

(* A step of w keeps the rest, which is not in a transaction where the     *)
(* databases change.                                                       *)
LEMMA AnswerMoves ==
  ASSUME AnswerInv, LogInv', RowsSay(db'), RowsSay(tx'), Groups(db'), NEW w \in Workers,
         \A v \in Workers \ {w} : worker'[v] = worker[v],
         WorkSays(worker'[w], db', tx'),
         \/ UNCHANGED <<db, tx>>
         \/ Longer(db, db') /\ \A v \in Workers \ {w} : worker[v].pc \notin {"do", "commit"}
  PROVE  AnswerInv'
  <1>1. ASSUME NEW v \in Workers PROVE WorkSays(worker'[v], db', tx')
    <2>1. CASE v = w
      BY <2>1
    <2>2. CASE v # w
      <3>1. worker'[v] = worker[v] /\ WorkSays(worker[v], db, tx)
        BY <2>2 DEF AnswerInv
      <3>2. CASE UNCHANGED <<db, tx>>
        BY <3>1, <3>2
      <3>3. CASE Longer(db, db') /\ worker[v].pc \notin {"do", "commit"}
        BY <3>1, <3>3, SaysElsewhere
      <3> QED
        BY <2>2, <3>2, <3>3
    <2> QED
      BY <2>1, <2>2
  <1> QED
    BY <1>1 DEF AnswerInv

(* What is there, at any time.                                             *)
LEMMA AnswerTypes ==
  ASSUME LogInv
  PROVE  /\ worker \in [Workers -> Work] /\ db \in Database /\ tx \in Database
         /\ Len(db.rows) \in Nat /\ Len(tx.rows) \in Nat /\ now \in Nat
         /\ TypeInv /\ KeysNameRows(db) /\ KeysNameRows(tx)
         /\ \A w \in Workers : worker[w].pc # "idle" =>
              worker[w].frame \in Frames /\ worker[w].step \in 1..Len(Steps[worker[w].frame])
         /\ \A w \in Workers : worker[w].pc \in {"do", "commit"} => lock = w /\ Within(w)
         /\ lock = None => tx = db
         /\ None \notin Workers
  <1>1. /\ TypeInv /\ LockOK /\ None \notin Workers
        /\ \A w \in Workers : worker[w].pc \in {"do", "commit"} => Within(w)
    BY CommandsAssumption DEF LogInv, OrderInv, SpentInv
  <1>2. /\ worker \in [Workers -> Work] /\ db \in Database /\ tx \in Database /\ now \in Nat
        /\ KeysNameRows(db) /\ KeysNameRows(tx) /\ WorkOK
    BY <1>1 DEF TypeInv, TypeOK
  <1>3. Len(db.rows) \in Nat /\ Len(tx.rows) \in Nat
    BY <1>2 DEF Database
  <1> QED
    BY <1>1, <1>2, <1>3 DEF WorkOK, LockOK

LEMMA AnswerBegins ==
  ASSUME GroupKeysOwn, AnswerInv, LogInv', NEW w \in Workers, Begin(w)
  PROVE  AnswerInv'
  <1> DEFINE x == worker[w]
             f == x.frame
             y == worker'[w]
  <1>1. /\ LogInv /\ RowsSay(db) /\ Groups(db) /\ WorkSays(x, db, tx)
        /\ x.pc = "begin" /\ x \in Work /\ f \in Frames /\ db' = db /\ tx' = db /\ tx = db
        /\ KeysNameRows(db)
    BY AnswerTypes DEF AnswerInv, Begin
  <1>2. /\ y = [x EXCEPT !.pc = "do"] /\ \A v \in Workers \ {w} : worker'[v] = worker[v]
    BY <1>1, AnswerTypes DEF Begin
  <1>3. y.pc = "do" /\ y.step = x.step /\ y.spent = x.spent /\ y.frame = f /\ y.answers = x.answers
    BY <1>1, <1>2 DEF Work
  <1>4. Counts(x) /\ AnsweredFrom(x, db)
    BY <1>1 DEF WorkSays
  <1>5. Len(db.rows) \in Nat
    BY <1>1, AnswerTypes
  <1> HIDE DEF x, y, f
  <1>6. Counts(y)
    BY <1>1, <1>3, <1>4 DEF Counts, f
  <1>7. AnsweredFrom(y, db)
    BY <1>3, <1>4 DEF AnsweredFrom, AnswerFrom, f
  <1>8. Making(y, db, db)
    <2>1. \A r \in Len(db.rows) + 1..Len(db.rows) : FALSE
      BY <1>5
    <2>2. ASSUME Grouped[f], Made(db, f) = {}
          PROVE  Made(db, f) = 1..y.step - 1
      <3>1. y.step = 1
        BY <1>1, <1>3, <1>4, <2>2 DEF Counts, f
      <3>2. 1..1 - 1 = {}
        OBVIOUS
      <3> QED
        BY <2>2, <3>1, <3>2
    <2>3. ASSUME Grouped[f], Made(db, f) = {}, Keyed(f), NEW k \in db.keys, k.by = By[f], k.key = KeyOf[f]
          PROVE  FALSE
      <3>1. k.seq \in 1..Len(db.rows) /\ db.rows[k.seq].by = By[f] /\ db.rows[k.seq].key = KeyOf[f]
        BY <1>1, <2>3 DEF KeysNameRows
      <3>2. /\ db.rows[k.seq].frame \in Frames
            /\ By[db.rows[k.seq].frame] = By[f] /\ KeyOf[db.rows[k.seq].frame] = KeyOf[f]
        BY <1>1, <3>1 DEF RowsSay, RowSays
      <3>3. db.rows[k.seq].frame = f
        BY <1>1, <2>3, <3>2 DEF GroupKeysOwn
      <3> QED
        BY <2>3, <3>1, <3>3 DEF Made
    <2> QED
      BY <1>3, <2>1, <2>2, <2>3 DEF Making
  <1>9. WorkSays(y, db, db)
    BY <1>3, <1>6, <1>7, <1>8 DEF WorkSays
  <1> QED
    BY <1>1, <1>2, <1>9, AnswerMoves DEF y

(* One answer more, of a row that is there.                                *)
LEMMA AnsweredMore ==
  ASSUME NEW x, NEW y, NEW d, NEW a, AnsweredFrom(x, d), x.answers \in Seq(Nat \X Nat),
         a \in Nat \X Nat, y.answers = Append(x.answers, a), y.frame = x.frame,
         AnswerFrom(x, a, d)
  PROVE  AnsweredFrom(y, d)
  <1>1. /\ Len(y.answers) = Len(x.answers) + 1 /\ y.answers[Len(x.answers) + 1] = a
        /\ \A k \in 1..Len(x.answers) : y.answers[k] = x.answers[k]
        /\ Len(x.answers) \in Nat
    OBVIOUS
  <1>2. ASSUME NEW k \in 1..Len(y.answers) PROVE AnswerFrom(x, y.answers[k], d)
    <2>1. k \in 1..Len(x.answers) \/ k = Len(x.answers) + 1
      BY <1>1
    <2> QED
      BY <1>1, <2>1 DEF AnsweredFrom
  <1>3. \A b : AnswerFrom(x, b, d) <=> AnswerFrom(y, b, d)
    BY DEF AnswerFrom
  <1> QED
    BY <1>2, <1>3 DEF AnsweredFrom

(* One row more.                                                           *)
LEMMA RowsMore ==
  ASSUME NEW d, NEW e, NEW f, NEW i, Longer(d, e), Len(e.rows) = Len(d.rows) + 1,
         e.rows[Len(e.rows)].frame = f, e.rows[Len(e.rows)].step = i
  PROVE  /\ Made(e, f) = Made(d, f) \cup {i}
         /\ RowsSay(d) /\ RowSays(e.rows[Len(e.rows)]) => RowsSay(e)
  <1> DEFINE l == Len(d.rows)
  <1>1. /\ l \in Nat /\ Len(e.rows) = l + 1 /\ \A r \in 1..l : e.rows[r] = d.rows[r]
        /\ e.rows[l + 1].frame = f /\ e.rows[l + 1].step = i
    BY DEF Longer
  <1> HIDE DEF l
  <1>2. \A r \in 1..l + 1 : r \in 1..l \/ r = l + 1
    BY <1>1
  <1>3. l + 1 \in 1..l + 1 /\ 1..l \subseteq 1..l + 1
    BY <1>1
  <1>4. Made(e, f) = {e.rows[r].step : r \in {q \in 1..l + 1 : e.rows[q].frame = f}}
    BY <1>1 DEF Made
  <1>5. Made(d, f) = {d.rows[r].step : r \in {q \in 1..l : d.rows[q].frame = f}}
    BY DEF Made, l
  <1>6. Made(e, f) = Made(d, f) \cup {i}
    BY <1>1, <1>2, <1>3, <1>4, <1>5
  <1>7. ASSUME RowsSay(d), RowSays(e.rows[Len(e.rows)]) PROVE RowsSay(e)
    BY <1>1, <1>2, <1>7 DEF RowsSay, l
  <1> QED
    BY <1>6, <1>7

(* What the row of a step says.                                            *)
LEMMA ApplyRow ==
  ASSUME NEW d \in Database, NEW f \in Frames, NEW i \in 1..Len(Steps[f]),
         NEW n \in Nat, NEW p \in Nat, NEW t \in Nat, NEW new, new = Apply(d, f, i, n, p, t)
  PROVE  /\ Longer(d, new) /\ Len(new.rows) = Len(d.rows) + 1
         /\ new.rows[Len(new.rows)].frame = f /\ new.rows[Len(new.rows)].step = i
  <1>1. /\ Len(new.rows) = Len(d.rows) + 1 /\ \A r \in 1..Len(d.rows) : new.rows[r] = d.rows[r]
    BY ApplyType
  <1>2. d.rows \in Seq(Row) /\ Len(d.rows) \in Nat
    BY DEF Database
  <1>3. new.rows[Len(d.rows) + 1].frame = f /\ new.rows[Len(d.rows) + 1].step = i
    BY <1>2 DEF Apply
  <1> QED
    BY <1>1, <1>2, <1>3 DEF Longer

LEMMA AnswerApplies ==
  ASSUME AnswerInv, LogInv', NEW w \in Workers, DoApply(w)
  PROVE  AnswerInv'
  <1> DEFINE x == worker[w]
             f == x.frame
             i == x.step
             n == Spend(w)
             p == Named(w)
             y == worker'[w]
             seq == Len(tx'.rows)
  <1>1. /\ LogInv /\ RowsSay(db) /\ RowsSay(tx) /\ Groups(db) /\ WorkSays(x, db, tx)
        /\ x.pc = "do" /\ x \in Work /\ f \in Frames /\ i \in 1..Len(Steps[f]) /\ i \in Nat
        /\ db' = db /\ tx \in Database /\ db \in Database /\ now \in Nat
        /\ Len(db.rows) \in Nat /\ Len(tx.rows) \in Nat
    <2>1. /\ LogInv /\ RowsSay(db) /\ RowsSay(tx) /\ Groups(db) /\ WorkSays(x, db, tx)
      BY DEF AnswerInv
    <2>2. x.pc = "do" /\ db' = db
      BY DEF DoApply
    <2> QED
      BY <2>1, <2>2, AnswerTypes
  <1>2. n \in Nat /\ n = x.spent + 1 /\ x.spent \in Nat /\ p \in Nat /\ x.answers \in Seq(Nat \X Nat)
    BY <1>1, AnswerTypes, NamedType DEF Spend, Work
  <1>3. /\ tx' = Apply(tx, f, i, n, p, now)
        /\ \A v \in Workers \ {w} : worker'[v] = worker[v] /\ worker[v].pc \notin {"do", "commit"}
    BY <1>1, AnswerTypes DEF DoApply
  <1>4. /\ y.pc = After(w, i) /\ y.spent = n /\ y.frame = f
        /\ y.step = IF After(w, i) = "do" THEN i + 1 ELSE i
        /\ y.answers = Append(x.answers, <<i, seq>>)
    BY <1>1, AnswerTypes DEF DoApply, Work
  <1>5. y.pc = IF Grouped[f] /\ i < Len(Steps[f]) THEN "do" ELSE "commit"
    BY <1>4 DEF After
  <1>6. y.step = IF y.pc = "do" THEN i + 1 ELSE i
    BY <1>4
  <1>7. Len(Steps[f]) \in Nat
    BY <1>1, StepType
  <1> HIDE DEF x, n, p, y, f, i
  <1>8. /\ Longer(tx, tx') /\ seq = Len(tx.rows) + 1
        /\ tx'.rows[seq].frame = f /\ tx'.rows[seq].step = i
    <2>1. tx \in Database /\ f \in Frames /\ i \in 1..Len(Steps[f]) /\ now \in Nat
      BY <1>1
    <2>2. n \in Nat /\ p \in Nat /\ tx' = Apply(tx, f, i, n, p, now)
      BY <1>2, <1>3
    <2> QED
      BY <2>1, <2>2, ApplyRow
  <1>9. /\ tx'.rows[seq].by = By[f] /\ tx'.rows[seq].key = KeyOf[f] /\ tx'.rows[seq].n = n
        /\ \A k \in tx'.keys : k \in tx.keys \/ k.seq = seq
    <2>1. tx \in Database /\ f \in Frames /\ i \in 1..Len(Steps[f]) /\ now \in Nat
      BY <1>1
    <2>2. n \in Nat /\ p \in Nat /\ tx' = Apply(tx, f, i, n, p, now)
      BY <1>2, <1>3
    <2>3. /\ tx'.rows[Len(tx'.rows)].by = By[f] /\ tx'.rows[Len(tx'.rows)].key = KeyOf[f]
          /\ tx'.rows[Len(tx'.rows)].n = n
          /\ \A k \in tx'.keys :
               k \in tx.keys \/ (k.seq = Len(tx'.rows) /\ k.key = KeyOf[f] /\ Keyed(f))
          /\ Steps[f][i].eff # "delete" => tx.keys \subseteq tx'.keys
      BY <2>1, <2>2, ApplyAdds
    <2> QED
      BY <2>3
  <1> HIDE DEF seq
  <1>10. seq \in Nat /\ seq \in 1..Len(tx'.rows) /\ Longer(db, tx')
    <2>1. Len(db.rows) <= Len(tx.rows) /\ \A r \in 1..Len(db.rows) : tx.rows[r] = db.rows[r]
      BY <1>1, AnswerTypes DEF Within, x
    <2>2. \A r \in 1..Len(db.rows) : r \in 1..Len(tx.rows)
      BY <1>1, <2>1
    <2> QED
      BY <1>1, <1>8, <2>1, <2>2 DEF Longer, seq
  <1>11. Counts(x) /\ AnsweredFrom(x, tx) /\ Making(x, db, tx)
    BY <1>1 DEF WorkSays
  <1>12. (x.spent = 0 <=> i = 1) /\ (~Grouped[f] => x.spent = i - 1)
    BY <1>1, <1>11 DEF Counts, f, i
  <1>13. RowsSay(tx')
    <2>1. RowSays(tx'.rows[seq])
      BY <1>1, <1>2, <1>8, <1>9, <1>12 DEF RowSays
    <2>2. Len(tx'.rows) = Len(tx.rows) + 1 /\ seq = Len(tx'.rows)
      BY <1>8 DEF seq
    <2> QED
      BY <1>1, <1>8, <2>1, <2>2, RowsMore
  <1>14. Counts(y)
    BY <1>1, <1>2, <1>4, <1>5, <1>6, <1>12 DEF Counts
  <1>15. AnsweredFrom(y, tx')
    <2>1. AnsweredFrom(x, tx')
      BY <1>8, <1>11, AnsweredStays
    <2> DEFINE a == <<i, seq>>
    <2>2. a \in Nat \X Nat /\ a[1] = i /\ a[2] = seq
      BY <1>1, <1>10
    <2> HIDE DEF a
    <2>3. AnswerFrom(x, a, tx')
      BY <1>8, <1>9, <1>10, <2>2 DEF AnswerFrom, f
    <2>4. y.answers = Append(x.answers, a) /\ y.frame = x.frame
      BY <1>4 DEF a, f
    <2> QED
      BY <1>2, <2>1, <2>2, <2>3, <2>4, AnsweredMore
  <1>19. KeysNameRows(tx')
    BY DEF LogInv, OrderInv, SpentInv, TypeInv
  <1>16. Making(y, db, tx')
    <2>1. ASSUME NEW r \in Len(db.rows) + 1..Len(tx'.rows) PROVE tx'.rows[r].frame = f
      <3>1. CASE r = seq
        BY <1>8, <3>1
      <3>2. CASE r # seq
        <4>1. r \in Len(db.rows) + 1..Len(tx.rows) /\ r \in 1..Len(tx.rows)
          BY <1>1, <1>8, <3>2 DEF seq
        <4> QED
          BY <1>8, <1>11, <4>1 DEF Longer, Making, f
      <3> QED
        BY <3>1, <3>2
    <2>2. ASSUME Grouped[f], Made(db, f) = {}
          PROVE  /\ Made(tx', f) = IF y.pc = "do" THEN 1..y.step - 1 ELSE 1..Len(Steps[f])
                 /\ Keyed(f) => \A k \in tx'.keys : k.by = By[f] /\ k.key = KeyOf[f] => k.n <= n
      <3>1. /\ Made(tx, f) = 1..i - 1
            /\ Keyed(f) => \A k \in tx.keys : k.by = By[f] /\ k.key = KeyOf[f] => k.n <= x.spent
        BY <1>1, <1>11, <2>2 DEF Making, f, i
      <3>2. Made(tx', f) = Made(tx, f) \cup {i}
        BY <1>8, RowsMore DEF seq
      <3>3. (1..i - 1) \cup {i} = 1..i
        BY <1>1
      <3>4. Made(tx', f) = 1..i
        BY <3>1, <3>2, <3>3
      <3>5. IF y.pc = "do" THEN y.step - 1 = i ELSE i = Len(Steps[f])
        BY <1>1, <1>5, <1>6, <1>7, <2>2
      <3>6. ASSUME Keyed(f), NEW k \in tx'.keys, k.by = By[f], k.key = KeyOf[f] PROVE k.n <= n
        <4>1. CASE k \in tx.keys
          <5>1. k.n <= x.spent /\ k.n \in Nat
            BY <1>1, <3>1, <3>6, <4>1 DEF Database, Key
          <5> QED
            BY <1>2, <5>1
        <4>2. CASE k.seq = seq
          <5>1. k.n = n
            BY <1>9, <1>19, <3>6, <4>2 DEF KeysNameRows
          <5> QED
            BY <1>2, <5>1
        <4> QED
          BY <1>9, <4>1, <4>2
      <3> QED
        BY <3>4, <3>5, <3>6
    <2> QED
      BY <1>4, <2>1, <2>2 DEF Making
  <1>17. WorkSays(y, db', tx')
    BY <1>1, <1>5, <1>14, <1>15, <1>16 DEF WorkSays
  <1>18. Longer(db, db')
    BY <1>1 DEF Longer
  <1> QED
    BY <1>1, <1>3, <1>13, <1>17, <1>18, AnswerMoves DEF y

(* A replay finds what the step it replays made, where callers read that;  *)
(* and a group that has committed nothing finds nothing.                   *)
LEMMA Replayed ==
  ASSUME GroupKeysOwn, AnswerInv, NEW w \in Workers, worker[w].pc = "do",
         Keyed(worker[w].frame),
         NEW seq \in Originals(tx, worker[w].frame, Spend(w))
  PROVE  /\ seq \in Nat /\ AnswerFrom(worker[w], <<worker[w].step, seq>>, tx)
         /\ Grouped[worker[w].frame] => Made(db, worker[w].frame) # {}
  <1> DEFINE x == worker[w]
             f == x.frame
             i == x.step
             n == Spend(w)
             a == tx.rows[seq]
  <1>1. /\ LogInv /\ RowsSay(tx) /\ x.pc = "do" /\ x \in Work /\ f \in Frames /\ i \in Nat
        /\ Counts(x) /\ Making(x, db, tx) /\ KeysNameRows(tx) /\ tx \in Database
    BY AnswerTypes DEF AnswerInv, WorkSays
  <1>2. n = x.spent + 1 /\ x.spent \in Nat /\ n \in Nat
    BY <1>1 DEF Spend, Work
  <1>3. PICK k \in tx.keys : k.by = By[f] /\ k.key = KeyOf[f] /\ k.n = n /\ k.seq = seq
    BY DEF Originals
  <1> HIDE DEF x, f, i, n, a
  <1>4. seq \in 1..Len(tx.rows) /\ a.by = By[f] /\ a.key = KeyOf[f] /\ a.n = n
    BY <1>1, <1>3 DEF KeysNameRows, a
  <1>5. RowSays(a)
    BY <1>1, <1>4 DEF RowsSay, a
  <1>6. (x.spent = 0 <=> i = 1) /\ (~Grouped[f] => x.spent = i - 1)
    BY <1>1 DEF Counts, f, i
  <1>7. ASSUME ~Grouped[f] \/ i = 1 PROVE a.step = i
    <2>1. CASE i = 1
      BY <1>2, <1>4, <1>5, <1>6, <2>1 DEF RowSays
    <2>2. CASE ~Grouped[f]
      <3>1. n = i
        BY <1>1, <1>2, <1>6, <2>2
      <3>2. a.frame \in Frames /\ By[a.frame] = By[f] /\ KeyOf[a.frame] = KeyOf[f]
        BY <1>4, <1>5 DEF RowSays
      <3>3. Keyed(a.frame)
        BY <3>2 DEF Keyed, f, x
      <3>4. ~Grouped[a.frame]
        BY <1>1, <2>2, <3>2, <3>3 DEF GroupKeysOwn
      <3> QED
        BY <1>4, <1>5, <3>1, <3>4 DEF RowSays
    <2> QED
      BY <1>7, <2>1, <2>2
  <1>8. AnswerFrom(x, <<i, seq>>, tx)
    BY <1>4, <1>7 DEF AnswerFrom, a, f
  <1>9. ASSUME Grouped[f], Made(db, f) = {} PROVE FALSE
    <2>1. k.n <= x.spent
      BY <1>1, <1>3, <1>9 DEF Making, f, x
    <2> QED
      BY <1>2, <1>3, <2>1
  <1> QED
    BY <1>1, <1>4, <1>8, <1>9, AnswerTypes DEF x, f, i

LEMMA AnswerReplays ==
  ASSUME GroupKeysOwn, AnswerInv, LogInv', NEW w \in Workers, DoReplay(w)
  PROVE  AnswerInv'
  <1> DEFINE x == worker[w]
             f == x.frame
             i == x.step
             n == Spend(w)
             y == worker'[w]
             hit(seq, pc, j) ==
               worker' = [worker EXCEPT
                 ![w].pc = pc, ![w].step = j, ![w].spent = n,
                 ![w].target = IF @ = 0 THEN tx.rows[seq].filed ELSE @,
                 ![w].answers = Append(@, <<i, seq>>)]
  <1>1. /\ LogInv /\ RowsSay(db) /\ RowsSay(tx) /\ Groups(db) /\ WorkSays(x, db, tx)
        /\ x.pc = "do" /\ x \in Work /\ f \in Frames /\ i \in 1..Len(Steps[f]) /\ i \in Nat
        /\ db' = db /\ worker \in [Workers -> Work] /\ Keyed(f)
        /\ Len(db.rows) \in Nat /\ Within(w)
    <2>1. x.pc = "do" /\ db' = db /\ Keyed(f)
      BY DEF DoReplay
    <2>2. LogInv /\ RowsSay(db) /\ RowsSay(tx) /\ Groups(db) /\ WorkSays(x, db, tx)
      BY DEF AnswerInv
    <2> QED
      BY <2>1, <2>2, AnswerTypes
  <1>2. n \in Nat /\ n = x.spent + 1 /\ x.spent \in Nat /\ x.answers \in Seq(Nat \X Nat)
    BY <1>1 DEF Spend, Work
  <1>3. PICK seq \in Originals(tx, f, n) :
          \/ /\ Grouped[f]
             /\ \/ \E j \in (i + 1)..Len(Steps[f]) : hit(seq, "do", j)
                \/ hit(seq, "commit", i)
             /\ UNCHANGED <<lock, tx>>
          \/ /\ ~Grouped[f]
             /\ IF i < Len(Steps[f]) THEN hit(seq, "begin", i + 1) ELSE hit(seq, "reply", i)
             /\ lock' = None /\ tx' = db
    BY DEF DoReplay
  <1>4. ASSUME NEW pc, NEW j, hit(seq, pc, j)
        PROVE  /\ y.pc = pc /\ y.step = j /\ y.spent = n /\ y.frame = f
               /\ y.answers = Append(x.answers, <<i, seq>>)
               /\ \A v \in Workers \ {w} : worker'[v] = worker[v]
    BY <1>1, <1>4 DEF Work
  <1> HIDE DEF hit
  <1>5. PICK pc, j : hit(seq, pc, j)
    BY <1>3
  <1>6. /\ y.spent = n /\ y.frame = f /\ y.answers = Append(x.answers, <<i, seq>>)
        /\ \A v \in Workers \ {w} : worker'[v] = worker[v]
    BY <1>4, <1>5
  <1>7. \/ /\ Grouped[f] /\ tx' = tx
           /\ (y.pc = "do" /\ y.step \in Nat /\ y.step >= i + 1) \/ y.pc = "commit"
        \/ /\ ~Grouped[f] /\ tx' = db
           /\ (y.pc = "begin" /\ y.step = i + 1) \/ y.pc = "reply"
    <2>1. CASE \E j1 \in (i + 1)..Len(Steps[f]) : hit(seq, "do", j1) /\ Grouped[f] /\ tx' = tx
      <3>1. PICK j1 \in (i + 1)..Len(Steps[f]) : hit(seq, "do", j1)
        BY <2>1
      <3>2. y.pc = "do" /\ y.step = j1
        BY <1>4, <3>1
      <3> QED
        BY <1>1, <2>1, <3>2
    <2>2. CASE hit(seq, "commit", i) /\ Grouped[f] /\ tx' = tx
      BY <1>4, <2>2
    <2>3. CASE hit(seq, "begin", i + 1) /\ ~Grouped[f] /\ tx' = db
      BY <1>4, <2>3
    <2>4. CASE hit(seq, "reply", i) /\ ~Grouped[f] /\ tx' = db
      BY <1>4, <2>4
    <2> QED
      BY <1>3, <2>1, <2>2, <2>3, <2>4
  <1>8. tx' = tx
    BY <1>1, <1>7 DEF Within
  <1>9. seq \in Nat /\ AnswerFrom(x, <<i, seq>>, tx) /\ (Grouped[f] => Made(db, f) # {})
    BY <1>1, <1>3, Replayed
  <1>10. Counts(x) /\ AnsweredFrom(x, tx) /\ Making(x, db, tx)
    BY <1>1 DEF WorkSays
  <1>11. \A v \in Workers \ {w} : worker[v].pc \notin {"do", "commit"}
    BY <1>1, AnswerTypes
  <1> HIDE DEF x, n, y, f, i
  <1>12. (x.spent = 0 <=> i = 1) /\ (~Grouped[f] => x.spent = i - 1)
    BY <1>1, <1>10 DEF Counts, f, i
  <1>13. AnsweredFrom(y, tx)
    <2> DEFINE a == <<i, seq>>
    <2>1. a \in Nat \X Nat
      BY <1>1, <1>9
    <2>2. AnswerFrom(x, a, tx) /\ y.answers = Append(x.answers, a) /\ y.frame = x.frame
      BY <1>6, <1>9 DEF f
    <2> HIDE DEF a
    <2> QED
      BY <1>2, <1>10, <2>1, <2>2, AnsweredMore
  <1>14. Counts(y)
    <2>1. CASE Grouped[f]
      BY <1>1, <1>2, <1>6, <1>7, <2>1 DEF Counts
    <2>2. CASE ~Grouped[f]
      BY <1>1, <1>2, <1>6, <1>7, <1>12, <2>2 DEF Counts
    <2> QED
      BY <2>1, <2>2
  <1>15. Grouped[f] => Making(y, db, tx)
    BY <1>6, <1>9, <1>10 DEF Making, f
  <1>16. ~Grouped[f] => AnsweredFrom(y, db)
    BY <1>7, <1>8, <1>13
  <1>17. WorkSays(y, db', tx')
    BY <1>1, <1>7, <1>8, <1>13, <1>14, <1>15, <1>16 DEF WorkSays
  <1> QED
    BY <1>1, <1>6, <1>8, <1>17, AnswerMoves DEF y

(* What is committed of a group is all of it.                              *)
LEMMA AnswerCommits ==
  ASSUME AnswerInv, LogInv', NEW w \in Workers, Commit(w)
  PROVE  AnswerInv'
  <1> DEFINE x == worker[w]
             f == x.frame
             y == worker'[w]
  <1>1. /\ LogInv /\ RowsSay(db) /\ RowsSay(tx) /\ Groups(db) /\ WorkSays(x, db, tx)
        /\ x.pc = "commit" /\ x \in Work /\ f \in Frames /\ db' = tx /\ tx' = tx
        /\ Len(db.rows) \in Nat /\ Len(tx.rows) \in Nat /\ Within(w)
    <2>1. x.pc = "commit" /\ db' = tx /\ tx' = tx
      BY DEF Commit
    <2>2. LogInv /\ RowsSay(db) /\ RowsSay(tx) /\ Groups(db) /\ WorkSays(x, db, tx)
      BY DEF AnswerInv
    <2> QED
      BY <2>1, <2>2, AnswerTypes
  <1>2. /\ y = [x EXCEPT !.pc = "publish"]
        /\ \A v \in Workers \ {w} : worker'[v] = worker[v] /\ worker[v].pc \notin {"do", "commit"}
    BY <1>1, AnswerTypes DEF Commit
  <1>3. /\ y.pc = "publish" /\ y.spent = x.spent /\ y.step = x.step /\ y.frame = f
        /\ y.answers = x.answers
    BY <1>1, <1>2 DEF Work
  <1>4. Longer(db, tx) /\ Longer(tx, tx)
    BY <1>1 DEF Within, Longer
  <1> HIDE DEF x, y, f
  <1>5. Counts(x) /\ AnsweredFrom(x, tx) /\ Making(x, db, tx)
    BY <1>1 DEF WorkSays
  <1>6. Counts(y)
    BY <1>1, <1>3, <1>5 DEF Counts, f
  <1>7. AnsweredFrom(y, tx)
    BY <1>3, <1>4, <1>5, AnsweredStays DEF f
  <1>8. WorkSays(y, db', tx')
    BY <1>1, <1>3, <1>6, <1>7 DEF WorkSays
  <1>9. ASSUME NEW g \in Frames, Grouped[g] PROVE Made(tx, g) = {} \/ Made(tx, g) = 1..Len(Steps[g])
    <2>1. \A r \in 1..Len(db.rows) : r \in 1..Len(tx.rows) /\ tx.rows[r] = db.rows[r]
      BY <1>4 DEF Longer
    <2>2. Made(db, g) \subseteq Made(tx, g)
      BY <2>1 DEF Made
    <2>3. Made(db, g) = {} \/ Made(db, g) = 1..Len(Steps[g])
      BY <1>1, <1>9 DEF Groups
    <2>4. Made(tx, g) \subseteq 1..Len(Steps[g])
      BY <1>1 DEF RowsSay, RowSays, Made
    <2>5. CASE Made(db, g) = {} /\ g = f
      BY <1>1, <1>5, <1>9, <2>5 DEF Making, f
    <2>6. CASE Made(db, g) = {} /\ g # f
      <3>1. \A r \in 1..Len(tx.rows) : r \in 1..Len(db.rows) \/ r \in Len(db.rows) + 1..Len(tx.rows)
        BY <1>1
      <3>2. \A r \in Len(db.rows) + 1..Len(tx.rows) : tx.rows[r].frame = f
        BY <1>5 DEF Making, f
      <3>3. Made(tx, g) \subseteq Made(db, g)
        BY <2>1, <2>6, <3>1, <3>2 DEF Made
      <3> QED
        BY <2>6, <3>3
    <2> QED
      BY <2>2, <2>3, <2>4, <2>5, <2>6
  <1>10. Groups(db')
    BY <1>1, <1>9 DEF Groups
  <1> QED
    BY <1>1, <1>2, <1>4, <1>8, <1>10, AnswerMoves DEF y

(* The other steps of a worker.                                            *)
LEMMA AnswerSteps ==
  ASSUME AnswerInv, LogInv', NEW w \in Workers,
         Refuse(w) \/ Publish(w) \/ EndPublish(w) \/ Reply(w) \/ \E f \in Frames : Deliver(w, f)
  PROVE  AnswerInv'
  <1> DEFINE x == worker[w]
             f == x.frame
             y == worker'[w]
  <1>1. /\ LogInv /\ RowsSay(db) /\ RowsSay(tx) /\ Groups(db) /\ WorkSays(x, db, tx)
        /\ x \in Work /\ Len(db.rows) \in Nat /\ worker \in [Workers -> Work]
    BY AnswerTypes DEF AnswerInv
  <1>2. Longer(db, db)
    BY <1>1 DEF Longer
  <1>3. CASE Refuse(w)
    <2>1. /\ x.pc \in {"do", "commit"} /\ tx' = db /\ db' = db
          /\ y = [x EXCEPT !.pc = "reply", !.answers = <<>>, !.events = <<>>]
          /\ \A v \in Workers \ {w} : worker'[v] = worker[v]
      BY <1>1, <1>3 DEF Refuse
    <2>2. y.pc = "reply" /\ y.answers = <<>>
      BY <1>1, <2>1 DEF Work
    <2>3. \A v \in Workers \ {w} : worker[v].pc \notin {"do", "commit"}
      BY <1>1, <2>1, AnswerTypes
    <2> HIDE DEF y
    <2>4. Len(y.answers) = 0
      BY <2>2
    <2>5. WorkSays(y, db', tx')
      BY <2>2, <2>4 DEF WorkSays, Counts, AnsweredFrom
    <2> QED
      BY <1>1, <1>2, <2>1, <2>3, <2>5, AnswerMoves DEF y
  <1>4. CASE Publish(w)
    <2>1. /\ x.pc = "publish" /\ tx' = tx /\ db' = db /\ y = [x EXCEPT !.events = Tail(@)]
          /\ \A v \in Workers \ {w} : worker'[v] = worker[v]
      BY <1>1, <1>4 DEF Publish
    <2>2. y.pc = "publish" /\ y.answers = x.answers /\ y.frame = f /\ y.spent = x.spent /\ y.step = x.step
      BY <1>1, <2>1 DEF Work
    <2> HIDE DEF x, y, f
    <2>3. AnsweredFrom(y, db)
      BY <1>1, <1>2, <2>1, <2>2, AnsweredStays DEF WorkSays, f
    <2>4. WorkSays(y, db', tx')
      BY <1>1, <2>1, <2>2, <2>3 DEF WorkSays, Counts, f
    <2> QED
      BY <1>1, <2>1, <2>4, AnswerMoves DEF y
  <1>5. CASE EndPublish(w)
    <2> DEFINE more == ~Grouped[f] /\ x.step < Len(Steps[f])
    <2>1. /\ x.pc = "publish" /\ tx' = tx /\ db' = db
          /\ y = [x EXCEPT !.pc = IF more THEN "begin" ELSE "reply", !.step = IF more THEN @ + 1 ELSE @]
          /\ \A v \in Workers \ {w} : worker'[v] = worker[v]
      BY <1>1, <1>5 DEF EndPublish
    <2>2. /\ y.pc = IF more THEN "begin" ELSE "reply"
          /\ y.answers = x.answers /\ y.frame = f /\ y.spent = x.spent
          /\ y.step = IF more THEN x.step + 1 ELSE x.step
      BY <1>1, <2>1 DEF Work
    <2>3. more => ~Grouped[f]
      OBVIOUS
    <2>4. x.step \in Nat /\ x.spent \in Nat /\ x.step >= 1
      <3>1. x.step \in 1..Len(Steps[f])
        BY <1>1, <2>1, AnswerTypes
      <3> QED
        BY <1>1, <3>1 DEF Work
    <2> HIDE DEF x, y, f, more
    <2>5. AnsweredFrom(y, db)
      BY <1>1, <1>2, <2>1, <2>2, AnsweredStays DEF WorkSays, f
    <2>6. Counts(x)
      BY <1>1 DEF WorkSays
    <2>7. Counts(y)
      BY <2>1, <2>2, <2>3, <2>4, <2>6 DEF Counts, f
    <2>8. WorkSays(y, db', tx')
      BY <2>1, <2>2, <2>5, <2>7 DEF WorkSays
    <2> QED
      BY <1>1, <2>1, <2>8, AnswerMoves DEF y
  <1>6. CASE Reply(w)
    <2>1. /\ tx' = tx /\ db' = db /\ y.pc = "idle"
          /\ \A v \in Workers \ {w} : worker'[v] = worker[v]
      BY <1>1, <1>6 DEF Reply, Idle
    <2> HIDE DEF y
    <2>2. WorkSays(y, db', tx')
      BY <2>1 DEF WorkSays, Counts
    <2> QED
      BY <1>1, <2>1, <2>2, AnswerMoves DEF y
  <1>7. ASSUME NEW g \in Frames, Deliver(w, g) PROVE AnswerInv'
    <2>1. /\ tx' = tx /\ db' = db /\ y.pc = "begin" /\ y.step = 1 /\ y.spent = 0 /\ y.answers = <<>>
          /\ \A v \in Workers \ {w} : worker'[v] = worker[v]
      BY <1>1, <1>7 DEF Deliver, Idle
    <2> HIDE DEF y
    <2>2. Len(y.answers) = 0
      BY <2>1
    <2>3. WorkSays(y, db', tx')
      BY <2>1, <2>2 DEF WorkSays, Counts, AnsweredFrom
    <2> QED
      BY <1>1, <2>1, <2>3, AnswerMoves DEF y
  <1> QED
    BY <1>3, <1>4, <1>5, <1>6, <1>7

LEMMA AnswerInit == Init => AnswerInv
  <1> SUFFICES ASSUME Init PROVE AnswerInv
    OBVIOUS
  <1>1. Len(db.rows) = 0 /\ tx = db /\ \A w \in Workers : worker[w].pc = "idle"
    BY DEF Init, Idle
  <1>2. RowsSay(db) /\ RowsSay(tx)
    BY <1>1 DEF RowsSay
  <1>3. Groups(db)
    BY <1>1 DEF Groups, Made
  <1>4. \A w \in Workers : WorkSays(worker[w], db, tx)
    BY <1>1 DEF WorkSays, Counts
  <1> QED
    BY <1>2, <1>3, <1>4, LogInit DEF AnswerInv

LEMMA AnswerStep == GroupKeysOwn /\ AnswerInv /\ [Next]_vars => AnswerInv'
  <1> SUFFICES ASSUME GroupKeysOwn, AnswerInv, [Next]_vars PROVE AnswerInv'
    OBVIOUS
  <1>1. LogInv'
    BY LogStep DEF AnswerInv
  <1>2. ASSUME NEW w \in Workers, WorkerStep(w) \/ \E f \in Frames : Deliver(w, f) PROVE AnswerInv'
    BY <1>1, <1>2, AnswerBegins, AnswerApplies, AnswerReplays, AnswerCommits, AnswerSteps DEF WorkerStep
  <1>3. CASE UNCHANGED <<db, tx, worker>>
    BY <1>1, <1>3 DEF AnswerInv
  <1>4. CASE PruneKeys \/ Crash
    <2>1. /\ tx' = db' /\ db'.rows = db.rows
          /\ \A v \in Workers : \/ worker'[v].pc = "idle"
                                \/ worker'[v] = worker[v] /\ worker[v].pc \notin {"do", "commit"}
      <3>1. CASE PruneKeys
        <4>1. lock = None /\ worker' = worker /\ tx' = db'
          BY <3>1 DEF PruneKeys
        <4>2. db'.rows = db.rows
          BY <3>1, AnswerTypes DEF PruneKeys, Database, AnswerInv
        <4> QED
          BY <4>1, <4>2, AnswerTypes DEF AnswerInv
      <3>2. CASE Crash
        BY <3>2 DEF Crash, Idle
      <3> QED
        BY <1>4, <3>1, <3>2
    <2>2. RowsSay(db') /\ RowsSay(tx') /\ Groups(db')
      <3>1. RowsSay(db') /\ RowsSay(tx')
        BY <2>1 DEF AnswerInv, RowsSay
      <3>2. \A f \in Frames : Made(db', f) = Made(db, f)
        BY <2>1 DEF Made
      <3>3. Groups(db')
        BY <3>2 DEF AnswerInv, Groups
      <3> QED
        BY <3>1, <3>3
    <2>3. Longer(db, db')
      BY <2>1, AnswerTypes DEF Longer, AnswerInv
    <2>4. ASSUME NEW v \in Workers PROVE WorkSays(worker'[v], db', tx')
      <3>1. CASE worker'[v].pc = "idle"
        BY <3>1 DEF WorkSays, Counts
      <3>2. CASE worker'[v] = worker[v] /\ worker[v].pc \notin {"do", "commit"}
        BY <2>3, <3>2, SaysElsewhere DEF AnswerInv
      <3> QED
        BY <2>1, <3>1, <3>2
    <2> QED
      BY <1>1, <2>2, <2>4 DEF AnswerInv
  <1>5. CASE \/ \E s \in Subs : (\E p \in Watched : Subscribe(s, p)) \/ Take(s) \/ Unsubscribe(s)
             \/ Tick \/ UNCHANGED vars
    <2>1. UNCHANGED <<db, tx, worker>>
      BY <1>5 DEF Subscribe, Take, Unsubscribe, Tick, vars
    <2> QED
      BY <1>3, <2>1
  <1> QED
    BY <1>2, <1>4, <1>5 DEF Next

(* A retry is answered with what it asked for: every answer is a committed *)
(* row of its own actor and key, of that very step where it is alone or    *)
(* first, and of a group there is everything or nothing (KeysAnswer), if   *)
(* no client gives the key of a group to another command (GroupKeysOwn).   *)
THEOREM KeysAreAnswered ==
  ASSUME GroupKeysOwn
  PROVE  Spec => []KeysAnswer
  <1>1. AnswerInv => KeysAnswer
    <2> SUFFICES ASSUME AnswerInv PROVE AnsweredByOwn /\ GroupsWhole
      BY DEF KeysAnswer
    <2>2. db.rows \in Seq(Row) /\ DOMAIN db.rows = 1..Len(db.rows)
      BY AnswerTypes DEF AnswerInv, Database
    <2>3. ASSUME NEW w \in Workers, worker[w].pc = "reply", NEW k \in DOMAIN worker[w].answers
          PROVE  AnswerFrom(worker[w], worker[w].answers[k], db)
      <3>1. worker[w].answers \in Seq(Nat \X Nat)
        BY AnswerTypes DEF AnswerInv, Work
      <3>2. AnsweredFrom(worker[w], db) /\ k \in 1..Len(worker[w].answers)
        <4>1. WorkSays(worker[w], db, tx)
          BY DEF AnswerInv
        <4>2. k \in 1..Len(worker[w].answers)
          BY <2>3, <3>1
        <4> QED
          BY <2>3, <4>1, <4>2 DEF WorkSays
      <3> QED
        BY <3>2 DEF AnsweredFrom
    <2>4. AnsweredByOwn
      BY <2>2, <2>3 DEF AnsweredByOwn, AnswerFrom
    <2>5. \A f \in Frames : DOMAIN Steps[f] = 1..Len(Steps[f])
      BY CommandsAssumption
    <2>6. GroupsWhole
      BY <2>2, <2>5 DEF AnswerInv, Groups, Made, GroupsWhole
    <2> QED
      BY <2>4, <2>6
  <1>2. AnswerInv /\ [Next]_vars => AnswerInv'
    BY AnswerStep
  <1> QED
    BY <1>1, <1>2, AnswerInit, PTL DEF Spec
-----------------------------------------------------------------------------
(* Who may write and who may read.  The one group that makes a proposition *)
(* is the create with its seed (board/commands.go CreateProposition), and  *)
(* it puts nobody out of one.                                              *)
Creates(f) == \E i \in 1..Len(Steps[f]) : Steps[f][i].eff = "create"
Removes(f) == \E i \in 1..Len(Steps[f]) : Steps[f][i].eff = "remove"

MakersStay == \A f \in Frames : Grouped[f] => ~(Creates(f) /\ Removes(f))

(* Propositions, and what rows are filed under, are numbered below next.   *)
PropsOK(d) ==
  /\ d.next \in Nat /\ d.next >= 1
  /\ \A p \in d.props : p < d.next
  /\ \A r \in 1..Len(d.rows) : d.rows[r].filed < d.next

(* What the actor of f may do in the transaction t over d: where it may    *)
(* write in t it may in d, but for a proposition that f itself has made,   *)
(* and so it was with each row it added.                                   *)
Standing(f, d, t) ==
  LET u == By[f]
  IN  /\ d.next <= t.next
      /\ \A p \in 0..d.next - 1 : Entitled(t, u, p) => Entitled(d, u, p)
      /\ \A p \in t.props : p >= d.next => Creates(f)
      /\ \A r \in Len(d.rows) + 1..Len(t.rows) :
           /\ t.rows[r].by = u /\ Role[u] # "guest"
           /\ \/ Entitled(d, u, t.rows[r].asked)
              \/ Entitled(t, u, t.rows[r].asked) /\ Creates(f)

MemberInv ==
  /\ LogInv /\ PropsOK(db) /\ PropsOK(tx)
  /\ \A w \in Workers : worker[w].pc \in {"do", "commit"} => Standing(worker[w].frame, db, tx)

(* What applying a step does to propositions and to who is a member.       *)
LEMMA ApplyFiles ==
  ASSUME NEW d \in Database, NEW f \in Frames, NEW i \in 1..Len(Steps[f]),
         NEW n \in Nat, NEW p \in Nat, NEW t \in Nat, NEW new, new = Apply(d, f, i, n, p, t),
         PropsOK(d), p = 0 \/ p \in d.props
  PROVE  /\ PropsOK(new) /\ d.next <= new.next
         /\ new.rows[Len(new.rows)].by = By[f] /\ new.rows[Len(new.rows)].asked = p
         /\ \A q \in new.props : q \in d.props \/ (q = d.next /\ Steps[f][i].eff = "create")
         /\ \A m \in new.members : \/ m \in d.members
                                   \/ m = <<By[f], d.next>>
                                   \/ m[2] = p
         /\ Steps[f][i].eff \notin {"remove", "delete"} => d.members \subseteq new.members
  <1> DEFINE s    == Steps[f][i]
             made == IF s.eff = "create" THEN d.next ELSE p
             l    == Len(d.rows)
  <1>1. /\ d.rows \in Seq(Row) /\ l \in Nat /\ d.next \in Nat /\ d.props \in SUBSET Nat
        /\ \A q \in d.props : q < d.next
        /\ \A r \in 1..l : d.rows[r].filed < d.next
        /\ d.next >= 1
    BY DEF Database, PropsOK
  <1>2. /\ Len(new.rows) = l + 1 /\ \A r \in 1..l : new.rows[r] = d.rows[r]
    BY ApplyRow DEF Longer
  <1>3. /\ new.rows[l + 1].by = By[f] /\ new.rows[l + 1].asked = p
        /\ new.rows[l + 1].filed = IF s.eff = "delete" THEN 0 ELSE made
    BY <1>1 DEF Apply
  <1>4. new.next = IF s.eff = "create" THEN d.next + 1 ELSE d.next
    BY DEF Apply
  <1>5. new.props = CASE s.eff = "create" -> d.props \cup {made}
                      [] s.eff = "delete" -> d.props \ {p}
                      [] OTHER            -> d.props
    BY DEF Apply
  <1>6. new.members = CASE s.eff = "create" -> d.members \cup {<<By[f], made>>}
                        [] s.eff = "add"    -> d.members \cup {<<s.user, p>>}
                        [] s.eff = "remove" -> d.members \ {<<s.user, p>>}
                        [] s.eff = "delete" -> {m \in d.members : m[2] # p}
                        [] OTHER            -> d.members
    BY DEF Apply
  <1>7. s.eff = "create" => made = d.next
    OBVIOUS
  <1>8. made < new.next /\ new.next \in Nat /\ d.next <= new.next /\ p < d.next
    BY <1>1, <1>4
  <1> HIDE DEF l, s, made
  <1>9. \A q \in new.props : q \in d.props \/ (q = d.next /\ s.eff = "create")
    BY <1>5, <1>7
  <1>10. \A m \in new.members : m \in d.members \/ m = <<By[f], d.next>> \/ m[2] = p
    BY <1>6, <1>7
  <1>11. s.eff \notin {"remove", "delete"} => d.members \subseteq new.members
    BY <1>6
  <1>12. PropsOK(new)
    <2>1. \A q \in new.props : q < new.next
      <3>1. CASE s.eff = "create"
        BY <1>1, <1>4, <1>9, <3>1
      <3>2. CASE s.eff # "create"
        BY <1>1, <1>4, <1>9, <3>2
      <3> QED
        BY <3>1, <3>2
    <2>2. \A r \in 1..l : new.rows[r].filed < new.next
      <3>1. \A r \in 1..l : d.rows[r] \in Row
        BY <1>1 DEF l
      <3>2. ASSUME NEW r \in 1..l PROVE new.rows[r].filed < new.next
        <4>1. d.rows[r].filed \in Nat /\ d.rows[r].filed < d.next /\ new.rows[r] = d.rows[r]
          BY <1>1, <1>2, <3>1 DEF Row
        <4> QED
          BY <1>1, <1>8, <4>1
      <3> QED
        BY <3>2
    <2>3. new.rows[l + 1].filed < new.next
      BY <1>1, <1>3, <1>8
    <2>4. \A r \in 1..l + 1 : r \in 1..l \/ r = l + 1
      BY <1>1
    <2>5. \A r \in 1..Len(new.rows) : new.rows[r].filed < new.next
      BY <1>2, <2>2, <2>3, <2>4
    <2> QED
      BY <1>1, <1>8, <2>1, <2>5 DEF PropsOK
  <1> QED
    BY <1>2, <1>3, <1>8, <1>9, <1>10, <1>11, <1>12 DEF l, s

(* A step that is allowed keeps the standing of its frame.                 *)
LEMMA ApplyStanding ==
  ASSUME MakersStay, NEW d \in Database, NEW t \in Database,
         NEW f \in Frames, NEW i \in 1..Len(Steps[f]),
         NEW n \in Nat, NEW p \in Nat, NEW c \in Nat, NEW new, new = Apply(t, f, i, n, p, c),
         PropsOK(d), PropsOK(t), Standing(f, d, t), Len(d.rows) <= Len(t.rows),
         Authorised(t, By[f], p, Need(f, i)), p = 0 \/ p \in t.props,
         ~Grouped[f] => t = d
  PROVE  Standing(f, d, new)
  <1> DEFINE u == By[f]
             s == Steps[f][i]
  <1>1. /\ d.next \in Nat /\ t.next \in Nat /\ d.next >= 1 /\ d.next <= t.next
        /\ Len(d.rows) \in Nat /\ Len(t.rows) \in Nat
        /\ \A q \in d.props : q < d.next
        /\ \A q \in 0..d.next - 1 : Entitled(t, u, q) => Entitled(d, u, q)
        /\ \A q \in t.props : q >= d.next => Creates(f)
        /\ \A r \in Len(d.rows) + 1..Len(t.rows) :
             /\ t.rows[r].by = u /\ Role[u] # "guest"
             /\ Entitled(d, u, t.rows[r].asked) \/ (Entitled(t, u, t.rows[r].asked) /\ Creates(f))
    <2>1. Len(d.rows) \in Nat /\ Len(t.rows) \in Nat
      BY DEF Database
    <2> QED
      BY <2>1 DEF PropsOK, Standing
  <1>2. /\ PropsOK(new) /\ t.next <= new.next
        /\ new.rows[Len(new.rows)].by = u /\ new.rows[Len(new.rows)].asked = p
        /\ \A q \in new.props : q \in t.props \/ (q = t.next /\ s.eff = "create")
        /\ \A m \in new.members : m \in t.members \/ m = <<u, t.next>> \/ m[2] = p
        /\ s.eff \notin {"remove", "delete"} => t.members \subseteq new.members
    <2>1. /\ PropsOK(new) /\ t.next <= new.next
          /\ new.rows[Len(new.rows)].by = u /\ new.rows[Len(new.rows)].asked = p
      BY ApplyFiles
    <2>2. /\ \A q \in new.props : q \in t.props \/ (q = t.next /\ s.eff = "create")
          /\ \A m \in new.members : m \in t.members \/ m = <<u, t.next>> \/ m[2] = p
          /\ s.eff \notin {"remove", "delete"} => t.members \subseteq new.members
      BY ApplyFiles
    <2> QED
      BY <2>1, <2>2
  <1>3. Len(new.rows) = Len(t.rows) + 1 /\ \A r \in 1..Len(t.rows) : new.rows[r] = t.rows[r]
    <2>1. Longer(t, new) /\ Len(new.rows) = Len(t.rows) + 1
      BY ApplyRow
    <2> QED
      BY <2>1 DEF Longer
  <1>4. Role[u] # "guest" /\ Role[u] \in DOMAIN Can
    <2>1. Role[u] \in DOMAIN Can /\ Need(f, i) \in Can[Role[u]] /\ Need(f, i) \in {"edit", "delete"}
      BY CommandsAssumption DEF Authorised, Need
    <2> QED
      BY <2>1 DEF Can
  <1>5. Entitled(t, u, p)
    BY DEF Authorised, Entitled
  <1>6. s.eff = "create" => Creates(f)
    BY DEF Creates
  <1>7. Grouped[f] => s.eff # "delete"
    BY CommandsAssumption
  <1>8. s.eff = "remove" => Removes(f)
    BY DEF Removes
  <1> HIDE DEF u, s
  <1>9. ASSUME Grouped[f], Creates(f) PROVE \A q : Entitled(t, u, q) => Entitled(new, u, q)
    <2>1. t.members \subseteq new.members
      BY <1>2, <1>7, <1>8, <1>9 DEF MakersStay
    <2> QED
      BY <2>1 DEF Entitled
  <1>10. Entitled(d, u, p) \/ (Entitled(new, u, p) /\ Creates(f))
    <2>1. CASE p < d.next
      BY <1>1, <1>5, <2>1
    <2>2. CASE p >= d.next
      <3>1. p \in t.props /\ Creates(f)
        BY <1>1, <2>2
      <3>2. Grouped[f]
        BY <1>1, <2>2, <3>1
      <3> QED
        BY <1>5, <1>9, <3>1, <3>2
    <2> QED
      BY <1>1, <2>1, <2>2
  <1>11. ASSUME NEW q \in 0..d.next - 1, Entitled(new, u, q) PROVE Entitled(d, u, q)
    <2>1. q # t.next
      BY <1>1
    <2>2. Entitled(t, u, q)
      <3>1. CASE <<u, q>> \in new.members
        BY <1>2, <1>5, <2>1, <3>1 DEF Entitled
      <3> QED
        BY <1>11, <3>1 DEF Entitled
    <2> QED
      BY <1>1, <2>2
  <1>12. \A q \in new.props : q >= d.next => Creates(f)
    BY <1>1, <1>2, <1>6
  <1>13. ASSUME NEW r \in Len(d.rows) + 1..Len(new.rows)
         PROVE  /\ new.rows[r].by = u /\ Role[u] # "guest"
                /\ Entitled(d, u, new.rows[r].asked) \/ (Entitled(new, u, new.rows[r].asked) /\ Creates(f))
    <2>1. CASE r = Len(t.rows) + 1
      BY <1>2, <1>3, <1>4, <1>10, <2>1
    <2>2. CASE r # Len(t.rows) + 1
      <3>1. r \in Len(d.rows) + 1..Len(t.rows) /\ r \in 1..Len(t.rows) /\ Grouped[f]
        BY <1>1, <1>3, <2>2
      <3>2. new.rows[r] = t.rows[r]
        BY <1>3, <3>1
      <3>3. /\ t.rows[r].by = u
            /\ Entitled(d, u, t.rows[r].asked) \/ (Entitled(t, u, t.rows[r].asked) /\ Creates(f))
        BY <1>1, <3>1
      <3> QED
        BY <1>4, <1>9, <3>1, <3>2, <3>3
    <2> QED
      BY <2>1, <2>2
  <1> QED
    BY <1>1, <1>2, <1>11, <1>12, <1>13 DEF Standing, PropsOK, u

(* A step of w, with nobody else in a transaction where it changes the     *)
(* databases.                                                              *)
LEMMA MemberMoves ==
  ASSUME MemberInv, LogInv', PropsOK(db'), PropsOK(tx'), NEW w \in Workers,
         \A v \in Workers \ {w} : worker'[v] = worker[v],
         worker'[w].pc \in {"do", "commit"} => Standing(worker'[w].frame, db', tx'),
         \/ UNCHANGED <<db, tx>>
         \/ \A v \in Workers \ {w} : worker[v].pc \notin {"do", "commit"}
  PROVE  MemberInv'
  <1>1. ASSUME NEW v \in Workers, worker'[v].pc \in {"do", "commit"}
        PROVE  Standing(worker'[v].frame, db', tx')
    <2>1. CASE v = w
      BY <1>1, <2>1
    <2>2. CASE v # w
      BY <1>1, <2>2 DEF MemberInv
    <2> QED
      BY <2>1, <2>2
  <1> QED
    BY <1>1 DEF MemberInv

(* What a replay answers with.                                             *)
LEMMA ReplayIs ==
  ASSUME LogInv, NEW w \in Workers, DoReplay(w)
  PROVE  /\ worker'[w].frame = worker[w].frame
         /\ \E seq \in Originals(tx, worker[w].frame, Spend(w)) :
              /\ Rereadable(tx, worker[w].frame, tx.rows[seq])
              /\ worker'[w].answers = Append(worker[w].answers, <<worker[w].step, seq>>)
  <1> DEFINE hit(seq, pc, j) ==
               worker' = [worker EXCEPT
                 ![w].pc = pc, ![w].step = j, ![w].spent = Spend(w),
                 ![w].target = IF @ = 0 THEN tx.rows[seq].filed ELSE @,
                 ![w].answers = Append(@, <<worker[w].step, seq>>)]
  <1>1. PICK seq \in Originals(tx, worker[w].frame, Spend(w)) :
          /\ Rereadable(tx, worker[w].frame, tx.rows[seq])
          /\ \E pc, j : hit(seq, pc, j)
    BY Zenon DEF DoReplay
  <1>2. PICK pc, j : hit(seq, pc, j)
    BY <1>1
  <1>3. worker \in [Workers -> Work]
    BY AnswerTypes
  <1>4. /\ worker'[w].frame = worker[w].frame
        /\ worker'[w].answers = Append(worker[w].answers, <<worker[w].step, seq>>)
    BY <1>2, <1>3 DEF Work
  <1> QED
    BY <1>1, <1>4

LEMMA MemberApplies ==
  ASSUME MakersStay, MemberInv, LogInv', NEW w \in Workers, DoApply(w)
  PROVE  MemberInv'
  <1> DEFINE f == worker[w].frame
             i == worker[w].step
             n == Spend(w)
             p == Named(w)
  <1>1. /\ worker[w].pc = "do" /\ db' = db /\ tx' = Apply(tx, f, i, n, p, now)
        /\ Authorised(tx, By[f], p, Need(f, i)) /\ (p = 0 \/ p \in tx.props)
    BY DEF DoApply
  <1>2. /\ LogInv /\ PropsOK(db) /\ PropsOK(tx) /\ Standing(f, db, tx)
    BY <1>1 DEF MemberInv
  <1>3. /\ f \in Frames /\ i \in 1..Len(Steps[f]) /\ now \in Nat /\ db \in Database /\ tx \in Database
        /\ Within(w) /\ worker[w] \in Work /\ worker \in [Workers -> Work]
        /\ \A v \in Workers \ {w} : worker[v].pc \notin {"do", "commit"}
    BY <1>1, <1>2, AnswerTypes
  <1>4. n \in Nat /\ p \in Nat
    BY <1>1, <1>2, <1>3, AnswerTypes, NamedType DEF Spend, Work
  <1>5. worker'[w].frame = f /\ \A v \in Workers \ {w} : worker'[v] = worker[v]
    BY <1>3 DEF DoApply, Work
  <1>6. Len(db.rows) <= Len(tx.rows) /\ (~Grouped[f] => tx = db)
    BY <1>1, <1>3 DEF Within
  <1> HIDE DEF f, i, n, p
  <1>7. Standing(f, db, tx')
    BY <1>1, <1>2, <1>3, <1>4, <1>6, ApplyStanding
  <1>8. PropsOK(tx')
    BY <1>1, <1>2, <1>3, <1>4, ApplyFiles
  <1> QED
    BY <1>1, <1>2, <1>3, <1>5, <1>7, <1>8, MemberMoves

(* A worker that has a transaction opens it on what is committed, and      *)
(* leaves it as the log has it.                                            *)
LEMMA MemberSteps ==
  ASSUME MemberInv, LogInv', NEW w \in Workers,
         \/ Begin(w) \/ DoReplay(w) \/ Refuse(w) \/ Commit(w)
         \/ Publish(w) \/ EndPublish(w) \/ Reply(w) \/ \E f \in Frames : Deliver(w, f)
  PROVE  MemberInv'
  <1>1. /\ LogInv /\ PropsOK(db) /\ PropsOK(tx)
        /\ worker \in [Workers -> Work] /\ worker[w] \in Work /\ Len(db.rows) \in Nat
        /\ lock = None => tx = db
        /\ \A v \in Workers : worker[v].pc \in {"do", "commit"} =>
             lock = v /\ Within(v) /\ Standing(worker[v].frame, db, tx)
        /\ None \notin Workers
    BY AnswerTypes DEF MemberInv
  <1>2. \A v \in Workers \ {w} : worker'[v] = worker[v]
    BY <1>1 DEF Begin, DoReplay, Refuse, Commit, Publish, EndPublish, Reply, Deliver
  <1>3. CASE Begin(w)
    <2>1. UNCHANGED <<db, tx>> /\ tx = db
      BY <1>1, <1>3 DEF Begin
    <2>2. Standing(worker'[w].frame, db, db)
      <3>1. By[worker'[w].frame] = By[worker'[w].frame] /\ \A r \in Len(db.rows) + 1..Len(db.rows) : FALSE
        BY <1>1
      <3>2. db.next \in Nat /\ \A p \in db.props : ~(p >= db.next)
        <4>1. db.props \subseteq Nat
          BY <1>1, AnswerTypes DEF Database
        <4> QED
          BY <1>1, <4>1 DEF PropsOK
      <3> QED
        BY <3>1, <3>2 DEF Standing
    <2> QED
      BY <1>1, <1>2, <2>1, <2>2, MemberMoves
  <1>4. CASE DoReplay(w)
    <2> DEFINE f == worker[w].frame
    <2>1. worker[w].pc = "do" /\ db' = db /\ (tx' = tx \/ (~Grouped[f] /\ tx' = db))
      BY <1>4 DEF DoReplay
    <2>2. tx' = tx
      BY <1>1, <2>1 DEF Within
    <2>3. worker'[w].frame = f
      BY <1>1, <1>4, ReplayIs
    <2> QED
      BY <1>1, <1>2, <2>1, <2>2, <2>3, MemberMoves
  <1>5. CASE Refuse(w)
    <2>1. worker[w].pc \in {"do", "commit"} /\ db' = db /\ tx' = db
      BY <1>5 DEF Refuse
    <2>2. worker'[w].pc = "reply"
      BY <1>1, <1>5 DEF Refuse, Work
    <2> QED
      BY <1>1, <1>2, <2>1, <2>2, MemberMoves
  <1>6. CASE Commit(w)
    <2>1. worker[w].pc = "commit" /\ db' = tx /\ tx' = tx
      BY <1>6 DEF Commit
    <2>2. worker'[w].pc = "publish"
      BY <1>1, <1>6 DEF Commit, Work
    <2> QED
      BY <1>1, <1>2, <2>1, <2>2, MemberMoves
  <1>7. CASE Publish(w) \/ EndPublish(w) \/ Reply(w) \/ \E f \in Frames : Deliver(w, f)
    <2>1. UNCHANGED <<db, tx>>
      BY <1>7 DEF Publish, EndPublish, Reply, Deliver
    <2>2. worker'[w].pc \notin {"do", "commit"}
      <3>1. Publish(w) => worker'[w].pc = "publish"
        BY <1>1 DEF Publish, Work
      <3>2. EndPublish(w) => worker'[w].pc \in {"begin", "reply"}
        BY <1>1 DEF EndPublish, Work
      <3>3. Reply(w) => worker'[w].pc = "idle"
        BY <1>1 DEF Reply, Idle
      <3>4. (\E f \in Frames : Deliver(w, f)) => worker'[w].pc = "begin"
        BY <1>1 DEF Deliver, Idle
      <3> QED
        BY <1>7, <3>1, <3>2, <3>3, <3>4
    <2> QED
      BY <1>1, <1>2, <2>1, <2>2, MemberMoves
  <1> QED
    BY <1>3, <1>4, <1>5, <1>6, <1>7

LEMMA MemberInit == Init => MemberInv
  <1> SUFFICES ASSUME Init PROVE MemberInv
    OBVIOUS
  <1> DEFINE c == Cardinality(Props0)
  <1>1. c \in Nat /\ Props0 \subseteq Nat /\ \A p \in Props0 : p <= c
    BY CommandsAssumption, FS_CardinalityType
  <1>2. /\ Len(db.rows) = 0 /\ tx = db /\ db.props = Props0 /\ db.next = c + 1
        /\ \A w \in Workers : worker[w].pc = "idle"
    BY DEF Init, Idle
  <1> HIDE DEF c
  <1>3. PropsOK(db)
    <2>1. \A p \in db.props : p < db.next
      <3>1. \A p \in Props0 : p < c + 1
        BY <1>1
      <3> QED
        BY <1>2, <3>1
    <2>2. \A r \in 1..Len(db.rows) : FALSE
      BY <1>2
    <2>3. db.next \in Nat /\ db.next >= 1
      BY <1>1, <1>2
    <2> QED
      BY <2>1, <2>2, <2>3 DEF PropsOK
  <1> QED
    BY <1>2, <1>3, LogInit DEF MemberInv

LEMMA MemberStep == MakersStay /\ MemberInv /\ [Next]_vars => MemberInv'
  <1> SUFFICES ASSUME MakersStay, MemberInv, [Next]_vars PROVE MemberInv'
    OBVIOUS
  <1>1. LogInv'
    BY LogStep DEF MemberInv
  <1>2. ASSUME NEW w \in Workers, WorkerStep(w) \/ \E f \in Frames : Deliver(w, f) PROVE MemberInv'
    BY <1>1, <1>2, MemberApplies, MemberSteps DEF WorkerStep
  <1>3. CASE UNCHANGED <<db, tx, worker>>
    BY <1>1, <1>3 DEF MemberInv
  <1>4. CASE PruneKeys
    <2>1. lock = None /\ worker' = worker /\ tx' = db'
          /\ db'.rows = db.rows /\ db'.props = db.props /\ db'.next = db.next
      BY <1>4, AnswerTypes DEF PruneKeys, Database, MemberInv
    <2>2. PropsOK(db')
      BY <2>1 DEF MemberInv, PropsOK
    <2> QED
      BY <1>1, <2>1, <2>2, AnswerTypes DEF MemberInv
  <1>5. CASE Crash
    <2>1. db' = db /\ tx' = db /\ \A v \in Workers : worker'[v].pc = "idle"
      BY <1>5 DEF Crash, Idle
    <2> QED
      BY <1>1, <2>1 DEF MemberInv
  <1>6. CASE \/ \E s \in Subs : (\E p \in Watched : Subscribe(s, p)) \/ Take(s) \/ Unsubscribe(s)
             \/ Tick \/ UNCHANGED vars
    <2>1. UNCHANGED <<db, tx, worker>>
      BY <1>6 DEF Subscribe, Take, Unsubscribe, Tick, vars
    <2> QED
      BY <1>3, <2>1
  <1> QED
    BY <1>2, <1>4, <1>5, <1>6 DEF Next

(* A row that is committed was made by somebody who might.                 *)
LEMMA MembersCommit ==
  ASSUME MemberInv, [Next]_vars, NEW r \in DOMAIN db'.rows \ DOMAIN db.rows
  PROVE  /\ Role[db'.rows[r].by] # "guest"
         /\ \E d \in {db, db'} : Entitled(d, db'.rows[r].by, db'.rows[r].asked)
  <1>1. /\ db \in Database /\ tx \in Database /\ Len(db.rows) \in Nat
        /\ DOMAIN db.rows = 1..Len(db.rows) /\ DOMAIN tx.rows = 1..Len(tx.rows)
    BY AnswerTypes DEF MemberInv, Database
  <1>2. PICK w \in Workers : Commit(w)
    <2>1. CASE PruneKeys
      <3>1. db'.rows = db.rows
        BY <1>1, <2>1 DEF PruneKeys, Database
      <3> QED
        BY <3>1
    <2>2. CASE ~PruneKeys /\ ~ \E w \in Workers : Commit(w)
      <3>1. ASSUME NEW w \in Workers, WorkerStep(w) PROVE db' = db
        BY <2>2, <3>1 DEF WorkerStep, Begin, DoApply, DoReplay, Refuse, Publish, EndPublish, Reply
      <3>2. ASSUME ~ \E w \in Workers : WorkerStep(w) PROVE db' = db
        BY <2>2, <3>2 DEF Next, Deliver, Subscribe, Take, Unsubscribe, Tick, Crash, vars
      <3>3. db' = db
        BY <3>1, <3>2
      <3> QED
        BY <3>3
    <2> QED
      BY <2>1, <2>2
  <1>3. db' = tx /\ Standing(worker[w].frame, db, tx)
    BY <1>2 DEF Commit, MemberInv
  <1>4. r \in Len(db.rows) + 1..Len(tx.rows)
    BY <1>1, <1>3
  <1> QED
    BY <1>3, <1>4 DEF Standing

(* What a replay answers with may be read by who is answered.              *)
LEMMA MembersRead ==
  ASSUME MemberInv, NEW w \in Workers, DoReplay(w), tx' = tx
  PROVE  LET is  == worker'[w].answers
             row == tx.rows[is[Len(is)][2]]
         IN  Entitled(db, row.by, row.filed) /\ (row.filed = 0 => Role[row.by] = "owner")
  <1> DEFINE f == worker[w].frame
             n == Spend(w)
             is == worker'[w].answers
             old == worker[w].answers
             i == worker[w].step
  <1>1. /\ worker[w].pc = "do" /\ LogInv /\ PropsOK(db) /\ Standing(f, db, tx)
    BY DEF DoReplay, MemberInv
  <1>2. /\ f \in Frames /\ KeysNameRows(tx) /\ Within(w) /\ tx \in Database /\ db \in Database
        /\ worker \in [Workers -> Work] /\ worker[w] \in Work
        /\ Len(db.rows) \in Nat /\ Len(tx.rows) \in Nat
    BY <1>1, AnswerTypes
  <1>3. PICK seq \in Originals(tx, f, n) :
          /\ Rereadable(tx, f, tx.rows[seq])
          /\ is = Append(old, <<i, seq>>)
    BY <1>1, ReplayIs
  <1> DEFINE row == tx.rows[seq]
  <1>4. /\ seq \in 1..Len(tx.rows) /\ row \in Row
    BY <1>2, <1>3, OriginalRow
  <1>5. row.by = By[f] /\ row.n = n
    BY <1>2, <1>3 DEF Originals, KeysNameRows
  <1>6. is[Len(is)] = <<i, seq>>
    <2>1. old \in Seq(Nat \X Nat)
      BY <1>2 DEF Work
    <2> QED
      BY <1>3, <2>1
  <1>7. seq \in 1..Len(db.rows)
    <2>1. n = worker[w].spent + 1 /\ worker[w].spent \in Nat
      BY <1>2 DEF Spend, Work
    <2>2. seq \in News => row.n <= worker[w].spent
      BY <1>2 DEF Within
    <2>3. seq \notin News
      BY <1>5, <2>1, <2>2
    <2> QED
      BY <1>2, <1>4, <2>3 DEF News
  <1>8. row.filed \in 0..db.next - 1
    <2>1. row = db.rows[seq]
      BY <1>2, <1>7 DEF Within
    <2>2. row.filed \in Nat /\ row.filed < db.next /\ db.next \in Nat
      BY <1>1, <1>4, <1>7, <2>1 DEF PropsOK, Row
    <2> QED
      BY <2>2
  <1> HIDE DEF row
  <1>9. Entitled(tx, By[f], row.filed)
    BY <1>3 DEF Rereadable, Authorised, Entitled, row
  <1>10. Entitled(db, By[f], row.filed)
    BY <1>1, <1>8, <1>9 DEF Standing
  <1>11. ASSUME row.filed = 0 PROVE Role[By[f]] = "owner"
    <2>1. "settings" \in Can[Role[By[f]]]
      BY <1>3, <1>11 DEF Rereadable, Authorised, row
    <2>2. Role[By[f]] \in {"owner", "editor", "researcher", "guest"}
      BY <1>2, CommandsAssumption DEF Can
    <2> QED
      BY <2>1, <2>2 DEF Can
  <1> QED
    BY <1>5, <1>6, <1>10, <1>11 DEF row

(* Nobody else is answered from the log.                                   *)
LEMMA OnlyReplaysAnswer ==
  ASSUME MemberInv, [Next]_vars, tx' = tx, NEW v \in Workers,
         Len(worker'[v].answers) > Len(worker[v].answers)
  PROVE  DoReplay(v)
  <1>1. /\ worker \in [Workers -> Work] /\ worker[v] \in Work /\ tx \in Database /\ LogInv
        /\ Len(worker[v].answers) \in Nat /\ Len(tx.rows) \in Nat /\ TypeInv
    <2>1. worker \in [Workers -> Work] /\ worker[v] \in Work /\ tx \in Database /\ LogInv
          /\ Len(tx.rows) \in Nat /\ TypeInv
      BY AnswerTypes DEF MemberInv
    <2> QED
      BY <2>1 DEF Work
  <1>2. worker'[v].answers # worker[v].answers /\ worker'[v].answers # <<>>
    BY <1>1
  <1>3. ASSUME NEW w \in Workers, WorkerStep(w) \/ \E f \in Frames : Deliver(w, f) PROVE w = v
    <2>1. \A u \in Workers \ {w} : worker'[u] = worker[u]
      BY <1>1, <1>3 DEF WorkerStep, Begin, DoApply, DoReplay, Refuse, Commit, Publish, EndPublish,
                        Reply, Deliver
    <2> QED
      BY <1>2, <2>1
  <1>4. ~DoApply(v)
    <2>1. ASSUME DoApply(v) PROVE FALSE
      <3>1. /\ tx' = Apply(tx, worker[v].frame, worker[v].step, Spend(v), Named(v), now)
            /\ worker[v].pc # "idle"
        BY <2>1 DEF DoApply
      <3>2. /\ worker[v].frame \in Frames /\ worker[v].step \in 1..Len(Steps[worker[v].frame])
            /\ Spend(v) \in Nat /\ Named(v) \in Nat /\ now \in Nat
        BY <1>1, <3>1, AnswerTypes, NamedType DEF Spend, Work
      <3>3. Len(tx'.rows) = Len(tx.rows) + 1
        BY <1>1, <3>1, <3>2, ApplyRow
      <3> QED
        BY <1>1, <3>3
    <2> QED
      BY <2>1
  <1>5. ~(Begin(v) \/ Commit(v) \/ Publish(v) \/ EndPublish(v))
    BY <1>1, <1>2 DEF Begin, Commit, Publish, EndPublish, Work
  <1>6. ~(Refuse(v) \/ Reply(v) \/ \E f \in Frames : Deliver(v, f))
    <2>1. Refuse(v) => worker'[v].answers = <<>>
      BY <1>1 DEF Refuse, Work
    <2>2. Reply(v) => worker'[v].answers = <<>>
      BY <1>1 DEF Reply, Idle
    <2>3. ASSUME NEW f \in Frames, Deliver(v, f) PROVE worker'[v].answers = <<>>
      BY <1>1, <2>3 DEF Deliver, Idle
    <2> QED
      BY <1>2, <2>1, <2>2, <2>3
  <1>7. ~Crash
    BY <1>2 DEF Crash, Idle
  <1>8. ~(worker' = worker)
    BY <1>2
  <1>9. \E w \in Workers : WorkerStep(w) \/ \E f \in Frames : Deliver(w, f)
    BY <1>7, <1>8 DEF Next, Subscribe, Take, Unsubscribe, PruneKeys, Tick, vars
  <1> QED
    BY <1>3, <1>4, <1>5, <1>6, <1>9 DEF WorkerStep

(* Nobody writes where they may not, and nobody is answered from the log   *)
(* with what they may not read (core.go authorise, both times it runs), at *)
(* any number of workers and whatever memberships change between them, if  *)
(* no group both makes a proposition and puts somebody out of one.         *)
THEOREM OnlyMembersCommand ==
  ASSUME MakersStay
  PROVE  Spec => OnlyMembers
  <1>1. MemberInv /\ [Next]_vars => MemberInv'
    BY MemberStep
  <1>2. MemberInv /\ [Next]_vars
        => [\A r \in DOMAIN db'.rows \ DOMAIN db.rows :
              LET a == db'.rows[r]
              IN  /\ Role[a.by] # "guest"
                  /\ \E d \in {db, db'} : Entitled(d, a.by, a.asked)]_vars
    BY MembersCommit
  <1>3. MemberInv /\ [Next]_vars
        => [\A w \in Workers :
              LET is == worker'[w].answers
              IN  Len(is) > Len(worker[w].answers) /\ tx' = tx =>
                    LET row == tx.rows[is[Len(is)][2]]
                    IN  /\ Entitled(db, row.by, row.filed)
                        /\ row.filed = 0 => Role[row.by] = "owner"]_vars
    BY MembersRead, OnlyReplaysAnswer
  <1> QED
    BY <1>1, <1>2, <1>3, MemberInit, PTL DEF Spec, OnlyMembers, CommittedByMembers, ReplaysReadable
-----------------------------------------------------------------------------
(* The numbers of a frame's commands.  Alone, or in a group of two, a      *)
(* command goes by its own number whether or not the ones before it were   *)
(* replayed; a longer group may skip steps and number the rest anew.       *)
ShortFrame(f) == Grouped[f] => Len(Steps[f]) <= 2

(* A row of a short frame has its step's number, key and actor.            *)
Numbered(d) ==
  \A r \in 1..Len(d.rows) :
    LET a == d.rows[r]
    IN  /\ a.frame \in Frames
        /\ ShortFrame(a.frame) =>
             a.n = a.step /\ a.by = By[a.frame] /\ a.key = KeyOf[a.frame]

(* What a worker has spent is the steps of its short frame before the one  *)
(* it is at, and with that one once it has applied it alone.               *)
OnStep(x) ==
  x.frame \in Frames /\ ShortFrame(x.frame) =>
    /\ x.pc \in {"begin", "do"} => x.spent = x.step - 1
    /\ x.pc \in {"commit", "publish"} /\ ~Grouped[x.frame] => x.spent = x.step

NumberInv ==
  /\ LogInv /\ Numbered(db) /\ Numbered(tx)
  /\ \A w \in Workers : OnStep(worker[w])

(* A step of w alone that keeps its own count keeps them all.              *)
LEMMA NumberMoves ==
  ASSUME NumberInv, LogInv', Numbered(db'), Numbered(tx'), NEW w \in Workers,
         \A v \in Workers \ {w} : worker'[v] = worker[v], OnStep(worker'[w])
  PROVE  NumberInv'
  <1>1. ASSUME NEW v \in Workers PROVE OnStep(worker'[v])
    <2>1. CASE v = w
      BY <2>1
    <2>2. CASE v # w
      BY <2>2 DEF NumberInv
    <2> QED
      BY <2>1, <2>2
  <1> QED
    BY <1>1 DEF NumberInv

LEMMA NumberApplies ==
  ASSUME NumberInv, LogInv', NEW w \in Workers, DoApply(w)
  PROVE  NumberInv'
  <1> DEFINE x == worker[w]
             y == worker'[w]
             f == x.frame
             i == x.step
             n == Spend(w)
             p == Named(w)
  <1>1. x.pc = "do" /\ db' = db /\ tx' = Apply(tx, f, i, n, p, now)
    BY DEF DoApply
  <1>2. /\ LogInv /\ Numbered(db) /\ Numbered(tx) /\ OnStep(x)
    BY DEF NumberInv
  <1>3. /\ f \in Frames /\ i \in 1..Len(Steps[f]) /\ now \in Nat /\ tx \in Database
        /\ x \in Work /\ worker \in [Workers -> Work] /\ Len(tx.rows) \in Nat
    BY <1>1, <1>2, AnswerTypes
  <1>4. n = x.spent + 1 /\ n \in Nat /\ p \in Nat /\ x.spent \in Nat
    BY <1>1, <1>2, <1>3, AnswerTypes, NamedType DEF Spend, Work
  <1>5. /\ y.frame = f /\ y.spent = n /\ y.pc = After(w, i)
        /\ y.step = IF After(w, i) = "do" THEN i + 1 ELSE i
        /\ \A v \in Workers \ {w} : worker'[v] = worker[v]
    BY <1>3 DEF DoApply, Work
  <1>6. After(w, i) = IF Grouped[f] /\ i < Len(Steps[f]) THEN "do" ELSE "commit"
    BY DEF After
  <1> HIDE DEF x, y, f, i, n, p
  <1>7. ShortFrame(f) => n = i
    BY <1>1, <1>2, <1>3, <1>4 DEF OnStep, f, i
  <1>8. OnStep(y)
    BY <1>3, <1>5, <1>6, <1>7 DEF OnStep
  <1>9. Numbered(tx')
    <2> DEFINE l == Len(tx'.rows)
    <2>a. tx \in Database /\ f \in Frames /\ i \in 1..Len(Steps[f]) /\ now \in Nat
      BY <1>3
    <2>b. n \in Nat /\ p \in Nat /\ tx' = Apply(tx, f, i, n, p, now)
      BY <1>1, <1>4
    <2>1. /\ l = Len(tx.rows) + 1 /\ \A r \in 1..Len(tx.rows) : tx'.rows[r] = tx.rows[r]
          /\ tx'.rows[l].frame = f /\ tx'.rows[l].step = i
      <3>1. /\ Longer(tx, tx') /\ Len(tx'.rows) = Len(tx.rows) + 1
            /\ tx'.rows[Len(tx'.rows)].frame = f /\ tx'.rows[Len(tx'.rows)].step = i
        BY <2>a, <2>b, ApplyRow
      <3> QED
        BY <3>1 DEF Longer
    <2>2. tx'.rows[l].by = By[f] /\ tx'.rows[l].key = KeyOf[f] /\ tx'.rows[l].n = n
      BY <2>a, <2>b, ApplyAdds
    <2> HIDE DEF l
    <2> SUFFICES ASSUME NEW r \in 1..l
                 PROVE  /\ tx'.rows[r].frame \in Frames
                        /\ ShortFrame(tx'.rows[r].frame) =>
                             /\ tx'.rows[r].n = tx'.rows[r].step
                             /\ tx'.rows[r].by = By[tx'.rows[r].frame]
                             /\ tx'.rows[r].key = KeyOf[tx'.rows[r].frame]
      BY DEF Numbered, l
    <2>3. CASE r = l
      BY <1>3, <1>7, <2>1, <2>2, <2>3
    <2>4. CASE r # l
      <3>1. r \in 1..Len(tx.rows)
        BY <1>3, <2>1, <2>4
      <3> QED
        BY <1>2, <2>1, <3>1 DEF Numbered
    <2> QED
      BY <2>3, <2>4
  <1> QED
    BY <1>1, <1>2, <1>5, <1>8, <1>9, NumberMoves DEF y

(* A replay goes on to the next step, or ends: a group of two has only one *)
(* to go on to.                                                            *)
LEMMA NumberReplays ==
  ASSUME NumberInv, LogInv', NEW w \in Workers, DoReplay(w)
  PROVE  NumberInv'
  <1> DEFINE x == worker[w]
             y == worker'[w]
             f == x.frame
             i == x.step
             n == Spend(w)
             hit(seq, pc, j) ==
               worker' = [worker EXCEPT
                 ![w].pc = pc, ![w].step = j, ![w].spent = n,
                 ![w].target = IF @ = 0 THEN tx.rows[seq].filed ELSE @,
                 ![w].answers = Append(@, <<i, seq>>)]
  <1>1. x.pc = "do" /\ db' = db /\ (tx' = tx \/ tx' = db)
    BY DEF DoReplay
  <1>2. LogInv /\ Numbered(db) /\ Numbered(tx) /\ OnStep(x)
    BY DEF NumberInv
  <1>3. /\ f \in Frames /\ i \in 1..Len(Steps[f]) /\ Len(Steps[f]) \in Nat
        /\ x \in Work /\ worker \in [Workers -> Work]
    BY <1>1, <1>2, AnswerTypes, StepType
  <1>4. n = x.spent + 1 /\ n \in Nat
    BY <1>3 DEF Spend, Work
  <1>5. PICK seq, pc, j :
          /\ hit(seq, pc, j)
          /\ \/ Grouped[f] /\ pc = "do" /\ j \in (i + 1)..Len(Steps[f])
             \/ Grouped[f] /\ pc = "commit"
             \/ ~Grouped[f] /\ pc = "begin" /\ j = i + 1
             \/ ~Grouped[f] /\ pc = "reply"
    <2>1. PICK seq \in Originals(tx, f, n) :
            \/ /\ Grouped[f]
               /\ \/ \E j \in (i + 1)..Len(Steps[f]) : hit(seq, "do", j)
                  \/ hit(seq, "commit", i)
            \/ /\ ~Grouped[f]
               /\ IF i < Len(Steps[f]) THEN hit(seq, "begin", i + 1)
                  ELSE hit(seq, "reply", i)
      BY DEF DoReplay
    <2> HIDE DEF hit
    <2> QED
      BY <2>1, Zenon
  <1>6. /\ y.frame = f /\ y.pc = pc /\ y.step = j /\ y.spent = n
        /\ \A v \in Workers \ {w} : worker'[v] = worker[v]
    BY <1>3, <1>5 DEF Work
  <1> HIDE DEF x, y, f, i, n, hit
  <1>7. ShortFrame(f) => n = i
    BY <1>1, <1>2, <1>3, <1>4 DEF OnStep, f, i, x, Work
  <1>8. OnStep(y)
    <2>1. ASSUME ShortFrame(f), Grouped[f], j \in (i + 1)..Len(Steps[f]) PROVE j = i + 1
      BY <1>3, <2>1 DEF ShortFrame
    <2> QED
      BY <1>3, <1>5, <1>6, <1>7, <2>1 DEF OnStep
  <1> QED
    BY <1>1, <1>2, <1>6, <1>8, NumberMoves DEF y

LEMMA NumberSteps ==
  ASSUME NumberInv, LogInv', NEW w \in Workers,
         \/ Begin(w) \/ Refuse(w) \/ Commit(w)
         \/ Publish(w) \/ EndPublish(w) \/ Reply(w) \/ \E f \in Frames : Deliver(w, f)
  PROVE  NumberInv'
  <1> DEFINE x == worker[w]
             y == worker'[w]
  <1>1. /\ Numbered(db) /\ Numbered(tx) /\ OnStep(x)
        /\ worker \in [Workers -> Work] /\ x \in Work
    BY AnswerTypes DEF NumberInv
  <1>2. \A v \in Workers \ {w} : worker'[v] = worker[v]
    BY <1>1 DEF Begin, Refuse, Commit, Publish, EndPublish, Reply, Deliver
  <1>3. db' \in {db, tx} /\ tx' \in {db, tx}
    BY DEF Begin, Refuse, Commit, Publish, EndPublish, Reply, Deliver
  <1>4. OnStep(y)
    <2>1. CASE Begin(w)
      <3>1. x.pc = "begin" /\ y.pc = "do" /\ y.frame = x.frame /\ y.step = x.step /\ y.spent = x.spent
        BY <1>1, <2>1 DEF Begin, Work
      <3> QED
        BY <1>1, <3>1 DEF OnStep
    <2>2. CASE Refuse(w)
      <3>1. y.pc = "reply"
        BY <1>1, <2>2 DEF Refuse, Work
      <3> QED
        BY <3>1 DEF OnStep
    <2>3. CASE Commit(w)
      <3>1. x.pc = "commit" /\ y.pc = "publish" /\ y.frame = x.frame /\ y.step = x.step /\ y.spent = x.spent
        BY <1>1, <2>3 DEF Commit, Work
      <3> QED
        BY <1>1, <3>1 DEF OnStep
    <2>4. CASE Publish(w)
      <3>1. x.pc = "publish" /\ y.pc = "publish" /\ y.frame = x.frame /\ y.step = x.step /\ y.spent = x.spent
        BY <1>1, <2>4 DEF Publish, Work
      <3> QED
        BY <1>1, <3>1 DEF OnStep
    <2>5. CASE EndPublish(w)
      <3> DEFINE more == ~Grouped[x.frame] /\ x.step < Len(Steps[x.frame])
      <3>1. /\ x.pc = "publish" /\ y.frame = x.frame /\ y.spent = x.spent
            /\ y.pc = (IF more THEN "begin" ELSE "reply")
            /\ y.step = (IF more THEN x.step + 1 ELSE x.step)
        BY <1>1, <2>5 DEF EndPublish, Work
      <3>2. x.step \in Nat
        BY <1>1 DEF Work
      <3> HIDE DEF x, y
      <3> QED
        BY <1>1, <3>1, <3>2 DEF OnStep
    <2>6. CASE Reply(w)
      <3>1. y.pc = "idle"
        BY <1>1, <2>6 DEF Reply, Idle
      <3> QED
        BY <3>1 DEF OnStep
    <2>7. CASE \E f \in Frames : Deliver(w, f)
      <3>1. y.pc = "begin" /\ y.step = 1 /\ y.spent = 0
        BY <1>1, <2>7 DEF Deliver, Idle
      <3> QED
        BY <3>1 DEF OnStep
    <2> QED
      BY <2>1, <2>2, <2>3, <2>4, <2>5, <2>6, <2>7
  <1> QED
    BY <1>1, <1>2, <1>3, <1>4, NumberMoves DEF y

LEMMA NumberInit == Init => NumberInv
  <1> SUFFICES ASSUME Init PROVE NumberInv
    OBVIOUS
  <1>1. /\ Len(db.rows) = 0 /\ tx = db
        /\ \A w \in Workers : worker[w].pc = "idle"
    BY DEF Init, Idle
  <1>2. Numbered(db)
    <2>1. \A r \in 1..Len(db.rows) : FALSE
      BY <1>1
    <2> QED
      BY <2>1 DEF Numbered
  <1>3. \A w \in Workers : OnStep(worker[w])
    BY <1>1 DEF OnStep
  <1> QED
    BY <1>1, <1>2, <1>3, LogInit DEF NumberInv

LEMMA NumberStep == NumberInv /\ [Next]_vars => NumberInv'
  <1> SUFFICES ASSUME NumberInv, [Next]_vars PROVE NumberInv'
    OBVIOUS
  <1>1. LogInv'
    BY LogStep DEF NumberInv
  <1>2. ASSUME NEW w \in Workers, WorkerStep(w) \/ \E f \in Frames : Deliver(w, f) PROVE NumberInv'
    BY <1>1, <1>2, NumberApplies, NumberReplays, NumberSteps DEF WorkerStep
  <1>3. CASE UNCHANGED <<db, tx, worker>>
    BY <1>1, <1>3 DEF NumberInv
  <1>4. CASE PruneKeys
    <2>1. worker' = worker /\ tx' = db' /\ db'.rows = db.rows
      BY <1>4, AnswerTypes DEF PruneKeys, Database, NumberInv
    <2>2. Numbered(db')
      BY <2>1 DEF NumberInv, Numbered
    <2> QED
      BY <1>1, <2>1, <2>2 DEF NumberInv
  <1>5. CASE Crash
    <2>1. db' = db /\ tx' = db /\ \A v \in Workers : worker'[v].pc = "idle"
      BY <1>5 DEF Crash, Idle
    <2>2. \A v \in Workers : OnStep(worker'[v])
      BY <2>1 DEF OnStep
    <2> QED
      BY <1>1, <2>1, <2>2 DEF NumberInv
  <1>6. CASE \/ \E s \in Subs : (\E p \in Watched : Subscribe(s, p)) \/ Take(s) \/ Unsubscribe(s)
             \/ Tick \/ UNCHANGED vars
    <2>1. UNCHANGED <<db, tx, worker>>
      BY <1>6 DEF Subscribe, Take, Unsubscribe, Tick, vars
    <2> QED
      BY <1>3, <2>1
  <1> QED
    BY <1>2, <1>4, <1>5, <1>6 DEF Next

(* AppliedOnce, of the steps of short frames.                              *)
ShortAppliedOnce ==
  \A r \in db.present : \A s \in DOMAIN db.rows :
    LET a == db.rows[r]
        b == db.rows[s]
    IN  /\ ShortFrame(a.frame)
        /\ r < s /\ a.key # NoKey /\ a.frame = b.frame /\ a.step = b.step
        => b.at - a.at > KeyLife

LEMMA NumberedOnce == NumberInv => ShortAppliedOnce
  <1> SUFFICES ASSUME NumberInv, NEW r \in db.present, NEW s \in DOMAIN db.rows,
                      ShortFrame(db.rows[r].frame), r < s, db.rows[r].key # NoKey,
                      db.rows[r].frame = db.rows[s].frame, db.rows[r].step = db.rows[s].step
               PROVE  db.rows[s].at - db.rows[r].at > KeyLife
    BY Zenon DEF ShortAppliedOnce
  <1>1. /\ SpentOnceIn(db) /\ Numbered(db) /\ db.rows \in Seq(Row)
        /\ db.present \subseteq 1..Len(db.rows)
    BY DEF NumberInv, LogInv, OrderInv, SpentInv, KeysOK, KeysNameRows, TypeInv, TypeOK, Database
  <1>2. s \in 1..Len(db.rows) /\ r \in 1..Len(db.rows)
    BY <1>1
  <1>3. /\ db.rows[r].by = db.rows[s].by /\ db.rows[r].key = db.rows[s].key
        /\ db.rows[r].n = db.rows[s].n
    BY <1>1, <1>2 DEF Numbered
  <1> QED
    BY <1>1, <1>2, <1>3 DEF SpentOnceIn

(* No step of a client's frame is applied twice while its first row is     *)
(* there and its key lives (core.go Do, Together; keys.go replayed): a     *)
(* command alone or one of a group of two, however often the frame is      *)
(* delivered, to however many workers, and across crashes.                 *)
THEOREM ShortFramesOnce == Spec => []ShortAppliedOnce
  BY NumberInit, NumberStep, NumberedOnce, PTL DEF Spec

(* AppliedOnce itself (core.go Do, Together; keys.go replayed), where no   *)
(* client's group is of more than two commands.                            *)
THEOREM StepsAppliedOnce ==
  ASSUME \A f \in Frames : ShortFrame(f)
  PROVE  Spec => []AppliedOnce
  <1>1. NumberInv => AppliedOnce
    <2> SUFFICES ASSUME NumberInv, NEW r \in db.present, NEW s \in DOMAIN db.rows,
                        r < s, db.rows[r].key # NoKey,
                        db.rows[r].frame = db.rows[s].frame, db.rows[r].step = db.rows[s].step
                 PROVE  db.rows[s].at - db.rows[r].at > KeyLife
      BY Zenon DEF AppliedOnce
    <2>1. Numbered(db) /\ db.present \subseteq 1..Len(db.rows)
      BY DEF NumberInv, LogInv, OrderInv, SpentInv, KeysOK, KeysNameRows
    <2>2. ShortFrame(db.rows[r].frame)
      BY <2>1 DEF Numbered
    <2> QED
      BY <2>2, NumberedOnce DEF ShortAppliedOnce
  <1> QED
    BY NumberInit, NumberStep, <1>1, PTL DEF Spec
=============================================================================
