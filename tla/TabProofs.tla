----------------------------- MODULE TabProofs -----------------------------
(***************************************************************************)
(* Proofs about one tab of the web client.  Of Outbox, for any number of   *)
(* tabs, commands, cut sockets and refusals: what the person made is done  *)
(* or held, once, and as it went up.  Of Stream, for any buffers, page and *)
(* history: a tab that has caught up hears of everything, and only of what *)
(* the person could read.                                                  *)
(***************************************************************************)
EXTENDS Outbox, Stream, FiniteSetTheorems, WellFoundedInduction, TLAPS

Entry == [n : Nat, idem : Nat, text : Nat, fold : BOOLEAN, sending : BOOLEAN, refused : BOOLEAN]
PutRec == [do : {"put"}, idem : Nat, text : Nat, fold : BOOLEAN, sending : BOOLEAN,
           refused : BOOLEAN]
Requests == PutRec \cup [do : {"read"}]
TaskRec == [idem : Nat, text : Nat, fold : BOOLEAN, n : Nat, answer : {"none", "ok", "no", "hold"}]
FrameRec == [idem : Nat, text : Nat]

(* What a queue of requests and a tab's flight hold.                       *)
PutsOf(s)    == {x \in ToSet(s) : x.do = "put"}
PutNames(s)  == {x.idem : x \in PutsOf(s)}
PutsApart(s) == \A j, k \in DOMAIN s : s[j].do = "put" /\ s[k].do = "put" /\ s[j].idem = s[k].idem
                                       => j = k
HasRead(s)   == \E k \in DOMAIN s : s[k].do = "read"
OneRead(s)   == \A j, k \in DOMAIN s : s[j].do = "read" /\ s[k].do = "read" => j = k

LivesOf(w)    == {x \in ToSet(w) : Live(x)}
LiveNames(w)  == {x.idem : x \in LivesOf(w)}
LivesApart(w) == \A j, k \in DOMAIN w : Live(w[j]) /\ Live(w[k]) /\ w[j].idem = w[k].idem => j = k
TakenOf(w)    == {x \in ToSet(w) : ~Live(x)}
TakenOnce(w)  == \A j, k \in DOMAIN w : ~Live(w[j]) /\ ~Live(w[k]) => j = k
-----------------------------------------------------------------------------
LEMMA AppendFacts ==
  ASSUME NEW S, NEW s \in Seq(S), NEW e \in S
  PROVE  LET u == Append(s, e)
         IN  /\ u \in Seq(S) /\ ToSet(u) = ToSet(s) \cup {e}
             /\ DOMAIN u = DOMAIN s \cup {Len(s) + 1} /\ Len(s) + 1 \notin DOMAIN s
             /\ \A k \in DOMAIN s : u[k] = s[k]
             /\ u[Len(s) + 1] = e
  BY DEF ToSet

LEMMA TailFacts ==
  ASSUME NEW S, NEW s \in Seq(S), s # <<>>
  PROVE  LET u == Tail(s)
         IN  /\ u \in Seq(S) /\ ToSet(s) = ToSet(u) \cup {Head(s)}
             /\ 1 \in DOMAIN s /\ Head(s) = s[1] /\ Head(s) \in ToSet(s)
             /\ \A k \in DOMAIN u : k \in Nat /\ k + 1 # 1 /\ k + 1 \in DOMAIN s /\ u[k] = s[k + 1]
  <1> DEFINE u == Tail(s)
  <1>1. /\ u \in Seq(S) /\ 1 \in DOMAIN s /\ Head(s) = s[1]
        /\ Len(s) \in Nat /\ Len(s) # 0 /\ DOMAIN s = 1..Len(s) /\ DOMAIN u = 1..Len(s) - 1
        /\ \A k \in DOMAIN u : u[k] = s[k + 1]
    OBVIOUS
  <1>2. \A k \in DOMAIN u : k \in Nat /\ k + 1 # 1 /\ k + 1 \in DOMAIN s
    BY <1>1
  <1>3. \A k \in DOMAIN s : k = 1 \/ (k - 1 \in DOMAIN u /\ s[k] = u[k - 1])
    BY <1>1
  <1> HIDE DEF u
  <1>4. ToSet(u) \subseteq ToSet(s) /\ Head(s) \in ToSet(s)
    BY <1>1, <1>2 DEF ToSet
  <1>5. ToSet(s) \subseteq ToSet(u) \cup {Head(s)}
    BY <1>1, <1>3 DEF ToSet
  <1> QED
    BY <1>1, <1>2, <1>4, <1>5 DEF u

LEMMA PutAppends ==
  ASSUME NEW s \in Seq(Requests), NEW p \in PutRec
  PROVE  LET u == Append(s, p)
         IN  /\ u \in Seq(Requests) /\ PutsOf(u) = PutsOf(s) \cup {p}
             /\ PutNames(u) = PutNames(s) \cup {p.idem}
             /\ PutsApart(s) /\ p.idem \notin PutNames(s) => PutsApart(u)
             /\ HasRead(u) = HasRead(s) /\ (OneRead(s) => OneRead(u))
  <1> DEFINE u == Append(s, p)
  <1> DEFINE m == Len(s) + 1
  <1>0. p \in Requests /\ p.do = "put"
    BY DEF PutRec, Requests
  <1>1. /\ u \in Seq(Requests) /\ ToSet(u) = ToSet(s) \cup {p}
        /\ DOMAIN u = DOMAIN s \cup {m} /\ m \notin DOMAIN s
        /\ \A k \in DOMAIN s : u[k] = s[k]
        /\ u[m] = p
    BY <1>0, AppendFacts
  <1> HIDE DEF u, m
  <1>2. PutsOf(u) = PutsOf(s) \cup {p}
    BY <1>0, <1>1 DEF PutsOf
  <1>3. PutNames(u) = PutNames(s) \cup {p.idem}
    BY <1>2 DEF PutNames
  <1>4. \A k \in DOMAIN s : s[k].do = "put" => s[k].idem \in PutNames(s)
    BY DEF PutNames, PutsOf, ToSet
  <1>5. PutsApart(s) /\ p.idem \notin PutNames(s) => PutsApart(u)
    BY <1>1, <1>4 DEF PutsApart
  <1>6. HasRead(u) = HasRead(s) /\ (OneRead(s) => OneRead(u))
    BY <1>0, <1>1 DEF HasRead, OneRead
  <1> QED
    BY <1>1, <1>2, <1>3, <1>5, <1>6 DEF u

LEMMA ReadAppends ==
  ASSUME NEW s \in Seq(Requests)
  PROVE  LET u == Append(s, Read)
         IN  /\ u \in Seq(Requests) /\ PutsOf(u) = PutsOf(s)
             /\ PutsApart(s) => PutsApart(u)
             /\ HasRead(u) /\ (~HasRead(s) => OneRead(u))
  <1> DEFINE u == Append(s, Read)
  <1> DEFINE m == Len(s) + 1
  <1>0. Read \in Requests /\ Read.do = "read"
    BY DEF Read, Requests
  <1>1. /\ u \in Seq(Requests) /\ ToSet(u) = ToSet(s) \cup {Read}
        /\ DOMAIN u = DOMAIN s \cup {m} /\ m \notin DOMAIN s
        /\ \A k \in DOMAIN s : u[k] = s[k]
        /\ u[m] = Read
    BY <1>0, AppendFacts
  <1> HIDE DEF u, m
  <1>2. PutsOf(u) = PutsOf(s)
    BY <1>0, <1>1 DEF PutsOf
  <1>3. PutsApart(s) => PutsApart(u)
    BY <1>0, <1>1 DEF PutsApart
  <1>4. HasRead(u) /\ (~HasRead(s) => OneRead(u))
    BY <1>0, <1>1 DEF HasRead, OneRead
  <1> QED
    BY <1>1, <1>2, <1>3, <1>4 DEF u

LEMMA StoreGoesOn ==
  ASSUME NEW s \in Seq(Requests), s # <<>>
  PROVE  LET u == Tail(s)
         IN  /\ u \in Seq(Requests) /\ Head(s) \in Requests
             /\ Head(s).do = "put" => /\ PutsOf(s) = PutsOf(u) \cup {Head(s)}
                                      /\ HasRead(u) => HasRead(s)
             /\ Head(s).do # "put" => PutsOf(s) = PutsOf(u) /\ HasRead(s)
             /\ Head(s).do # "put" /\ OneRead(s) => ~HasRead(u)
             /\ PutsApart(s) => PutsApart(u)
             /\ PutsApart(s) /\ Head(s).do = "put" => Head(s).idem \notin PutNames(u)
             /\ OneRead(s) => OneRead(u)
  <1> DEFINE u == Tail(s)
  <1> DEFINE h == Head(s)
  <1>1. /\ u \in Seq(Requests) /\ ToSet(s) = ToSet(u) \cup {h}
        /\ 1 \in DOMAIN s /\ h = s[1]
        /\ \A k \in DOMAIN u : k \in Nat /\ k + 1 # 1 /\ k + 1 \in DOMAIN s /\ u[k] = s[k + 1]
    BY TailFacts
  <1>2. h \in Requests
    BY <1>1
  <1> HIDE DEF u, h
  <1>3. h.do = "put" \/ h.do = "read"
    BY <1>2 DEF Requests, PutRec
  <1>4. /\ h.do = "put" => PutsOf(s) = PutsOf(u) \cup {h}
        /\ h.do # "put" => PutsOf(s) = PutsOf(u)
    BY <1>1 DEF PutsOf
  <1>5. /\ HasRead(u) => HasRead(s)
        /\ h.do # "put" => HasRead(s)
        /\ h.do # "put" /\ OneRead(s) => ~HasRead(u)
    BY <1>1, <1>3 DEF HasRead, OneRead
  <1>6. \A j, k \in DOMAIN u : j + 1 = k + 1 => j = k
    BY <1>1
  <1>7. (PutsApart(s) => PutsApart(u)) /\ (OneRead(s) => OneRead(u))
    <2>1. PutsApart(s) => PutsApart(u)
      BY <1>1, <1>6 DEF PutsApart
    <2>2. OneRead(s) => OneRead(u)
      BY <1>1, <1>6 DEF OneRead
    <2> QED
      BY <2>1, <2>2
  <1>8. PutsApart(s) /\ h.do = "put" => h.idem \notin PutNames(u)
    BY <1>1 DEF PutsApart, PutNames, PutsOf, ToSet
  <1> QED
    BY <1>1, <1>2, <1>4, <1>5, <1>7, <1>8 DEF u, h

LEMMA LiveAppends ==
  ASSUME NEW w \in Seq(TaskRec), NEW c \in TaskRec, Live(c)
  PROVE  LET u == Append(w, c)
         IN  /\ u \in Seq(TaskRec) /\ ToSet(u) = ToSet(w) \cup {c}
             /\ LiveNames(u) = LiveNames(w) \cup {c.idem}
             /\ LivesApart(w) /\ c.idem \notin LiveNames(w) => LivesApart(u)
             /\ TakenOf(u) = TakenOf(w) /\ (TakenOnce(w) => TakenOnce(u))
  <1> DEFINE u == Append(w, c)
  <1> DEFINE m == Len(w) + 1
  <1>1. /\ u \in Seq(TaskRec) /\ ToSet(u) = ToSet(w) \cup {c}
        /\ DOMAIN u = DOMAIN w \cup {m} /\ m \notin DOMAIN w
        /\ \A k \in DOMAIN w : u[k] = w[k]
        /\ u[m] = c
    BY AppendFacts
  <1> HIDE DEF u, m
  <1>2. LivesOf(u) = LivesOf(w) \cup {c} /\ TakenOf(u) = TakenOf(w)
    BY <1>1 DEF LivesOf, TakenOf
  <1>3. LiveNames(u) = LiveNames(w) \cup {c.idem}
    BY <1>2 DEF LiveNames
  <1>4. \A k \in DOMAIN w : Live(w[k]) => w[k].idem \in LiveNames(w)
    BY DEF LiveNames, LivesOf, ToSet
  <1>5. LivesApart(w) /\ c.idem \notin LiveNames(w) => LivesApart(u)
    BY <1>1, <1>4 DEF LivesApart
  <1>6. TakenOnce(w) => TakenOnce(u)
    BY <1>1 DEF TakenOnce
  <1> QED
    BY <1>1, <1>2, <1>3, <1>5, <1>6 DEF u

LEMMA TakenAppends ==
  ASSUME NEW w \in Seq(TaskRec), NEW c \in TaskRec, ~Live(c)
  PROVE  LET u == Append(w, c)
         IN  /\ u \in Seq(TaskRec) /\ ToSet(u) = ToSet(w) \cup {c}
             /\ LivesOf(u) = LivesOf(w)
             /\ LivesApart(w) => LivesApart(u)
             /\ TakenOf(u) = TakenOf(w) \cup {c} /\ (TakenOf(w) = {} => TakenOnce(u))
  <1> DEFINE u == Append(w, c)
  <1> DEFINE m == Len(w) + 1
  <1>1. /\ u \in Seq(TaskRec) /\ ToSet(u) = ToSet(w) \cup {c}
        /\ DOMAIN u = DOMAIN w \cup {m} /\ m \notin DOMAIN w
        /\ \A k \in DOMAIN w : u[k] = w[k]
        /\ u[m] = c
    BY AppendFacts
  <1> HIDE DEF u, m
  <1>2. LivesOf(u) = LivesOf(w) /\ TakenOf(u) = TakenOf(w) \cup {c}
    BY <1>1 DEF LivesOf, TakenOf
  <1>3. LivesApart(w) => LivesApart(u)
    BY <1>1 DEF LivesApart
  <1>4. TakenOf(w) = {} => TakenOnce(u)
    <2>1. \A k \in DOMAIN w : ~Live(w[k]) => w[k] \in TakenOf(w)
      BY DEF TakenOf, ToSet
    <2> QED
      BY <1>1, <2>1 DEF TakenOnce
  <1> QED
    BY <1>1, <1>2, <1>3, <1>4 DEF u

LEMMA FlightGoesOn ==
  ASSUME NEW w \in Seq(TaskRec), w # <<>>
  PROVE  LET u == Tail(w)
         IN  /\ u \in Seq(TaskRec) /\ ToSet(w) = ToSet(u) \cup {Head(w)}
             /\ Head(w) \in TaskRec /\ Head(w) \in ToSet(w)
             /\ (LivesApart(w) => LivesApart(u)) /\ (TakenOnce(w) => TakenOnce(u))
             /\ LivesOf(u) \subseteq LivesOf(w) /\ TakenOf(u) \subseteq TakenOf(w)
             /\ Live(Head(w)) /\ LivesApart(w) => LiveNames(u) = LiveNames(w) \ {Head(w).idem}
             /\ Live(Head(w)) => Head(w).idem \in LiveNames(w)
             /\ ~Live(Head(w)) => LiveNames(u) = LiveNames(w)
             /\ ~Live(Head(w)) /\ TakenOnce(w) => TakenOf(u) = {}
  <1> DEFINE u == Tail(w)
  <1> DEFINE h == Head(w)
  <1>1. /\ u \in Seq(TaskRec) /\ ToSet(w) = ToSet(u) \cup {h}
        /\ 1 \in DOMAIN w /\ h = w[1] /\ h \in ToSet(w)
        /\ \A k \in DOMAIN u : k \in Nat /\ k + 1 # 1 /\ k + 1 \in DOMAIN w /\ u[k] = w[k + 1]
    BY TailFacts
  <1>2. h \in TaskRec
    BY <1>1
  <1> HIDE DEF u, h
  <1>3. \A j, k \in DOMAIN u : j + 1 = k + 1 => j = k
    BY <1>1
  <1>4. (LivesApart(w) => LivesApart(u)) /\ (TakenOnce(w) => TakenOnce(u))
    BY <1>1, <1>3 DEF LivesApart, TakenOnce
  <1>5. /\ LivesOf(u) \subseteq LivesOf(w) /\ TakenOf(u) \subseteq TakenOf(w)
        /\ Live(h) => LivesOf(w) = LivesOf(u) \cup {h}
        /\ ~Live(h) => LivesOf(w) = LivesOf(u)
    BY <1>1 DEF LivesOf, TakenOf
  <1>6. Live(h) /\ LivesApart(w) => h.idem \notin LiveNames(u)
    BY <1>1 DEF LivesApart, LiveNames, LivesOf, ToSet
  <1>7. Live(h) => LiveNames(w) = LiveNames(u) \cup {h.idem}
    BY <1>5 DEF LiveNames
  <1>8. ~Live(h) => LiveNames(u) = LiveNames(w)
    BY <1>5 DEF LiveNames
  <1>9. ~Live(h) /\ TakenOnce(w) => TakenOf(u) = {}
    BY <1>1 DEF TakenOnce, TakenOf, ToSet
  <1> QED
    BY <1>1, <1>2, <1>4, <1>5, <1>6, <1>7, <1>8, <1>9 DEF u, h

(* An answer says nothing of what was asked.                               *)
Answers(w, i, a) == [w EXCEPT ![i].answer = a]

AlikeBut(w, u, i, a) ==
  /\ u \in Seq(TaskRec) /\ DOMAIN u = DOMAIN w
  /\ \A k \in DOMAIN w : /\ u[k].idem = w[k].idem /\ u[k].text = w[k].text
                         /\ u[k].fold = w[k].fold /\ u[k].n = w[k].n
                         /\ u[k].answer = IF k = i THEN a ELSE w[k].answer
  /\ LiveNames(u) = LiveNames(w) /\ (LivesApart(w) => LivesApart(u))
  /\ (TakenOnce(w) => TakenOnce(u)) /\ (TakenOf(w) = {} => TakenOf(u) = {})

LEMMA AnswerFacts ==
  ASSUME NEW w \in Seq(TaskRec), NEW i \in DOMAIN w, NEW a \in {"none", "ok", "no", "hold"}
  PROVE  AlikeBut(w, Answers(w, i, a), i, a)
  <1> DEFINE c == w[i]
  <1> DEFINE d == [c EXCEPT !.answer = a]
  <1> DEFINE u == [w EXCEPT ![i] = d]
  <1>1. c \in TaskRec
    OBVIOUS
  <1>2. d \in TaskRec /\ d.idem = c.idem /\ d.text = c.text /\ d.fold = c.fold /\ d.n = c.n
        /\ d.answer = a
    BY <1>1 DEF TaskRec
  <1>3. u = Answers(w, i, a)
    BY DEF Answers
  <1> HIDE DEF d
  <1>4. u \in Seq(TaskRec) /\ DOMAIN u = DOMAIN w /\ \A k \in DOMAIN w : u[k] = IF k = i THEN d ELSE w[k]
    BY <1>2
  <1> HIDE DEF u
  <1>5. \A k \in DOMAIN w : /\ u[k].idem = w[k].idem /\ u[k].text = w[k].text
                            /\ u[k].fold = w[k].fold /\ u[k].n = w[k].n
                            /\ u[k].answer = IF k = i THEN a ELSE w[k].answer
    BY <1>2, <1>4
  <1>6. (LivesApart(w) => LivesApart(u)) /\ (TakenOnce(w) => TakenOnce(u))
    BY <1>4, <1>5 DEF LivesApart, TakenOnce, Live
  <1>7. TakenOf(w) = {} => TakenOf(u) = {}
    BY <1>4, <1>5 DEF TakenOf, Live, ToSet
  <1>8. /\ \A x \in LivesOf(u) : \E y \in LivesOf(w) : y.idem = x.idem
        /\ \A x \in LivesOf(w) : \E y \in LivesOf(u) : y.idem = x.idem
    BY <1>4, <1>5 DEF LivesOf, Live, ToSet
  <1>9. LiveNames(u) = LiveNames(w)
    BY <1>8 DEF LiveNames
  <1> QED
    BY <1>3, <1>4, <1>5, <1>6, <1>7, <1>9 DEF AlikeBut

LEMMA ConcatFacts ==
  ASSUME NEW S, NEW s \in Seq(S), NEW q \in Seq(S)
  PROVE  LET u == s \o q
         IN  /\ u \in Seq(S) /\ ToSet(u) = ToSet(s) \cup ToSet(q)
             /\ \A k \in DOMAIN u : \/ k \in DOMAIN s /\ u[k] = s[k]
                                    \/ \E j \in DOMAIN q : k = Len(s) + j /\ u[k] = q[j]
  <1> DEFINE u == s \o q
  <1>1. /\ u \in Seq(S) /\ Len(s) \in Nat /\ Len(q) \in Nat /\ Len(u) = Len(s) + Len(q)
        /\ DOMAIN s = 1..Len(s) /\ DOMAIN q = 1..Len(q) /\ DOMAIN u = 1..Len(u)
    OBVIOUS
  <1>2. /\ \A k \in DOMAIN s : k \in DOMAIN u /\ u[k] = s[k]
        /\ \A j \in DOMAIN q : Len(s) + j \in DOMAIN u /\ u[Len(s) + j] = q[j]
    BY <1>1
  <1>3. ASSUME NEW k \in DOMAIN u, k \notin DOMAIN s
        PROVE  \E j \in DOMAIN q : k = Len(s) + j /\ u[k] = q[j]
    <2>1. k - Len(s) \in DOMAIN q /\ k = Len(s) + (k - Len(s))
      BY <1>1, <1>3
    <2> QED
      BY <1>2, <2>1
  <1> HIDE DEF u
  <1>4. ToSet(u) \subseteq ToSet(s) \cup ToSet(q)
    BY <1>2, <1>3 DEF ToSet
  <1>5. ToSet(s) \cup ToSet(q) \subseteq ToSet(u)
    BY <1>2 DEF ToSet
  <1> QED
    BY <1>1, <1>2, <1>3, <1>4, <1>5 DEF u

(* A closed socket's live commands join the queue, each once.              *)
Joined(s, w, at) ==
  s \o [k \in 1..Cardinality({j \in DOMAIN w : Live(w[j])}) |-> Requeued(w[at[k]])]

LEMMA Requeues ==
  ASSUME NEW w \in Seq(TaskRec), NEW s \in Seq(Requests),
         NEW at \in InOrder({k \in DOMAIN w : Live(w[k])}),
         LivesApart(w), PutsApart(s), PutNames(s) \cap LiveNames(w) = {}
  PROVE  LET u == Joined(s, w, at)
         IN  /\ u \in Seq(Requests)
             /\ PutsOf(u) = PutsOf(s) \cup {Requeued(x) : x \in LivesOf(w)}
             /\ PutNames(u) = PutNames(s) \cup LiveNames(w) /\ PutsApart(u)
             /\ HasRead(u) = HasRead(s) /\ (OneRead(s) => OneRead(u))
  <1> DEFINE u == Joined(s, w, at)
  <1> DEFINE alive == {k \in DOMAIN w : Live(w[k])}
  <1> DEFINE N == Cardinality(alive)
  <1> DEFINE q == [k \in 1..N |-> Requeued(w[at[k]])]
  <1>1. N \in Nat
    <2>1. alive \subseteq 1..Len(w) /\ Len(w) \in Nat
      OBVIOUS
    <2>2. IsFiniteSet(1..Len(w))
      BY <2>1, FS_Interval
    <2>3. IsFiniteSet(alive)
      BY <2>1, <2>2, FS_Subset
    <2> QED
      BY <2>3, FS_CardinalityType
  <1>2. /\ \A k \in 1..N : at[k] \in alive
        /\ \A j, k \in 1..N : at[j] = at[k] => j = k
        /\ \A i \in alive : \E k \in 1..N : at[k] = i
    <2>1. at \in Bijection(1..N, alive)
      BY DEF InOrder
    <2> QED
      BY <2>1 DEF Bijection, Injection, Surjection, IsInjective
  <1>3. \A x \in TaskRec : Requeued(x) \in PutRec /\ Requeued(x) \in Requests
                           /\ Requeued(x).do = "put" /\ Requeued(x).idem = x.idem
    BY DEF TaskRec, PutRec, Requests, Requeued, Put
  <1>4. \A i \in alive : i \in DOMAIN w /\ w[i] \in TaskRec /\ w[i] \in LivesOf(w) /\ Live(w[i])
    BY DEF LivesOf, ToSet
  <1>5. \A x \in LivesOf(w) : \E i \in alive : w[i] = x
    BY DEF LivesOf, ToSet
  <1> HIDE DEF alive, N
  <1>6. q \in Seq(Requests) /\ Len(q) = N /\ \A k \in 1..N : q[k] = Requeued(w[at[k]])
    BY <1>1, <1>2, <1>3, <1>4
  <1> HIDE DEF q
  <1>7. ToSet(q) = {Requeued(x) : x \in LivesOf(w)}
    <2>0. DOMAIN q = 1..N
      BY <1>1, <1>6
    <2>1. ToSet(q) \subseteq {Requeued(x) : x \in LivesOf(w)}
      BY <2>0, <1>2, <1>4, <1>6 DEF ToSet
    <2>2. ASSUME NEW x \in LivesOf(w) PROVE Requeued(x) \in ToSet(q)
      BY <2>0, <1>2, <1>5, <1>6 DEF ToSet
    <2> QED
      BY <2>1, <2>2
  <1>8. u = s \o q
    BY DEF Joined, q, N, alive
  <1> HIDE DEF u
  <1>9. /\ u \in Seq(Requests) /\ ToSet(u) = ToSet(s) \cup ToSet(q)
        /\ \A k \in DOMAIN u : \/ k \in DOMAIN s /\ u[k] = s[k]
                               \/ \E j \in 1..N : k = Len(s) + j /\ u[k] = q[j]
    <2>1. DOMAIN q = 1..N
      BY <1>1, <1>6
    <2>2. /\ u \in Seq(Requests) /\ ToSet(u) = ToSet(s) \cup ToSet(q)
          /\ \A k \in DOMAIN u : \/ k \in DOMAIN s /\ u[k] = s[k]
                                 \/ \E j \in DOMAIN q : k = Len(s) + j /\ u[k] = q[j]
      <3>1. s \in Seq(Requests) /\ q \in Seq(Requests)
        BY <1>6
      <3>2. /\ s \o q \in Seq(Requests) /\ ToSet(s \o q) = ToSet(s) \cup ToSet(q)
            /\ \A k \in DOMAIN (s \o q) :
                 \/ k \in DOMAIN s /\ (s \o q)[k] = s[k]
                 \/ \E j \in DOMAIN q : k = Len(s) + j /\ (s \o q)[k] = q[j]
        BY ONLY <3>1, ConcatFacts
      <3> QED
        BY ONLY <1>8, <3>2
    <2> QED
      BY <2>1, <2>2
  <1>12. \A x \in LivesOf(w) : x \in TaskRec
    BY <1>4, <1>5
  <1>13. PutsOf(u) = PutsOf(s) \cup {Requeued(x) : x \in LivesOf(w)}
    BY <1>3, <1>7, <1>9, <1>12 DEF PutsOf
  <1>14. PutNames(u) = PutNames(s) \cup LiveNames(w)
    <2>1. \A x \in LivesOf(w) : Requeued(x).idem = x.idem
      BY <1>3, <1>12
    <2>2. \A i \in PutNames(u) : i \in PutNames(s) \cup LiveNames(w)
      BY <1>13, <2>1 DEF PutNames, LiveNames
    <2>3. PutNames(s) \subseteq PutNames(u)
      BY <1>13 DEF PutNames
    <2>4. ASSUME NEW x \in LivesOf(w) PROVE x.idem \in PutNames(u)
      <3>1. Requeued(x) \in PutsOf(u) /\ Requeued(x).idem = x.idem
        BY <1>13, <2>1
      <3> QED
        BY <3>1 DEF PutNames
    <2> QED
      BY <2>2, <2>3, <2>4 DEF LiveNames
  <1>15. \A j \in 1..N : /\ q[j].do = "put" /\ q[j].idem = w[at[j]].idem
                         /\ q[j].idem \in LiveNames(w)
    <2>1. ASSUME NEW j \in 1..N
          PROVE  /\ q[j].do = "put" /\ q[j].idem = w[at[j]].idem
                 /\ w[at[j]].idem \in LiveNames(w)
      BY <1>2, <1>3, <1>4, <1>6 DEF LiveNames
    <2> QED
      BY <2>1
  <1>16. \A k \in DOMAIN s : s[k].do = "put" => s[k].idem \in PutNames(s)
    BY DEF PutNames, PutsOf, ToSet
  <1>17. \A j, k \in 1..N : q[j].idem = q[k].idem => j = k
    <2> SUFFICES ASSUME NEW j \in 1..N, NEW k \in 1..N, q[j].idem = q[k].idem PROVE j = k
      OBVIOUS
    <2>1. at[j] = at[k]
      BY <1>2, <1>4, <1>15 DEF LivesApart
    <2> QED
      BY <1>2, <2>1
  <1>18. PutsApart(u)
    <2> SUFFICES ASSUME NEW j \in DOMAIN u, NEW k \in DOMAIN u, u[j].do = "put", u[k].do = "put",
                        u[j].idem = u[k].idem
                 PROVE  j = k
      BY DEF PutsApart
    <2>1. CASE j \in DOMAIN s /\ u[j] = s[j] /\ k \in DOMAIN s /\ u[k] = s[k]
      BY <2>1 DEF PutsApart
    <2>2. CASE \/ j \in DOMAIN s /\ u[j] = s[j] /\ \E l \in 1..N : u[k] = q[l]
               \/ k \in DOMAIN s /\ u[k] = s[k] /\ \E l \in 1..N : u[j] = q[l]
      BY <2>2, <1>15, <1>16
    <2>3. CASE /\ \E l \in 1..N : j = Len(s) + l /\ u[j] = q[l]
               /\ \E l \in 1..N : k = Len(s) + l /\ u[k] = q[l]
      BY <2>3, <1>17
    <2> QED
      BY <1>9, <2>1, <2>2, <2>3
  <1>19. HasRead(u) = HasRead(s) /\ (OneRead(s) => OneRead(u))
    <2>1. \A k \in DOMAIN u : u[k].do = "read" => k \in DOMAIN s /\ s[k].do = "read"
      BY <1>9, <1>15
    <2>2. HasRead(s) => HasRead(u)
      <3> SUFFICES ASSUME NEW j \in DOMAIN s, s[j].do = "read" PROVE HasRead(u)
        BY DEF HasRead
      <3>1. s[j] \in ToSet(u)
        BY <1>9 DEF ToSet
      <3> QED
        BY <3>1 DEF HasRead, ToSet
    <2> QED
      BY <2>1, <2>2 DEF HasRead, OneRead
  <1> QED
    BY <1>9, <1>13, <1>14, <1>18, <1>19 DEF u
-----------------------------------------------------------------------------
(* What is written down anywhere, and what has gone up.                    *)
Flown == UNION {ToSet(waiting[t]) : t \in Tabs}
Items == box \cup PutsOf(store) \cup Flown
Said  == {Frame(x) : x \in Items} \cup wire \cup ToSet(log)
Like(x, y) == x.idem = y.idem /\ x.text = y.text /\ x.fold = y.fold

Drains(d) == {"by", "step"} \subseteq DOMAIN d

Typed ==
  /\ made \in Nat /\ filed \in Nat
  /\ edits \cup creates \subseteq 1..made /\ edits \cap creates = {}
  /\ box \subseteq Entry /\ store \in Seq(Requests)
  /\ waiting \in [Tabs -> Seq(TaskRec)] /\ conn \in [Tabs -> {"down", "up", "closing"}]
  /\ wire \subseteq FrameRec /\ log \in Seq(FrameRec)
  /\ Drains(drain) /\ (drain.by = None => drain.step = "idle")
  /\ back \subseteq creates

Numbered == (\A r \in box : r.n \in 1..filed) /\ \A r, s \in box : r.n = s.n => r = s

(* A name is of one command and a text of one name; the text of an edit is *)
(* its name.                                                               *)
Sorted ==
  /\ \A f \in Said : f.idem \in edits \cup creates /\ f.text \in 1..made
                     /\ (f.idem \in edits => f.text = f.idem)
  /\ \A f, g \in Said : f.text = g.text => f.idem = g.idem
  /\ \A x \in Items : x.fold = (x.idem \in edits)

DoneApart == \A j, k \in DOMAIN log : log[j].idem = log[k].idem => j = k

(* A name is held in one place: the outbox, its queue or a tab's flight.   *)
BoxNames == {r.idem : r \in box}
Firm(i)  == i \in BoxNames \cup PutNames(store) \/ \E t \in Tabs : i \in LiveNames(waiting[t])

Apart ==
  /\ \A r, s \in box : r.idem = s.idem => r = s
  /\ PutsApart(store) /\ BoxNames \cap PutNames(store) = {}
  /\ \A t \in Tabs : /\ LivesApart(waiting[t])
                     /\ LiveNames(waiting[t]) \cap (BoxNames \cup PutNames(store)) = {}
  /\ \A t, u \in Tabs : t # u => LiveNames(waiting[t]) \cap LiveNames(waiting[u]) = {}

Kept ==
  /\ \A i \in edits \cup creates : Firm(i) \/ i \in over \cup told \cup back \/ Done(i)
  /\ \A i \in back : ~Firm(i)

Oks == \A c \in Flown : c.answer = "ok" => Done(c.idem)

(* What has gone up is held as it went up, unless its name was refused.    *)
Sent ==
  \A f \in GoneUp : f.idem \notin declined =>
    /\ f.idem \notin back
    /\ \A g \in GoneUp : g.idem = f.idem => g.text = f.text
    /\ \A x \in box \cup PutsOf(store) : x.idem = f.idem /\ ~x.fold => x.sending /\ x.text = f.text

(* A tab has an entry in flight only while its drain waits for the answer, *)
(* and the entry it came from is in the outbox and carries its name.       *)
Sends(t) == drain.by = t /\ drain.step = "sent"

Carries(r, c) ==
  r.n = c.n /\ ~r.refused /\ r.fold = c.fold /\ (~r.fold => r.idem = c.idem /\ r.sending)

Flying ==
  \A t \in Tabs :
    /\ conn[t] = "down" => waiting[t] = <<>>
    /\ conn[t] = "up" /\ ~Sends(t) => TakenOf(waiting[t]) = {}
    /\ Sends(t) => TakenOnce(waiting[t]) /\ \A c \in TakenOf(waiting[t]) : \E r \in box : Carries(r, c)

Reading == (HasRead(store) => drain.step = "reading") /\ OneRead(store)

Words   == Typed /\ Numbered /\ Sorted /\ DoneApart
Holding == Apart /\ Kept /\ Oks /\ Sent
OutboxInv == Words /\ Holding /\ Flying /\ Reading
-----------------------------------------------------------------------------
LEMMA UpIs == /\ GoneUp = wire \cup ToSet(log) \cup {Frame(c) : c \in Flown}
              /\ GoneUp' = wire' \cup ToSet(log') \cup {Frame(c) : c \in Flown'}
  BY DEF GoneUp, Flown, ToSet

LEMMA UpIsSaid == GoneUp \subseteq Said
  BY UpIs DEF Said, Items

LEMMA FirmMade ==
  ASSUME Sorted, NEW i, Firm(i)
  PROVE  i \in edits \cup creates
  <1>1. PICK x \in Items : x.idem = i
    BY DEF Firm, Items, BoxNames, PutNames, LiveNames, LivesOf, Flown
  <1>2. Frame(x) \in Said /\ Frame(x).idem = i
    BY <1>1 DEF Said, Frame
  <1> QED
    BY <1>2 DEF Sorted

LEMMA FlightChanges ==
  ASSUME Typed, NEW t \in Tabs, NEW u \in Seq(TaskRec), waiting' = [waiting EXCEPT ![t] = u]
  PROVE  /\ waiting' \in [Tabs -> Seq(TaskRec)] /\ waiting'[t] = u
         /\ \A x \in Tabs : x # t => waiting'[x] = waiting[x]
         /\ Flown' \subseteq Flown \cup ToSet(u)
  <1>1. /\ waiting' \in [Tabs -> Seq(TaskRec)] /\ waiting'[t] = u
        /\ \A x \in Tabs : x # t => waiting'[x] = waiting[x]
    BY DEF Typed
  <1>2. \A x \in Tabs : ToSet(waiting'[x]) \subseteq Flown \cup ToSet(u)
    BY <1>1 DEF Flown
  <1> QED
    BY <1>1, <1>2 DEF Flown

LEMMA LogGoesOn ==
  ASSUME Typed, NEW f \in FrameRec, log' = Append(log, f)
  PROVE  /\ log' \in Seq(FrameRec) /\ ToSet(log') = ToSet(log) \cup {f}
         /\ \A i : Done(i)' <=> Done(i) \/ i = f.idem
         /\ DoneApart /\ ~Done(f.idem) => DoneApart'
  <1> DEFINE m == Len(log) + 1
  <1>1. /\ log' \in Seq(FrameRec) /\ ToSet(log') = ToSet(log) \cup {f}
        /\ DOMAIN log' = DOMAIN log \cup {m} /\ m \notin DOMAIN log
        /\ \A k \in DOMAIN log : log'[k] = log[k]
        /\ log'[m] = f
    BY AppendFacts DEF Typed
  <1> HIDE DEF m
  <1>2. \A i : Done(i)' <=> Done(i) \/ i = f.idem
    BY <1>1 DEF Done
  <1>3. DoneApart /\ ~Done(f.idem) => DoneApart'
    BY <1>1 DEF Done, DoneApart
  <1> QED
    BY <1>1, <1>2, <1>3

(* Nothing new is said.                                                    *)
LEMMA Steady ==
  ASSUME Sorted, UNCHANGED <<made, edits, creates>>,
         \A x \in Items' : \E y \in Items : Like(x, y),
         wire' \cup ToSet(log') \subseteq Said
  PROVE  Sorted' /\ Said' \subseteq Said
  <1>1. \A x \in Items' : Frame(x) \in Said
    BY DEF Said, Like, Frame
  <1>2. Said' \subseteq Said
    BY <1>1 DEF Said
  <1>3. \A x \in Items' : x.fold = (x.idem \in edits)
    BY DEF Sorted, Like
  <1> QED
    BY <1>2, <1>3 DEF Sorted

(* One new text is said, of a new name or of a create.                     *)
LEMMA Utters ==
  ASSUME Typed, Sorted, made' = made + 1, edits \subseteq edits', creates \subseteq creates',
         edits' \subseteq edits \cup {made'},
         NEW f, f.text = made', f.idem \in edits' \cup creates', f.idem \in edits' => f.idem = made',
         Said' \subseteq Said \cup {f},
         \A x \in Items' : x.fold = (x.idem \in edits')
  PROVE  Sorted'
  <1>1. /\ \A i \in edits \cup creates : i # made'
        /\ made' \in 1..made' /\ 1..made \subseteq 1..made' /\ made' \notin 1..made
    BY DEF Typed
  <1>2. \A g \in Said : g.idem \in edits' \cup creates' /\ g.text \in 1..made' /\ g.text # made'
                        /\ (g.idem \in edits' => g.text = g.idem)
    BY <1>1 DEF Sorted
  <1> QED
    BY <1>1, <1>2 DEF Sorted

(* Nothing new goes up.                                                    *)
LEMMA SentOn ==
  ASSUME Sent, GoneUp' \subseteq GoneUp, back' = back, declined \subseteq declined',
         \A x \in (box \cup PutsOf(store))' :
           ~x.fold /\ x.idem \notin declined' =>
             \E y \in box \cup PutsOf(store) : Like(x, y) /\ x.sending = y.sending
  PROVE  Sent'
  BY DEF Sent, Like

(* A step that moves nothing between the outbox, its queue, the flights    *)
(* and the server.                                                         *)
LEMMA Stays ==
  ASSUME Words, Holding,
         UNCHANGED <<made, edits, creates, box, filed, waiting, wire, log, history>>,
         PutsOf(store') = PutsOf(store), PutsApart(store')
  PROVE  Numbered' /\ Sorted' /\ DoneApart' /\ Holding'
  <1>1. PutNames(store') = PutNames(store)
    BY DEF PutNames
  <1>2. UNCHANGED <<Flown, Items, Said, GoneUp, BoxNames>>
    BY UpIs DEF Flown, Items, Said, BoxNames
  <1>3. Numbered' /\ Sorted' /\ DoneApart'
    BY <1>2 DEF Words, Numbered, Sorted, DoneApart
  <1>4. \A i : (Firm(i)' <=> Firm(i)) /\ (Done(i)' <=> Done(i))
    BY <1>1, <1>2 DEF Firm, Done
  <1>5. Apart'
    BY <1>1, <1>2 DEF Holding, Apart
  <1>6. Kept' /\ Oks'
    BY <1>2, <1>4 DEF Holding, Kept, Oks, history
  <1>7. Sent'
    BY <1>2 DEF Holding, Sent, history
  <1> QED
    BY <1>3, <1>5, <1>6, <1>7 DEF Holding
-----------------------------------------------------------------------------
LEMMA Initially == Init => OutboxInv
  <1> SUFFICES ASSUME Init PROVE OutboxInv
    OBVIOUS
  <1>1. /\ ToSet(<<>>) = {} /\ PutsOf(<<>>) = {} /\ PutNames(<<>>) = {} /\ LivesOf(<<>>) = {}
        /\ LiveNames(<<>>) = {} /\ TakenOf(<<>>) = {} /\ PutsApart(<<>>) /\ LivesApart(<<>>)
        /\ ~HasRead(<<>>) /\ OneRead(<<>>)
    BY DEF ToSet, PutsOf, PutNames, LivesOf, LiveNames, TakenOf, PutsApart, LivesApart, HasRead,
           OneRead
  <1>2. Flown = {} /\ Items = {} /\ Said = {} /\ GoneUp = {} /\ BoxNames = {}
    BY <1>1, UpIs DEF Init, Flown, Items, Said, BoxNames
  <1>3. Typed
    BY DEF Init, Typed, Drains, NoDrain
  <1>4. Numbered /\ Sorted /\ DoneApart
    BY <1>2 DEF Init, Numbered, Sorted, DoneApart
  <1>5. Apart /\ Kept /\ Oks /\ Sent
    BY <1>1, <1>2 DEF Init, Apart, Kept, Firm, Oks, Sent
  <1>6. Flying /\ Reading
    BY <1>1 DEF Init, Flying, Reading, Sends, NoDrain
  <1> QED
    BY <1>3, <1>4, <1>5, <1>6 DEF OutboxInv, Words, Holding

(* The pass goes on, to its next entry or to a new reading.                *)
LEMMA GoesOn ==
  ASSUME Typed, Reading, drain.step \in {"pass", "sent"}, drain.by # None, NEW tries,
         NextEntry(tries) \/ ReadAgain(tries)
  PROVE  /\ store' \in Seq(Requests) /\ PutsOf(store') = PutsOf(store)
         /\ (PutsApart(store) => PutsApart(store')) /\ Reading'
         /\ Drains(drain') /\ drain'.by = drain.by /\ drain'.step \in {"pass", "reading"}
  <1>1. ~HasRead(store)
    BY DEF Reading
  <1>d. Drains(drain)
    BY DEF Typed
  <1>2. CASE ReadAgain(tries)
    <2>1. Drains(drain') /\ drain'.by = drain.by /\ drain'.step = "reading"
      BY ONLY <1>2, <1>d DEF ReadAgain, Drains
    <2> QED
      BY <1>1, <1>2, <2>1, ReadAppends DEF ReadAgain, Typed, Reading
  <1>3. CASE drain' = [drain EXCEPT !.step = "pass", !.pass = Tail(@), !.tries = tries]
             /\ UNCHANGED store
    <2>1. Drains(drain') /\ drain'.by = drain.by /\ drain'.step = "pass"
      BY ONLY <1>3, <1>d DEF Drains
    <2> QED
      BY <1>1, <1>3, <2>1 DEF Typed, Reading
  <1> QED
    BY <1>2, <1>3 DEF NextEntry

LEMMA OpensKeeps == ASSUME OutboxInv, NEW t \in Tabs, Opens(t) PROVE OutboxInv'
  <1>1. TakenOf(<<>>) = {}
    BY DEF TakenOf, ToSet
  <1>2. Typed'
    BY DEF OutboxInv, Words, Typed, Opens, history
  <1>3. Numbered' /\ Sorted' /\ DoneApart' /\ Holding'
    BY Stays DEF OutboxInv, Words, Holding, Apart, Opens
  <1>4. Flying' /\ Reading'
    BY <1>1 DEF OutboxInv, Words, Typed, Flying, Reading, Sends, Opens
  <1> QED
    BY <1>2, <1>3, <1>4 DEF OutboxInv, Words

LEMMA CutKeeps == ASSUME OutboxInv, NEW t \in Tabs, Cut(t) PROVE OutboxInv'
  <1>2. Typed'
    BY DEF OutboxInv, Words, Typed, Cut, history
  <1>3. Numbered' /\ Sorted' /\ DoneApart' /\ Holding'
    BY Stays DEF OutboxInv, Words, Holding, Apart, Cut
  <1>4. Flying' /\ Reading'
    BY DEF OutboxInv, Words, Typed, Flying, Reading, Sends, Cut
  <1> QED
    BY <1>2, <1>3, <1>4 DEF OutboxInv, Words

LEMMA ReplayKeeps == ASSUME OutboxInv, NEW t \in Tabs, Replay(t) PROVE OutboxInv'
  <1>2. Typed'
    BY DEF OutboxInv, Words, Typed, Replay, history
  <1>3. Numbered' /\ Sorted' /\ DoneApart' /\ Holding'
    BY Stays DEF OutboxInv, Words, Holding, Apart, Replay
  <1>4. Flying' /\ Reading'
    BY DEF OutboxInv, Flying, Reading, Sends, Replay
  <1> QED
    BY <1>2, <1>3, <1>4 DEF OutboxInv, Words

LEMMA LockKeeps == ASSUME OutboxInv, NEW t \in Tabs, Lock(t) PROVE OutboxInv'
  <1>1. /\ drain.by = None /\ drain.step = "idle" /\ ~HasRead(store)
        /\ Drains(drain') /\ drain'.by = t /\ drain'.step = "reading"
    <2>1. drain' = [by |-> t, step |-> "reading", pass |-> <<>>, tries |-> [n \in 1..MaxMade |-> 0]]
      BY DEF Lock, NoDrain
    <2>2. Drains(drain') /\ drain'.by = t /\ drain'.step = "reading"
      BY <2>1 DEF Drains
    <2>3. drain.by = None
      BY DEF Lock
    <2>4. drain.step = "idle" /\ ~HasRead(store)
      BY <2>3 DEF OutboxInv, Words, Typed, Reading
    <2> QED
      BY <2>2, <2>3, <2>4
  <1>2. /\ store' \in Seq(Requests) /\ PutsOf(store') = PutsOf(store) /\ PutsApart(store')
        /\ OneRead(store')
    BY <1>1, ReadAppends DEF OutboxInv, Words, Holding, Typed, Apart, Lock
  <1>3. Typed'
    BY <1>1, <1>2, OutboxAssumption DEF OutboxInv, Words, Typed, Lock, history
  <1>4. Numbered' /\ Sorted' /\ DoneApart' /\ Holding'
    BY <1>2, Stays DEF OutboxInv, Lock
  <1>5. Flying' /\ Reading'
    BY <1>1, <1>2 DEF OutboxInv, Flying, Reading, Sends, Lock
  <1> QED
    BY <1>3, <1>4, <1>5 DEF OutboxInv, Words

LEMMA SkipKeeps == ASSUME OutboxInv, NEW t \in Tabs, Skip(t) PROVE OutboxInv'
  <1>1. /\ store' \in Seq(Requests) /\ PutsOf(store') = PutsOf(store) /\ PutsApart(store')
        /\ Reading' /\ Drains(drain') /\ drain'.by = t /\ drain'.step \in {"pass", "reading"}
    BY GoesOn, OutboxAssumption DEF OutboxInv, Words, Holding, Apart, Skip
  <1>2. Typed'
    BY <1>1, OutboxAssumption DEF OutboxInv, Words, Typed, Skip, history
  <1>3. Numbered' /\ Sorted' /\ DoneApart' /\ Holding'
    BY <1>1, Stays DEF OutboxInv, Skip
  <1>4. Flying'
    BY <1>1 DEF OutboxInv, Flying, Sends, Skip
  <1> QED
    BY <1>1, <1>2, <1>3, <1>4 DEF OutboxInv, Words

LEMMA TimeoutKeeps == ASSUME OutboxInv, NEW t \in Tabs, Timeout(t) PROVE OutboxInv'
  <1>1. Drains(NoDrain) /\ NoDrain.by = None /\ NoDrain.step = "idle" /\ ~HasRead(store)
    BY DEF OutboxInv, Reading, Timeout, NoDrain, Drains
  <1>2. Typed'
    BY <1>1 DEF OutboxInv, Words, Typed, Timeout, Ends, history
  <1>3. Numbered' /\ Sorted' /\ DoneApart' /\ Holding'
    BY Stays DEF OutboxInv, Words, Holding, Apart, Timeout, Ends
  <1>4. Flying' /\ Reading'
    BY <1>1, OutboxAssumption
       DEF OutboxInv, Words, Typed, Flying, Reading, Sends, Timeout, Ends
  <1> QED
    BY <1>2, <1>3, <1>4 DEF OutboxInv, Words
-----------------------------------------------------------------------------
(* A step that only rewrites entries that no flight comes from.            *)
LEMMA FlightsHold ==
  ASSUME Flying, UNCHANGED <<waiting, conn>>, \A t \in Tabs : Sends(t)' <=> Sends(t),
         \A r \in box : \A c : Carries(r, c) => \E x \in box' : Carries(x, c)
  PROVE  Flying'
  <1> SUFFICES ASSUME NEW t \in Tabs
               PROVE  /\ conn'[t] = "down" => waiting'[t] = <<>>
                      /\ conn'[t] = "up" /\ ~Sends(t)' => TakenOf(waiting'[t]) = {}
                      /\ Sends(t)' => /\ TakenOnce(waiting'[t])
                                      /\ \A c \in TakenOf(waiting'[t]) : \E r \in box' : Carries(r, c)
    BY DEF Flying
  <1>1. Sends(t)' => TakenOnce(waiting'[t])
    BY DEF Flying
  <1>2. Sends(t)' => \A c \in TakenOf(waiting'[t]) : \E r \in box' : Carries(r, c)
    BY DEF Flying
  <1> QED
    BY <1>1, <1>2 DEF Flying

LEMMA StoreReadKeeps ==
  ASSUME OutboxInv, Store, Head(store).do # "put"
  PROVE  OutboxInv'
  <1>1. /\ store' \in Seq(Requests) /\ PutsOf(store') = PutsOf(store) /\ HasRead(store)
        /\ ~HasRead(store') /\ PutsApart(store') /\ OneRead(store')
    BY StoreGoesOn DEF OutboxInv, Words, Holding, Typed, Apart, Reading, Store
  <1>2. drain.step = "reading" /\ Drains(drain) /\ drain.by # None
    BY <1>1 DEF OutboxInv, Words, Typed, Reading
  <1>3. /\ Drains(drain') /\ (drain'.by = None => drain'.step = "idle")
        /\ drain'.step \in {"idle", "pass"}
    <2>1. CASE drain' = NoDrain
      BY <2>1 DEF NoDrain, Drains
    <2>2. ASSUME NEW pass, drain' = [drain EXCEPT !.step = "pass", !.pass = pass]
          PROVE  Drains(drain') /\ drain'.by = drain.by /\ drain'.step = "pass"
      BY ONLY <2>2, <1>2 DEF Drains
    <2> QED
      BY <1>2, <2>1, <2>2 DEF Store, RunRead
  <1>4. /\ UNCHANGED <<box, filed, over, made, edits, creates, conn, waiting, owed, wire, log, told,
                       back, declined>>
    BY DEF Store
  <1>5. Typed'
    BY <1>1, <1>3, <1>4 DEF OutboxInv, Words, Typed
  <1>6. Numbered' /\ Sorted' /\ DoneApart' /\ Holding'
    BY <1>1, <1>4, Stays DEF OutboxInv, history
  <1>7. Flying'
    BY <1>2, <1>3, <1>4, FlightsHold DEF OutboxInv, Sends
  <1> QED
    BY <1>1, <1>5, <1>6, <1>7 DEF OutboxInv, Words, Reading

LEMMA FirstWaits ==
  ASSUME box \subseteq Entry, NEW found \in SUBSET box, found # {}
  PROVE  \E x \in found : \A y \in found : x.n <= y.n
  <1> DEFINE T == {x.n : x \in found}
  <1>1. T \subseteq Nat /\ T # {}
    BY DEF Entry
  <1>2. \E i \in T : \A j \in T : ~(<<j, i>> \in OpToRel(<, Nat))
    BY <1>1, NatLessThanWellFounded, WFMin
  <1>3. PICK i \in T : \A j \in T : ~(j < i)
    BY <1>1, <1>2 DEF OpToRel
  <1>4. \A j \in T : i <= j
    BY <1>1, <1>3
  <1> QED
    BY <1>4

(* A queued command is filed, in the place of the entries it folds over.   *)
LEMMA Files ==
  ASSUME OutboxInv, NEW p \in PutRec, NEW R \in SUBSET box, NEW e \in Entry,
         box' = (box \ R) \cup {e}, Like(e, p), e.sending = p.sending,
         store' \in Seq(Requests), PutsOf(store) = PutsOf(store') \cup {p}, PutsApart(store'),
         p.idem \notin PutNames(store'), HasRead(store') => HasRead(store), OneRead(store'),
         \A r \in R : r.idem \in over' /\ Carries(e, r), over \subseteq over',
         filed' \in Nat, Numbered', UNCHANGED <<made, edits, creates, conn, waiting, wire, log, told,
                                               back, declined, drain>>
  PROVE  OutboxInv'
  <1>1. /\ PutNames(store) = PutNames(store') \cup {p.idem}
        /\ BoxNames' \subseteq BoxNames \cup {p.idem} /\ p.idem \notin BoxNames
        /\ p \in PutsOf(store)
    BY DEF OutboxInv, Holding, Apart, PutNames, BoxNames, Like
  <1>2. Typed'
    BY DEF OutboxInv, Words, Typed
  <1>3. UNCHANGED <<Flown, GoneUp>>
    BY UpIs DEF Flown
  <1>4. \A x \in Items' : \E y \in Items : Like(x, y)
    BY <1>1, <1>3 DEF Items, Like
  <1>5. wire' \cup ToSet(log') \subseteq Said
    BY DEF Said
  <1>6. Sorted'
    BY <1>4, <1>5, Steady DEF OutboxInv, Words
  <1>7. DoneApart'
    BY DEF OutboxInv, Words, DoneApart
  <1>8. Apart'
    <2>1. \A r, s \in box' : r.idem = s.idem => r = s
      BY <1>1 DEF OutboxInv, Holding, Apart, BoxNames, Like
    <2>2. BoxNames' \cap PutNames(store') = {}
      BY <1>1 DEF OutboxInv, Holding, Apart
    <2>3. \A t \in Tabs : LiveNames(waiting'[t]) \cap (BoxNames' \cup PutNames(store')) = {}
      BY <1>1 DEF OutboxInv, Holding, Apart
    <2> QED
      BY <2>1, <2>2, <2>3 DEF OutboxInv, Holding, Apart
  <1>9. /\ \A i : Firm(i)' => Firm(i)
        /\ \A i : Firm(i) => Firm(i)' \/ i \in over'
    <2>1. \A i \in BoxNames : i \in BoxNames' \/ i \in over'
      BY DEF BoxNames
    <2>2. p.idem \in BoxNames'
      BY DEF BoxNames, Like
    <2> QED
      BY <1>1, <2>1, <2>2 DEF Firm
  <1>10. \A i : Done(i)' <=> Done(i)
    BY DEF Done
  <1>11. Kept'
    BY <1>9, <1>10 DEF OutboxInv, Holding, Kept
  <1>12. Oks'
    BY <1>3, <1>10 DEF OutboxInv, Holding, Oks
  <1>13. Sent'
    <2>1. \A x \in (box \cup PutsOf(store))' :
            \E y \in box \cup PutsOf(store) : Like(x, y) /\ x.sending = y.sending
      BY <1>1 DEF Like
    <2> QED
      BY <2>1, <1>3, SentOn DEF OutboxInv, Holding
  <1>14. Flying'
    BY FlightsHold DEF OutboxInv, Sends, Carries
  <1>15. Reading'
    BY DEF OutboxInv, Reading
  <1> QED
    BY <1>2, <1>6, <1>7, <1>8, <1>11, <1>12, <1>13, <1>14, <1>15 DEF OutboxInv, Words, Holding

LEMMA StorePutKeeps ==
  ASSUME OutboxInv, Store, Head(store).do = "put"
  PROVE  OutboxInv'
  <1> DEFINE p == Head(store)
  <1> DEFINE entry(n) == [n |-> n, idem |-> p.idem, text |-> p.text, fold |-> p.fold,
                          sending |-> p.sending, refused |-> p.refused]
  <1>1. /\ store' \in Seq(Requests) /\ p \in Requests /\ PutsOf(store) = PutsOf(store') \cup {p}
        /\ PutsApart(store') /\ p.idem \notin PutNames(store')
        /\ (HasRead(store') => HasRead(store)) /\ OneRead(store')
    BY StoreGoesOn DEF OutboxInv, Words, Holding, Typed, Apart, Reading, Store
  <1>2. /\ UNCHANGED <<made, edits, creates, conn, waiting, wire, log, told, back, declined, drain>>
        /\ RunPut(p)
    BY DEF Store
  <1> HIDE DEF p
  <1>3. p \in PutRec
    BY <1>1 DEF Requests, p
  <1>4. \A n \in Nat : /\ entry(n) \in Entry /\ Like(entry(n), p) /\ entry(n).sending = p.sending
                       /\ entry(n).n = n /\ entry(n).refused = p.refused /\ entry(n).fold = p.fold
    BY <1>3 DEF PutRec, Entry, Like
  <1> HIDE DEF entry
  <1>5. box \subseteq Entry /\ filed \in Nat /\ Numbered
    BY DEF OutboxInv, Words, Typed
  <1>6. CASE Folds(p) # {} /\ ~p.refused
    <2> DEFINE found == Folds(p)
    <2> DEFINE r == CHOOSE x \in found : \A y \in found : x.n <= y.n
    <2>1. found \in SUBSET box /\ found # {}
      BY <1>6 DEF Folds
    <2>2. \E x \in found : \A y \in found : x.n <= y.n
      BY <1>5, <2>1, FirstWaits
    <2>3. r \in found
      BY <2>2
    <2>4. /\ box' = (box \ {r}) \cup {entry(r.n)} /\ filed' = filed
          /\ over' = IF r.idem = p.idem THEN over ELSE over \cup {r.idem}
      BY <1>2, <1>6 DEF RunPut, entry
    <2> HIDE DEF r, found
    <2>5. r \in box /\ r.fold /\ ~r.refused /\ p.fold /\ r.n \in Nat
      BY <1>5, <2>1, <2>3 DEF found, Folds, Entry
    <2>6. r.idem # p.idem
      <3>1. p.idem \in PutNames(store) /\ r.idem \in BoxNames
        BY <1>1, <2>5 DEF PutNames, BoxNames
      <3> QED
        BY <3>1 DEF OutboxInv, Holding, Apart
    <2> DEFINE e == entry(r.n)
    <2> DEFINE R == {r}
    <2>7. /\ e \in Entry /\ Like(e, p) /\ e.sending = p.sending /\ e.n = r.n
          /\ e.fold = p.fold /\ e.refused = p.refused
      BY <1>4, <2>5
    <2>8. box' = (box \ R) \cup {e} /\ R \in SUBSET box
      BY <2>4, <2>5
    <2> HIDE DEF e
    <2>9. Carries(e, r)
      BY <1>6, <2>5, <2>7, <1>3, <1>5 DEF Carries, PutRec, Entry
    <2>10. \A x \in R : x.idem \in over' /\ Carries(e, x)
      BY <2>4, <2>6, <2>9
    <2>11. Numbered'
      BY <1>5, <2>4, <2>5, <2>7, <2>8 DEF Numbered
    <2> HIDE DEF R
    <2>12. over \subseteq over' /\ filed' \in Nat
      BY <1>5, <2>4
    <2> QED
      BY ONLY OutboxInv, <1>1, <1>2, <1>3, <2>7, <2>8, <2>10, <2>11, <2>12, Files
  <1>7. CASE ~(Folds(p) # {} /\ ~p.refused)
    <2> DEFINE e == entry(filed')
    <2> DEFINE R == {}
    <2>1. filed' = filed + 1 /\ box' = box \cup {e} /\ over' = over
      BY <1>2, <1>7 DEF RunPut, entry
    <2>2. filed' \in Nat
      BY <1>5, <2>1
    <2>3. e \in Entry /\ Like(e, p) /\ e.sending = p.sending /\ e.n = filed'
      BY <1>4, <2>2
    <2> HIDE DEF e
    <2>4. Numbered'
      <3>1. \A x \in box : x.n \in 1..filed /\ x.n \in 1..filed' /\ x.n # filed'
        BY <1>5, <2>1 DEF Numbered
      <3>2. filed' \in 1..filed'
        BY <1>5, <2>1
      <3> QED
        BY <1>5, <2>1, <2>3, <3>1, <3>2 DEF Numbered
    <2>5. box' = (box \ R) \cup {e} /\ R \in SUBSET box /\ over \subseteq over'
          /\ \A x \in R : x.idem \in over' /\ Carries(e, x)
      BY <2>1
    <2> HIDE DEF R
    <2> QED
      BY ONLY OutboxInv, <1>1, <1>2, <1>3, <2>2, <2>3, <2>4, <2>5, Files
  <1> QED
    BY <1>6, <1>7
-----------------------------------------------------------------------------
BoxApart == \A r, s \in box : r.idem = s.idem => r = s

(* An entry is rewritten where it stands, or leaves.                       *)
LEMMA BoxKeeps ==
  ASSUME Typed, Numbered, BoxApart, NEW r \in box, NEW e \in Entry, e.n = r.n, e.idem = r.idem,
         box' = (box \ {r}) \cup {e}, filed' = filed
  PROVE  box' \subseteq Entry /\ Numbered' /\ BoxApart' /\ BoxNames' = BoxNames
  <1>1. box' \subseteq Entry /\ BoxNames' = BoxNames
    BY DEF Typed, BoxNames
  <1>2. Numbered' /\ BoxApart'
    BY DEF Typed, Numbered, BoxApart
  <1> QED
    BY <1>1, <1>2

LEMMA BoxLess ==
  ASSUME Typed, Numbered, BoxApart, NEW r \in box, box' = box \ {r}, filed' = filed
  PROVE  /\ box' \subseteq Entry /\ Numbered' /\ BoxApart'
         /\ BoxNames' = BoxNames \ {r.idem} /\ r.idem \in BoxNames
  <1>1. box' \subseteq Entry /\ Numbered' /\ BoxApart'
    BY DEF Typed, Numbered, BoxApart
  <1>2. BoxNames' = BoxNames \ {r.idem} /\ r.idem \in BoxNames
    BY DEF BoxNames, BoxApart
  <1> QED
    BY <1>1, <1>2

LEMMA AgainKeeps == ASSUME OutboxInv, NEW t \in Tabs, NEW r \in box, Again(t, r) PROVE OutboxInv'
  <1> DEFINE no == FALSE
  <1> DEFINE e == [r EXCEPT !.refused = no]
  <1>1. /\ box' = (box \ {r}) \cup {e}
        /\ UNCHANGED <<made, edits, creates, filed, store, conn, waiting, replaying, drain, wire, log,
                       over, told, back, declined>>
    BY DEF Again, history
  <1>2. no \in BOOLEAN
    OBVIOUS
  <1> HIDE DEF no
  <1>3. r \in Entry /\ Typed /\ Numbered /\ BoxApart
    BY DEF OutboxInv, Words, Typed, Holding, Apart, BoxApart
  <1>4. /\ e \in Entry /\ e.n = r.n /\ e.idem = r.idem /\ e.text = r.text /\ e.fold = r.fold
        /\ e.sending = r.sending /\ e.refused = no
    BY <1>2, <1>3 DEF Entry
  <1> HIDE DEF e
  <1>5. /\ box' \subseteq Entry /\ Numbered' /\ BoxApart' /\ BoxNames' = BoxNames
    BY <1>1, <1>3, <1>4, BoxKeeps
  <1>6. Typed'
    BY <1>1, <1>3, <1>5 DEF Typed
  <1>7. UNCHANGED <<Flown, GoneUp>>
    BY <1>1, UpIs DEF Flown
  <1>8. Sorted'
    <2>1. \A x \in Items' : \E y \in Items : Like(x, y)
      BY <1>1, <1>4, <1>7 DEF Items, Like
    <2> QED
      BY <1>1, <2>1, Steady DEF OutboxInv, Words, Said
  <1>9. DoneApart' /\ Apart'
    BY <1>1, <1>5 DEF OutboxInv, Words, DoneApart, Holding, Apart, BoxApart
  <1>10. Kept' /\ Oks'
    BY <1>1, <1>5, <1>7 DEF OutboxInv, Holding, Kept, Firm, Done, Oks
  <1>11. Sent'
    <2>1. \A x \in (box \cup PutsOf(store))' :
            \E y \in box \cup PutsOf(store) : Like(x, y) /\ x.sending = y.sending
      BY <1>1, <1>4 DEF Like
    <2> QED
      BY <1>1, <1>7, <2>1, SentOn DEF OutboxInv, Holding
  <1>12. Flying'
    <2>1. ~no
      BY DEF no
    <2>2. \A x \in box : \A c : Carries(x, c) => \E y \in box' : Carries(y, c)
      BY <1>1, <1>4, <2>1 DEF Carries, Again
    <2> QED
      BY <1>1, <2>2, FlightsHold DEF OutboxInv, Sends
  <1>13. Reading'
    BY <1>1 DEF OutboxInv, Reading
  <1> QED
    BY <1>5, <1>6, <1>8, <1>9, <1>10, <1>11, <1>12, <1>13 DEF OutboxInv, Words, Holding

LEMMA LetGoKeeps == ASSUME OutboxInv, NEW r \in box, LetGo(r) PROVE OutboxInv'
  <1>1. /\ box' = box \ {r} /\ r.refused /\ told' = told \cup {r.idem}
        /\ UNCHANGED <<made, edits, creates, filed, store, conn, waiting, replaying, drain, wire, log,
                       over, back, declined>>
    BY DEF LetGo
  <1>2. Typed /\ Numbered /\ BoxApart
    BY DEF OutboxInv, Words, Holding, Apart, BoxApart
  <1>3. /\ box' \subseteq Entry /\ Numbered' /\ BoxApart'
        /\ BoxNames' = BoxNames \ {r.idem} /\ r.idem \in BoxNames
    BY <1>1, <1>2, BoxLess
  <1>4. Typed'
    BY <1>1, <1>2, <1>3 DEF Typed
  <1>5. UNCHANGED <<Flown, GoneUp>>
    BY <1>1, UpIs DEF Flown
  <1>6. Sorted'
    <2>1. \A x \in Items' : \E y \in Items : Like(x, y)
      BY <1>1, <1>5 DEF Items, Like
    <2> QED
      BY <1>1, <2>1, Steady DEF OutboxInv, Words, Said
  <1>7. DoneApart' /\ Apart'
    BY <1>1, <1>3 DEF OutboxInv, Words, DoneApart, Holding, Apart, BoxApart
  <1>8. Kept' /\ Oks'
    BY <1>1, <1>3, <1>5 DEF OutboxInv, Holding, Kept, Firm, Done, Oks
  <1>9. Sent'
    <2>1. \A x \in (box \cup PutsOf(store))' :
            \E y \in box \cup PutsOf(store) : Like(x, y) /\ x.sending = y.sending
      BY <1>1 DEF Like
    <2> QED
      BY <1>1, <1>5, <2>1, SentOn DEF OutboxInv, Holding
  <1>10. Flying'
    <2>1. \A x \in box : \A c : Carries(x, c) => \E y \in box' : Carries(y, c)
      BY <1>1 DEF Carries
    <2> QED
      BY <1>1, <2>1, FlightsHold DEF OutboxInv, Sends
  <1>11. Reading'
    BY <1>1 DEF OutboxInv, Reading
  <1> QED
    BY <1>3, <1>4, <1>6, <1>7, <1>8, <1>9, <1>10, <1>11 DEF OutboxInv, Words, Holding

LEMMA UnqueueKeeps == ASSUME OutboxInv, NEW r \in box, Unqueue(r) PROVE OutboxInv'
  <1>1. /\ box' = box \ {r} /\ ~r.fold /\ ~r.sending /\ back' = back \cup {r.idem}
        /\ UNCHANGED <<made, edits, creates, filed, store, conn, waiting, replaying, drain, wire, log,
                       over, told, declined>>
    BY DEF Unqueue, Named
  <1>2. Typed /\ Numbered /\ BoxApart
    BY DEF OutboxInv, Words, Holding, Apart, BoxApart
  <1>3. /\ box' \subseteq Entry /\ Numbered' /\ BoxApart'
        /\ BoxNames' = BoxNames \ {r.idem} /\ r.idem \in BoxNames
    BY <1>1, <1>2, BoxLess
  <1>4. r.idem \in creates
    <2>1. Firm(r.idem) /\ r \in Items
      BY <1>3 DEF Firm, Items
    <2> QED
      BY <1>1, <2>1, FirmMade DEF OutboxInv, Words, Sorted
  <1>5. Typed'
    BY <1>1, <1>2, <1>3, <1>4 DEF Typed
  <1>6. UNCHANGED <<Flown, GoneUp>>
    BY <1>1, UpIs DEF Flown
  <1>7. Sorted'
    <2>1. \A x \in Items' : \E y \in Items : Like(x, y)
      BY <1>1, <1>6 DEF Items, Like
    <2> QED
      BY <1>1, <2>1, Steady DEF OutboxInv, Words, Said
  <1>8. DoneApart' /\ Apart'
    BY <1>1, <1>3 DEF OutboxInv, Words, DoneApart, Holding, Apart, BoxApart
  <1>9. Kept' /\ Oks'
    <2>1. \A i : Firm(i)' <=> Firm(i) /\ i # r.idem
      BY <1>1, <1>3 DEF OutboxInv, Holding, Apart, Firm
    <2> QED
      BY <1>1, <2>1, <1>6 DEF OutboxInv, Holding, Kept, Done, Oks
  <1>10. Sent'
    <2>1. \A f \in GoneUp : f.idem \notin declined => f.idem # r.idem
      BY <1>1 DEF OutboxInv, Holding, Sent
    <2> QED
      BY <1>1, <1>6, <2>1 DEF OutboxInv, Holding, Sent
  <1>11. Flying'
    <2>1. \A x \in box : \A c : Carries(x, c) => \E y \in box' : Carries(y, c)
      BY <1>1 DEF Carries
    <2> QED
      BY <1>1, <2>1, FlightsHold DEF OutboxInv, Sends
  <1>12. Reading'
    BY <1>1 DEF OutboxInv, Reading
  <1> QED
    BY <1>3, <1>5, <1>7, <1>8, <1>9, <1>10, <1>11, <1>12 DEF OutboxInv, Words, Holding

LEMMA RetextKeeps == ASSUME OutboxInv, NEW r \in box, Retext(r) PROVE OutboxInv'
  <1> DEFINE e == [r EXCEPT !.text = made']
  <1>1. /\ box' = (box \ {r}) \cup {e} /\ ~r.fold /\ ~r.sending /\ made' = made + 1
        /\ UNCHANGED <<edits, creates, filed, store, conn, waiting, replaying, drain, wire, log,
                       over, told, back, declined>>
    BY DEF Retext, Named, history
  <1>2. r \in Entry /\ Typed /\ Numbered /\ BoxApart /\ made' \in Nat
    BY <1>1 DEF OutboxInv, Words, Typed, Holding, Apart, BoxApart
  <1>3. /\ e \in Entry /\ e.n = r.n /\ e.idem = r.idem /\ e.text = made' /\ e.fold = r.fold
        /\ e.sending = r.sending /\ e.refused = r.refused
    BY <1>2 DEF Entry
  <1> HIDE DEF e
  <1>4. /\ box' \subseteq Entry /\ Numbered' /\ BoxApart' /\ BoxNames' = BoxNames
    BY <1>1, <1>2, <1>3, BoxKeeps
  <1>5. Typed'
    <2>1. 1..made \subseteq 1..made'
      BY <1>1, <1>2 DEF Typed
    <2> QED
      BY <1>1, <1>2, <1>4, <2>1 DEF Typed
  <1>6. UNCHANGED <<Flown, GoneUp>>
    BY <1>1, UpIs DEF Flown
  <1>7. r.idem \in creates /\ r.idem \notin edits
    <2>1. Firm(r.idem) /\ r \in Items
      BY DEF Firm, BoxNames, Items
    <2> QED
      BY <1>1, <2>1, FirmMade DEF OutboxInv, Words, Typed, Sorted
  <1>8. Sorted'
    <2> DEFINE f == Frame(e)
    <2>1. f.text = made' /\ f.idem \in creates /\ f.idem \notin edits
      BY <1>3, <1>7 DEF Frame
    <2>2. \A x \in Items' : x = e \/ x \in Items
      BY <1>1, <1>6 DEF Items
    <2>3. \A x \in Items' : x.fold = (x.idem \in edits)
      <3>1. \A x \in Items : x.fold = (x.idem \in edits)
        BY DEF OutboxInv, Words, Sorted
      <3>2. e.fold = (e.idem \in edits)
        BY <1>3, <3>1 DEF Items
      <3> QED
        BY <2>2, <3>1, <3>2
    <2>4. Said' \subseteq Said \cup {f}
      BY <2>2, <1>1 DEF Said
    <2> HIDE DEF f
    <2> QED
      BY <1>1, <1>2, <2>1, <2>3, <2>4, Utters DEF OutboxInv, Words
  <1>9. DoneApart' /\ Apart'
    BY <1>1, <1>4 DEF OutboxInv, Words, DoneApart, Holding, Apart, BoxApart
  <1>10. Kept' /\ Oks'
    BY <1>1, <1>4, <1>6 DEF OutboxInv, Holding, Kept, Firm, Done, Oks
  <1>11. Sent'
    <2>1. \A f \in GoneUp : f.idem \notin declined => f.idem # r.idem
      BY <1>1 DEF OutboxInv, Holding, Sent
    <2> QED
      BY <1>1, <1>3, <1>6, <2>1 DEF OutboxInv, Holding, Sent
  <1>12. Flying'
    <2>1. \A x \in box : \A c : Carries(x, c) => \E y \in box' : Carries(y, c)
      BY <1>1 DEF Carries
    <2> QED
      BY <1>1, <2>1, FlightsHold DEF OutboxInv, Sends
  <1>13. Reading'
    BY <1>1 DEF OutboxInv, Reading
  <1> QED
    BY <1>4, <1>5, <1>8, <1>9, <1>10, <1>11, <1>12, <1>13 DEF OutboxInv, Words, Holding

LEMMA TakeKeeps == ASSUME OutboxInv, NEW t \in Tabs, Take(t) PROVE OutboxInv'
  <1> PICK r \in box :
        /\ r.n = Head(drain.pass) /\ Waits(r)
        /\ box' = (box \ {r}) \cup {Taken(r)}
        /\ IF conn[t] = "up"
           THEN /\ waiting' = [waiting EXCEPT ![t] =
                                 Append(@, Task(Taken(r).idem, r.text, r.fold, r.n))]
                /\ drain' = [drain EXCEPT !.step = "sent"]
           ELSE drain' = NoDrain /\ UNCHANGED waiting
    BY DEF Take, Ends
  <1> DEFINE yes == TRUE
  <1> DEFINE e == [r EXCEPT !.sending = yes]
  <1>1. /\ box' = (box \ {r}) \cup {e} /\ ~r.refused /\ drain.by = t /\ drain.step = "pass"
        /\ UNCHANGED <<made, edits, creates, filed, store, conn, wire, log, over, told, back, declined>>
    BY DEF Take, Taken, Waits, history
  <1>2. yes \in BOOLEAN /\ yes
    OBVIOUS
  <1> HIDE DEF yes
  <1>3. r \in Entry /\ Typed /\ Numbered /\ BoxApart
    BY DEF OutboxInv, Words, Typed, Holding, Apart, BoxApart
  <1>4. /\ e \in Entry /\ e.n = r.n /\ e.idem = r.idem /\ e.text = r.text /\ e.fold = r.fold
        /\ e.sending /\ e.refused = r.refused
    BY <1>2, <1>3 DEF Entry
  <1>5. Taken(r).idem = r.idem
    BY <1>3 DEF Taken, Entry
  <1> HIDE DEF e
  <1>6. /\ box' \subseteq Entry /\ Numbered' /\ BoxApart' /\ BoxNames' = BoxNames
    BY <1>1, <1>3, <1>4, BoxKeeps
  <1>7. DoneApart' /\ \A i : Done(i)' <=> Done(i)
    BY <1>1 DEF OutboxInv, Words, DoneApart, Done
  <1>8. ~HasRead(store) /\ ~HasRead(store') /\ Reading'
    BY <1>1 DEF OutboxInv, Reading
  <1>9. CASE conn[t] # "up"
    <2>1. drain' = NoDrain /\ UNCHANGED waiting
      BY <1>9
    <2>2. Drains(drain') /\ drain'.step = "idle"
      BY <2>1 DEF NoDrain, Drains
    <2>3. Typed'
      BY <1>1, <1>3, <1>6, <2>1, <2>2 DEF Typed
    <2>4. UNCHANGED <<Flown, GoneUp>>
      BY <1>1, <2>1, UpIs DEF Flown
    <2>5. Sorted'
      <3>1. \A x \in Items' : \E y \in Items : Like(x, y)
        BY <1>1, <1>4, <2>4 DEF Items, Like
      <3> QED
        BY <1>1, <3>1, Steady DEF OutboxInv, Words, Said
    <2>6. Apart'
      BY <1>1, <1>6, <2>1 DEF OutboxInv, Holding, Apart, BoxApart
    <2>7. Kept' /\ Oks'
      BY <1>1, <1>6, <1>7, <2>1, <2>4 DEF OutboxInv, Holding, Kept, Firm, Oks
    <2>8. Sent'
      BY <1>1, <1>4, <2>4 DEF OutboxInv, Holding, Sent
    <2>9. Flying'
      <3>1. \A x \in box : \A c : Carries(x, c) => \E y \in box' : Carries(y, c)
        BY <1>1, <1>4 DEF Carries
      <3>2. \A u \in Tabs : Sends(u)' <=> Sends(u)
        BY <1>1, <2>2 DEF Sends
      <3> QED
        BY <1>1, <2>1, <3>1, <3>2, FlightsHold DEF OutboxInv
    <2> QED
      BY <1>6, <1>7, <1>8, <2>3, <2>5, <2>6, <2>7, <2>8, <2>9 DEF OutboxInv, Words, Holding
  <1>10. CASE conn[t] = "up"
    <2> DEFINE c == Task(r.idem, r.text, r.fold, r.n)
    <2> DEFINE w == waiting[t]
    <2> DEFINE u == Append(w, c)
    <2>1. waiting' = [waiting EXCEPT ![t] = u] /\ drain' = [drain EXCEPT !.step = "sent"]
      BY <1>5, <1>10
    <2>2. /\ c \in TaskRec /\ c.idem = r.idem /\ c.text = r.text /\ c.fold = r.fold /\ c.n = r.n
          /\ c.answer = "none" /\ Frame(c) = Frame(r) /\ w \in Seq(TaskRec)
      BY <1>3 DEF Task, TaskRec, Entry, Frame, Typed
    <2>3. ~Live(c)
      BY <1>3, <2>2 DEF Live, Numbered, Typed
    <2> HIDE DEF c
    <2>4. /\ u \in Seq(TaskRec) /\ ToSet(u) = ToSet(w) \cup {c} /\ LivesOf(u) = LivesOf(w)
          /\ (LivesApart(w) => LivesApart(u))
          /\ TakenOf(u) = TakenOf(w) \cup {c} /\ (TakenOf(w) = {} => TakenOnce(u))
      BY <2>2, <2>3, TakenAppends
    <2> HIDE DEF u
    <2>5. /\ waiting' \in [Tabs -> Seq(TaskRec)] /\ waiting'[t] = u
          /\ \A x \in Tabs : x # t => waiting'[x] = waiting[x]
          /\ Flown' \subseteq Flown \cup {c}
      <3>1. ToSet(w) \subseteq Flown
        BY DEF Flown
      <3> QED
        BY <1>3, <2>1, <2>4, <3>1, FlightChanges
    <2>6. Drains(drain') /\ drain'.by = t /\ drain'.step = "sent"
      <3>1. Drains(drain)
        BY <1>3 DEF Typed
      <3> QED
        BY ONLY <3>1, <2>1, <1>1 DEF Drains
    <2>7. Typed'
      BY <1>1, <1>3, <1>6, <2>5, <2>6, OutboxAssumption DEF Typed
    <2>8. GoneUp' \subseteq GoneUp \cup {Frame(r)}
      BY <1>1, <2>2, <2>5, UpIs
    <2>9. Sorted'
      <3>1. \A x \in Items' : \E y \in Items : Like(x, y)
        BY <1>1, <1>4, <2>2, <2>5 DEF Items, Like
      <3> QED
        BY <1>1, <3>1, Steady DEF OutboxInv, Words, Said
    <2>10. \A x \in Tabs : LiveNames(waiting'[x]) = LiveNames(waiting[x]) /\ LivesApart(waiting'[x])
      BY <2>4, <2>5 DEF OutboxInv, Holding, Apart, LiveNames
    <2>11. Apart'
      BY <1>1, <1>6, <2>10 DEF OutboxInv, Holding, Apart, BoxApart
    <2>12. \A i : Firm(i)' <=> Firm(i)
      BY <1>1, <1>6, <2>10 DEF Firm
    <2>13. Kept' /\ Oks'
      BY <1>1, <1>7, <2>2, <2>5, <2>12 DEF OutboxInv, Holding, Kept, Oks
    <2>14. Sent'
      <3>1. r.idem \notin back
        BY DEF OutboxInv, Holding, Kept, Firm, BoxNames
      <3>2. \A g \in GoneUp : g.idem = r.idem /\ g.idem \notin declined => g.text = r.text
        <4>1. CASE ~r.fold
          BY <4>1 DEF OutboxInv, Holding, Sent
        <4>2. CASE r.fold
          <5>1. Frame(r) \in Said /\ r.idem \in edits /\ Frame(r).idem = r.idem /\ Frame(r).text = r.text
            BY <4>2 DEF OutboxInv, Words, Sorted, Said, Items, Frame
          <5> QED
            BY <5>1, UpIsSaid DEF OutboxInv, Words, Sorted
        <4> QED
          BY <4>1, <4>2
      <3>3. \A x \in box' \cup PutsOf(store') : x.idem = r.idem => x = e
        <4>1. r.idem \in BoxNames
          BY DEF BoxNames
        <4>2. \A x \in PutsOf(store) : x.idem \in PutNames(store)
          BY DEF PutNames
        <4> QED
          BY <1>1, <1>3, <1>4, <4>1, <4>2 DEF OutboxInv, Holding, Apart, BoxApart
      <3>4. \A x \in box' \cup PutsOf(store') : x = e \/ x \in box \cup PutsOf(store)
        BY <1>1
      <3>5. Frame(r).idem = r.idem /\ Frame(r).text = r.text
        BY DEF Frame
      <3> QED
        BY <1>1, <1>4, <2>8, <3>1, <3>2, <3>3, <3>4, <3>5 DEF OutboxInv, Holding, Sent
    <2>15. Flying'
      <3>1. TakenOf(w) = {}
        BY <1>1, <1>10 DEF OutboxInv, Flying, Sends
      <3>2. TakenOnce(waiting'[t]) /\ \A x \in TakenOf(waiting'[t]) : Carries(e, x)
        BY <1>1, <1>4, <2>2, <2>4, <2>5, <3>1 DEF Carries
      <3>3. e \in box' /\ \A x \in Tabs : (Sends(x)' <=> x = t) /\ ~Sends(x)
        BY <1>1, <2>6 DEF Sends
      <3> QED
        BY <1>1, <1>10, <2>5, <3>2, <3>3 DEF OutboxInv, Flying
    <2> QED
      BY <1>6, <1>7, <1>8, <2>7, <2>9, <2>11, <2>13, <2>14, <2>15 DEF OutboxInv, Words, Holding
  <1> QED
    BY <1>9, <1>10
-----------------------------------------------------------------------------
LEMMA SendKeeps ==
  ASSUME OutboxInv, NEW t \in Tabs, NEW fold \in BOOLEAN, Send(t, fold)
  PROVE  OutboxInv'
  <1> DEFINE n == made'
  <1>1. /\ made' = made + 1
        /\ IF fold THEN edits' = edits \cup {n} /\ creates' = creates
           ELSE creates' = creates \cup {n} /\ edits' = edits
        /\ UNCHANGED <<box, filed, conn, replaying, drain, wire, log, over, told, back, declined>>
    BY DEF Send, history
  <1>2. Typed /\ made \in Nat
    BY DEF OutboxInv, Words, Typed
  <1>3. /\ n \in Nat /\ n # 0 /\ n \notin 1..made /\ n \notin edits \cup creates
        /\ edits' \cup creates' \subseteq 1..n /\ edits' \cap creates' = {}
        /\ edits \subseteq edits' /\ creates \subseteq creates' /\ fold = (n \in edits')
        /\ edits' \cup creates' = edits \cup creates \cup {n} /\ edits' \subseteq edits \cup {n}
    <2>1. n \in Nat /\ n # 0 /\ n \in 1..n /\ 1..made \subseteq 1..n /\ n \notin 1..made
      BY <1>1, <1>2
    <2>2. n \notin edits \cup creates
      BY <1>2, <2>1 DEF Typed
    <2> QED
      BY <1>1, <1>2, <2>1, <2>2 DEF Typed
  <1>4. /\ \A i : Firm(i) => i # n
        /\ n \notin BoxNames /\ n \notin PutNames(store) /\ \A x \in Tabs : n \notin LiveNames(waiting[x])
    <2>1. \A i : Firm(i) => i # n
      BY <1>3, FirmMade DEF OutboxInv, Words
    <2> QED
      BY <2>1 DEF Firm
  <1>5. \A f \in Said : f.idem # n
    BY <1>3 DEF OutboxInv, Words, Sorted
  <1>6. n \notin back
    BY <1>2, <1>3 DEF Typed
  <1>7. DoneApart' /\ Numbered' /\ \A i : Done(i)' <=> Done(i)
    BY <1>1 DEF OutboxInv, Words, DoneApart, Numbered, Done
  <1> DEFINE f == [idem |-> n, text |-> n]
  <1>8. ASSUME NEW x, Items' \subseteq Items \cup {x}, x.idem = n, x.fold = fold, Frame(x) = f
        PROVE  Sorted'
    <2>1. f.idem = n /\ f.text = n /\ wire' \cup ToSet(log') \subseteq Said
      BY <1>1 DEF Said
    <2>2. Said' \subseteq Said \cup {f}
      BY <1>8, <2>1 DEF Said
    <2>3. \A y \in Items : y.idem # n /\ y.fold = (y.idem \in edits)
      <3>1. \A y \in Items : Frame(y) \in Said /\ Frame(y).idem = y.idem
        BY DEF Said, Frame
      <3> QED
        BY <1>5, <3>1 DEF OutboxInv, Words, Sorted
    <2>4. \A y \in Items : y.fold = (y.idem \in edits')
      BY <1>3, <2>3
    <2>5. \A y \in Items' : y.fold = (y.idem \in edits')
      BY <1>3, <1>8, <2>4
    <2> HIDE DEF f
    <2> QED
      BY <1>1, <1>2, <1>3, <2>1, <2>2, <2>5, Utters DEF OutboxInv, Words
  <1>9. CASE conn[t] # "up" \/ t \in replaying
    <2> DEFINE no == FALSE
    <2> DEFINE p == Put(n, n, fold, no, no)
    <2>1. store' = Append(store, p) /\ UNCHANGED waiting
      BY <1>9 DEF Send
    <2>2. no \in BOOLEAN
      OBVIOUS
    <2> HIDE DEF no
    <2>3. p \in PutRec /\ p.idem = n /\ p.text = n /\ p.fold = fold /\ p.sending = no /\ Frame(p) = f
      BY <1>3, <2>2 DEF Put, PutRec, Frame
    <2> HIDE DEF p
    <2>4. /\ store' \in Seq(Requests) /\ PutsOf(store') = PutsOf(store) \cup {p}
          /\ PutNames(store') = PutNames(store) \cup {n} /\ PutsApart(store') /\ Reading'
      BY <1>1, <1>2, <1>4, <2>1, <2>3, PutAppends DEF Typed, OutboxInv, Holding, Apart, Reading
    <2>5. Typed'
      BY <1>1, <1>2, <1>3, <2>1, <2>4 DEF Typed
    <2>6. UNCHANGED <<Flown, GoneUp, BoxNames>>
      BY <1>1, <2>1, UpIs DEF Flown, BoxNames
    <2>7. Sorted'
      <3>1. Items' \subseteq Items \cup {p}
        BY <1>1, <2>4, <2>6 DEF Items
      <3> QED
        BY <1>8, <2>3, <3>1
    <2>8. Apart'
      BY <1>1, <1>4, <2>1, <2>4, <2>6 DEF OutboxInv, Holding, Apart
    <2>9. \A i : Firm(i)' <=> Firm(i) \/ i = n
      BY <2>1, <2>4, <2>6 DEF Firm
    <2>10. Kept' /\ Oks'
      BY <1>1, <1>3, <1>6, <1>7, <2>6, <2>9 DEF OutboxInv, Holding, Kept, Oks
    <2>11. Sent'
      <3>1. \A g \in GoneUp : g.idem # n
        BY <1>5, UpIsSaid
      <3> QED
        BY <1>1, <2>3, <2>4, <2>6, <3>1 DEF OutboxInv, Holding, Sent
    <2>12. Flying'
      BY <1>1, <2>1, FlightsHold DEF OutboxInv, Sends
    <2> QED
      BY <1>7, <2>4, <2>5, <2>7, <2>8, <2>10, <2>11, <2>12 DEF OutboxInv, Words, Holding
  <1>10. CASE ~(conn[t] # "up" \/ t \in replaying)
    <2> DEFINE c == Task(n, n, fold, 0)
    <2> DEFINE w == waiting[t]
    <2> DEFINE u == Append(w, c)
    <2>1. waiting' = [waiting EXCEPT ![t] = u] /\ UNCHANGED store
      BY <1>10 DEF Send
    <2>2. /\ c \in TaskRec /\ c.idem = n /\ c.fold = fold /\ c.n = 0 /\ c.answer = "none"
          /\ Frame(c) = f /\ Live(c) /\ w \in Seq(TaskRec)
      BY <1>2, <1>3 DEF Task, TaskRec, Frame, Typed, Live
    <2> HIDE DEF c
    <2>3. /\ u \in Seq(TaskRec) /\ ToSet(u) = ToSet(w) \cup {c}
          /\ LiveNames(u) = LiveNames(w) \cup {n} /\ LivesApart(u)
          /\ TakenOf(u) = TakenOf(w) /\ (TakenOnce(w) => TakenOnce(u))
      BY <1>4, <2>2, LiveAppends DEF OutboxInv, Holding, Apart
    <2> HIDE DEF u
    <2>4. /\ waiting' \in [Tabs -> Seq(TaskRec)] /\ waiting'[t] = u
          /\ \A x \in Tabs : x # t => waiting'[x] = waiting[x]
          /\ Flown' \subseteq Flown \cup {c}
      <3>1. ToSet(w) \subseteq Flown
        BY DEF Flown
      <3> QED
        BY <1>2, <2>1, <2>3, <3>1, FlightChanges
    <2>5. Typed'
      BY <1>1, <1>2, <1>3, <2>1, <2>4 DEF Typed
    <2>6. GoneUp' \subseteq GoneUp \cup {f}
      BY <1>1, <2>2, <2>4, UpIs
    <2>7. Sorted'
      <3>1. Items' \subseteq Items \cup {c}
        BY <1>1, <2>1, <2>4 DEF Items
      <3> QED
        BY <1>8, <2>2, <3>1
    <2>8. \A x \in Tabs : LiveNames(waiting'[x]) = LiveNames(waiting[x]) \cup (IF x = t THEN {n} ELSE {})
      BY <2>3, <2>4
    <2>9. Apart'
      <3>1. \A x \in Tabs : LivesApart(waiting'[x])
        BY <2>3, <2>4 DEF OutboxInv, Holding, Apart
      <3>2. BoxNames' = BoxNames
        BY <1>1 DEF BoxNames
      <3> QED
        BY <1>1, <1>4, <2>1, <2>8, <3>1, <3>2 DEF OutboxInv, Holding, Apart
    <2>10. \A i : Firm(i)' <=> Firm(i) \/ i = n
      BY <1>1, <2>1, <2>8 DEF Firm, BoxNames
    <2>11. Kept' /\ Oks'
      BY <1>1, <1>3, <1>6, <1>7, <2>2, <2>4, <2>10 DEF OutboxInv, Holding, Kept, Oks
    <2>12. Sent'
      <3>1. \A g \in GoneUp : g.idem # n
        BY <1>5, UpIsSaid
      <3>2. \A x \in box \cup PutsOf(store) : x.idem # n
        BY <1>4 DEF BoxNames, PutNames
      <3>3. f.idem = n
        OBVIOUS
      <3> HIDE DEF f
      <3> QED
        BY <1>1, <1>6, <2>1, <2>6, <3>1, <3>2, <3>3 DEF OutboxInv, Holding, Sent
    <2>13. Flying'
      <3>1. \A x \in Tabs : TakenOf(waiting'[x]) = TakenOf(waiting[x])
                            /\ (TakenOnce(waiting[x]) => TakenOnce(waiting'[x]))
        BY <2>3, <2>4
      <3>2. \A x \in Tabs : x = t => conn[x] = "up"
        BY <1>10
      <3> QED
        BY <1>1, <2>4, <3>1, <3>2 DEF OutboxInv, Flying, Sends
    <2>14. Reading'
      BY <1>1, <2>1 DEF OutboxInv, Reading
    <2> QED
      BY <1>7, <2>5, <2>7, <2>9, <2>11, <2>12, <2>13, <2>14 DEF OutboxInv, Words, Holding
  <1> QED
    BY <1>9, <1>10
-----------------------------------------------------------------------------
(* The server's log grows by what has gone up, or not at all.              *)
LEMMA Serves ==
  ASSUME OutboxInv, UNCHANGED <<made, edits, creates, box, filed, store, over, told, back>>,
         declined \subseteq declined', \A i : Firm(i)' <=> Firm(i),
         \A x \in Flown' : \E y \in Flown : Like(x, y),
         wire' \subseteq wire,
         NEW f \in FrameRec, f \in GoneUp, log' = log \/ (~Done(f.idem) /\ log' = Append(log, f))
  PROVE  /\ Numbered' /\ Sorted' /\ DoneApart' /\ Kept' /\ Sent'
         /\ log' \in Seq(FrameRec) /\ \A i : Done(i) => Done(i)'
         /\ \A i : log' = Append(log, f) /\ i = f.idem => Done(i)'
  <1>1. Typed
    BY DEF OutboxInv, Words
  <1>2. /\ log' \in Seq(FrameRec) /\ ToSet(log') \subseteq ToSet(log) \cup {f}
        /\ (\A i : Done(i) => Done(i)') /\ (\A i : log' = Append(log, f) /\ i = f.idem => Done(i)')
        /\ DoneApart'
    <2>1. CASE log' = log
      <3>1. \A i : Done(i)' <=> Done(i)
        BY <2>1 DEF Done
      <3>2. \A i : log' = Append(log, f) /\ i = f.idem => Done(i)'
        BY <1>1, LogGoesOn
      <3> QED
        BY <1>1, <2>1, <3>1, <3>2 DEF Typed, OutboxInv, Words, DoneApart
    <2>2. CASE ~Done(f.idem) /\ log' = Append(log, f)
      BY <1>1, <2>2, LogGoesOn DEF OutboxInv, Words
    <2> QED
      BY <2>1, <2>2
  <1>3. GoneUp' \subseteq GoneUp
    <2>1. \A x \in Flown' : Frame(x) \in {Frame(c) : c \in Flown}
      BY DEF Like, Frame
    <2> QED
      BY <1>2, <2>1, UpIs
  <1>4. Numbered'
    BY DEF OutboxInv, Words, Numbered
  <1>5. Sorted'
    <2>1. wire' \cup ToSet(log') \subseteq Said
      BY <1>2, UpIsSaid DEF Said
    <2>2. \A x \in Items' : \E y \in Items : Like(x, y)
      BY DEF Items, Like
    <2> QED
      BY <2>1, <2>2, Steady DEF OutboxInv, Words
  <1>6. Kept'
    BY <1>2 DEF OutboxInv, Holding, Kept
  <1>7. Sent'
    <2>1. \A x \in (box \cup PutsOf(store))' :
            \E y \in box \cup PutsOf(store) : Like(x, y) /\ x.sending = y.sending
      BY DEF Like
    <2> QED
      BY <1>3, <2>1, SentOn DEF OutboxInv, Holding
  <1> QED
    BY <1>2, <1>4, <1>5, <1>6, <1>7

LEMMA ServeKeeps == ASSUME OutboxInv, NEW t \in Tabs, Serve(t) PROVE OutboxInv'
  <1> DEFINE w == waiting[t]
  <1>0. Typed /\ w \in Seq(TaskRec)
    BY DEF OutboxInv, Words, Typed
  <1>1. PICK k \in DOMAIN waiting[t] :
          LET c == waiting[t][k]
              answers(a) == waiting' = [waiting EXCEPT ![t][k].answer = a]
          IN  \/ ~Live(c) /\ answers("hold") /\ UNCHANGED <<log, declined>>
              \/ Done(c.idem) /\ answers("ok") /\ UNCHANGED <<log, declined>>
              \/ /\ ~Done(c.idem) /\ answers("ok")
                 /\ log' = Append(log, Frame(c)) /\ UNCHANGED declined
              \/ /\ ~Done(c.idem) /\ answers("no")
                 /\ declined' = declined \cup {c.idem} /\ UNCHANGED log
    BY DEF Serve
  <1> DEFINE c == w[k]
  <1> DEFINE f == Frame(c)
  <1>2. c \in TaskRec /\ f \in FrameRec /\ f.idem = c.idem /\ c \in Flown /\ f \in GoneUp
    <2>1. c \in TaskRec /\ c \in ToSet(w)
      BY <1>0 DEF ToSet
    <2>2. f \in FrameRec /\ f.idem = c.idem
      BY <2>1 DEF TaskRec, FrameRec, Frame
    <2> QED
      BY <2>1, <2>2, UpIs DEF Flown
  <1>3. PICK a \in {"none", "ok", "no", "hold"} :
          /\ waiting' = [waiting EXCEPT ![t] = [w EXCEPT ![k].answer = a]]
          /\ \/ a # "ok" /\ log' = log
             \/ a = "ok" /\ log' = log /\ Done(f.idem)
             \/ a = "ok" /\ ~Done(f.idem) /\ log' = Append(log, f)
          /\ declined \subseteq declined'
    BY <1>1, <1>2
  <1> DEFINE u == Answers(w, k, a)
  <1>4. /\ UNCHANGED <<made, edits, creates, box, filed, store, conn, wire, over, told, back, drain>>
    BY DEF Serve
  <1>u. waiting' = [waiting EXCEPT ![t] = u]
    BY <1>3 DEF Answers
  <1>5. /\ u \in Seq(TaskRec) /\ DOMAIN u = DOMAIN w
        /\ \A j \in DOMAIN w : /\ u[j].idem = w[j].idem /\ u[j].text = w[j].text
                               /\ u[j].fold = w[j].fold /\ u[j].n = w[j].n
                               /\ u[j].answer = IF j = k THEN a ELSE w[j].answer
        /\ LiveNames(u) = LiveNames(w) /\ (LivesApart(w) => LivesApart(u))
        /\ (TakenOnce(w) => TakenOnce(u)) /\ (TakenOf(w) = {} => TakenOf(u) = {})
    <2>1. AlikeBut(w, u, k, a)
      BY <1>0, AnswerFacts
    <2> HIDE DEF u, w
    <2> QED
      BY <2>1 DEF AlikeBut
  <1> HIDE DEF u
  <1>6. /\ waiting' \in [Tabs -> Seq(TaskRec)] /\ waiting'[t] = u
        /\ \A x \in Tabs : x # t => waiting'[x] = waiting[x]
        /\ Flown' \subseteq Flown \cup ToSet(u)
    BY <1>0, <1>u, <1>5, FlightChanges
  <1> HIDE DEF f
  <1>7. \A x \in ToSet(u) : \E y \in ToSet(w) : /\ Like(x, y) /\ x.n = y.n
                                              /\ (x.answer = y.answer \/ (y = c /\ x.answer = a))
    BY <1>5 DEF ToSet, Like
  <1> HIDE DEF c
  <1>8. ToSet(w) \subseteq Flown
    BY DEF Flown
  <1>9. \A x \in Flown' : \E y \in Flown : Like(x, y) /\ (x.answer = y.answer \/ (y = c /\ x.answer = a))
    BY <1>6, <1>7, <1>8 DEF Like
  <1>10. \A x \in Tabs : LiveNames(waiting'[x]) = LiveNames(waiting[x])
    BY <1>5, <1>6
  <1>11. \A i : Firm(i)' <=> Firm(i)
    BY <1>4, <1>10 DEF Firm, BoxNames
  <1>12. /\ Numbered' /\ Sorted' /\ DoneApart' /\ Kept' /\ Sent'
         /\ log' \in Seq(FrameRec) /\ (\A i : Done(i) => Done(i)')
         /\ (\A i : log' = Append(log, f) /\ i = f.idem => Done(i)')
    <2>1. log' = log \/ (~Done(f.idem) /\ log' = Append(log, f))
      BY <1>3
    <2>2. \A x \in Flown' : \E y \in Flown : Like(x, y)
      BY <1>9
    <2>3. wire' \subseteq wire /\ declined \subseteq declined'
      BY <1>3, <1>4
    <2> QED
      BY <1>2, <1>4, <1>11, <2>1, <2>2, <2>3, Serves
  <1>13. Typed'
    BY <1>0, <1>4, <1>6, <1>12 DEF Typed
  <1>14. Apart'
    <2>1. BoxNames' = BoxNames /\ \A x \in Tabs : LivesApart(waiting'[x])
      BY <1>4, <1>5, <1>6 DEF BoxNames, OutboxInv, Holding, Apart
    <2> QED
      BY <1>4, <1>10, <2>1 DEF OutboxInv, Holding, Apart
  <1>15. Oks'
    <2> SUFFICES ASSUME NEW x \in Flown', x.answer = "ok" PROVE Done(x.idem)'
      BY DEF Oks
    <2>1. PICK y \in Flown : Like(x, y) /\ (x.answer = y.answer \/ (y = c /\ x.answer = a))
      BY <1>9
    <2>2. CASE x.answer = y.answer
      BY <2>1, <2>2, <1>12 DEF OutboxInv, Holding, Oks, Like
    <2>3. CASE y = c /\ a = "ok"
      BY <2>1, <2>3, <1>2, <1>3, <1>12 DEF Like
    <2> QED
      BY <2>1, <2>2, <2>3
  <1>16. Flying'
    <2>1. \A x \in TakenOf(u) : \E y \in TakenOf(w) : \A r \in box : Carries(r, y) => Carries(r, x)
      <3> SUFFICES ASSUME NEW x \in ToSet(u), ~Live(x)
                   PROVE  \E y \in TakenOf(w) : \A r \in box : Carries(r, y) => Carries(r, x)
        BY DEF TakenOf
      <3>1. PICK y \in ToSet(w) : Like(x, y) /\ x.n = y.n
        BY <1>7
      <3> QED
        BY <3>1 DEF TakenOf, Live, Like, Carries
    <2>2. \A x \in Tabs : Sends(x)' <=> Sends(x)
      BY <1>4 DEF Sends
    <2>3. Sends(t) => TakenOnce(u) /\ \A x \in TakenOf(u) : \E r \in box : Carries(r, x)
      BY <1>5, <2>1 DEF OutboxInv, Flying
    <2>4. /\ conn[t] = "up" /\ ~Sends(t) => TakenOf(u) = {}
          /\ conn[t] # "down"
      BY <1>5 DEF OutboxInv, Flying, Serve
    <2> QED
      BY <1>4, <1>6, <2>2, <2>3, <2>4 DEF OutboxInv, Flying
  <1>17. Reading'
    BY <1>4 DEF OutboxInv, Reading
  <1> QED
    BY <1>12, <1>13, <1>14, <1>15, <1>16, <1>17 DEF OutboxInv, Words, Holding

LEMMA ServeLateKeeps == ASSUME OutboxInv, NEW f \in wire, ServeLate(f) PROVE OutboxInv'
  <1>1. /\ UNCHANGED <<made, edits, creates, box, filed, store, conn, waiting, over, told, back,
                       declined, drain>>
        /\ wire' \subseteq wire
        /\ log' = log \/ (~Done(f.idem) /\ log' = Append(log, f))
    BY DEF ServeLate, history
  <1>2. f \in FrameRec /\ f \in GoneUp
    BY UpIs DEF OutboxInv, Words, Typed
  <1>3. Flown' = Flown /\ BoxNames' = BoxNames /\ (\A x \in Flown' : \E y \in Flown : Like(x, y))
        /\ \A i : Firm(i)' <=> Firm(i)
    BY <1>1 DEF Flown, BoxNames, Like, Firm
  <1>4. /\ Numbered' /\ Sorted' /\ DoneApart' /\ Kept' /\ Sent'
        /\ log' \in Seq(FrameRec) /\ (\A i : Done(i) => Done(i)')
    BY <1>1, <1>2, <1>3, Serves
  <1>5. Typed'
    BY <1>1, <1>4 DEF OutboxInv, Words, Typed
  <1>6. Apart' /\ Oks'
    BY <1>1, <1>3, <1>4 DEF OutboxInv, Holding, Apart, Oks
  <1>7. Flying'
    BY <1>1, FlightsHold DEF OutboxInv, Sends
  <1>8. Reading'
    BY <1>1 DEF OutboxInv, Reading
  <1> QED
    BY <1>4, <1>5, <1>6, <1>7, <1>8 DEF OutboxInv, Words, Holding
-----------------------------------------------------------------------------
(* The first command of a flight has its answer.                           *)
LEMMA Heard ==
  ASSUME OutboxInv, NEW t \in Tabs, waiting[t] # <<>>,
         waiting' = [waiting EXCEPT ![t] = Tail(waiting[t])], UNCHANGED <<wire, log>>
  PROVE  LET c == Head(waiting[t])
         IN  /\ waiting' \in [Tabs -> Seq(TaskRec)] /\ Flown' \subseteq Flown /\ GoneUp' \subseteq GoneUp
             /\ c \in TaskRec /\ c \in Flown /\ Frame(c) \in GoneUp
             /\ \A x \in Tabs : /\ LivesApart(waiting'[x])
                                /\ TakenOf(waiting'[x]) \subseteq TakenOf(waiting[x])
                                /\ TakenOnce(waiting[x]) => TakenOnce(waiting'[x])
                                /\ x # t => waiting'[x] = waiting[x]
                                /\ x # t \/ ~Live(c) => LiveNames(waiting'[x]) = LiveNames(waiting[x])
             /\ Live(c) => /\ LiveNames(waiting'[t]) = LiveNames(waiting[t]) \ {c.idem}
                           /\ c.idem \in LiveNames(waiting[t])
             /\ ~Live(c) => c \in TakenOf(waiting[t])
             /\ ~Live(c) /\ TakenOnce(waiting[t]) => TakenOf(waiting'[t]) = {}
  <1> DEFINE w == waiting[t]
  <1> DEFINE u == Tail(w)
  <1> DEFINE c == Head(w)
  <1>1. Typed /\ w \in Seq(TaskRec) /\ LivesApart(w)
    BY DEF OutboxInv, Words, Typed, Holding, Apart
  <1>2. /\ u \in Seq(TaskRec) /\ ToSet(w) = ToSet(u) \cup {c} /\ c \in TaskRec /\ c \in ToSet(w)
        /\ (LivesApart(w) => LivesApart(u)) /\ (TakenOnce(w) => TakenOnce(u))
        /\ LivesOf(u) \subseteq LivesOf(w) /\ TakenOf(u) \subseteq TakenOf(w)
        /\ (Live(c) /\ LivesApart(w) => LiveNames(u) = LiveNames(w) \ {c.idem})
        /\ (Live(c) => c.idem \in LiveNames(w))
        /\ (~Live(c) => LiveNames(u) = LiveNames(w))
        /\ (~Live(c) /\ TakenOnce(w) => TakenOf(u) = {})
    BY <1>1, FlightGoesOn
  <1> HIDE DEF u, c
  <1>3. /\ waiting' \in [Tabs -> Seq(TaskRec)] /\ waiting'[t] = u
        /\ \A x \in Tabs : x # t => waiting'[x] = waiting[x]
        /\ Flown' \subseteq Flown \cup ToSet(u)
    BY <1>1, <1>2, FlightChanges DEF u
  <1>4. ToSet(w) \subseteq Flown
    BY DEF Flown
  <1>5. Flown' \subseteq Flown /\ c \in Flown /\ Frame(c) \in GoneUp /\ GoneUp' \subseteq GoneUp
    BY <1>2, <1>3, <1>4, UpIs
  <1>6. ~Live(c) => c \in TakenOf(w)
    BY <1>2 DEF TakenOf
  <1>7. \A x \in Tabs : LivesApart(waiting'[x])
    BY <1>1, <1>2, <1>3 DEF OutboxInv, Holding, Apart
  <1> QED
    BY <1>1, <1>2, <1>3, <1>5, <1>6, <1>7 DEF c

LEMMA UnheardKeeps == ASSUME OutboxInv, NEW t \in Tabs, Unheard(t) PROVE OutboxInv'
  <1> DEFINE c == Head(waiting[t])
  <1>1. /\ waiting[t] # <<>> /\ ~Live(c) /\ drain.by # t
        /\ waiting' = [waiting EXCEPT ![t] = Tail(waiting[t])]
        /\ UNCHANGED <<made, edits, creates, box, filed, store, conn, drain, wire, log, over, told,
                       back, declined>>
    BY DEF Unheard, history
  <1>2. /\ waiting' \in [Tabs -> Seq(TaskRec)] /\ Flown' \subseteq Flown /\ GoneUp' \subseteq GoneUp
        /\ \A x \in Tabs : /\ LivesApart(waiting'[x])
                           /\ TakenOf(waiting'[x]) \subseteq TakenOf(waiting[x])
                           /\ TakenOnce(waiting[x]) => TakenOnce(waiting'[x])
                           /\ x # t => waiting'[x] = waiting[x]
                           /\ LiveNames(waiting'[x]) = LiveNames(waiting[x])
    BY <1>1, Heard
  <1> HIDE DEF c
  <1>3. Typed'
    BY <1>1, <1>2 DEF OutboxInv, Words, Typed
  <1>4. Numbered' /\ DoneApart'
    BY <1>1 DEF OutboxInv, Words, Numbered, DoneApart
  <1>5. Sorted'
    <2>1. \A x \in Items' : \E y \in Items : Like(x, y)
      BY <1>1, <1>2 DEF Items, Like
    <2> QED
      BY <1>1, <2>1, Steady DEF OutboxInv, Words, Said
  <1>6. Apart'
    BY <1>1, <1>2 DEF OutboxInv, Holding, Apart, BoxNames
  <1>7. Kept' /\ Oks'
    BY <1>1, <1>2 DEF OutboxInv, Holding, Kept, Oks, Firm, BoxNames, Done
  <1>8. Sent'
    <2>1. \A x \in (box \cup PutsOf(store))' :
            \E y \in box \cup PutsOf(store) : Like(x, y) /\ x.sending = y.sending
      BY <1>1 DEF Like
    <2> QED
      BY <1>1, <1>2, <2>1, SentOn DEF OutboxInv, Holding
  <1>9. Flying'
    <2>1. conn[t] # "down" /\ ~Sends(t) /\ \A x \in Tabs : Sends(x)' <=> Sends(x)
      BY <1>1 DEF Sends, Unheard
    <2> QED
      BY <1>1, <1>2, <2>1 DEF OutboxInv, Flying
  <1>10. Reading'
    BY <1>1 DEF OutboxInv, Reading
  <1> QED
    BY <1>3, <1>4, <1>5, <1>6, <1>7, <1>8, <1>9, <1>10 DEF OutboxInv, Words, Holding

LEMMA AnsweredKeeps == ASSUME OutboxInv, NEW t \in Tabs, Answered(t) PROVE OutboxInv'
  <1> DEFINE c == Head(waiting[t])
  <1> DEFINE no == FALSE
  <1> DEFINE yes == TRUE
  <1> DEFINE p == Put(c.idem, c.text, no, no, yes)
  <1>1. /\ waiting[t] # <<>> /\ Live(c) /\ conn[t] # "down"
        /\ waiting' = [waiting EXCEPT ![t] = Tail(waiting[t])]
        /\ \/ c.answer = "ok" /\ UNCHANGED <<store, told>> /\ declined' = declined
           \/ told' = told \cup {c.idem} /\ UNCHANGED store /\ declined' = declined \cup {c.idem}
           \/ /\ ~c.fold /\ store' = Append(store, p) /\ UNCHANGED told
              /\ declined' = declined \cup {c.idem}
        /\ UNCHANGED <<made, edits, creates, box, filed, conn, drain, wire, log, over, back>>
    BY DEF Answered, history
  <1>2. /\ waiting' \in [Tabs -> Seq(TaskRec)] /\ Flown' \subseteq Flown /\ GoneUp' \subseteq GoneUp
        /\ c \in TaskRec /\ c \in Flown /\ Frame(c) \in GoneUp
        /\ \A x \in Tabs : /\ LivesApart(waiting'[x])
                           /\ TakenOf(waiting'[x]) \subseteq TakenOf(waiting[x])
                           /\ TakenOnce(waiting[x]) => TakenOnce(waiting'[x])
                           /\ x # t => waiting'[x] = waiting[x]
                           /\ x # t => LiveNames(waiting'[x]) = LiveNames(waiting[x])
        /\ LiveNames(waiting'[t]) = LiveNames(waiting[t]) \ {c.idem}
        /\ c.idem \in LiveNames(waiting[t])
    BY <1>1, Heard
  <1> HIDE DEF c
  <1>3. no \in BOOLEAN /\ yes \in BOOLEAN /\ ~no
    OBVIOUS
  <1> HIDE DEF no, yes
  <1>4. p \in PutRec /\ p.idem = c.idem /\ p.text = c.text /\ p.fold = no
    BY <1>2, <1>3 DEF Put, PutRec, TaskRec
  <1> HIDE DEF p
  <1>5. Typed /\ c.idem \notin PutNames(store) /\ c.idem \notin BoxNames
    BY <1>2 DEF OutboxInv, Words, Holding, Apart
  <1>6. \/ /\ UNCHANGED store
           /\ c.idem \in told' \/ Done(c.idem)
        \/ /\ store' \in Seq(Requests) /\ PutsOf(store') = PutsOf(store) \cup {p}
           /\ PutNames(store') = PutNames(store) \cup {c.idem} /\ PutsApart(store')
           /\ HasRead(store') = HasRead(store) /\ OneRead(store')
           /\ ~c.fold /\ c.idem \in declined'
    <2>1. CASE UNCHANGED store /\ (c.answer = "ok" \/ c.idem \in told')
      BY <1>2, <2>1 DEF OutboxInv, Holding, Oks
    <2>2. CASE ~c.fold /\ store' = Append(store, p) /\ c.idem \in declined'
      BY <1>4, <1>5, <2>2, PutAppends DEF OutboxInv, Typed, Holding, Apart, Reading
    <2> QED
      BY <1>1, <2>1, <2>2
  <1>7. store' \in Seq(Requests) /\ PutsApart(store') /\ Reading'
    BY <1>1, <1>5, <1>6 DEF Typed, OutboxInv, Holding, Apart, Reading
  <1>8. Typed'
    BY <1>1, <1>2, <1>5, <1>7 DEF Typed
  <1>9. Numbered' /\ DoneApart'
    BY <1>1 DEF OutboxInv, Words, Numbered, DoneApart
  <1>10. \A x \in PutsOf(store') : x \in PutsOf(store) \/ (x = p /\ ~c.fold /\ c.idem \in declined')
    BY <1>6
  <1>11. Sorted'
    <2>1. ~c.fold => Like(p, c)
      BY <1>2, <1>3, <1>4 DEF Like, TaskRec
    <2>2. \A x \in Items' : x \in Items \/ Like(x, c)
      BY <1>1, <1>2, <1>10, <2>1 DEF Items
    <2>3. c \in Items
      BY <1>2 DEF Items
    <2>4. \A x \in Items' : \E y \in Items : Like(x, y)
      BY <2>2, <2>3 DEF Like
    <2> QED
      BY <1>1, <2>4, Steady DEF OutboxInv, Words, Said
  <1>12. BoxNames' = BoxNames /\ PutNames(store) \subseteq PutNames(store')
         /\ PutNames(store') \subseteq PutNames(store) \cup {c.idem}
    BY <1>1, <1>6 DEF BoxNames
  <1>13. Apart'
    <2>1. \A x \in Tabs : c.idem \notin LiveNames(waiting'[x])
                          /\ LiveNames(waiting'[x]) \subseteq LiveNames(waiting[x])
      BY <1>2 DEF OutboxInv, Holding, Apart
    <2>2. BoxNames' \cap PutNames(store') = {}
      BY <1>5, <1>12 DEF OutboxInv, Holding, Apart
    <2>3. \A x \in Tabs : LiveNames(waiting'[x]) \cap (BoxNames' \cup PutNames(store')) = {}
      BY <1>12, <2>1 DEF OutboxInv, Holding, Apart
    <2>4. \A x, y \in Tabs : x # y => LiveNames(waiting'[x]) \cap LiveNames(waiting'[y]) = {}
      BY <2>1 DEF OutboxInv, Holding, Apart
    <2> QED
      BY <1>1, <1>2, <1>7, <2>2, <2>3, <2>4 DEF OutboxInv, Holding, Apart
  <1>14. /\ \A i : Firm(i)' => Firm(i)
         /\ \A i : Firm(i) => Firm(i)' \/ i = c.idem
         /\ Firm(c.idem)
    BY <1>2, <1>12 DEF Firm
  <1>15. \A i : i = c.idem => Firm(i)' \/ i \in told' \/ Done(i)
    BY <1>6 DEF Firm
  <1>16. Kept' /\ Oks'
    <2>1. told \subseteq told' /\ \A i : Done(i)' <=> Done(i)
      BY <1>1 DEF Done
    <2> QED
      BY <1>1, <1>2, <1>14, <1>15, <2>1 DEF OutboxInv, Holding, Kept, Oks
  <1>17. Sent'
    <2>1. \A x \in (box \cup PutsOf(store))' : ~x.fold /\ x.idem \notin declined' =>
            \E y \in box \cup PutsOf(store) : Like(x, y) /\ x.sending = y.sending
      BY <1>1, <1>4, <1>10 DEF Like
    <2>2. declined \subseteq declined'
      BY <1>1
    <2> QED
      BY <1>1, <1>2, <2>1, <2>2, SentOn DEF OutboxInv, Holding
  <1>18. Flying'
    <2>1. \A x \in Tabs : Sends(x)' <=> Sends(x)
      BY <1>1 DEF Sends
    <2> QED
      BY <1>1, <1>2, <2>1 DEF OutboxInv, Flying
  <1> QED
    BY <1>7, <1>8, <1>9, <1>11, <1>13, <1>16, <1>17, <1>18 DEF OutboxInv, Words, Holding

LEMMA ClosedKeeps == ASSUME OutboxInv, NEW t \in Tabs, Closed(t) PROVE OutboxInv'
  <1> DEFINE w == waiting[t]
  <1> DEFINE left == {Frame(w[k]) : k \in {j \in DOMAIN w : w[j].answer = "none"}}
  <1>1. /\ conn[t] = "closing" /\ conn' = [conn EXCEPT ![t] = "down"]
        /\ waiting' = [waiting EXCEPT ![t] = <<>>]
        /\ wire' \subseteq wire \cup left
        /\ drain' = IF Sends(t) THEN NoDrain ELSE drain
        /\ UNCHANGED <<made, edits, creates, box, filed, log, over, told, back, declined>>
    BY DEF Closed, Sends, history
  <1>2. Typed /\ w \in Seq(TaskRec)
    BY DEF OutboxInv, Words, Typed
  <1>3. PICK at \in InOrder({k \in DOMAIN w : Live(w[k])}) :
          store' = Joined(store, w, at)
    BY DEF Closed, Joined
  <1>4. /\ store' \in Seq(Requests) /\ PutsOf(store') = PutsOf(store) \cup {Requeued(x) : x \in LivesOf(w)}
        /\ PutNames(store') = PutNames(store) \cup LiveNames(w) /\ PutsApart(store')
        /\ HasRead(store') = HasRead(store) /\ OneRead(store')
    <2>1. LivesApart(w) /\ PutsApart(store) /\ PutNames(store) \cap LiveNames(w) = {}
      BY DEF OutboxInv, Holding, Apart
    <2>2. store \in Seq(Requests) /\ OneRead(store)
      BY <1>2 DEF Typed, OutboxInv, Reading
    <2> HIDE DEF w
    <2> QED
      BY <1>2, <1>3, <2>1, <2>2, Requeues
  <1>5. \A k \in DOMAIN w : w[k] \in ToSet(w)
    BY DEF ToSet
  <1>6. ToSet(w) \subseteq Flown /\ LivesOf(w) \subseteq Flown /\ left \subseteq {Frame(c) : c \in Flown}
    <2>1. ToSet(w) \subseteq Flown
      BY DEF Flown
    <2> QED
      BY <1>5, <2>1 DEF LivesOf
  <1> HIDE DEF left
  <1>7. /\ waiting' \in [Tabs -> Seq(TaskRec)] /\ waiting'[t] = <<>>
        /\ \A x \in Tabs : x # t => waiting'[x] = waiting[x]
        /\ Flown' \subseteq Flown
    <2>1. <<>> \in Seq(TaskRec) /\ ToSet(<<>>) = {}
      BY DEF ToSet
    <2> QED
      BY <1>1, <1>2, <2>1, FlightChanges
  <1> HIDE DEF w
  <1>8. \A c \in Flown : c \in TaskRec /\ Frame(c) \in FrameRec /\ Frame(c).idem = c.idem /\ Frame(c).text = c.text
    <2>1. \A x \in Tabs : \A c \in ToSet(waiting[x]) : c \in TaskRec
      BY <1>2 DEF Typed, ToSet
    <2> QED
      BY <2>1 DEF Flown, TaskRec, FrameRec, Frame
  <1>9. wire' \subseteq FrameRec /\ wire' \subseteq GoneUp /\ GoneUp' \subseteq GoneUp
    BY <1>1, <1>2, <1>6, <1>7, <1>8, UpIs DEF Typed
  <1>10. /\ Drains(drain') /\ (drain'.by = None => drain'.step = "idle")
         /\ (Sends(t) => drain'.step = "idle") /\ (~Sends(t) => drain' = drain)
    <2>1. CASE Sends(t)
      BY <1>1, <2>1 DEF NoDrain, Drains
    <2>2. CASE ~Sends(t)
      BY <1>1, <1>2, <2>2 DEF Typed
    <2> QED
      BY <2>1, <2>2
  <1>11. Typed'
    <2>1. conn' \in [Tabs -> {"down", "up", "closing"}]
      BY <1>1, <1>2 DEF Typed
    <2> QED
      BY <1>1, <1>2, <1>4, <1>7, <1>9, <1>10, <2>1 DEF Typed
  <1>12. Numbered' /\ DoneApart'
    BY <1>1 DEF OutboxInv, Words, Numbered, DoneApart
  <1>13. \A x \in PutsOf(store') : \/ x \in PutsOf(store)
                                  \/ \E c \in Flown : Like(x, c) /\ x.sending
    <2>1. \A c \in TaskRec : Like(Requeued(c), c) /\ Requeued(c).sending
      BY DEF Requeued, Put, Like, TaskRec
    <2> QED
      BY <1>4, <1>6, <1>8, <2>1
  <1>14. Sorted'
    <2>1. \A x \in Items' : \E y \in Items : Like(x, y)
      BY <1>1, <1>7, <1>13 DEF Items, Like
    <2>2. wire' \cup ToSet(log') \subseteq Said
      BY <1>1, <1>9, UpIsSaid DEF Said
    <2> QED
      BY <1>1, <2>1, <2>2, Steady DEF OutboxInv, Words
  <1>15. /\ BoxNames' = BoxNames
         /\ \A x \in Tabs : LiveNames(waiting'[x]) = IF x = t THEN {} ELSE LiveNames(waiting[x])
         /\ \A x \in Tabs : LivesApart(waiting'[x])
    <2>1. LiveNames(<<>>) = {} /\ LivesApart(<<>>)
      BY DEF LiveNames, LivesOf, LivesApart, ToSet
    <2> QED
      BY <1>1, <1>7, <2>1 DEF BoxNames, OutboxInv, Holding, Apart
  <1>16. Apart'
    <2>1. LiveNames(w) \cap (BoxNames \cup PutNames(store)) = {}
          /\ BoxNames \cap PutNames(store) = {}
      BY DEF OutboxInv, Holding, Apart, w
    <2>2. BoxNames' \cap PutNames(store') = {}
      BY <1>4, <1>15, <2>1
    <2>3. \A x \in Tabs : x # t => LiveNames(waiting[x]) \cap (BoxNames \cup PutNames(store')) = {}
      BY <1>4 DEF OutboxInv, Holding, Apart, w
    <2>4. \A x \in Tabs : LiveNames(waiting'[x]) \cap (BoxNames' \cup PutNames(store')) = {}
      BY <1>15, <2>3
    <2>5. \A x, y \in Tabs : x # y => LiveNames(waiting'[x]) \cap LiveNames(waiting'[y]) = {}
      BY <1>15 DEF OutboxInv, Holding, Apart
    <2>6. \A r, s \in box' : r.idem = s.idem => r = s
      BY <1>1 DEF OutboxInv, Holding, Apart
    <2> QED
      BY <1>4, <1>15, <2>2, <2>4, <2>5, <2>6 DEF Apart
  <1>17. \A i : Firm(i)' <=> Firm(i)
    BY <1>4, <1>15 DEF Firm, w
  <1>18. Kept' /\ Oks'
    BY <1>1, <1>7, <1>17 DEF OutboxInv, Holding, Kept, Oks, Done
  <1>19. Sent'
    <2>1. \A f \in GoneUp : f.idem \notin declined =>
            \A c \in Flown : c.idem = f.idem => c.text = f.text
      BY <1>8, UpIs DEF OutboxInv, Holding, Sent
    <2> QED
      BY <1>1, <1>9, <1>13, <2>1 DEF OutboxInv, Holding, Sent, Like
  <1>20. Flying'
    <2>1. TakenOf(<<>>) = {} /\ TakenOnce(<<>>)
      BY DEF TakenOf, TakenOnce, ToSet
    <2>2. ~Sends(t)' /\ \A x \in Tabs : Sends(x)' => Sends(x)
      BY <1>10 DEF Sends
    <2>3. \A x \in Tabs : x # t => (Sends(x) => Sends(x)') /\ conn'[x] = conn[x]
      BY <1>1, <1>2, <1>10 DEF Sends, Typed
    <2>4. conn'[t] = "down"
      BY <1>1, <1>2 DEF Typed
    <2> QED
      BY <1>1, <1>7, <2>1, <2>2, <2>3, <2>4 DEF OutboxInv, Flying
  <1>21. Reading'
    BY <1>4, <1>10 DEF OutboxInv, Reading, Sends
  <1> QED
    BY <1>11, <1>12, <1>14, <1>16, <1>18, <1>19, <1>20, <1>21 DEF OutboxInv, Words, Holding

(* An answered entry is rewritten where it stands, or leaves when what was *)
(* answered is what it carries and the server has done it.                 *)
LEMMA DrainedKeeps == ASSUME OutboxInv, NEW t \in Tabs, Drained(t) PROVE OutboxInv'
  <1> DEFINE c == Head(waiting[t])
  <1> DEFINE chosen == CHOOSE x \in box : x.n = c.n
  <1> DEFINE no == FALSE
  <1> DEFINE yes == TRUE
  <1> DEFINE unsent == [chosen EXCEPT !.sending = no]
  <1> DEFINE refused == [chosen EXCEPT !.refused = yes, !.sending = no]
  <1>1. /\ drain.by = t /\ drain.step = "sent" /\ conn[t] # "down"
        /\ waiting[t] # <<>> /\ ~Live(c) /\ waiting' = [waiting EXCEPT ![t] = Tail(waiting[t])]
        /\ UNCHANGED <<made, edits, creates, filed, conn, wire, log, over, told, back>>
        /\ declined \subseteq declined'
    BY DEF Drained
  <1>2. /\ \/ UNCHANGED box
           \/ c.answer = "ok" /\ chosen.text = c.text /\ box' = (box \ {chosen}) \cup {}
           \/ c.answer = "ok" /\ chosen.text # c.text /\ box' = (box \ {chosen}) \cup {unsent}
           \/ box' = (box \ {chosen}) \cup {chosen}
           \/ c.idem \in declined' /\ box' = (box \ {chosen}) \cup {refused}
        /\ \E tries : NextEntry(tries) \/ ReadAgain(tries)
    BY DEF Drained, Leaves, Refused
  <1> HIDE DEF unsent, refused, no, yes
  <1>3. /\ waiting' \in [Tabs -> Seq(TaskRec)] /\ Flown' \subseteq Flown /\ GoneUp' \subseteq GoneUp
        /\ c \in TaskRec /\ c \in Flown /\ Frame(c) \in GoneUp
        /\ \A x \in Tabs : /\ LivesApart(waiting'[x])
                           /\ x # t => waiting'[x] = waiting[x]
                           /\ LiveNames(waiting'[x]) = LiveNames(waiting[x])
        /\ c \in TakenOf(waiting[t]) /\ (TakenOnce(waiting[t]) => TakenOf(waiting'[t]) = {})
    BY <1>1, Heard
  <1>4. TakenOnce(waiting[t]) /\ \E r \in box : Carries(r, c)
    BY <1>1, <1>3 DEF OutboxInv, Flying, Sends
  <1> HIDE DEF chosen, c
  <1>5. Typed /\ Numbered /\ BoxApart
    BY DEF OutboxInv, Words, Holding, Apart, BoxApart
  <1>6. chosen \in box /\ Carries(chosen, c)
    <2>1. PICK r \in box : Carries(r, c)
      BY <1>4
    <2>2. r.n = c.n
      BY <2>1 DEF Carries
    <2>3. chosen \in box /\ chosen.n = c.n
      BY <2>2 DEF chosen
    <2> QED
      BY <1>5, <2>1, <2>2, <2>3 DEF Numbered
  <1>7. /\ store' \in Seq(Requests) /\ PutsOf(store') = PutsOf(store) /\ PutsApart(store')
        /\ Reading' /\ Drains(drain') /\ drain'.by = t /\ drain'.step \in {"pass", "reading"}
    BY <1>1, <1>2, <1>5, GoesOn, OutboxAssumption DEF OutboxInv, Holding, Apart
  <1>8. no \in BOOLEAN /\ yes \in BOOLEAN /\ ~no
    BY DEF no, yes
  <1>9. /\ unsent \in Entry /\ unsent.n = chosen.n /\ Like(unsent, chosen) /\ unsent.sending = no
        /\ refused \in Entry /\ refused.n = chosen.n /\ Like(refused, chosen)
    <2>1. chosen \in Entry
      BY <1>5, <1>6 DEF Typed
    <2> QED
      BY <1>8, <2>1 DEF Entry, Like, unsent, refused
  <1>10. UNCHANGED box \/ (chosen.text = c.text /\ c.answer = "ok" /\ box' = box \ {chosen})
         \/ \E e \in Entry : /\ e.n = chosen.n /\ Like(e, chosen) /\ box' = (box \ {chosen}) \cup {e}
                             /\ c.idem \in declined' \/ (c.answer = "ok" /\ chosen.text # c.text)
    BY <1>2, <1>6, <1>9
  <1>11. /\ box' \subseteq Entry /\ Numbered' /\ BoxApart' /\ BoxNames' \subseteq BoxNames
         /\ \A i \in BoxNames : i \in BoxNames' \/ (i = chosen.idem /\ chosen.text = c.text /\ c.answer = "ok")
    <2>1. CASE UNCHANGED box
      BY <1>1, <1>5, <2>1 DEF Typed, Numbered, BoxApart, BoxNames
    <2>2. CASE chosen.text = c.text /\ c.answer = "ok" /\ box' = box \ {chosen}
      BY <1>1, <1>5, <1>6, <2>2, BoxLess
    <2>3. ASSUME NEW e \in Entry, e.n = chosen.n, Like(e, chosen), box' = (box \ {chosen}) \cup {e}
          PROVE  box' \subseteq Entry /\ Numbered' /\ BoxApart' /\ BoxNames' = BoxNames
      <3>1. e.idem = chosen.idem
        BY <2>3 DEF Like
      <3> QED
        BY <1>1, <1>5, <1>6, <2>3, <3>1, BoxKeeps
    <2> QED
      BY <1>10, <2>1, <2>2, <2>3
  <1>12. \A x \in box' : x \in box \/ (Like(x, chosen) /\ (c.idem \in declined' \/ chosen.text # c.text))
    BY <1>10
  <1>13. Typed'
    BY <1>1, <1>3, <1>5, <1>7, <1>11, OutboxAssumption DEF Typed
  <1>14. Sorted' /\ DoneApart'
    <2>1. \A x \in Items' : \E y \in Items : Like(x, y)
      BY <1>3, <1>6, <1>7, <1>12 DEF Items, Like
    <2>2. wire' \cup ToSet(log') \subseteq Said
      BY <1>1 DEF Said
    <2> QED
      BY <1>1, <2>1, <2>2, Steady DEF OutboxInv, Words, DoneApart
  <1>15. PutNames(store') = PutNames(store)
    BY <1>7 DEF PutNames
  <1>16. Apart'
    <2>1. \A r, s \in box' : r.idem = s.idem => r = s
      BY <1>11 DEF BoxApart
    <2>2. BoxNames' \cap PutNames(store') = {}
      BY <1>11, <1>15 DEF OutboxInv, Holding, Apart
    <2>3. \A x \in Tabs : LiveNames(waiting'[x]) \cap (BoxNames' \cup PutNames(store')) = {}
      BY <1>3, <1>11, <1>15 DEF OutboxInv, Holding, Apart
    <2>4. \A x, y \in Tabs : x # y => LiveNames(waiting'[x]) \cap LiveNames(waiting'[y]) = {}
      BY <1>3 DEF OutboxInv, Holding, Apart
    <2> QED
      BY <1>3, <1>7, <2>1, <2>2, <2>3, <2>4 DEF Apart
  <1>17. chosen.text = c.text => chosen.idem = c.idem
    <2>1. Frame(chosen) \in Said /\ Frame(c) \in Said
      BY <1>3, <1>6 DEF Said, Items
    <2>2. /\ Frame(chosen).idem = chosen.idem /\ Frame(chosen).text = chosen.text
          /\ Frame(c).idem = c.idem /\ Frame(c).text = c.text
      BY DEF Frame
    <2> QED
      BY <2>1, <2>2 DEF OutboxInv, Words, Sorted
  <1>18. Kept' /\ Oks'
    <2>1. \A i : Done(i)' <=> Done(i)
      BY <1>1 DEF Done
    <2>2. c.answer = "ok" => Done(c.idem)
      BY <1>3 DEF OutboxInv, Holding, Oks
    <2>3. \A i : Firm(i)' => Firm(i)
      BY <1>3, <1>11, <1>15 DEF Firm
    <2>4. \A i : Firm(i) => Firm(i)' \/ Done(i)
      BY <1>3, <1>11, <1>15, <1>17, <2>2 DEF Firm
    <2> QED
      BY <1>1, <1>3, <2>1, <2>3, <2>4 DEF OutboxInv, Holding, Kept, Oks
  <1>19. Sent'
    <2>1. ~chosen.fold => chosen.idem = c.idem /\ chosen.sending
      BY <1>6 DEF Carries
    <2>2. chosen.text # c.text /\ ~chosen.fold => c.idem \in declined
      <3>1. Frame(c).idem = c.idem /\ Frame(c).text = c.text
        BY DEF Frame
      <3> QED
        BY <1>3, <1>6, <2>1, <3>1 DEF OutboxInv, Holding, Sent
    <2>3. \A x \in (box \cup PutsOf(store))' : ~x.fold /\ x.idem \notin declined' =>
            \E y \in box \cup PutsOf(store) : Like(x, y) /\ x.sending = y.sending
      <3>1. \A x \in box' : x \in box \/ x.fold \/ x.idem \in declined'
        BY <1>1, <1>12, <2>1, <2>2 DEF Like
      <3> QED
        BY <1>7, <3>1 DEF Like
    <2> QED
      BY <1>1, <1>3, <2>3, SentOn DEF OutboxInv, Holding
  <1>20. Flying'
    <2>1. \A x \in Tabs : ~Sends(x)' /\ (x # t => ~Sends(x))
      BY <1>1, <1>7 DEF Sends
    <2> QED
      BY <1>1, <1>3, <1>4, <2>1 DEF OutboxInv, Flying
  <1> QED
    BY <1>7, <1>11, <1>13, <1>14, <1>16, <1>18, <1>19, <1>20 DEF OutboxInv, Words, Holding
-----------------------------------------------------------------------------
LEMMA Steps == OutboxInv /\ [Next]_vars => OutboxInv'
  <1> SUFFICES ASSUME OutboxInv, [Next]_vars PROVE OutboxInv'
    OBVIOUS
  <1>1. CASE UNCHANGED vars
    <2>1. /\ UNCHANGED <<made, edits, creates, box, filed, waiting, wire, log, history>>
          /\ UNCHANGED <<store, conn, drain>>
      BY <1>1 DEF vars, history
    <2>2. Numbered' /\ Sorted' /\ DoneApart' /\ Holding'
      BY <2>1, Stays DEF OutboxInv, Holding, Apart
    <2>3. Typed' /\ Reading'
      BY <2>1 DEF OutboxInv, Words, Typed, Reading, history
    <2>4. Flying'
      BY <2>1, FlightsHold DEF OutboxInv, Sends
    <2> QED
      BY <2>2, <2>3, <2>4 DEF OutboxInv, Words
  <1>2. CASE Person
    <2>1. \A t \in Tabs : Send(t, TRUE) \/ Send(t, FALSE) => OutboxInv'
      BY SendKeeps
    <2> QED
      BY <1>2, <2>1, AgainKeeps, RetextKeeps, UnqueueKeeps, LetGoKeeps DEF Person
  <1>3. CASE Store
    BY <1>3, StorePutKeeps, StoreReadKeeps
  <1>4. ASSUME NEW t \in Tabs, Page(t)
        PROVE  OutboxInv'
    BY <1>4, OpensKeeps, ClosedKeeps, ReplayKeeps, LockKeeps, SkipKeeps, TakeKeeps, AnsweredKeeps,
       DrainedKeeps, UnheardKeeps DEF Page
  <1>5. ASSUME NEW t \in Tabs, Cut(t) \/ Timeout(t) \/ Serve(t)
        PROVE  OutboxInv'
    BY <1>5, CutKeeps, TimeoutKeeps, ServeKeeps
  <1>6. CASE \E f \in wire : ServeLate(f)
    BY <1>6, ServeLateKeeps
  <1> QED
    BY <1>1, <1>2, <1>3, <1>4, <1>5, <1>6 DEF Next

LEMMA InvMeans == OutboxInv => EachAsMade
  <1> SUFFICES ASSUME OutboxInv PROVE EachAsMade
    OBVIOUS
  <1>1. NothingLost
    <2>1. \A i : Firm(i) => i \in Held
      <3> SUFFICES ASSUME NEW i, Firm(i) PROVE i \in Held
        OBVIOUS
      <3>1. CASE i \in BoxNames
        BY <3>1 DEF BoxNames, Held
      <3>2. CASE i \in PutNames(store)
        BY <3>2 DEF PutNames, PutsOf, ToSet, Held
      <3>3. CASE \E t \in Tabs : i \in LiveNames(waiting[t])
        BY <3>3 DEF LiveNames, LivesOf, ToSet, Held
      <3> QED
        BY <3>1, <3>2, <3>3 DEF Firm
    <2> QED
      BY <2>1 DEF NothingLost, OutboxInv, Holding, Kept
  <1>2. DoneOnce
    <2>1. \A j \in DOMAIN log : log[j] \in Said
      BY DEF Said, ToSet
    <2> QED
      BY <2>1 DEF DoneOnce, OutboxInv, Words, Sorted, DoneApart
  <1>3. SentAlike
    <2> SUFFICES ASSUME NEW f \in GoneUp, f.idem \notin declined
                 PROVE  /\ \A g \in GoneUp \cup {Frame(r) : r \in {x \in box : x.sending}} :
                             g.idem = f.idem => g.text = f.text
                        /\ f.idem \notin back
      BY DEF SentAlike
    <2>1. f.idem \notin back /\ \A g \in GoneUp : g.idem = f.idem => g.text = f.text
      BY DEF OutboxInv, Holding, Sent
    <2>2. ASSUME NEW r \in box, r.idem = f.idem PROVE r.text = f.text
      <3>1. CASE ~r.fold
        BY <2>2, <3>1 DEF OutboxInv, Holding, Sent
      <3>2. CASE r.fold
        <4>1. Frame(r) \in Said /\ Frame(r).idem = r.idem /\ Frame(r).text = r.text /\ r.idem \in edits
          BY <3>2 DEF OutboxInv, Words, Sorted, Said, Items, Frame
        <4> QED
          BY <2>2, <4>1, UpIsSaid DEF OutboxInv, Words, Sorted
      <3> QED
        BY <3>1, <3>2
    <2>3. \A r \in box : Frame(r).idem = r.idem /\ Frame(r).text = r.text
      BY DEF Frame
    <2> QED
      BY <2>1, <2>2, <2>3
  <1> QED
    BY <1>1, <1>2, <1>3 DEF EachAsMade

(* Nothing the person made is lost, it is done once, and as it went up     *)
(* (net.js, offline.js), for any number of tabs, commands, sockets that    *)
(* close and refusals, however long the outbox has been filled.            *)
THEOREM MadeOnceHolds == Spec => []EachAsMade
  BY Initially, Steps, InvMeans, PTL DEF Spec

-----------------------------------------------------------------------------
(* What a tab hears: the records of Stream, and the parts the invariant of *)
(* the two roads is made of.                                               *)
Event == [prop : Propositions, entity : Entities, gone : BOOLEAN, readable : BOOLEAN]
OutFrame  == [ev : Nat, final : BOOLEAN]
Half  == [pc : {"none", "accepted", "subscribed", "serving"}, sub : Seq(Nat), dropped : Nat,
          member : SUBSET Propositions, out : Seq(OutFrame), ack : Nat, closed : BOOLEAN]
Asked == [pc : {"idle", "asked", "held", "answered"}, by : {"open", "poll"}, wait : BOOLEAN,
          since : Nat, from : Nat, page : SUBSET Nat, subscribed : BOOLEAN]

StreamTypes ==
  /\ events \in Seq(Event) /\ pub \in Nat /\ pub <= Len(events)
  /\ member \subseteq Propositions /\ live \subseteq Propositions /\ owner \in BOOLEAN
  /\ srv \in Half /\ ws \in {"closed", "connecting", "open"}
  /\ shown \in [Rows -> Nat] /\ cursor \in Nat
  /\ reads \in [Reads -> Asked] /\ sure \in BOOLEAN /\ httpLive \in BOOLEAN

(* The events a page holds, or that arrive, draw what is there or newer.   *)
LEMMA GreatestIs ==
  ASSUME NEW S \in SUBSET Nat, NEW n \in Nat, \A i \in S : i <= n, S # {}
  PROVE  Max(S) \in S /\ \A i \in S : i <= Max(S)
  <1> DEFINE T == {k \in Nat : \A i \in S : i <= k}
  <1>0. n \in T /\ T \subseteq Nat
    OBVIOUS
  <1>1. PICK k \in T : \A j \in T : ~(j < k)
    <2> HIDE DEF T
    <2>1. PICK k \in T : \A j \in T : <<j, k>> \notin OpToRel(<, Nat)
      BY <1>0, WFMin, NatLessThanWellFounded, Zenon
    <2>2. \A j \in T : ~(j < k)
      BY <1>0, <2>1, Zenon DEF OpToRel
    <2> QED
      BY <2>2
  <1>2. k \in Nat /\ \A i \in S : i <= k
    BY <1>1
  <1>3. k \in S
    <2> SUFFICES ASSUME k \notin S PROVE FALSE
      OBVIOUS
    <2>1. \A i \in S : i <= k - 1 /\ k - 1 \in Nat
      BY <1>2
    <2>2. k - 1 \in T
      BY <2>1
    <2> QED
      BY <1>1, <1>2, <2>2
  <1>4. \E g \in S : \A y \in S : g >= y
    BY <1>2, <1>3
  <1>5. Max(S) \in S /\ \A y \in S : Max(S) >= y
    BY <1>4, Zenon DEF Max
  <1> QED
    BY <1>5

LEMMA LeastIs ==
  ASSUME NEW S \in SUBSET Nat, S # {}
  PROVE  Min(S) \in S /\ \A i \in S : Min(S) <= i
  <1>1. PICK k \in S : \A j \in S : <<j, k>> \notin OpToRel(<, Nat)
    BY WFMin, NatLessThanWellFounded, Zenon
  <1>2. \A j \in S : ~(j < k)
    BY <1>1, Zenon DEF OpToRel
  <1>3. \E g \in S : \A y \in S : g <= y
    BY <1>2
  <1>4. Min(S) \in S /\ \A y \in S : Min(S) <= y
    BY <1>3, Zenon DEF Min
  <1> QED
    BY <1>4

(* A page that is not full holds all that were due; the due ones before    *)
(* one that it holds it holds too.                                         *)
LEMMA PageIs ==
  ASSUME NEW due \in SUBSET Nat, NEW n \in Nat, \A i \in due : i <= n, PageSize \in Nat
  PROVE  /\ FirstPage(due) \subseteq due
         /\ \A i \in due, j \in FirstPage(due) : i < j => i \in FirstPage(due)
         /\ FirstPage(due) = due \/ Cardinality(FirstPage(due)) = PageSize
  <1> DEFINE upto(i) == {j \in due : j <= i}
             page == FirstPage(due)
             rest == due \ page
  <1>0. IsFiniteSet(due)
    <2>1. due \subseteq 0 .. n
      OBVIOUS
    <2> QED
      <3>1. IsFiniteSet(0 .. n)
        BY FS_Interval
      <3> QED
        BY <2>1, <3>1, FS_Subset, Zenon
  <1>1. \A i \in due : IsFiniteSet(upto(i)) /\ Cardinality(upto(i)) \in Nat
    BY <1>0, FS_Subset, FS_CardinalityType
  <1>2. \A i \in due : i \in page <=> Cardinality(upto(i)) <= PageSize
    BY DEF FirstPage
  <1>3. page \subseteq due
    BY DEF FirstPage
  <1>u. \A i, j \in due : j \in upto(i) <=> j <= i
    OBVIOUS
  <1>v. \A i \in due : upto(i) \subseteq due
    OBVIOUS
  <1> HIDE DEF page, upto
  <1>4. \A i \in due, j \in page : i < j => i \in page
    <2> SUFFICES ASSUME NEW i \in due, NEW j \in page, i < j PROVE i \in page
      OBVIOUS
    <2>1. j \in due /\ i \in Nat /\ j \in Nat
      BY <1>3
    <2>2. upto(i) \subseteq upto(j)
      <3> SUFFICES ASSUME NEW x \in upto(i) PROVE x \in upto(j)
        OBVIOUS
      <3>1. x \in due /\ x \in Nat /\ x <= i
        BY <1>u, <1>v, <2>1
      <3> QED
        BY <1>u, <2>1, <3>1
    <2>3. Cardinality(upto(i)) <= Cardinality(upto(j))
      BY <1>1, <2>1, <2>2, FS_Subset
    <2> QED
      BY <1>1, <1>2, <2>1, <2>3
  <1>5. CASE page # due
    <2> DEFINE g == Min(rest)
    <2>1. rest \in SUBSET Nat /\ rest # {}
      BY <1>3, <1>5
    <2>2. g \in rest /\ \A i \in rest : g <= i
      BY <2>1, LeastIs, Zenon
    <2> HIDE DEF g
    <2>3. g \in due /\ g \in Nat /\ g \notin page /\ g \in upto(g)
      BY <1>u, <2>2
    <2>4. \A i \in page : i < g /\ i \in due /\ i \in Nat
      BY <1>3, <1>4, <2>3
    <2>5. \A i \in due : i < g => i \in page
      BY <2>2, <2>3
    <2>6. page = upto(g) \ {g}
      <3>1. \A i \in page : i \in upto(g) \ {g}
        BY <1>u, <2>3, <2>4
      <3>2. \A i \in upto(g) \ {g} : i \in page
        <4> SUFFICES ASSUME NEW i \in upto(g), i # g PROVE i \in page
          OBVIOUS
        <4>1. i \in due /\ i <= g /\ i \in Nat
          BY <1>u, <1>v, <2>3
        <4> QED
          BY <2>3, <2>5, <4>1
      <3> QED
        BY <3>1, <3>2
    <2>7. Cardinality(page) = Cardinality(upto(g)) - 1 /\ IsFiniteSet(page)
      <3>1. IsFiniteSet(upto(g))
        BY <1>1, <2>3
      <3> QED
        BY <2>3, <2>6, <3>1, FS_RemoveElement, FS_Subset
    <2>8. Cardinality(upto(g)) \in Nat /\ ~(Cardinality(upto(g)) <= PageSize)
      BY <1>1, <1>2, <2>3
    <2>9. Cardinality(page) >= PageSize /\ Cardinality(page) \in Nat
      <3>1. Cardinality(page) \in Nat
        BY <2>7, FS_CardinalityType
      <3> QED
        BY <2>7, <2>8, <3>1
    <2>10. Cardinality(page) <= PageSize
      <3>1. CASE page = {}
        BY <3>1, FS_EmptySet
      <3>2. CASE page # {}
        <4> DEFINE m == Max(page)
        <4>1. page \in SUBSET Nat /\ \A i \in page : i <= n
          BY <1>3
        <4>2. m \in page /\ \A i \in page : i <= m
          BY <3>2, <4>1, GreatestIs, Zenon
        <4> HIDE DEF m
        <4>3. page \subseteq upto(m) /\ m \in due
          BY <1>3, <1>u, <4>2
        <4>4. IsFiniteSet(upto(m)) /\ Cardinality(upto(m)) \in Nat /\ Cardinality(upto(m)) <= PageSize
          BY <1>1, <1>2, <4>2, <4>3
        <4>5. Cardinality(page) <= Cardinality(upto(m))
          BY <4>3, <4>4, FS_Subset
        <4> QED
          BY <2>9, <4>4, <4>5
      <3> QED
        BY <3>1, <3>2
    <2>11. Cardinality(page) = PageSize
      BY <2>9, <2>10
    <2> QED
      BY <1>3, <1>4, <2>11 DEF page
  <1> QED
    BY <1>3, <1>4, <1>5 DEF page

-----------------------------------------------------------------------------
(* Who could read what.  An event says whether the person could read it,   *)
(* so those of a proposition tell of a person who is not an owner whether  *)
(* they were one of its members in between; m is who is one now.           *)
GoneAt(es, p, j) == j \in 1..Len(es) /\ es[j].prop = p /\ es[j].gone
JoinAt(es, p, j) == j \in 1..Len(es) /\ es[j].prop = p /\ es[j].entity = "member" /\ ~es[j].gone

Stands(es, m, p) ==
  \A i \in 1..Len(es) : es[i].prop = p =>
    /\ ~es[i].readable /\ p \in m => \E j \in i + 1..Len(es) : JoinAt(es, p, j)
    /\ es[i].readable /\ p \notin m => \E j \in i..Len(es) : GoneAt(es, p, j)
    /\ JoinAt(es, p, i) /\ p \notin m => \E j \in i + 1..Len(es) : GoneAt(es, p, j)
    /\ GoneAt(es, p, i) /\ p \in m => \E j \in i + 1..Len(es) : JoinAt(es, p, j)
Turns(es, p) ==
  \A i \in 1..Len(es) : \A h \in 1..i - 1 : es[i].prop = p =>
    /\ JoinAt(es, p, h) /\ ~es[i].readable => \E j \in h + 1..i - 1 : GoneAt(es, p, j)
    /\ GoneAt(es, p, h) /\ es[i].readable => \E j \in h + 1..i : JoinAt(es, p, j)

(* What the socket has yet to be handed, what is above n in the table,     *)
(* makes up for what its copy st of the memberships has missed.            *)
Follows(es, m, st, n, p) ==
  /\ p \in st /\ p \notin m => \E j \in n + 1..Len(es) : GoneAt(es, p, j)
  /\ p \notin st /\ p \in m => \E j \in n + 1..Len(es) : JoinAt(es, p, j)
  /\ \A i \in n + 1..Len(es) : es[i].prop = p =>
       /\ ~es[i].readable /\ p \in st => \/ \E j \in i + 1..Len(es) : JoinAt(es, p, j)
                                         \/ \E j \in n + 1..i - 1 : GoneAt(es, p, j)
       /\ es[i].readable /\ p \notin st => \/ \E j \in n + 1..i : JoinAt(es, p, j)
                                           \/ \E j \in i..Len(es) : GoneAt(es, p, j)

(* An event of p, or of another proposition, joins the table.              *)
Joins(es, m, e, new, p) ==
  /\ e.prop = p => /\ e.readable <=> p \in m \/ e.entity = "member"
                   /\ e.entity = "member" => (e.gone <=> p \in m)
                   /\ p \in new <=> ~e.gone /\ (e.entity = "member" \/ p \in m)
  /\ e.prop # p => (p \in new <=> p \in m)

LEMMA Longer ==
  ASSUME NEW es \in Seq(Event), NEW e \in Event
  PROVE  /\ Append(es, e) \in Seq(Event) /\ Len(Append(es, e)) = Len(es) + 1 /\ Len(es) \in Nat
         /\ \A i \in 1..Len(es) : Append(es, e)[i] = es[i]
         /\ Append(es, e)[Len(es) + 1] = e
         /\ \A i \in 1..Len(es) : es[i] \in Event
  OBVIOUS

LEMMA PastGrows ==
  ASSUME NEW es \in Seq(Event), NEW e \in Event, NEW m, NEW new, NEW p,
         Joins(es, m, e, new, p), Stands(es, m, p), Turns(es, p),
         NEW fs, fs = Append(es, e)
  PROVE  Stands(fs, new, p) /\ Turns(fs, p)
  <1> DEFINE l == Len(es)
  <1>1. /\ l \in Nat /\ Len(fs) = l + 1 /\ fs[l + 1] = e
        /\ \A i \in 1..l : fs[i] = es[i]
    BY Longer
  <1>2. /\ \A j \in 1..l : (GoneAt(fs, p, j) <=> GoneAt(es, p, j)) /\ (JoinAt(fs, p, j) <=> JoinAt(es, p, j))
        /\ GoneAt(fs, p, l + 1) <=> e.prop = p /\ e.gone
        /\ JoinAt(fs, p, l + 1) <=> e.prop = p /\ e.entity = "member" /\ ~e.gone
    BY <1>1 DEF GoneAt, JoinAt
  <1> HIDE DEF l
  <1>3. ASSUME NEW i \in 1..l, fs[i].prop = p
        PROVE  /\ ~fs[i].readable /\ p \in new => \E j \in i + 1..l + 1 : JoinAt(fs, p, j)
               /\ fs[i].readable /\ p \notin new => \E j \in i..l + 1 : GoneAt(fs, p, j)
               /\ JoinAt(fs, p, i) /\ p \notin new => \E j \in i + 1..l + 1 : GoneAt(fs, p, j)
               /\ GoneAt(fs, p, i) /\ p \in new => \E j \in i + 1..l + 1 : JoinAt(fs, p, j)
    <2>1. CASE p \in new <=> p \in m
      <3>1. /\ ~fs[i].readable /\ p \in new => \E j \in i + 1..l : JoinAt(es, p, j)
            /\ fs[i].readable /\ p \notin new => \E j \in i..l : GoneAt(es, p, j)
            /\ JoinAt(fs, p, i) /\ p \notin new => \E j \in i + 1..l : GoneAt(es, p, j)
            /\ GoneAt(fs, p, i) /\ p \in new => \E j \in i + 1..l : JoinAt(es, p, j)
        BY <1>1, <1>2, <1>3, <2>1 DEF Stands, l
      <3> QED
        BY <1>1, <1>2, <3>1
    <2>2. CASE ~(p \in new <=> p \in m)
      <3>1. /\ l + 1 \in i + 1..l + 1 /\ l + 1 \in i..l + 1
            /\ p \in new => JoinAt(fs, p, l + 1)
            /\ p \notin new => GoneAt(fs, p, l + 1)
        BY <1>1, <1>2, <2>2 DEF Joins
      <3> QED
        BY <3>1
    <2> QED
      BY <2>1, <2>2
  <1>4. ASSUME e.prop = p
        PROVE  /\ ~e.readable => p \notin new
               /\ e.readable /\ p \notin new => GoneAt(fs, p, l + 1)
               /\ JoinAt(fs, p, l + 1) => p \in new
               /\ GoneAt(fs, p, l + 1) => p \notin new
    BY <1>2, <1>4 DEF Joins
  <1>5. Stands(fs, new, p)
    BY <1>1, <1>3, <1>4 DEF Stands
  <1>6. ASSUME NEW h \in 1..l, e.prop = p
        PROVE  /\ JoinAt(fs, p, h) /\ ~e.readable => \E j \in h + 1..l : GoneAt(fs, p, j)
               /\ GoneAt(fs, p, h) /\ e.readable => \E j \in h + 1..l + 1 : JoinAt(fs, p, j)
    <2>1. JoinAt(fs, p, h) /\ ~e.readable => \E j \in h + 1..l : GoneAt(fs, p, j)
      <3>1. JoinAt(fs, p, h) /\ ~e.readable => \E j \in h + 1..l : GoneAt(es, p, j)
        BY <1>1, <1>2, <1>6 DEF Stands, Joins, JoinAt, l
      <3> QED
        BY <1>1, <1>2, <3>1
    <2>2. ASSUME GoneAt(fs, p, h), e.readable PROVE \E j \in h + 1..l + 1 : JoinAt(fs, p, j)
      <3>1. CASE p \in m
        <4>1. \E j \in h + 1..l : JoinAt(es, p, j)
          BY <1>1, <1>2, <2>2, <3>1 DEF Stands, GoneAt, l
        <4> QED
          BY <1>1, <1>2, <4>1
      <3>2. CASE p \notin m
        <4>1. JoinAt(fs, p, l + 1) /\ l + 1 \in h + 1..l + 1
          BY <1>1, <1>2, <1>6, <2>2, <3>2 DEF Joins
        <4> QED
          BY <4>1
      <3> QED
        BY <3>1, <3>2
    <2> QED
      BY <2>1, <2>2
  <1>7. ASSUME NEW i \in 1..l, NEW h \in 1..i - 1, fs[i].prop = p
        PROVE  /\ JoinAt(fs, p, h) /\ ~fs[i].readable => \E j \in h + 1..i - 1 : GoneAt(fs, p, j)
               /\ GoneAt(fs, p, h) /\ fs[i].readable => \E j \in h + 1..i : JoinAt(fs, p, j)
    <2>1. h \in 1..l /\ fs[i] = es[i]
      BY <1>1
    <2>2. /\ JoinAt(fs, p, h) /\ ~fs[i].readable => \E j \in h + 1..i - 1 : GoneAt(es, p, j)
          /\ GoneAt(fs, p, h) /\ fs[i].readable => \E j \in h + 1..i : JoinAt(es, p, j)
      BY <1>1, <1>2, <1>7, <2>1 DEF Turns, l
    <2> QED
      BY <1>1, <1>2, <2>2
  <1>8. Turns(fs, p)
    <2> SUFFICES ASSUME NEW i \in 1..l + 1, NEW h \in 1..i - 1, fs[i].prop = p
                 PROVE  /\ JoinAt(fs, p, h) /\ ~fs[i].readable => \E j \in h + 1..i - 1 : GoneAt(fs, p, j)
                        /\ GoneAt(fs, p, h) /\ fs[i].readable => \E j \in h + 1..i : JoinAt(fs, p, j)
      BY <1>1 DEF Turns
    <2>1. CASE i \in 1..l
      BY <1>7, <2>1
    <2>2. CASE i = l + 1
      <3>1. i - 1 = l /\ h \in 1..l /\ e.prop = p /\ fs[i] = e
        BY <1>1, <2>2
      <3> QED
        BY <1>6, <2>2, <3>1
    <2> QED
      BY <1>1, <2>1, <2>2
  <1> QED
    BY <1>5, <1>8

LEMMA FollowsGrows ==
  ASSUME NEW es \in Seq(Event), NEW e \in Event, NEW m, NEW new, NEW p,
         Joins(es, m, e, new, p), Stands(es, m, p),
         NEW st, NEW n \in 0..Len(es), Follows(es, m, st, n, p),
         NEW fs, fs = Append(es, e)
  PROVE  Follows(fs, new, st, n, p)
  <1> DEFINE l == Len(es)
  <1>1. /\ l \in Nat /\ Len(fs) = l + 1 /\ fs[l + 1] = e
        /\ \A i \in 1..l : fs[i] = es[i]
    BY Longer
  <1>2. /\ \A j \in 1..l : (GoneAt(fs, p, j) <=> GoneAt(es, p, j)) /\ (JoinAt(fs, p, j) <=> JoinAt(es, p, j))
        /\ GoneAt(fs, p, l + 1) <=> e.prop = p /\ e.gone
        /\ JoinAt(fs, p, l + 1) <=> e.prop = p /\ e.entity = "member" /\ ~e.gone
    BY <1>1 DEF GoneAt, JoinAt
  <1>0. n \in Nat /\ n <= l /\ l + 1 \in n + 1..l + 1
    BY <1>1
  <1> HIDE DEF l
  <1>3. ASSUME p \in st, p \notin new PROVE \E j \in n + 1..l + 1 : GoneAt(fs, p, j)
    <2>1. CASE p \notin m
      <3>1. \E j \in n + 1..l : GoneAt(es, p, j)
        BY <1>3, <2>1 DEF Follows, l
      <3> QED
        BY <1>0, <1>1, <1>2, <3>1
    <2>2. CASE p \in m
      <3>1. GoneAt(fs, p, l + 1)
        BY <1>2, <1>3, <2>2 DEF Joins
      <3> QED
        BY <1>0, <3>1
    <2> QED
      BY <2>1, <2>2
  <1>4. ASSUME p \notin st, p \in new PROVE \E j \in n + 1..l + 1 : JoinAt(fs, p, j)
    <2>1. CASE p \in m
      <3>1. \E j \in n + 1..l : JoinAt(es, p, j)
        BY <1>4, <2>1 DEF Follows, l
      <3> QED
        BY <1>0, <1>1, <1>2, <3>1
    <2>2. CASE p \notin m
      <3>1. JoinAt(fs, p, l + 1)
        BY <1>2, <1>4, <2>2 DEF Joins
      <3> QED
        BY <1>0, <3>1
    <2> QED
      BY <2>1, <2>2
  <1>5. ASSUME NEW i \in n + 1..l, fs[i].prop = p
        PROVE  /\ ~fs[i].readable /\ p \in st => \/ \E j \in i + 1..l + 1 : JoinAt(fs, p, j)
                                                 \/ \E j \in n + 1..i - 1 : GoneAt(fs, p, j)
               /\ fs[i].readable /\ p \notin st => \/ \E j \in n + 1..i : JoinAt(fs, p, j)
                                                   \/ \E j \in i..l + 1 : GoneAt(fs, p, j)
    <2>1. i \in 1..l /\ fs[i] = es[i]
      BY <1>0, <1>1
    <2>2. /\ ~fs[i].readable /\ p \in st => \/ \E j \in i + 1..l : JoinAt(es, p, j)
                                            \/ \E j \in n + 1..i - 1 : GoneAt(es, p, j)
          /\ fs[i].readable /\ p \notin st => \/ \E j \in n + 1..i : JoinAt(es, p, j)
                                              \/ \E j \in i..l : GoneAt(es, p, j)
      BY <1>5, <2>1 DEF Follows, l
    <2>3. /\ \A j \in i + 1..l : j \in 1..l /\ j \in i + 1..l + 1
          /\ \A j \in n + 1..i : j \in 1..l
          /\ \A j \in n + 1..i - 1 : j \in 1..l
          /\ \A j \in i..l : j \in 1..l /\ j \in i..l + 1
      BY <1>0, <1>1, <2>1
    <2> QED
      BY <1>2, <2>2, <2>3
  <1>6. ASSUME e.prop = p
        PROVE  /\ ~e.readable /\ p \in st => \/ \E j \in l + 2..l + 1 : JoinAt(fs, p, j)
                                             \/ \E j \in n + 1..l : GoneAt(fs, p, j)
               /\ e.readable /\ p \notin st => \/ \E j \in n + 1..l + 1 : JoinAt(fs, p, j)
                                               \/ \E j \in l + 1..l + 1 : GoneAt(fs, p, j)
    <2>1. ASSUME ~e.readable, p \in st PROVE \E j \in n + 1..l : GoneAt(fs, p, j)
      <3>1. p \notin m
        BY <1>6, <2>1 DEF Joins
      <3>2. \E j \in n + 1..l : GoneAt(es, p, j)
        BY <2>1, <3>1 DEF Follows, l
      <3> QED
        BY <1>0, <1>1, <1>2, <3>2
    <2>2. ASSUME e.readable, p \notin st
          PROVE  GoneAt(fs, p, l + 1) \/ \E j \in n + 1..l + 1 : JoinAt(fs, p, j)
      <3>1. CASE p \in new
        BY <1>4, <2>2, <3>1
      <3>2. CASE p \notin new
        BY <1>2, <1>6, <2>2, <3>2 DEF Joins
      <3> QED
        BY <3>1, <3>2
    <2>3. l + 1 \in l + 1..l + 1
      BY <1>1
    <2> QED
      BY <2>1, <2>2, <2>3
  <1>7. \A i \in n + 1..l + 1 : i \in n + 1..l \/ (i = l + 1 /\ i - 1 = l /\ i + 1 = l + 2)
    BY <1>0, <1>1
  <1>8. ASSUME NEW i \in n + 1..l + 1, fs[i].prop = p
        PROVE  /\ ~fs[i].readable /\ p \in st => \/ \E j \in i + 1..l + 1 : JoinAt(fs, p, j)
                                                 \/ \E j \in n + 1..i - 1 : GoneAt(fs, p, j)
               /\ fs[i].readable /\ p \notin st => \/ \E j \in n + 1..i : JoinAt(fs, p, j)
                                                   \/ \E j \in i..l + 1 : GoneAt(fs, p, j)
    <2>1. CASE i \in n + 1..l
      BY <1>5, <1>8, <2>1
    <2>2. CASE i = l + 1 /\ i - 1 = l /\ i + 1 = l + 2
      BY <1>1, <1>6, <1>8, <2>2
    <2> QED
      BY <1>7, <2>1, <2>2
  <1> QED
    BY <1>1, <1>3, <1>4, <1>8 DEF Follows

(* The memberships as they are read follow what has happened.              *)
LEMMA FollowsRead ==
  ASSUME NEW es \in Seq(Event), NEW m, NEW p, Stands(es, m, p), NEW n \in 0..Len(es)
  PROVE  Follows(es, m, m, n, p)
  <1>1. Len(es) \in Nat /\ n \in Nat /\ n + 1..Len(es) \subseteq 1..Len(es)
    OBVIOUS
  <1> QED
    BY <1>1 DEF Follows, Stands

(* The next event brings the copy a step on.                               *)
LEMMA FollowsOn ==
  ASSUME NEW es \in Seq(Event), NEW m, NEW p, Stands(es, m, p), Turns(es, p),
         NEW n \in 0..Len(es) - 1, NEW st, Follows(es, m, st, n, p), NEW next,
         p \in next <=> IF GoneAt(es, p, n + 1) THEN FALSE ELSE JoinAt(es, p, n + 1) \/ p \in st
  PROVE  Follows(es, m, next, n + 1, p)
  <1> DEFINE l == Len(es)
             h == n + 1
  <1>1. l \in Nat /\ n \in Nat /\ h \in 1..l /\ h = n + 1
    OBVIOUS
  <1>2. p \in next <=> ~GoneAt(es, p, h) /\ (JoinAt(es, p, h) \/ p \in st)
    OBVIOUS
  <1>0. ~(GoneAt(es, p, h) /\ JoinAt(es, p, h))
    BY DEF GoneAt, JoinAt
  <1> HIDE DEF l, h
  <1>3. ASSUME p \in next, p \notin m PROVE \E j \in h + 1..l : GoneAt(es, p, j)
    <2>1. CASE JoinAt(es, p, h)
      BY <1>1, <1>3, <2>1 DEF Stands, JoinAt, l
    <2>2. CASE ~JoinAt(es, p, h)
      <3>1. PICK j \in n + 1..l : GoneAt(es, p, j)
        BY <1>2, <1>3, <2>2 DEF Follows, l
      <3>2. j # h
        BY <1>2, <1>3, <3>1
      <3>3. j \in h + 1..l
        BY <1>1, <3>2
      <3> QED
        BY <3>1, <3>3
    <2> QED
      BY <2>1, <2>2
  <1>4. ASSUME p \notin next, p \in m PROVE \E j \in h + 1..l : JoinAt(es, p, j)
    <2>1. CASE GoneAt(es, p, h)
      BY <1>1, <1>4, <2>1 DEF Stands, GoneAt, l
    <2>2. CASE ~GoneAt(es, p, h)
      <3>1. PICK j \in n + 1..l : JoinAt(es, p, j)
        BY <1>2, <1>4, <2>2 DEF Follows, l
      <3>2. j # h
        BY <1>2, <1>4, <2>2, <3>1
      <3>3. j \in h + 1..l
        BY <1>1, <3>2
      <3> QED
        BY <3>1, <3>3
    <2> QED
      BY <2>1, <2>2
  <1>5. ASSUME NEW i \in h + 1..l, es[i].prop = p, ~es[i].readable, p \in next
        PROVE  \/ \E j \in i + 1..l : JoinAt(es, p, j)
               \/ \E j \in h + 1..i - 1 : GoneAt(es, p, j)
    <2>0. i \in 1..l /\ i \in n + 1..l /\ h \in 1..i - 1
      BY <1>1
    <2>1. CASE JoinAt(es, p, h)
      BY <1>5, <2>0, <2>1 DEF Turns, l
    <2>2. CASE ~JoinAt(es, p, h)
      <3>1. \/ \E j \in i + 1..l : JoinAt(es, p, j)
            \/ \E j \in n + 1..i - 1 : GoneAt(es, p, j)
        BY <1>2, <1>5, <2>0, <2>2 DEF Follows, l
      <3>2. \A j \in n + 1..i - 1 : GoneAt(es, p, j) => j \in h + 1..i - 1
        BY <1>1, <1>2, <1>5, <2>0
      <3> QED
        BY <3>1, <3>2
    <2> QED
      BY <2>1, <2>2
  <1>6. ASSUME NEW i \in h + 1..l, es[i].prop = p, es[i].readable, p \notin next
        PROVE  \/ \E j \in h + 1..i : JoinAt(es, p, j)
               \/ \E j \in i..l : GoneAt(es, p, j)
    <2>0. i \in 1..l /\ i \in n + 1..l /\ h \in 1..i - 1
      BY <1>1
    <2>1. CASE GoneAt(es, p, h)
      BY <1>6, <2>0, <2>1 DEF Turns, l
    <2>2. CASE ~GoneAt(es, p, h)
      <3>1. \/ \E j \in n + 1..i : JoinAt(es, p, j)
            \/ \E j \in i..l : GoneAt(es, p, j)
        BY <1>2, <1>6, <2>0, <2>2 DEF Follows, l
      <3>2. \A j \in n + 1..i : JoinAt(es, p, j) => j \in h + 1..i
        BY <1>1, <1>2, <1>6, <2>0, <2>2
      <3> QED
        BY <3>1, <3>2
    <2> QED
      BY <2>1, <2>2
  <1>7. Follows(es, m, next, h, p)
    BY <1>3, <1>4, <1>5, <1>6 DEF Follows, l
  <1> QED
    BY <1>7 DEF h

-----------------------------------------------------------------------------
(* What is drawn only gets newer, and what arrives is drawn or older than  *)
(* what is.                                                                *)
Cover(es, m, i) == Drawn(m, <<es[i].prop, es[i].entity>>) >= i

LEMMA DrawnIs ==
  ASSUME NEW m \in [Rows -> Nat], NEW r \in Rows
  PROVE  /\ Drawn(m, r) \in Nat /\ Drawn(m, r) >= m[r]
         /\ r[2] = "member" => Drawn(m, r) >= m[<<r[1], "proposition">>]
         /\ \A v \in [Rows -> Nat] : (\A q \in Rows : v[q] >= m[q]) => Drawn(v, r) >= Drawn(m, r)
  <1>1. <<r[1], "proposition">> \in Rows /\ r[1] \in Propositions
    BY DEF Rows, Entities
  <1>2. m[r] \in Nat /\ m[<<r[1], "proposition">>] \in Nat
    BY <1>1
  <1>3. Drawn(m, r) \in Nat /\ Drawn(m, r) >= m[r] /\ (r[2] = "member" => Drawn(m, r) >= m[<<r[1], "proposition">>])
    BY <1>2 DEF Drawn
  <1>4. ASSUME NEW v \in [Rows -> Nat], \A q \in Rows : v[q] >= m[q]
        PROVE  Drawn(v, r) >= Drawn(m, r)
    <2>1. /\ v[r] \in Nat /\ v[<<r[1], "proposition">>] \in Nat
          /\ v[r] >= m[r] /\ v[<<r[1], "proposition">>] >= m[<<r[1], "proposition">>]
      BY <1>1, <1>4
    <2> QED
      BY <1>2, <2>1 DEF Drawn
  <1> QED
    BY <1>3, <1>4

LEMMA ApplyDraws ==
  ASSUME StreamTypes, NEW arrived, arrived \subseteq 1..Len(events),
         NEW u, u = Apply(shown, arrived)
  PROVE  /\ u \in [Rows -> Nat]
         /\ \A i \in 1..Len(events) : Cover(events, shown, i) => Cover(events, u, i)
         /\ \A i \in arrived : Cover(events, u, i)
  <1> DEFINE new(r) == {i \in arrived : RowOf(i) = r /\ i > Drawn(shown, r)}
  <1>1. Len(events) \in Nat /\ shown \in [Rows -> Nat]
        /\ \A i \in 1..Len(events) : RowOf(i) \in Rows /\ RowOf(i) = <<events[i].prop, events[i].entity>>
    <2>1. Len(events) \in Nat /\ shown \in [Rows -> Nat]
      BY DEF StreamTypes
    <2>2. ASSUME NEW i \in 1..Len(events) PROVE RowOf(i) \in Rows
      <3>1. events[i] \in Event
        BY DEF StreamTypes
      <3> QED
        BY <3>1 DEF Event, RowOf, Rows
    <2>3. \A i \in 1..Len(events) : RowOf(i) = <<events[i].prop, events[i].entity>>
      BY DEF RowOf
    <2> QED
      BY <2>1, <2>2, <2>3
  <1>c. \A i \in 1..Len(events) :
          /\ Cover(events, shown, i) <=> (Drawn(shown, RowOf(i)) >= i)
          /\ Cover(events, u, i) <=> (Drawn(u, RowOf(i)) >= i)
    BY <1>1 DEF Cover
  <1>2. u = [r \in Rows |-> IF new(r) = {} THEN shown[r] ELSE Max(new(r))]
    BY DEF Apply
  <1>3. ASSUME NEW r \in Rows, new(r) # {}
        PROVE  Max(new(r)) \in new(r) /\ \A i \in new(r) : i <= Max(new(r))
    <2>0. new(r) \subseteq arrived
      OBVIOUS
    <2>1. new(r) \in SUBSET Nat /\ \A i \in new(r) : i <= Len(events)
      <3> HIDE DEF new
      <3>1. \A i \in 1..Len(events) : i \in Nat /\ i <= Len(events)
        BY <1>1
      <3>2. \A i \in new(r) : i \in 1..Len(events)
        BY <2>0
      <3> QED
        BY <3>1, <3>2
    <2> HIDE DEF new
    <2> QED
      BY <1>1, <1>3, <2>1, GreatestIs, Zenon
  <1>4. \A r \in Rows : \A i \in new(r) : i \in arrived /\ i \in Nat /\ i > Drawn(shown, r)
    BY <1>1
  <1>5. \A r \in Rows, i \in arrived : RowOf(i) = r /\ i > Drawn(shown, r) => i \in new(r)
    OBVIOUS
  <1> HIDE DEF new
  <1>6. ASSUME NEW r \in Rows
        PROVE  u[r] \in Nat /\ u[r] >= shown[r] /\ \A i \in new(r) : u[r] >= i
    <2>1. Drawn(shown, r) \in Nat /\ Drawn(shown, r) >= shown[r] /\ shown[r] \in Nat
      BY <1>1, DrawnIs
    <2>2. CASE new(r) = {}
      BY <1>2, <2>1, <2>2
    <2>3. CASE new(r) # {}
      <3>1. u[r] = Max(new(r))
        BY <1>2, <2>3
      <3>2. u[r] \in new(r) /\ \A i \in new(r) : i <= u[r]
        BY <1>3, <2>3, <3>1
      <3>3. u[r] \in Nat /\ u[r] > Drawn(shown, r)
        BY <1>4, <3>2
      <3> QED
        BY <1>4, <2>1, <3>2, <3>3
    <2> QED
      BY <2>2, <2>3
  <1>7. u \in [Rows -> Nat]
    BY <1>2, <1>6
  <1>8. \A r \in Rows : Drawn(u, r) >= Drawn(shown, r) /\ Drawn(u, r) \in Nat /\ Drawn(shown, r) \in Nat
                        /\ Drawn(u, r) >= u[r]
    BY <1>1, <1>6, <1>7, DrawnIs
  <1>9. \A i \in 1..Len(events) : Cover(events, shown, i) => Cover(events, u, i)
    <2> SUFFICES ASSUME NEW i \in 1..Len(events), Cover(events, shown, i)
                 PROVE  Cover(events, u, i)
      OBVIOUS
    <2> DEFINE r == RowOf(i)
    <2>1. r \in Rows /\ Drawn(shown, r) >= i /\ i \in Nat
      <3>1. RowOf(i) \in Rows /\ i \in Nat
        BY <1>1
      <3>2. Drawn(shown, RowOf(i)) >= i
        BY <1>c
      <3> QED
        BY <3>1, <3>2
    <2> HIDE DEF r
    <2>2. Drawn(u, r) >= i
      BY <1>8, <2>1
    <2> QED
      BY <1>c, <2>2 DEF r
  <1>10. ASSUME NEW i \in arrived PROVE Cover(events, u, i)
    <2> DEFINE r == RowOf(i)
    <2>1. r \in Rows /\ i \in Nat /\ i \in 1..Len(events)
      BY <1>1
    <2>2. RowOf(i) = r
      OBVIOUS
    <2> HIDE DEF r
    <2>3. Drawn(u, r) >= i
      <3>1. CASE i > Drawn(shown, r)
        <4>1. i \in new(r)
          BY <1>5, <2>1, <2>2, <3>1
        <4>2. u[r] >= i /\ u[r] \in Nat
          BY <1>6, <2>1, <4>1
        <4> QED
          BY <1>8, <2>1, <4>2
      <3>2. CASE ~(i > Drawn(shown, r))
        BY <1>8, <2>1, <3>2
      <3> QED
        BY <3>1, <3>2
    <2> QED
      BY <1>c, <2>1, <2>2, <2>3
  <1> QED
    BY <1>7, <1>9, <1>10

-----------------------------------------------------------------------------
(* The invariant, part by part, each of the state it is about: es the      *)
(* activity table, own whether the person is an owner, s the server's      *)
(* half, n what the bus has published, m what is drawn, d a read.          *)
Past(es, own, ms) ==
  /\ \A i \in 1..Len(es) : own \/ es[i].entity = "member" => es[i].readable
  /\ ~own => \A p \in Propositions : Stands(es, ms, p) /\ Turns(es, p)

Listens(s) == s.pc \in {"subscribed", "serving"}

InStep(es, own, ms, s, n) ==
  /\ Len(s.sub) <= n
  /\ s.dropped = 0 => \A k \in 1..Len(s.sub) : s.sub[k] = n - Len(s.sub) + k
  /\ s.sub # <<>> => Listens(s)
  /\ s.pc = "serving" /\ s.dropped = 0 /\ ~own =>
       \A p \in Propositions : Follows(es, ms, s.member, n - Len(s.sub), p)

(* What is on its way out may be told, and takes the socket with it if it  *)
(* puts the person out of the proposition.                                 *)
Fit(es, own, i, final) ==
  /\ i \in 1..Len(es)
  /\ es[i].readable \/ \E j \in i + 1..Len(es) : JoinAt(es, es[i].prop, j)
  /\ ~own /\ GoneAt(es, Open, i) => final
Outgoing(es, own, s) ==
  /\ \A k \in 1..Len(s.out) : Fit(es, own, s.out[k].ev, s.out[k].final)
  /\ s.ack # 0 => s.ack \in 1..Len(es) /\ es[s.ack].readable /\ ~es[s.ack].gone

Upto(es, m, n) == \A i \in 1..Len(es) : es[i].prop = Open /\ i <= n => Cover(es, m, i)

ReadHolds(es, m, n, d) ==
  /\ d.pc # "idle" => d.since <= Len(es) /\ Upto(es, m, d.since)
  /\ \A i \in d.page : i \in 1..Len(es) /\ es[i].prop = Open
  /\ \A i \in 1..Len(es), j \in d.page : es[i].prop = Open /\ d.since < i /\ i < j => i \in d.page
  /\ d.pc = "held" => /\ d.from <= n /\ ~d.subscribed /\ d.wait
                      /\ \A i \in 1..Len(es) : es[i].prop = Open => ~(d.since < i /\ i <= d.from)
  /\ d.subscribed => d.pc = "answered" /\ d.by = "open"
  /\ d.wait => d.by = "poll"

Way(s, n, i) ==
  \/ i > n
  \/ \E k \in 1..Len(s.sub) : s.sub[k] = i
  \/ \E k \in 1..Len(s.out) : s.out[k].ev = i

Due(es, own, s, n, m, i) ==
  \/ Cover(es, m, i) \/ Way(s, n, i)
  \/ ~own /\ \E j \in i..Len(es) : GoneAt(es, Open, j) /\ Way(s, n, j)

(* A socket that lost nothing has, or will hand over, all that is not in S. *)
DueBut(es, own, s, n, m, S) ==
  ~s.closed /\ s.dropped = 0 =>
    \A i \in 1..Len(es) : es[i].prop = Open /\ es[i].readable => i \in S \/ Due(es, own, s, n, m, i)

CaughtUp(es, own, s, n, m, w, says) == says => w = "open" /\ Listens(s) /\ DueBut(es, own, s, n, m, {})
ReadSays(es, own, s, n, m, d) ==
  d.subscribed => Listens(s) /\ (Cardinality(d.page) = PageSize \/ DueBut(es, own, s, n, m, d.page))

StreamInv ==
  /\ StreamTypes
  /\ Past(events, owner, member)
  /\ srv.pc = "none" <=> ws = "closed"
  /\ InStep(events, owner, member, srv, pub)
  /\ Outgoing(events, owner, srv)
  /\ cursor <= Len(events) /\ Upto(events, shown, cursor)
  /\ \A k \in Reads : ReadHolds(events, shown, pub, reads[k])
  /\ CaughtUp(events, owner, srv, pub, shown, ws, sure)
  /\ \A k \in Reads : ReadSays(events, owner, srv, pub, shown, reads[k])

-----------------------------------------------------------------------------
(* What was due still is, if all that leaves the socket's way is drawn, or *)
(* is followed by the event that puts the person out.                      *)
Settled(fs, own, t, n, v, i) ==
  /\ GoneAt(fs, Open, i) => own
  /\ fs[i].prop = Open /\ fs[i].readable => Due(fs, own, t, n, v, i)

Extends(es, fs) == Len(es) <= Len(fs) /\ \A i \in 1..Len(es) : fs[i] = es[i]

LEMMA DueKept ==
  ASSUME NEW es \in Seq(Event), NEW fs \in Seq(Event), Extends(es, fs),
         NEW own, NEW s, NEW t, NEW n, NEW k, NEW m, NEW v,
         \A i \in 1..Len(es) : Cover(es, m, i) => Cover(fs, v, i),
         ~t.closed /\ t.dropped = 0 =>
           /\ ~s.closed /\ s.dropped = 0
           /\ \A i \in 1..Len(fs) : i > Len(es) => Way(t, k, i)
           /\ \A i \in 1..Len(es) : Way(s, n, i) => Way(t, k, i) \/ Settled(fs, own, t, k, v, i),
         NEW S, DueBut(es, own, s, n, m, S)
  PROVE  DueBut(fs, own, t, k, v, S)
  <1> SUFFICES ASSUME ~t.closed, t.dropped = 0, NEW i \in 1..Len(fs),
                      fs[i].prop = Open, fs[i].readable, i \notin S
               PROVE  Due(fs, own, t, k, v, i)
    BY DEF DueBut
  <1>1. /\ ~s.closed /\ s.dropped = 0
        /\ \A j \in 1..Len(fs) : j > Len(es) => Way(t, k, j)
        /\ \A j \in 1..Len(es) : Way(s, n, j) => Way(t, k, j) \/ Settled(fs, own, t, k, v, j)
    OBVIOUS
  <1>2. CASE i > Len(es)
    BY <1>1, <1>2 DEF Due
  <1>3. CASE i \in 1..Len(es)
    <2>0. Len(es) \in Nat /\ Len(fs) \in Nat /\ Len(es) <= Len(fs) /\ fs[i] = es[i]
      BY <1>3 DEF Extends
    <2>1. Due(es, own, s, n, m, i)
      BY <1>1, <1>3, <2>0 DEF DueBut
    <2>2. CASE Cover(es, m, i)
      BY <1>3, <2>2 DEF Due
    <2>3. CASE Way(s, n, i)
      BY <1>1, <1>3, <2>3 DEF Due, Settled
    <2>4. CASE ~own /\ \E j \in i..Len(es) : GoneAt(es, Open, j) /\ Way(s, n, j)
      <3>1. PICK j \in i..Len(es) : GoneAt(es, Open, j) /\ Way(s, n, j)
        BY <2>4
      <3>2. j \in 1..Len(es) /\ j \in 1..Len(fs) /\ j \in i..Len(fs)
        BY <1>3, <2>0
      <3>3. GoneAt(fs, Open, j)
        BY <3>1, <3>2 DEF GoneAt, Extends
      <3>4. Way(t, k, j)
        BY <1>1, <2>4, <3>1, <3>2, <3>3 DEF Settled
      <3> QED
        BY <2>4, <3>2, <3>3, <3>4 DEF Due
    <2> QED
      BY <2>1, <2>2, <2>3, <2>4 DEF Due
  <1>4. Len(es) \in Nat /\ Len(fs) \in Nat
    OBVIOUS
  <1> QED
    BY <1>2, <1>3, <1>4

(* The same of the reads: what they covered stays covered.                 *)
LEMMA ReadingKept ==
  ASSUME NEW es \in Seq(Event), NEW fs \in Seq(Event), Extends(es, fs), NEW m, NEW v,
         NEW n \in Nat, NEW k \in Nat, n <= k, k <= Len(fs), n <= Len(es),
         \A i \in 1..Len(es) : Cover(es, m, i) => Cover(fs, v, i),
         NEW d \in Asked, ReadHolds(es, m, n, d)
  PROVE  ReadHolds(fs, v, k, d)
  <1>1. /\ Len(es) \in Nat /\ Len(fs) \in Nat /\ Len(es) <= Len(fs)
        /\ d.since \in Nat /\ d.from \in Nat /\ d.page \subseteq Nat
        /\ \A i \in 1..Len(es) : fs[i] = es[i] /\ i \in 1..Len(fs)
    BY DEF Extends, Asked
  <1>2. d.pc # "idle" => d.since <= Len(fs) /\ Upto(fs, v, d.since)
    <2> SUFFICES ASSUME d.pc # "idle" PROVE d.since <= Len(fs) /\ Upto(fs, v, d.since)
      OBVIOUS
    <2>1. d.since <= Len(es) /\ Upto(es, m, d.since)
      BY DEF ReadHolds
    <2> QED
      BY <1>1, <2>1 DEF Upto
  <1>3. \A i \in d.page : i \in 1..Len(fs) /\ fs[i].prop = Open
    BY <1>1 DEF ReadHolds
  <1>4. \A i \in 1..Len(fs), j \in d.page : fs[i].prop = Open /\ d.since < i /\ i < j => i \in d.page
    <2> SUFFICES ASSUME NEW i \in 1..Len(fs), NEW j \in d.page, fs[i].prop = Open, d.since < i, i < j
                 PROVE  i \in d.page
      OBVIOUS
    <2>1. j \in 1..Len(es)
      BY DEF ReadHolds
    <2>2. i \in 1..Len(es)
      BY <1>1, <2>1
    <2> QED
      BY <1>1, <2>1, <2>2 DEF ReadHolds
  <1>5. d.pc = "held" => /\ d.from <= k /\ ~d.subscribed /\ d.wait
                         /\ \A i \in 1..Len(fs) : fs[i].prop = Open => ~(d.since < i /\ i <= d.from)
    <2> SUFFICES ASSUME d.pc = "held"
                 PROVE  /\ d.from <= k /\ ~d.subscribed /\ d.wait
                        /\ \A i \in 1..Len(fs) : fs[i].prop = Open => ~(d.since < i /\ i <= d.from)
      OBVIOUS
    <2>1. /\ d.from <= n /\ ~d.subscribed /\ d.wait
          /\ \A i \in 1..Len(es) : es[i].prop = Open => ~(d.since < i /\ i <= d.from)
      BY DEF ReadHolds
    <2>2. \A i \in 1..Len(fs) : i <= d.from => i \in 1..Len(es)
      BY <1>1, <2>1
    <2>3. d.from <= k
      BY <1>1, <2>1
    <2>4. \A i \in 1..Len(fs) : fs[i].prop = Open => ~(d.since < i /\ i <= d.from)
      <3> SUFFICES ASSUME NEW i \in 1..Len(fs), fs[i].prop = Open, d.since < i, i <= d.from
                   PROVE  FALSE
        OBVIOUS
      <3>1. i \in 1..Len(es)
        BY <2>2
      <3>2. es[i].prop = Open
        BY <1>1, <3>1
      <3> QED
        BY <2>1, <3>1, <3>2
    <2> QED
      BY <2>1, <2>3, <2>4
  <1>6. (d.subscribed => d.pc = "answered" /\ d.by = "open") /\ (d.wait => d.by = "poll")
    BY DEF ReadHolds
  <1> QED
    BY <1>2, <1>3, <1>4, <1>5, <1>6 DEF ReadHolds

LEMMA FitKept ==
  ASSUME NEW es \in Seq(Event), NEW fs \in Seq(Event), Extends(es, fs), NEW own,
         NEW i, NEW final, Fit(es, own, i, final)
  PROVE  Fit(fs, own, i, final)
  <1>1. /\ Len(es) \in Nat /\ Len(fs) \in Nat /\ Len(es) <= Len(fs) /\ i \in 1..Len(es)
        /\ \A j \in 1..Len(es) : fs[j] = es[j] /\ j \in 1..Len(fs)
    BY DEF Extends, Fit
  <1>2. fs[i].readable \/ \E j \in i + 1..Len(fs) : JoinAt(fs, fs[i].prop, j)
    <2>1. CASE es[i].readable
      BY <1>1, <2>1
    <2>2. CASE \E j \in i + 1..Len(es) : JoinAt(es, es[i].prop, j)
      <3>1. PICK j \in i + 1..Len(es) : JoinAt(es, es[i].prop, j)
        BY <2>2
      <3>2. j \in 1..Len(es) /\ j \in i + 1..Len(fs)
        BY <1>1
      <3> QED
        BY <1>1, <3>1, <3>2 DEF JoinAt
    <2> QED
      BY <2>1, <2>2 DEF Fit
  <1>3. ~own /\ GoneAt(fs, Open, i) => final
    BY <1>1 DEF Fit, GoneAt
  <1> QED
    BY <1>1, <1>2, <1>3 DEF Fit

LEMMA UptoKept ==
  ASSUME NEW es \in Seq(Event), NEW fs \in Seq(Event), Extends(es, fs), NEW m, NEW v, NEW n \in Nat,
         n <= Len(es), \A i \in 1..Len(es) : Cover(es, m, i) => Cover(fs, v, i), Upto(es, m, n)
  PROVE  n <= Len(fs) /\ Upto(fs, v, n)
  <1>1. /\ Len(es) \in Nat /\ Len(fs) \in Nat /\ Len(es) <= Len(fs)
        /\ \A i \in 1..Len(es) : fs[i] = es[i]
    BY DEF Extends
  <1> QED
    BY <1>1 DEF Upto

LEMMA HearsKept ==
  ASSUME StreamInv, events' \in Seq(Event), Extends(events, events'), owner' = owner,
         \A i \in 1..Len(events) : Cover(events, shown, i) => Cover(events', shown', i),
         ~srv'.closed /\ srv'.dropped = 0 =>
           /\ ~srv.closed /\ srv.dropped = 0
           /\ \A i \in 1..Len(events') : i > Len(events) => Way(srv', pub', i)
           /\ \A i \in 1..Len(events) :
                Way(srv, pub, i) => Way(srv', pub', i) \/ Settled(events', owner, srv', pub', shown', i),
         Listens(srv) => Listens(srv')
  PROVE  /\ \A S : DueBut(events, owner, srv, pub, shown, S) => DueBut(events', owner, srv', pub', shown', S)
         /\ ws' = ws /\ (sure' => sure) => CaughtUp(events', owner', srv', pub', shown', ws', sure')
         /\ \A j \in Reads : reads'[j] = reads[j] => ReadSays(events', owner', srv', pub', shown', reads'[j])
  <1>1. ASSUME NEW S, DueBut(events, owner, srv, pub, shown, S)
        PROVE  DueBut(events', owner, srv', pub', shown', S)
    <2>1. events \in Seq(Event)
      BY DEF StreamInv, StreamTypes
    <2> QED
      BY <1>1, <2>1, DueKept
  <1>2. ws' = ws /\ (sure' => sure) => CaughtUp(events', owner', srv', pub', shown', ws', sure')
    BY <1>1 DEF StreamInv, CaughtUp
  <1>3. \A j \in Reads : reads'[j] = reads[j] => ReadSays(events', owner', srv', pub', shown', reads'[j])
    BY <1>1 DEF StreamInv, ReadSays
  <1> QED
    BY <1>1, <1>2, <1>3

LEMMA HalfTypes ==
  ASSUME NEW s \in Half
  PROVE  /\ s.sub \in Seq(Nat) /\ Len(s.sub) \in Nat /\ s.dropped \in Nat /\ s.member \subseteq Propositions
         /\ s.out \in Seq(OutFrame) /\ Len(s.out) \in Nat /\ s.ack \in Nat /\ s.closed \in BOOLEAN
         /\ s.pc \in {"none", "accepted", "subscribed", "serving"}
  BY DEF Half

(* A row is added to the activity table.                                   *)
LEMMA LogKeeps ==
  ASSUME StreamInv, NEW e \in Event, events' = Append(events, e),
         owner \/ e.entity = "member" => e.readable,
         ~owner => \A p \in Propositions : Joins(events, member, e, member', p),
         member' \subseteq Propositions, live' \subseteq Propositions,
         UNCHANGED <<pub, owner, shown, cursor, httpLive, reads, sure, ws>>,
         srv' \in Half, srv'.pc = srv.pc, srv'.sub = srv.sub, srv'.dropped = srv.dropped,
         srv'.member = srv.member, srv'.out = srv.out, srv'.closed = srv.closed,
         srv'.ack = srv.ack \/ (srv'.ack = Len(events') /\ e.readable /\ ~e.gone)
  PROVE  StreamInv'
  <1>0. /\ StreamTypes /\ events \in Seq(Event) /\ pub \in Nat /\ pub <= Len(events) /\ srv \in Half
        /\ cursor \in Nat /\ reads \in [Reads -> Asked]
    BY DEF StreamInv, StreamTypes
  <1>1. /\ events' \in Seq(Event) /\ Len(events') = Len(events) + 1 /\ Len(events) \in Nat
        /\ \A i \in 1..Len(events) : events'[i] = events[i]
        /\ events'[Len(events) + 1] = e
        /\ \A i \in 1..Len(events) : events[i] \in Event
    BY <1>0, Longer
  <1>2. Extends(events, events')
    BY <1>1 DEF Extends
  <1>3. StreamTypes'
    BY <1>0, <1>1 DEF StreamTypes
  <1>4. Past(events, owner, member)' 
    <2>1. Past(events, owner, member)
      BY DEF StreamInv
    <2>2. \A i \in 1..Len(events') : owner' \/ events'[i].entity = "member" => events'[i].readable
      <3> SUFFICES ASSUME NEW i \in 1..Len(events'), owner' \/ events'[i].entity = "member"
                   PROVE  events'[i].readable
        OBVIOUS
      <3>1. CASE i \in 1..Len(events)
        BY <1>1, <2>1, <3>1 DEF Past
      <3>2. CASE i = Len(events) + 1
        BY <1>1, <3>2
      <3> QED
        BY <1>1, <3>1, <3>2
    <2>3. ASSUME ~owner', NEW p \in Propositions
          PROVE  Stands(events', member', p) /\ Turns(events', p)
      <3>1. Stands(events, member, p) /\ Turns(events, p) /\ Joins(events, member, e, member', p)
        BY <2>1, <2>3 DEF Past
      <3> QED
        BY <1>0, <3>1, PastGrows
    <2> QED
      BY <2>2, <2>3 DEF Past
  <1>5. InStep(events, owner, member, srv, pub)'
    <2>1. InStep(events, owner, member, srv, pub)
      BY DEF StreamInv
    <2>2. ASSUME srv'.pc = "serving", srv'.dropped = 0, ~owner', NEW p \in Propositions
          PROVE  Follows(events', member', srv'.member, pub' - Len(srv'.sub), p)
      <3> DEFINE n == pub - Len(srv.sub)
      <3>1. Follows(events, member, srv.member, n, p)
        BY <2>1, <2>2 DEF InStep
      <3>2. Stands(events, member, p) /\ Joins(events, member, e, member', p)
        BY <2>2 DEF StreamInv, Past
      <3>3. n \in 0..Len(events)
        BY <1>0, <2>1, HalfTypes DEF InStep
      <3> HIDE DEF n
      <3>4. Follows(events', member', srv.member, n, p)
        BY <1>0, <3>1, <3>2, <3>3, FollowsGrows
      <3> QED
        BY <3>4 DEF n
    <2> QED
      BY <2>1, <2>2 DEF InStep, Listens
  <1>6. Outgoing(events, owner, srv)'
    <2>1. \A k \in 1..Len(srv'.out) : Fit(events', owner', srv'.out[k].ev, srv'.out[k].final)
      BY <1>0, <1>1, <1>2, FitKept DEF StreamInv, Outgoing
    <2>2. srv'.ack # 0 => srv'.ack \in 1..Len(events') /\ events'[srv'.ack].readable /\ ~events'[srv'.ack].gone
      BY <1>0, <1>1, HalfTypes DEF StreamInv, Outgoing
    <2> QED
      BY <2>1, <2>2 DEF Outgoing
  <1>7. \A i \in 1..Len(events) : Cover(events, shown, i) => Cover(events', shown', i)
    BY <1>1 DEF Cover
  <1>8. (cursor <= Len(events) /\ Upto(events, shown, cursor))'
    BY <1>0, <1>1, <1>2, <1>7, UptoKept DEF StreamInv
  <1>9. \A k \in Reads : ReadHolds(events', shown', pub', reads'[k])
    <2> SUFFICES ASSUME NEW k \in Reads PROVE ReadHolds(events', shown', pub, reads[k])
      OBVIOUS
    <2>1. ReadHolds(events, shown, pub, reads[k]) /\ reads[k] \in Asked
      BY <1>0 DEF StreamInv
    <2>2. pub \in Nat /\ pub <= pub /\ pub <= Len(events') /\ pub <= Len(events)
      BY <1>0, <1>1
    <2>3. events \in Seq(Event) /\ events' \in Seq(Event)
      BY <1>0, <1>1
    <2> QED
      BY <1>2, <1>7, <2>1, <2>2, <2>3, ReadingKept
  <1>10. Listens(srv) => Listens(srv')
    BY DEF Listens
  <1>11. /\ \A i \in 1..Len(events') : i > Len(events) => Way(srv', pub', i)
         /\ \A i \in 1..Len(events) : Way(srv, pub, i) => Way(srv', pub', i)
    BY <1>0, <1>1 DEF Way
  <1>12. /\ CaughtUp(events', owner', srv', pub', shown', ws', sure')
         /\ \A j \in Reads : ReadSays(events', owner', srv', pub', shown', reads'[j])
    BY <1>1, <1>2, <1>7, <1>10, <1>11, HearsKept
  <1> QED
    BY <1>3, <1>4, <1>5, <1>6, <1>8, <1>9, <1>12 DEF StreamInv

LEMMA CommitKeeps ==
  ASSUME StreamInv, NEW k \in Kinds, Commit(k.prop, k.entity, k.gone)
  PROVE  StreamInv'
  <1> DEFINE p == k.prop
             e == [prop |-> p, entity |-> k.entity, gone |-> k.gone,
                   readable |-> Readable(p) \/ k.entity = "member"]
  <1>1. /\ p \in Propositions /\ k.entity \in Entities /\ k.gone \in BOOLEAN
    BY StreamAssumption DEF Propositions, Entities
  <1>2. (Readable(p) \/ k.entity = "member") \in BOOLEAN
    BY DEF Readable
  <1>3. e \in Event
    BY <1>1, <1>2 DEF Event
  <1>4. /\ e.prop = p /\ e.entity = k.entity /\ e.gone = k.gone
        /\ e.readable <=> (Readable(p) \/ k.entity = "member")
    OBVIOUS
  <1>5. events' = Append(events, e)
    BY DEF Commit, Logged
  <1>6. /\ p \in live /\ (k.entity = "member" => (k.gone <=> p \in member))
        /\ member' = IF k.gone THEN member \ {p}
                     ELSE IF k.entity = "member" THEN member \cup {p} ELSE member
        /\ live' = IF k.entity = "proposition" /\ k.gone THEN live \ {p} ELSE live
        /\ UNCHANGED <<pub, owner, srv, ws, shown, cursor, httpLive, reads, sure>>
    BY DEF Commit, tab
  <1> HIDE DEF e
  <1>7. owner \/ e.entity = "member" => e.readable
    BY <1>4, <1>6 DEF Readable
  <1>8. ASSUME ~owner, NEW q \in Propositions PROVE Joins(events, member, e, member', q)
    BY <1>4, <1>6, <1>8 DEF Joins, Readable
  <1>9. member' \subseteq Propositions /\ live' \subseteq Propositions /\ srv' \in Half
    BY <1>1, <1>6 DEF StreamInv, StreamTypes
  <1> QED
    BY <1>3, <1>5, <1>6, <1>7, <1>8, <1>9, LogKeeps

LEMMA CommandKeeps ==
  ASSUME StreamInv, Command
  PROVE  StreamInv'
  <1> DEFINE e == [prop |-> Open, entity |-> "card", gone |-> FALSE,
                   readable |-> Readable(Open) \/ "card" = "member"]
  <1>1. Readable(Open) /\ Open \in Propositions /\ "card" \in Entities
    BY DEF Command, Propositions, Entities
  <1>2. (Readable(Open) \/ "card" = "member") \in BOOLEAN
    BY DEF Readable
  <1>3. e \in Event
    BY <1>1, <1>2 DEF Event
  <1>4. e.prop = Open /\ e.entity = "card" /\ ~e.gone /\ e.readable
    BY <1>1
  <1>5. events' = Append(events, e)
    BY DEF Command, Logged
  <1>6. /\ UNCHANGED <<member, live, pub, owner, ws, shown, cursor, httpLive, reads, sure>>
        /\ srv' = [srv EXCEPT !.ack = Len(events')]
    BY DEF Command, tab
  <1> HIDE DEF e
  <1>7. srv \in Half /\ events \in Seq(Event) /\ member \subseteq Propositions /\ live \subseteq Propositions
    BY DEF StreamInv, StreamTypes
  <1>8. Len(events') \in Nat
    BY <1>3, <1>5, <1>7, Longer
  <1>9. /\ srv' \in Half /\ srv'.pc = srv.pc /\ srv'.sub = srv.sub /\ srv'.dropped = srv.dropped
        /\ srv'.member = srv.member /\ srv'.out = srv.out /\ srv'.closed = srv.closed
        /\ srv'.ack = Len(events')
    BY <1>6, <1>7, <1>8 DEF Half
  <1>10. ASSUME ~owner, NEW q \in Propositions PROVE Joins(events, member, e, member', q)
    BY <1>1, <1>4, <1>6, <1>10 DEF Joins, Readable
  <1> QED
    BY <1>3, <1>4, <1>5, <1>6, <1>7, <1>9, <1>10, LogKeeps

(* A step of the server that touches its half of the socket, or the bus.   *)
LEMMA SocketKeeps ==
  ASSUME StreamInv, UNCHANGED <<events, member, live, owner, shown, cursor, httpLive, reads, sure, ws>>,
         srv' \in Half, pub' \in Nat, pub <= pub', pub' <= Len(events),
         srv'.pc = "none" <=> srv.pc = "none", Listens(srv) => Listens(srv'),
         InStep(events, owner, member, srv', pub'), Outgoing(events, owner, srv'),
         ~srv'.closed /\ srv'.dropped = 0 =>
           /\ ~srv.closed /\ srv.dropped = 0
           /\ \A i \in 1..Len(events) :
                Way(srv, pub, i) => Way(srv', pub', i) \/ Settled(events, owner, srv', pub', shown, i)
  PROVE  StreamInv'
  <1>1. /\ StreamTypes /\ events \in Seq(Event) /\ pub \in Nat /\ pub <= Len(events)
        /\ reads \in [Reads -> Asked] /\ Len(events) \in Nat
    BY DEF StreamInv, StreamTypes
  <1>2. StreamTypes'
    BY <1>1 DEF StreamTypes
  <1>3. Extends(events, events') /\ \A i \in 1..Len(events') : ~(i > Len(events))
    BY <1>1 DEF Extends
  <1>4. \A i \in 1..Len(events) : Cover(events, shown, i) => Cover(events', shown', i)
    OBVIOUS
  <1>5. \A k \in Reads : ReadHolds(events', shown', pub', reads'[k])
    <2> SUFFICES ASSUME NEW k \in Reads PROVE ReadHolds(events, shown, pub', reads[k])
      OBVIOUS
    <2>1. ReadHolds(events, shown, pub, reads[k]) /\ reads[k] \in Asked
      BY <1>1 DEF StreamInv
    <2>2. Extends(events, events)
      BY <1>3
    <2> QED
      BY <1>1, <2>1, <2>2, ReadingKept
  <1>6. /\ CaughtUp(events', owner', srv', pub', shown', ws', sure')
        /\ \A j \in Reads : ReadSays(events', owner', srv', pub', shown', reads'[j])
    BY <1>1, <1>3, <1>4, HearsKept
  <1>7. Past(events, owner, member)' /\ (srv.pc = "none" <=> ws = "closed")'
        /\ (cursor <= Len(events) /\ Upto(events, shown, cursor))'
    BY DEF StreamInv
  <1> QED
    BY <1>2, <1>5, <1>6, <1>7 DEF StreamInv

LEMMA PublishKeeps ==
  ASSUME StreamInv, Publish
  PROVE  StreamInv'
  <1>1. /\ StreamTypes /\ events \in Seq(Event) /\ pub \in Nat /\ pub < Len(events) /\ Len(events) \in Nat
        /\ srv \in Half /\ BusBuffer \in Nat
        /\ InStep(events, owner, member, srv, pub) /\ Outgoing(events, owner, srv)
    BY StreamAssumption DEF StreamInv, StreamTypes, Publish
  <1>2. /\ pub' = pub + 1 /\ UNCHANGED <<events, member, live, owner, shown, cursor, httpLive, reads, sure, ws>>
        /\ pub' \in Nat /\ pub <= pub' /\ pub' <= Len(events)
    BY <1>1 DEF Publish, tab
  <1>3. /\ srv.sub \in Seq(Nat) /\ Len(srv.sub) \in Nat /\ srv.dropped \in Nat
    BY <1>1, HalfTypes
  <1>4. CASE ~Listens(srv)
    <2>0. srv.pc \notin {"subscribed", "serving"}
      BY <1>4 DEF Listens
    <2>1. srv' = srv
      BY <2>0 DEF Publish
    <2>2. InStep(events, owner, member, srv', pub')
      <3>1. srv.sub = <<>> /\ srv.pc # "serving"
        BY <1>1, <1>4 DEF InStep, Listens
      <3> QED
        BY <1>1, <1>2, <1>4, <2>1, <3>1 DEF InStep
    <2>3. \A k \in Reads : ~reads[k].subscribed
      BY <1>4 DEF StreamInv, ReadSays
    <2>4. ~sure
      BY <1>4 DEF StreamInv, CaughtUp
    <2>5. Extends(events, events)
      BY <1>1 DEF Extends
    <2>6. ASSUME NEW k \in Reads PROVE ReadHolds(events, shown, pub', reads[k])
      <3>1. ReadHolds(events, shown, pub, reads[k]) /\ reads[k] \in Asked
        BY DEF StreamInv, StreamTypes
      <3>2. pub <= Len(events) /\ \A i \in 1..Len(events) : Cover(events, shown, i) => Cover(events, shown, i)
        BY <1>1
      <3> QED
        BY <1>1, <1>2, <2>5, <3>1, <3>2, ReadingKept
    <2>7. StreamTypes'
      BY <1>1, <1>2, <2>1 DEF StreamTypes
    <2>8. /\ CaughtUp(events', owner', srv', pub', shown', ws', sure')
          /\ \A j \in Reads : ReadSays(events', owner', srv', pub', shown', reads'[j])
      BY <1>2, <2>3, <2>4 DEF CaughtUp, ReadSays
    <2> QED
      BY <1>2, <2>1, <2>2, <2>6, <2>7, <2>8 DEF StreamInv
  <1>5. CASE Listens(srv) /\ Len(srv.sub) < BusBuffer
    <2>0. ~(srv.pc \notin {"subscribed", "serving"}) /\ Len(srv.sub) < BusBuffer
      BY <1>5 DEF Listens
    <2>1. srv' = [srv EXCEPT !.sub = Append(srv.sub, pub + 1)]
      BY <1>2, <2>0 DEF Publish
    <2>a. Append(srv.sub, pub + 1) \in Seq(Nat)
      BY <1>1, <1>3
    <2>2. /\ srv' \in Half /\ srv'.pc = srv.pc /\ srv'.sub = Append(srv.sub, pub + 1) /\ srv'.dropped = srv.dropped
          /\ srv'.member = srv.member /\ srv'.out = srv.out /\ srv'.closed = srv.closed /\ srv'.ack = srv.ack
      BY <1>1, <2>1, <2>a DEF Half
    <2>3. /\ Len(srv'.sub) = Len(srv.sub) + 1 /\ srv'.sub[Len(srv.sub) + 1] = pub + 1
          /\ \A k \in 1..Len(srv.sub) : srv'.sub[k] = srv.sub[k]
      BY <1>1, <1>3, <2>2
    <2>4. InStep(events, owner, member, srv', pub')
      <3>1. pub' - Len(srv'.sub) = pub - Len(srv.sub) /\ Len(srv'.sub) <= pub'
        BY <1>1, <1>2, <1>3, <2>3 DEF InStep
      <3>2. srv'.dropped = 0 => \A k \in 1..Len(srv'.sub) : srv'.sub[k] = pub' - Len(srv'.sub) + k
        <4> SUFFICES ASSUME srv.dropped = 0, NEW k \in 1..Len(srv'.sub)
                     PROVE  srv'.sub[k] = pub - Len(srv.sub) + k
          BY <2>2, <3>1
        <4>1. \A j \in 1..Len(srv.sub) : srv.sub[j] = pub - Len(srv.sub) + j
          BY <1>1 DEF InStep
        <4>2. CASE k \in 1..Len(srv.sub)
          BY <2>3, <4>1, <4>2
        <4>3. CASE k = Len(srv.sub) + 1
          BY <1>1, <1>3, <2>3, <4>3
        <4> QED
          BY <1>3, <2>3, <4>2, <4>3
      <3>3. srv'.pc = "serving" /\ srv'.dropped = 0 /\ ~owner =>
              \A p \in Propositions : Follows(events, member, srv'.member, pub' - Len(srv'.sub), p)
        BY <1>1, <2>2, <3>1 DEF InStep
      <3> QED
        BY <1>5, <2>2, <3>1, <3>2, <3>3 DEF InStep, Listens
    <2>5. Outgoing(events, owner, srv')
      BY <1>1, <2>2 DEF Outgoing
    <2>6. \A i \in 1..Len(events) : Way(srv, pub, i) => Way(srv', pub', i)
      <3> SUFFICES ASSUME NEW i \in 1..Len(events), Way(srv, pub, i) PROVE Way(srv', pub', i)
        OBVIOUS
      <3>1. CASE i > pub
        <4>1. i = pub + 1 \/ i > pub'
          BY <1>1, <1>2, <3>1
        <4>2. Len(srv.sub) + 1 \in 1..Len(srv'.sub)
          BY <1>3, <2>3
        <4> QED
          BY <2>3, <4>1, <4>2 DEF Way
      <3>2. CASE \E k \in 1..Len(srv.sub) : srv.sub[k] = i
        <4>1. PICK k \in 1..Len(srv.sub) : srv.sub[k] = i
          BY <3>2
        <4>2. k \in 1..Len(srv'.sub) /\ srv'.sub[k] = i
          BY <1>3, <2>3, <4>1
        <4> QED
          BY <4>2 DEF Way
      <3>3. CASE \E k \in 1..Len(srv.out) : srv.out[k].ev = i
        BY <2>2, <3>3 DEF Way
      <3> QED
        BY <3>1, <3>2, <3>3 DEF Way
    <2>7. Listens(srv')
      BY <1>5, <2>2 DEF Listens
    <2> QED
      BY <1>1, <1>2, <2>2, <2>4, <2>5, <2>6, <2>7, SocketKeeps
  <1>6. CASE Listens(srv) /\ ~(Len(srv.sub) < BusBuffer)
    <2>0. ~(srv.pc \notin {"subscribed", "serving"}) /\ ~(Len(srv.sub) < BusBuffer)
      BY <1>6 DEF Listens
    <2>1. srv' = [srv EXCEPT !.dropped = srv.dropped + 1]
      BY <2>0 DEF Publish
    <2>a. srv.dropped + 1 \in Nat
      BY <1>3
    <2>2. /\ srv' \in Half /\ srv'.pc = srv.pc /\ srv'.sub = srv.sub /\ srv'.dropped = srv.dropped + 1
          /\ srv'.member = srv.member /\ srv'.out = srv.out /\ srv'.closed = srv.closed /\ srv'.ack = srv.ack
      BY <1>1, <2>1, <2>a DEF Half
    <2>3. srv'.dropped # 0
      BY <1>3, <2>2
    <2>4. InStep(events, owner, member, srv', pub')
      <3>1. Len(srv'.sub) <= pub' /\ (srv'.sub # <<>> => Listens(srv'))
        BY <1>1, <1>2, <1>3, <1>6, <2>2 DEF InStep, Listens
      <3> QED
        BY <2>3, <3>1 DEF InStep
    <2>5. Outgoing(events, owner, srv')
      BY <1>1, <2>2 DEF Outgoing
    <2>7. Listens(srv')
      BY <1>6, <2>2 DEF Listens
    <2> QED
      BY <1>1, <1>2, <2>2, <2>3, <2>4, <2>5, <2>7, SocketKeeps
  <1> QED
    BY <1>4, <1>5, <1>6

LEMMA SubscribeKeeps ==
  ASSUME StreamInv, Subscribe
  PROVE  StreamInv'
  <1>1. /\ pub \in Nat /\ pub <= Len(events) /\ srv \in Half /\ srv.pc = "accepted"
        /\ InStep(events, owner, member, srv, pub) /\ Outgoing(events, owner, srv)
    BY DEF StreamInv, StreamTypes, Subscribe
  <1>2. /\ UNCHANGED <<events, member, live, owner, shown, cursor, httpLive, reads, sure, ws, pub>>
        /\ srv' = [srv EXCEPT !.pc = "subscribed"]
    BY DEF Subscribe, tab, activity
  <1>3. /\ srv' \in Half /\ srv'.pc = "subscribed" /\ srv'.sub = srv.sub /\ srv'.dropped = srv.dropped
        /\ srv'.member = srv.member /\ srv'.out = srv.out /\ srv'.closed = srv.closed /\ srv'.ack = srv.ack
    BY <1>1, <1>2 DEF Half
  <1>4. InStep(events, owner, member, srv', pub')
    BY <1>1, <1>2, <1>3 DEF InStep, Listens
  <1>5. Outgoing(events, owner, srv') /\ Listens(srv')
    BY <1>1, <1>3 DEF Outgoing, Listens
  <1>6. \A i \in 1..Len(events) : Way(srv, pub, i) => Way(srv', pub', i)
    BY <1>2, <1>3 DEF Way
  <1> QED
    BY <1>1, <1>2, <1>3, <1>4, <1>5, <1>6, SocketKeeps

LEMMA MembershipsKeeps ==
  ASSUME StreamInv, Memberships
  PROVE  StreamInv'
  <1>1. /\ pub \in Nat /\ pub <= Len(events) /\ srv \in Half /\ srv.pc = "subscribed" /\ events \in Seq(Event)
        /\ InStep(events, owner, member, srv, pub) /\ Outgoing(events, owner, srv)
        /\ member \subseteq Propositions /\ Past(events, owner, member)
    BY DEF StreamInv, StreamTypes, Memberships
  <1>2. /\ UNCHANGED <<events, member, live, owner, shown, cursor, httpLive, reads, sure, ws, pub>>
        /\ srv' = [srv EXCEPT !.pc = "serving", !.member = member]
    BY DEF Memberships, tab, activity
  <1>3. /\ srv' \in Half /\ srv'.pc = "serving" /\ srv'.sub = srv.sub /\ srv'.dropped = srv.dropped
        /\ srv'.member = member /\ srv'.out = srv.out /\ srv'.closed = srv.closed /\ srv'.ack = srv.ack
    BY <1>1, <1>2 DEF Half
  <1>4. InStep(events, owner, member, srv', pub')
    <2>1. ASSUME ~owner, NEW p \in Propositions
          PROVE  Follows(events, member, member, pub - Len(srv.sub), p)
      <3>1. Stands(events, member, p)
        BY <1>1, <2>1 DEF Past
      <3>2. pub - Len(srv.sub) \in 0..Len(events)
        BY <1>1, HalfTypes DEF InStep
      <3> QED
        BY <1>1, <3>1, <3>2, FollowsRead
    <2> QED
      BY <1>1, <1>2, <1>3, <2>1 DEF InStep, Listens
  <1>5. Outgoing(events, owner, srv') /\ Listens(srv')
    BY <1>1, <1>3 DEF Outgoing, Listens
  <1>6. \A i \in 1..Len(events) : Way(srv, pub, i) => Way(srv', pub', i)
    BY <1>2, <1>3 DEF Way
  <1> QED
    BY <1>1, <1>2, <1>3, <1>4, <1>5, <1>6, SocketKeeps

(* What an event does to the queue of the tab.                             *)
Queues(s, t, i, final) ==
  \/ t.out = s.out /\ t.closed
  \/ /\ t.closed = s.closed /\ Len(t.out) = Len(s.out) + 1
     /\ \A k \in 1..Len(s.out) : t.out[k] = s.out[k]
     /\ t.out[Len(s.out) + 1].ev = i /\ t.out[Len(s.out) + 1].final = final

LEMMA QueuedIs ==
  ASSUME NEW s \in Half, NEW i \in Nat, NEW final \in BOOLEAN, NEW t, t = Queued(s, i, final)
  PROVE  /\ t \in Half /\ t.pc = s.pc /\ t.sub = s.sub /\ t.dropped = s.dropped /\ t.member = s.member
         /\ t.ack = s.ack /\ Queues(s, t, i, final)
  <1> DEFINE o == [ev |-> i, final |-> final]
             out == Append(s.out, o)
  <1>1. s.out \in Seq(OutFrame) /\ o \in OutFrame
    BY HalfTypes DEF OutFrame
  <1>2. /\ out \in Seq(OutFrame) /\ Len(out) = Len(s.out) + 1 /\ out[Len(s.out) + 1] = o
        /\ \A k \in 1..Len(s.out) : out[k] = s.out[k]
    BY <1>1
  <1>3. CASE Len(s.out) < OutBuffer
    <2>1. t = [s EXCEPT !.out = out]
      BY <1>3 DEF Queued
    <2> HIDE DEF out
    <2>2. /\ t \in Half /\ t.pc = s.pc /\ t.sub = s.sub /\ t.dropped = s.dropped /\ t.member = s.member
          /\ t.ack = s.ack /\ t.closed = s.closed /\ t.out = out
      BY <1>2, <2>1 DEF Half
    <2> QED
      BY <1>2, <2>2 DEF Queues
  <1>4. CASE ~(Len(s.out) < OutBuffer)
    <2>1. t = [s EXCEPT !.closed = TRUE]
      BY <1>4 DEF Queued
    <2> QED
      BY <2>1 DEF Half, Queues
  <1> QED
    BY <1>3, <1>4

LEMMA AnswerKeeps ==
  ASSUME StreamInv, Answer
  PROVE  StreamInv'
  <1> DEFINE u == Queued(srv, srv.ack, FALSE)
  <1>1. /\ pub \in Nat /\ pub <= Len(events) /\ srv \in Half /\ srv.pc = "serving" /\ events \in Seq(Event)
        /\ srv.ack \in 1..pub /\ ~srv.closed
        /\ InStep(events, owner, member, srv, pub) /\ Outgoing(events, owner, srv)
    BY DEF StreamInv, StreamTypes, Answer
  <1>2. /\ UNCHANGED <<events, member, live, owner, shown, cursor, httpLive, reads, sure, ws, pub>>
        /\ srv' = [u EXCEPT !.ack = 0]
    BY DEF Answer, tab, activity
  <1>3. /\ u \in Half /\ u.pc = srv.pc /\ u.sub = srv.sub /\ u.dropped = srv.dropped /\ u.member = srv.member
        /\ Queues(srv, u, srv.ack, FALSE)
    <2>1. srv \in Half /\ srv.ack \in Nat /\ FALSE \in BOOLEAN
      BY <1>1
    <2>2. u = Queued(srv, srv.ack, FALSE)
      OBVIOUS
    <2> HIDE DEF u
    <2> QED
      BY <2>1, <2>2, QueuedIs
  <1> HIDE DEF u
  <1>4. /\ srv' \in Half /\ srv'.pc = srv.pc /\ srv'.sub = srv.sub /\ srv'.dropped = srv.dropped
        /\ srv'.member = srv.member /\ srv'.ack = 0 /\ srv'.out = u.out /\ srv'.closed = u.closed
    BY <1>2, <1>3 DEF Half
  <1>5. InStep(events, owner, member, srv', pub')
    BY <1>1, <1>2, <1>4 DEF InStep, Listens
  <1>6. Fit(events, owner, srv.ack, FALSE)
    <2>1. srv.ack # 0
      BY <1>1
    <2> QED
      BY <1>1, <2>1 DEF Outgoing, Fit, GoneAt
  <1>7. Len(srv.out) \in Nat
    BY <1>1, HalfTypes
  <1>8. Outgoing(events, owner, srv')
    <2>1. ASSUME NEW k \in 1..Len(srv'.out) PROVE Fit(events, owner, srv'.out[k].ev, srv'.out[k].final)
      <3>1. CASE u.out = srv.out
        BY <1>1, <1>4, <3>1 DEF Outgoing
      <3>2. CASE u.out # srv.out
        <4>1. CASE k \in 1..Len(srv.out)
          BY <1>1, <1>3, <1>4, <3>2, <4>1 DEF Outgoing, Queues
        <4>2. CASE k = Len(srv.out) + 1
          BY <1>3, <1>4, <1>6, <3>2, <4>2 DEF Queues
        <4> QED
          BY <1>3, <1>4, <1>7, <3>2, <4>1, <4>2 DEF Queues
      <3> QED
        BY <3>1, <3>2
    <2> QED
      BY <1>4, <2>1 DEF Outgoing
  <1>9. ASSUME NEW i \in 1..Len(events), Way(srv, pub, i), ~srv'.closed PROVE Way(srv', pub', i)
    <2>1. /\ Len(srv'.out) = Len(srv.out) + 1 /\ srv'.sub = srv.sub
          /\ \A k \in 1..Len(srv.out) : srv'.out[k] = srv.out[k]
      BY <1>3, <1>4, <1>9 DEF Queues
    <2>2. \A k \in 1..Len(srv.out) : k \in 1..Len(srv'.out)
      BY <1>7, <2>1
    <2> QED
      BY <1>2, <1>9, <2>1, <2>2 DEF Way
  <1>10. Listens(srv')
    BY <1>1, <1>4 DEF Listens
  <1>11. ~srv'.closed => ~srv.closed
    BY <1>1
  <1> QED
    BY <1>1, <1>2, <1>4, <1>5, <1>8, <1>9, <1>10, <1>11, SocketKeeps

(* An event the person cannot be told of: what takes its place is the one  *)
(* that puts them out, which is still to come.                             *)
LEMMA ForwardKeeps ==
  ASSUME StreamInv, Forward
  PROVE  StreamInv'
  <1> DEFINE i == Head(srv.sub)
             e == events[i]
             n == pub - Len(srv.sub)
             st == Standing(e)
             last == ~owner /\ e.prop = Open
             next == [srv EXCEPT !.sub = Tail(srv.sub), !.member = st]
  <1>1. /\ pub \in Nat /\ pub <= Len(events) /\ srv \in Half /\ srv.pc = "serving" /\ events \in Seq(Event)
        /\ srv.sub # <<>> /\ ~srv.closed /\ Len(events) \in Nat /\ owner \in BOOLEAN
        /\ InStep(events, owner, member, srv, pub) /\ Outgoing(events, owner, srv)
        /\ Past(events, owner, member)
    BY DEF StreamInv, StreamTypes, Forward
  <1>2. UNCHANGED <<events, member, live, owner, shown, cursor, httpLive, reads, sure, ws, pub>>
    BY DEF Forward, tab, activity
  <1>f. srv' = CASE Behind -> [srv EXCEPT !.closed = TRUE]
               [] ~Behind /\ e.gone /\ Wants(srv.member, e) -> Queued(next, i, last)
               [] ~Behind /\ e.gone /\ ~Wants(srv.member, e) -> [next EXCEPT !.closed = last]
               [] OTHER -> IF Wants(st, e) THEN Queued(next, i, FALSE) ELSE next
    BY DEF Forward, tab, activity
  <1>3. Listens(srv)
    BY <1>1 DEF Listens
  <1>4. CASE Behind
    <2>1. srv' = [srv EXCEPT !.closed = TRUE]
      BY <1>4, <1>f
    <2>2. /\ srv' \in Half /\ srv'.pc = srv.pc /\ srv'.sub = srv.sub /\ srv'.dropped = srv.dropped
          /\ srv'.member = srv.member /\ srv'.out = srv.out /\ srv'.closed /\ srv'.ack = srv.ack
      BY <1>1, <2>1 DEF Half
    <2>3. InStep(events, owner, member, srv', pub') /\ Outgoing(events, owner, srv') /\ Listens(srv')
      BY <1>1, <1>2, <1>3, <2>2 DEF InStep, Outgoing, Listens
    <2> QED
      BY <1>1, <1>2, <2>2, <2>3, SocketKeeps
  <1>5. ASSUME ~Behind PROVE StreamInv'
    <2>1. /\ srv.dropped = 0 /\ srv.sub \in Seq(Nat) /\ Len(srv.sub) \in Nat /\ Len(srv.sub) >= 1
          /\ srv.out \in Seq(OutFrame) /\ Len(srv.out) \in Nat
      BY <1>1, <1>5, HalfTypes DEF Behind
    <2>2. /\ i = srv.sub[1] /\ Tail(srv.sub) \in Seq(Nat) /\ Len(Tail(srv.sub)) = Len(srv.sub) - 1
          /\ \A k \in 1..Len(srv.sub) - 1 : Tail(srv.sub)[k] = srv.sub[k + 1]
      BY <1>1, <2>1
    <2>3. /\ n \in Nat /\ n + 1 <= pub /\ n = pub - Len(srv.sub) /\ i = n + 1 /\ i \in 1..Len(events)
          /\ \A k \in 1..Len(srv.sub) : srv.sub[k] = n + k
      <3>1. Len(srv.sub) <= pub /\ \A k \in 1..Len(srv.sub) : srv.sub[k] = pub - Len(srv.sub) + k
        BY <1>1, <2>1 DEF InStep
      <3> QED
        <4>1. n \in Nat /\ n + 1 <= pub /\ n = pub - Len(srv.sub)
          BY <1>1, <2>1, <3>1
        <4>2. \A k \in 1..Len(srv.sub) : srv.sub[k] = n + k
          BY <3>1
        <4>3. srv.sub[1] = n + 1
          BY <2>1, <4>2
        <4>4. i = n + 1
          <5> HIDE DEF n
          <5> QED
            BY <2>2, <4>3
        <4>5. i \in 1..Len(events)
          <5>1. pub <= Len(events) /\ pub \in Nat /\ Len(events) \in Nat
            BY <1>1
          <5> HIDE DEF n, i
          <5> QED
            BY <4>1, <4>4, <5>1
        <4> QED
          BY <4>1, <4>2, <4>4, <4>5
    <2>4. e \in Event /\ e = events[i]
      BY <1>1, <2>3
    <2>5. st \subseteq Propositions
      BY <1>1, <2>4, HalfTypes DEF Standing, Event
    <2>6. \A p \in Propositions :
            p \in st <=> IF GoneAt(events, p, n + 1) THEN FALSE
                         ELSE JoinAt(events, p, n + 1) \/ p \in srv.member
      BY <2>3, <2>4 DEF Standing, GoneAt, JoinAt, Event
    <2>7. ASSUME ~owner, NEW p \in Propositions
          PROVE  Follows(events, member, srv.member, n, p) /\ Follows(events, member, st, n + 1, p)
      <3>1. Follows(events, member, srv.member, n, p)
        BY <1>1, <2>1, <2>7 DEF InStep
      <3>2. Stands(events, member, p) /\ Turns(events, p)
        BY <1>1, <2>7 DEF Past
      <3>3. n \in 0..Len(events) - 1
        BY <1>1, <2>3
      <3>4. p \in st <=> IF GoneAt(events, p, n + 1) THEN FALSE
                         ELSE JoinAt(events, p, n + 1) \/ p \in srv.member
        BY <2>6
      <3> HIDE DEF st, n
      <3> QED
        BY <1>1, <3>1, <3>2, <3>3, <3>4, FollowsOn
    <2>8. pub = n + Len(srv.sub)
      BY <1>1, <2>1, <2>3
    <2>9. /\ next \in Half /\ next.pc = "serving" /\ next.sub = Tail(srv.sub) /\ next.dropped = 0
          /\ next.member = st /\ next.out = srv.out /\ ~next.closed /\ next.ack = srv.ack
      BY <1>1, <2>1, <2>2, <2>5 DEF Half
    <2> HIDE DEF next, st, n, i, e, last
    <2>10. ASSUME NEW t \in Half, t.pc = "serving", t.sub = Tail(srv.sub), t.dropped = 0, t.member = st
           PROVE  InStep(events, owner, member, t, pub) /\ Listens(t)
      <3>1. Len(t.sub) <= pub /\ pub - Len(t.sub) = n + 1 /\ Len(t.sub) = Len(srv.sub) - 1
        <4>1. Len(t.sub) = Len(srv.sub) - 1
          BY <2>2, <2>10
        <4> QED
          BY <1>1, <2>1, <2>3, <4>1
      <3>2. \A k \in 1..Len(t.sub) : t.sub[k] = n + 1 + k
        BY <2>1, <2>2, <2>3, <2>10, <3>1
      <3> QED
        BY <2>7, <2>10, <3>1, <3>2 DEF InStep, Listens
    <2>11. ASSUME NEW t \in Half, t.sub = Tail(srv.sub), NEW j \in 1..Len(events), Way(srv, pub, j), j # i,
                  \A k \in 1..Len(srv.out) : k \in 1..Len(t.out) /\ t.out[k] = srv.out[k]
           PROVE  Way(t, pub, j)
      <3>1. CASE \E k \in 1..Len(srv.sub) : srv.sub[k] = j
        <4>1. PICK k \in 1..Len(srv.sub) : srv.sub[k] = j
          BY <3>1
        <4>2. k # 1
          BY <2>2, <2>11, <4>1
        <4>3. k - 1 \in 1..Len(srv.sub) - 1 /\ (k - 1) + 1 = k
          BY <2>1, <4>2
        <4>4. Tail(srv.sub)[k - 1] = srv.sub[(k - 1) + 1]
          BY <2>2, <4>3
        <4>5. k - 1 \in 1..Len(t.sub) /\ t.sub[k - 1] = j
          BY <2>2, <2>11, <4>1, <4>3, <4>4
        <4> QED
          BY <4>5 DEF Way
      <3> QED
        BY <2>11, <3>1 DEF Way
    (* It is queued, or the socket is at its end.                          *)
    <2>12. ASSUME NEW final \in BOOLEAN, srv' = Queued(next, i, final), Fit(events, owner, i, final)
           PROVE  StreamInv'
      <3>1. i \in Nat
        BY <2>3
      <3>2. /\ srv' \in Half /\ srv'.pc = "serving" /\ srv'.sub = Tail(srv.sub) /\ srv'.dropped = 0
            /\ srv'.member = st /\ srv'.ack = srv.ack
            /\ \/ srv'.out = srv.out /\ srv'.closed
               \/ /\ Len(srv'.out) = Len(srv.out) + 1
                  /\ \A k \in 1..Len(srv.out) : srv'.out[k] = srv.out[k]
                  /\ srv'.out[Len(srv.out) + 1].ev = i /\ srv'.out[Len(srv.out) + 1].final = final
        <4>1. /\ srv' \in Half /\ srv'.pc = next.pc /\ srv'.sub = next.sub /\ srv'.dropped = next.dropped
              /\ srv'.member = next.member /\ srv'.ack = next.ack /\ Queues(next, srv', i, final)
          BY <2>9, <2>12, <3>1, QueuedIs
        <4> QED
          BY <2>9, <4>1 DEF Queues
      <3>3. InStep(events, owner, member, srv', pub') /\ Listens(srv')
        BY <1>2, <2>10, <3>2
      <3>4. Outgoing(events, owner, srv')
        <4>1. ASSUME NEW k \in 1..Len(srv'.out) PROVE Fit(events, owner, srv'.out[k].ev, srv'.out[k].final)
          <5>1. CASE srv'.out = srv.out
            BY <1>1, <5>1 DEF Outgoing
          <5>2. CASE srv'.out # srv.out
            <6>1. CASE k \in 1..Len(srv.out)
              BY <1>1, <3>2, <5>2, <6>1 DEF Outgoing
            <6>2. CASE k = Len(srv.out) + 1
              BY <2>12, <3>2, <5>2, <6>2
            <6> QED
              BY <2>1, <3>2, <5>2, <6>1, <6>2
          <5> QED
            BY <5>1, <5>2
        <4> QED
          BY <1>1, <3>2, <4>1 DEF Outgoing
      <3>5. ASSUME ~srv'.closed, NEW j \in 1..Len(events), Way(srv, pub, j) PROVE Way(srv', pub', j)
        <4>1. /\ Len(srv'.out) = Len(srv.out) + 1
              /\ \A k \in 1..Len(srv.out) : srv'.out[k] = srv.out[k]
              /\ srv'.out[Len(srv.out) + 1].ev = i
          BY <3>2, <3>5
        <4>2. \A k \in 1..Len(srv.out) : k \in 1..Len(srv'.out) /\ srv'.out[k] = srv.out[k]
          BY <2>1, <4>1
        <4>3. CASE j = i
          <5>1. Len(srv.out) + 1 \in 1..Len(srv'.out)
            BY <2>1, <4>1
          <5> QED
            BY <4>1, <4>3, <5>1 DEF Way
        <4>4. CASE j # i
          BY <1>2, <2>11, <3>2, <3>5, <4>2, <4>4
        <4> QED
          BY <4>3, <4>4
      <3> QED
        BY <1>1, <1>2, <2>1, <3>2, <3>3, <3>4, <3>5, SocketKeeps
    (* It is not told, and nobody waits for it who could be.               *)
    <2>13. ASSUME NEW t \in Half, srv' = t, t.pc = "serving", t.sub = Tail(srv.sub), t.dropped = 0,
                  t.member = st, t.out = srv.out, t.ack = srv.ack,
                  ~t.closed => Settled(events, owner, t, pub, shown, i)
           PROVE  StreamInv'
      <3>1. InStep(events, owner, member, srv', pub') /\ Listens(srv')
        BY <1>2, <2>10, <2>13
      <3>2. Outgoing(events, owner, srv')
        BY <1>1, <2>13 DEF Outgoing
      <3>3. ASSUME NEW j \in 1..Len(events), Way(srv, pub, j), ~srv'.closed
            PROVE  Way(srv', pub', j) \/ Settled(events, owner, srv', pub', shown, j)
        BY <1>2, <2>11, <2>13, <3>3
      <3> QED
        BY <1>1, <1>2, <2>1, <2>13, <3>1, <3>2, <3>3, SocketKeeps
    <2>14. CASE e.gone /\ Wants(srv.member, e)
      <3>1. srv' = Queued(next, i, last)
        BY <1>5, <1>f, <2>14
      <3>2. last \in BOOLEAN
        BY <1>1 DEF last
      <3>3. e.prop \in Propositions /\ (owner \/ e.prop \in srv.member)
        BY <2>4, <2>14 DEF Wants, CanRead, Event
      <3>4. e.readable \/ \E j \in i + 1..Len(events) : JoinAt(events, e.prop, j)
        <4>1. CASE owner
          BY <1>1, <2>3, <2>4, <4>1 DEF Past
        <4>2. CASE ~owner /\ ~e.readable
          <5>1. Follows(events, member, srv.member, n, e.prop)
            BY <2>7, <3>3, <4>2
          <5>2. i \in n + 1..Len(events) /\ events[i] = e
            BY <1>1, <2>3, <2>4
          <5>3. \/ \E j \in i + 1..Len(events) : JoinAt(events, e.prop, j)
                \/ \E j \in n + 1..i - 1 : GoneAt(events, e.prop, j)
            BY <3>3, <4>2, <5>1, <5>2 DEF Follows
          <5>4. \A j \in n + 1..i - 1 : FALSE
            BY <2>3
          <5> QED
            BY <5>3, <5>4
        <4> QED
          BY <4>1, <4>2
      <3>5. Fit(events, owner, i, last)
        BY <2>3, <2>4, <3>4 DEF Fit, GoneAt, last
      <3> QED
        BY <2>12, <3>1, <3>2, <3>5
    <2>15. CASE e.gone /\ ~Wants(srv.member, e)
      <3>1. srv' = [next EXCEPT !.closed = last]
        BY <1>5, <1>f, <2>15
      <3>2. last \in BOOLEAN
        BY <1>1 DEF last
      <3>3. /\ srv' \in Half /\ srv'.pc = "serving" /\ srv'.sub = Tail(srv.sub) /\ srv'.dropped = 0
            /\ srv'.member = st /\ srv'.out = srv.out /\ srv'.closed = last /\ srv'.ack = srv.ack
        BY <2>9, <3>1, <3>2 DEF Half
      <3>4. ASSUME ~last PROVE e.prop # Open
        BY <2>4, <2>15, <3>4 DEF last, Wants, CanRead
      <3>5. ~srv'.closed => Settled(events, owner, srv', pub, shown, i)
        BY <2>4, <3>3, <3>4 DEF Settled, GoneAt
      <3> QED
        BY <2>13, <3>3, <3>5
    <2>16. CASE ~e.gone /\ Wants(st, e)
      <3>1. srv' = Queued(next, i, FALSE)
        BY <1>5, <1>f, <2>16
      <3>3. e.prop \in Propositions /\ (owner \/ e.prop \in st)
        BY <2>4, <2>16 DEF Wants, CanRead, Event
      <3>4. e.readable \/ \E j \in i + 1..Len(events) : JoinAt(events, e.prop, j)
        <4>1. CASE owner \/ e.entity = "member"
          BY <1>1, <2>3, <2>4, <4>1 DEF Past
        <4>2. CASE ~owner /\ ~e.readable /\ e.entity # "member"
          <5>0. e.prop \in srv.member
            BY <2>4, <2>6, <3>3, <4>2, <2>3 DEF GoneAt, JoinAt
          <5>1. Follows(events, member, srv.member, n, e.prop)
            BY <2>7, <3>3, <4>2
          <5>2. i \in n + 1..Len(events) /\ events[i] = e
            BY <1>1, <2>3, <2>4
          <5>3. \/ \E j \in i + 1..Len(events) : JoinAt(events, e.prop, j)
                \/ \E j \in n + 1..i - 1 : GoneAt(events, e.prop, j)
            BY <4>2, <5>0, <5>1, <5>2 DEF Follows
          <5>4. \A j \in n + 1..i - 1 : FALSE
            BY <2>3
          <5> QED
            BY <5>3, <5>4
        <4> QED
          BY <4>1, <4>2
      <3>5. Fit(events, owner, i, FALSE)
        BY <2>3, <2>4, <2>16, <3>4 DEF Fit, GoneAt
      <3> QED
        BY <2>12, <3>1, <3>5
    <2>17. CASE ~e.gone /\ ~Wants(st, e)
      <3>1. srv' = next
        BY <1>5, <1>f, <2>17
      <3>2. ~GoneAt(events, Open, i)
        BY <2>4, <2>17 DEF GoneAt
      <3>3. ASSUME e.prop = Open, e.readable PROVE Due(events, owner, next, pub, shown, i)
        <4>1. ~owner /\ Open \notin st /\ Open \in Propositions
          BY <2>17, <3>3 DEF Wants, CanRead, Propositions
        <4>2. Open \notin srv.member /\ ~JoinAt(events, Open, n + 1)
          BY <2>3, <2>6, <3>2, <4>1
        <4>3. Follows(events, member, srv.member, n, Open)
          BY <2>7, <4>1
        <4>4. i \in n + 1..Len(events) /\ events[i] = e
          BY <1>1, <2>3, <2>4
        <4>5. \/ \E j \in n + 1..i : JoinAt(events, Open, j)
              \/ \E j \in i..Len(events) : GoneAt(events, Open, j)
          BY <3>3, <4>2, <4>3, <4>4 DEF Follows
        <4>6. \A j \in n + 1..i : j = n + 1
          BY <2>3
        <4>7. PICK j \in i..Len(events) : GoneAt(events, Open, j)
          BY <4>2, <4>5, <4>6
        <4>8. j # i /\ j \in Nat /\ j > n + 1
          BY <2>3, <3>2, <4>7
        <4>9. Way(next, pub, j)
          <5>1. CASE j > pub
            BY <5>1 DEF Way
          <5>2. CASE ~(j > pub)
            <6> DEFINE l == Len(srv.sub)
            <6>a. l \in Nat /\ n \in Nat /\ j \in Nat /\ pub = n + l /\ j > n + 1 /\ j <= pub /\ l >= 1
              <7>1. l \in Nat /\ l >= 1 /\ n \in Nat /\ pub = n + l
                BY <2>1, <2>3, <2>8
              <7>2. j \in Nat /\ j > n + 1
                BY <4>8
              <7>3. j <= pub
                BY <1>1, <5>2, <7>2
              <7> QED
                BY <7>1, <7>2, <7>3
            <6> HIDE DEF l
            <6>b. j - (n + 1) \in 1..l - 1 /\ j - n \in 1..l /\ j - (n + 1) + 1 = j - n /\ n + (j - n) = j
              BY <6>a
            <6>1. j - (n + 1) \in 1..Len(srv.sub) - 1
              BY <6>b DEF l
            <6>2. Tail(srv.sub)[j - (n + 1)] = j
              <7>1. j - n \in 1..Len(srv.sub) /\ j - (n + 1) + 1 = j - n
                BY <6>b DEF l
              <7>2. srv.sub[j - n] = j
                BY <2>3, <6>b, <7>1
              <7> QED
                BY <2>2, <6>1, <7>1, <7>2
            <6>3. next.sub = Tail(srv.sub) /\ Len(next.sub) = Len(srv.sub) - 1
              BY <2>2, <2>9
            <6> QED
              BY <6>1, <6>2, <6>3 DEF Way
          <5> QED
            BY <5>1, <5>2
        <4> QED
          BY <4>1, <4>7, <4>9 DEF Due
      <3>4. Settled(events, owner, next, pub, shown, i)
        BY <2>4, <3>2, <3>3 DEF Settled
      <3> QED
        BY <2>9, <2>13, <3>1, <3>4
    <2> QED
      BY <2>14, <2>15, <2>16, <2>17
  <1> QED
    BY <1>4, <1>5

-----------------------------------------------------------------------------
(* A socket begins or ends: whatever the last one said is of no account.   *)
LEMMA SwitchKeeps ==
  ASSUME StreamInv, UNCHANGED <<events, pub, member, live, owner, shown, cursor, httpLive>>,
         srv' \in Half, srv'.sub = <<>>, srv'.out = <<>>, srv'.ack = 0, ~Listens(srv'),
         ws' \in {"closed", "connecting", "open"}, (srv.pc = "none" <=> ws = "closed")',
         sure' = FALSE, reads' \in [Reads -> Asked],
         \A k \in Reads : ~reads'[k].subscribed /\ ReadHolds(events, shown, pub, reads'[k])
  PROVE  StreamInv'
  <1>1. StreamTypes /\ pub \in Nat
    BY DEF StreamInv, StreamTypes
  <1>2. StreamTypes'
    BY <1>1 DEF StreamTypes
  <1>3. InStep(events, owner, member, srv, pub)'
    BY <1>1 DEF InStep, Listens
  <1>4. Outgoing(events, owner, srv)'
    BY DEF Outgoing
  <1>5. /\ CaughtUp(events', owner', srv', pub', shown', ws', sure')
        /\ \A j \in Reads : ReadSays(events', owner', srv', pub', shown', reads'[j])
    BY DEF CaughtUp, ReadSays
  <1> QED
    BY <1>2, <1>3, <1>4, <1>5 DEF StreamInv

LEMMA AcceptKeeps ==
  ASSUME StreamInv, Accept
  PROVE  StreamInv'
  <1>1. /\ ws = "closed" /\ ws' = "connecting" /\ srv' = [NoSocket EXCEPT !.pc = "accepted"]
        /\ UNCHANGED <<events, pub, member, live, owner, shown, cursor, httpLive, sure, reads>>
    BY DEF Accept, activity, tab
  <1>2. srv' = [pc |-> "accepted", sub |-> <<>>, dropped |-> 0, member |-> {}, out |-> <<>>,
                ack |-> 0, closed |-> FALSE]
    BY <1>1 DEF NoSocket
  <1>3. srv' \in Half /\ srv'.pc = "accepted" /\ srv'.sub = <<>> /\ srv'.out = <<>> /\ srv'.ack = 0
    BY <1>2 DEF Half
  <1>4. ~Listens(srv')
    BY <1>3 DEF Listens
  <1>5. sure = FALSE /\ reads \in [Reads -> Asked]
    BY <1>1 DEF StreamInv, StreamTypes, CaughtUp
  <1>6. ~Listens(srv)
    BY <1>1 DEF StreamInv, Listens
  <1>7. \A k \in Reads : ~reads[k].subscribed /\ ReadHolds(events, shown, pub, reads[k])
    BY <1>6 DEF StreamInv, ReadSays
  <1> QED
    BY <1>1, <1>3, <1>4, <1>5, <1>7, SwitchKeeps

LEMMA LeaveKeeps ==
  ASSUME StreamInv, Leave
  PROVE  StreamInv'
  <1>1. /\ ws' = "closed" /\ srv' = NoSocket /\ sure' = FALSE
        /\ UNCHANGED <<events, pub, member, live, owner, shown, cursor, httpLive>>
    BY DEF Leave, activity
  <1>2. srv' \in Half /\ srv'.pc = "none" /\ srv'.sub = <<>> /\ srv'.out = <<>> /\ srv'.ack = 0
    BY <1>1 DEF NoSocket, Half
  <1>3. ~Listens(srv')
    BY <1>2 DEF Listens
  <1>4. reads \in [Reads -> Asked]
    BY DEF StreamInv, StreamTypes
  <1>5. ASSUME NEW k \in Reads
        PROVE  /\ reads'[k] = [reads[k] EXCEPT !.subscribed = FALSE] /\ reads'[k] \in Asked
               /\ ~reads'[k].subscribed /\ ReadHolds(events, shown, pub, reads'[k])
    <2>1. reads'[k] = [reads[k] EXCEPT !.subscribed = FALSE]
      BY DEF Leave
    <2>2. reads[k] \in Asked
      BY <1>4
    <2> DEFINE d == reads[k]
               c == reads'[k]
    <2>3. /\ c \in Asked /\ c.subscribed = FALSE /\ c.pc = d.pc /\ c.by = d.by /\ c.wait = d.wait
          /\ c.since = d.since /\ c.from = d.from /\ c.page = d.page
      BY <2>1, <2>2 DEF Asked
    <2>4. ReadHolds(events, shown, pub, d)
      BY DEF StreamInv
    <2> HIDE DEF c, d
    <2>5. ReadHolds(events, shown, pub, c)
      BY <2>3, <2>4 DEF ReadHolds
    <2> QED
      BY <2>1, <2>3, <2>5 DEF c
  <1>6. reads' = [k \in Reads |-> reads'[k]]
    BY DEF Leave
  <1>7. reads' \in [Reads -> Asked]
    BY <1>5, <1>6
  <1> QED
    BY <1>1, <1>2, <1>3, <1>5, <1>7, SwitchKeeps

(* A frame is drawn as it leaves the queue.                                *)
LEMMA WriteKeeps ==
  ASSUME StreamInv, Write
  PROVE  StreamInv'
  <1> DEFINE o == Head(srv.out)
             i == o.ev
  <1>1. /\ StreamTypes /\ pub \in Nat /\ pub <= Len(events) /\ srv \in Half /\ events \in Seq(Event)
        /\ Len(events) \in Nat /\ cursor \in Nat /\ reads \in [Reads -> Asked]
        /\ InStep(events, owner, member, srv, pub) /\ Outgoing(events, owner, srv)
    BY DEF StreamInv, StreamTypes
  <1>2. /\ UNCHANGED <<events, member, live, owner, pub, cursor, httpLive, reads, sure, ws>>
        /\ shown' = Apply(shown, {i}) /\ srv.out # <<>> /\ ~srv.closed
    BY DEF Write, activity, CursorAfter
  <1>3. srv' = [srv EXCEPT !.out = Tail(srv.out), !.closed = o.final]
    BY DEF Write
  <1>4. /\ srv.out \in Seq(OutFrame) /\ Len(srv.out) \in Nat /\ Len(srv.out) >= 1
        /\ o \in OutFrame /\ o = srv.out[1] /\ Tail(srv.out) \in Seq(OutFrame) /\ Len(Tail(srv.out)) = Len(srv.out) - 1
        /\ \A k \in 1..Len(srv.out) - 1 : Tail(srv.out)[k] = srv.out[k + 1]
    <2>1. srv.out \in Seq(OutFrame) /\ srv.out # <<>>
      BY <1>1, <1>2, HalfTypes
    <2> QED
      BY <2>1
  <1>5. Fit(events, owner, i, o.final) /\ o.final \in BOOLEAN
    BY <1>1, <1>4 DEF Outgoing, OutFrame
  <1>6. i \in 1..Len(events)
    BY <1>5 DEF Fit
  <1>7. /\ srv' \in Half /\ srv'.pc = srv.pc /\ srv'.sub = srv.sub /\ srv'.dropped = srv.dropped
        /\ srv'.member = srv.member /\ srv'.ack = srv.ack /\ srv'.out = Tail(srv.out) /\ srv'.closed = o.final
    BY <1>1, <1>3, <1>4, <1>5 DEF Half
  <1> HIDE DEF i, o
  <1>8. /\ shown' \in [Rows -> Nat]
        /\ \A j \in 1..Len(events) : Cover(events, shown, j) => Cover(events, shown', j)
        /\ Cover(events, shown', i)
    <2>1. {i} \subseteq 1..Len(events) /\ i \in {i}
      BY <1>6
    <2> QED
      BY <1>1, <1>2, <2>1, ApplyDraws
  <1>9. StreamTypes'
    BY <1>1, <1>2, <1>7, <1>8 DEF StreamTypes
  <1>10. InStep(events, owner, member, srv, pub)'
    BY <1>1, <1>2, <1>7 DEF InStep, Listens
  <1>11. Outgoing(events, owner, srv)'
    <2>1. ASSUME NEW k \in 1..Len(srv'.out) PROVE Fit(events, owner, srv'.out[k].ev, srv'.out[k].final)
      <3>1. k + 1 \in 1..Len(srv.out) /\ srv'.out[k] = srv.out[k + 1]
        BY <1>4, <1>7
      <3> QED
        BY <1>1, <3>1 DEF Outgoing
    <2> QED
      BY <1>1, <1>2, <1>7, <2>1 DEF Outgoing
  <1>12. Extends(events, events')
    BY <1>1, <1>2 DEF Extends
  <1>13. (cursor <= Len(events) /\ Upto(events, shown, cursor))'
    BY <1>1, <1>2, <1>8, <1>12, UptoKept DEF StreamInv
  <1>14. \A k \in Reads : ReadHolds(events', shown', pub', reads'[k])
    <2> SUFFICES ASSUME NEW k \in Reads PROVE ReadHolds(events, shown', pub, reads[k])
      BY <1>2
    <2>1. ReadHolds(events, shown, pub, reads[k]) /\ reads[k] \in Asked
      BY <1>1 DEF StreamInv
    <2>2. Extends(events, events) /\ pub <= pub
      BY <1>1, <1>2, <1>12
    <2> QED
      BY <1>1, <1>8, <2>1, <2>2, ReadingKept
  <1>15. ASSUME ~srv'.closed, NEW j \in 1..Len(events), Way(srv, pub, j)
         PROVE  Way(srv', pub', j) \/ Settled(events', owner, srv', pub', shown', j)
    <2>1. CASE j = i
      <3>1. ~owner => ~GoneAt(events, Open, i)
        BY <1>5, <1>7, <1>15 DEF Fit
      <3> QED
        BY <1>2, <1>8, <2>1, <3>1 DEF Settled, Due
    <2>2. CASE j # i
      <3>1. CASE \E k \in 1..Len(srv.out) : srv.out[k].ev = j
        <4>1. PICK k \in 1..Len(srv.out) : srv.out[k].ev = j
          BY <3>1
        <4>2. k # 1
          BY <1>4, <2>2, <4>1 DEF i
        <4>3. k - 1 \in 1..Len(srv'.out) /\ srv'.out[k - 1] = srv.out[k]
          BY <1>4, <1>7, <4>1, <4>2
        <4> QED
          BY <4>1, <4>3 DEF Way
      <3> QED
        BY <1>2, <1>7, <1>15, <3>1 DEF Way
    <2> QED
      BY <2>1, <2>2
  <1>16. /\ \A j \in 1..Len(events') : ~(j > Len(events)) /\ Len(events') = Len(events)
         /\ Listens(srv) => Listens(srv')
    BY <1>1, <1>2, <1>7 DEF Listens
  <1>17. /\ CaughtUp(events', owner', srv', pub', shown', ws', sure')
         /\ \A k \in Reads : ReadSays(events', owner', srv', pub', shown', reads'[k])
    <2>1. ~srv'.closed /\ srv'.dropped = 0 => ~srv.closed /\ srv.dropped = 0
      BY <1>2, <1>7
    <2>2. events' \in Seq(Event) /\ owner' = owner
      BY <1>1, <1>2
    <2>3. \A j \in 1..Len(events) : Cover(events, shown, j) => Cover(events', shown', j)
      BY <1>2, <1>8
    <2>4. ws' = ws /\ (sure' => sure) /\ reads' = reads
      BY <1>2
    <2> QED
      BY <1>12, <1>15, <1>16, <2>1, <2>2, <2>3, <2>4, HearsKept
  <1>18. Past(events, owner, member)' /\ (srv.pc = "none" <=> ws = "closed")'
    BY <1>2, <1>7 DEF StreamInv
  <1> QED
    BY <1>9, <1>10, <1>11, <1>13, <1>14, <1>17, <1>18 DEF StreamInv

-----------------------------------------------------------------------------
(* A step of one read.                                                     *)
LEMMA ReadsKeep ==
  ASSUME StreamInv, UNCHANGED <<events, pub, member, live, owner, srv>>,
         NEW k \in Reads, NEW d \in Asked, reads' = [reads EXCEPT ![k] = d],
         shown' \in [Rows -> Nat], cursor' \in Nat, sure' \in BOOLEAN, httpLive' \in BOOLEAN,
         ws' \in {"closed", "connecting", "open"}, ws' = "closed" <=> ws = "closed",
         \A i \in 1..Len(events) : Cover(events, shown, i) => Cover(events, shown', i),
         cursor' = cursor \/ (cursor' <= Len(events) /\ Upto(events, shown', cursor')),
         ReadHolds(events, shown', pub, d),
         ReadSays(events, owner, srv, pub, shown', d),
         CaughtUp(events, owner, srv, pub, shown', ws', sure') \/ (ws' = ws /\ sure' = sure)
  PROVE  StreamInv'
  <1>1. /\ StreamTypes /\ pub \in Nat /\ pub <= Len(events) /\ events \in Seq(Event)
        /\ Len(events) \in Nat /\ cursor \in Nat /\ reads \in [Reads -> Asked]
    BY DEF StreamInv, StreamTypes
  <1>2. /\ reads' \in [Reads -> Asked] /\ reads'[k] = d
        /\ \A j \in Reads : j # k => reads'[j] = reads[j]
    BY <1>1
  <1>3. StreamTypes'
    BY <1>1, <1>2 DEF StreamTypes
  <1>4. Extends(events, events)
    BY <1>1 DEF Extends
  <1>5. (cursor <= Len(events) /\ Upto(events, shown, cursor))'
    <2>1. CASE cursor' = cursor
      <3>1. cursor <= Len(events) /\ Upto(events, shown, cursor)
        BY DEF StreamInv
      <3>2. Upto(events, shown', cursor)
        BY <1>1, <1>4, <3>1, UptoKept
      <3> QED
        BY <2>1, <3>1, <3>2
    <2>2. CASE cursor' # cursor
      BY <2>2
    <2> QED
      BY <2>1, <2>2
  <1>6. ASSUME NEW j \in Reads, j # k PROVE ReadHolds(events, shown', pub, reads[j])
    <2>1. ReadHolds(events, shown, pub, reads[j]) /\ reads[j] \in Asked /\ pub <= pub
      BY <1>1 DEF StreamInv
    <2> QED
      BY <1>1, <1>4, <2>1, ReadingKept
  <1>7. \A j \in Reads : ReadHolds(events', shown', pub', reads'[j])
    BY <1>2, <1>6
  <1>8. /\ \A S : DueBut(events, owner, srv, pub, shown, S) => DueBut(events', owner, srv', pub', shown', S)
        /\ ws' = ws /\ (sure' => sure) => CaughtUp(events', owner', srv', pub', shown', ws', sure')
        /\ \A j \in Reads : reads'[j] = reads[j] => ReadSays(events', owner', srv', pub', shown', reads'[j])
    <2>1. events' \in Seq(Event) /\ Extends(events, events') /\ owner' = owner
      BY <1>1, <1>4
    <2>2. \A i \in 1..Len(events) : Cover(events, shown, i) => Cover(events', shown', i)
      OBVIOUS
    <2>3. ~srv'.closed /\ srv'.dropped = 0 =>
            /\ ~srv.closed /\ srv.dropped = 0
            /\ \A i \in 1..Len(events') : i > Len(events) => Way(srv', pub', i)
            /\ \A i \in 1..Len(events) :
                 Way(srv, pub, i) => Way(srv', pub', i) \/ Settled(events', owner, srv', pub', shown', i)
      BY <1>1
    <2>4. Listens(srv) => Listens(srv')
      OBVIOUS
    <2> QED
      BY <2>1, <2>2, <2>3, <2>4, HearsKept
  <1>9. CaughtUp(events', owner', srv', pub', shown', ws', sure')
    BY <1>8
  <1>10. \A j \in Reads : ReadSays(events', owner', srv', pub', shown', reads'[j])
    BY <1>2, <1>8
  <1>11. /\ Past(events, owner, member)' /\ (srv.pc = "none" <=> ws = "closed")'
         /\ InStep(events, owner, member, srv, pub)' /\ Outgoing(events, owner, srv)'
    BY DEF StreamInv
  <1> QED
    BY <1>3, <1>5, <1>7, <1>9, <1>10, <1>11 DEF StreamInv

(* A read that has not asked yet has what its place in the table covers.   *)
LEMMA AskedIs ==
  ASSUME NEW es, NEW m, NEW n, NEW d \in Asked, d.pc = "asked", d.since <= Len(es), Upto(es, m, d.since),
         d.page = {}, ~d.subscribed, d.wait => d.by = "poll"
  PROVE  ReadHolds(es, m, n, d) /\ \A own, s : ReadSays(es, own, s, n, m, d)
  BY DEF ReadHolds, ReadSays

LEMMA SocketOpensKeeps ==
  ASSUME StreamInv, NEW k \in Reads, SocketOpens(k)
  PROVE  StreamInv'
  <1> DEFINE d == [NoRead EXCEPT !.pc = "asked", !.since = cursor]
  <1>1. /\ ws = "connecting" /\ ws' = "open" /\ reads' = [reads EXCEPT ![k] = d]
        /\ UNCHANGED <<events, pub, member, live, owner, srv, shown, cursor, sure>> /\ httpLive' = FALSE
    BY DEF SocketOpens, activity
  <1>2. shown \in [Rows -> Nat] /\ cursor \in Nat /\ cursor <= Len(events) /\ Upto(events, shown, cursor)
    BY DEF StreamInv, StreamTypes
  <1>3. /\ d \in Asked /\ d.pc = "asked" /\ d.since = cursor /\ d.page = {} /\ d.subscribed = FALSE
        /\ d.wait = FALSE
    BY <1>2 DEF NoRead, Asked
  <1> HIDE DEF d
  <1>4. ReadHolds(events, shown, pub, d) /\ ReadSays(events, owner, srv, pub, shown, d)
    BY <1>2, <1>3, AskedIs
  <1>5. sure = FALSE
    BY <1>1 DEF StreamInv, StreamTypes, CaughtUp
  <1>6. CaughtUp(events, owner, srv, pub, shown, ws', sure')
    BY <1>1, <1>5 DEF CaughtUp
  <1> QED
    BY <1>1, <1>2, <1>3, <1>4, <1>5, <1>6, ReadsKeep

LEMMA PollKeeps ==
  ASSUME StreamInv, NEW k \in Reads, Poll(k)
  PROVE  StreamInv'
  <1> DEFINE d == [NoRead EXCEPT !.pc = "asked", !.by = "poll", !.wait = httpLive, !.since = cursor]
  <1>1. /\ reads' = [reads EXCEPT ![k] = d]
        /\ UNCHANGED <<events, pub, member, live, owner, srv, ws, shown, cursor, sure, httpLive>>
    BY DEF Poll, activity
  <1>2. /\ shown \in [Rows -> Nat] /\ cursor \in Nat /\ cursor <= Len(events) /\ Upto(events, shown, cursor)
        /\ httpLive \in BOOLEAN /\ ws \in {"closed", "connecting", "open"} /\ sure \in BOOLEAN
    BY DEF StreamInv, StreamTypes
  <1>3. d \in Asked /\ d.pc = "asked" /\ d.since = cursor /\ d.page = {} /\ d.subscribed = FALSE
        /\ d.by = "poll"
    BY <1>2 DEF NoRead, Asked
  <1> HIDE DEF d
  <1>4. ReadHolds(events, shown, pub, d) /\ ReadSays(events, owner, srv, pub, shown, d)
    BY <1>2, <1>3, AskedIs
  <1> QED
    BY <1>1, <1>2, <1>3, <1>4, ReadsKeep

LEMMA FailedKeeps ==
  ASSUME StreamInv, NEW k \in Reads, Failed(k)
  PROVE  StreamInv'
  <1>1. /\ reads' = [reads EXCEPT ![k] = NoRead]
        /\ UNCHANGED <<events, pub, member, live, owner, srv, ws, shown, cursor>>
        /\ sure' = sure \/ sure' = FALSE
        /\ httpLive' = httpLive \/ httpLive' = FALSE
    BY DEF Failed, activity
  <1>2. /\ shown \in [Rows -> Nat] /\ cursor \in Nat
        /\ ws \in {"closed", "connecting", "open"} /\ sure \in BOOLEAN /\ httpLive \in BOOLEAN
    BY DEF StreamInv, StreamTypes
  <1>3. NoRead \in Asked
    BY DEF NoRead, Asked
  <1>4. ReadHolds(events, shown, pub, NoRead) /\ ReadSays(events, owner, srv, pub, shown, NoRead)
    BY DEF NoRead, ReadHolds, ReadSays
  <1>5. CaughtUp(events, owner, srv, pub, shown, ws', sure') \/ sure' = sure
    BY <1>1 DEF CaughtUp
  <1> QED
    BY <1>1, <1>2, <1>3, <1>4, <1>5, ReadsKeep

LEMMA QueryKeeps ==
  ASSUME StreamInv, NEW k \in Reads, Query(k)
  PROVE  StreamInv'
  <1> DEFINE c == reads[k]
             due == Since(c.since)
             held == due = {} /\ c.wait
             says == c.by = "open" /\ srv.pc \in {"subscribed", "serving"}
             d == [c EXCEPT !.pc = IF held THEN "held" ELSE "answered",
                            !.from = IF held THEN pub ELSE 0,
                            !.page = FirstPage(due), !.subscribed = says]
  <1>1. /\ c.pc = "asked" /\ UNCHANGED <<events, pub, member, live, owner, srv, ws, shown, cursor, sure, httpLive>>
        /\ reads' = [reads EXCEPT ![k] = d]
    BY DEF Query, activity
  <1>2. /\ shown \in [Rows -> Nat] /\ cursor \in Nat /\ events \in Seq(Event) /\ Len(events) \in Nat
        /\ ws \in {"closed", "connecting", "open"} /\ sure \in BOOLEAN /\ httpLive \in BOOLEAN
        /\ c \in Asked /\ ReadHolds(events, shown, pub, c) /\ pub \in Nat /\ pub <= Len(events)
    BY DEF StreamInv, StreamTypes
  <1>3. c.since \in Nat /\ c.wait \in BOOLEAN /\ c.by \in {"open", "poll"}
    BY <1>2 DEF Asked
  <1>4. /\ due \in SUBSET Nat /\ \A i \in due : i <= Len(events)
        /\ \A i : i \in due <=> i \in c.since + 1..Len(events) /\ events[i].prop = Open
    BY <1>2, <1>3 DEF Since
  <1> HIDE DEF due
  <1>5. /\ FirstPage(due) \subseteq due
        /\ \A i \in due, j \in FirstPage(due) : i < j => i \in FirstPage(due)
        /\ FirstPage(due) = due \/ Cardinality(FirstPage(due)) = PageSize
    <2>1. PageSize \in Nat
      BY StreamAssumption
    <2> QED
      BY <1>2, <1>4, <2>1, PageIs
  <1>6. FirstPage(due) \subseteq Nat
    BY <1>4, <1>5
  <1>7. held \in BOOLEAN /\ says \in BOOLEAN /\ (says => ~held)
    BY <1>2, <1>3 DEF ReadHolds
  <1>8. /\ d \in Asked /\ d.pc = IF held THEN "held" ELSE "answered"
        /\ d.from = IF held THEN pub ELSE 0
        /\ d.page = FirstPage(due) /\ d.subscribed = says /\ d.by = c.by /\ d.wait = c.wait /\ d.since = c.since
    <2> HIDE DEF held, says
    <2>1. (IF held THEN "held" ELSE "answered") \in {"held", "answered"} /\ (IF held THEN pub ELSE 0) \in Nat
      BY <1>2
    <2> QED
      BY <1>2, <1>6, <1>7, <2>1 DEF Asked
  <1>9. c.since <= Len(events) /\ Upto(events, shown, c.since) /\ (c.wait => c.by = "poll")
    BY <1>1, <1>2 DEF ReadHolds
  <1>10. held => due = {} /\ c.wait
    OBVIOUS
  <1>11. says => c.by = "open" /\ Listens(srv)
    BY DEF Listens
  <1> HIDE DEF d, held, says
  <1>12. ReadHolds(events, shown, pub, d)
    <2>1. d.pc # "idle" => d.since <= Len(events) /\ Upto(events, shown, d.since)
      BY <1>8, <1>9
    <2>2. \A i \in d.page : i \in 1..Len(events) /\ events[i].prop = Open
      BY <1>2, <1>3, <1>4, <1>5, <1>8
    <2>3. \A i \in 1..Len(events), j \in d.page : events[i].prop = Open /\ d.since < i /\ i < j => i \in d.page
      <3> SUFFICES ASSUME NEW i \in 1..Len(events), NEW j \in d.page,
                          events[i].prop = Open, d.since < i, i < j
                   PROVE  i \in d.page
        OBVIOUS
      <3>1. i \in c.since + 1..Len(events)
        BY <1>2, <1>3, <1>8
      <3>2. i \in due
        BY <1>4, <3>1
      <3> QED
        BY <1>5, <1>8, <3>2
    <2>4. d.pc = "held" => /\ d.from <= pub /\ ~d.subscribed /\ d.wait
                           /\ \A i \in 1..Len(events) : events[i].prop = Open => ~(d.since < i /\ i <= d.from)
      <3> SUFFICES ASSUME held
                   PROVE  /\ d.from <= pub /\ ~d.subscribed /\ d.wait
                          /\ \A i \in 1..Len(events) : events[i].prop = Open => ~(d.since < i /\ i <= d.from)
        BY <1>8
      <3>1. d.from = pub /\ d.subscribed = FALSE /\ d.wait
        BY <1>7, <1>8, <1>10
      <3>2. \A i \in 1..Len(events) : events[i].prop = Open => ~(c.since < i)
        BY <1>2, <1>3, <1>4, <1>10
      <3> QED
        BY <1>2, <1>8, <3>1, <3>2
    <2>5. d.subscribed => d.pc = "answered" /\ d.by = "open"
      BY <1>7, <1>8, <1>11
    <2>6. d.wait => d.by = "poll"
      BY <1>8, <1>9
    <2> QED
      BY <2>1, <2>2, <2>3, <2>4, <2>5, <2>6 DEF ReadHolds
  <1>13. ReadSays(events, owner, srv, pub, shown, d)
    <2> SUFFICES ASSUME d.subscribed
                 PROVE  Listens(srv) /\ (Cardinality(d.page) = PageSize \/ DueBut(events, owner, srv, pub, shown, d.page))
      BY DEF ReadSays
    <2>1. Listens(srv)
      BY <1>8, <1>11
    <2>2. ASSUME FirstPage(due) = due PROVE DueBut(events, owner, srv, pub, shown, d.page)
      <3>1. ASSUME NEW i \in 1..Len(events), events[i].prop = Open, i \notin d.page
            PROVE  Cover(events, shown, i)
        <4>1. i \notin due
          BY <1>8, <2>2, <3>1
        <4>2. i <= c.since
          BY <1>2, <1>3, <1>4, <3>1, <4>1
        <4> QED
          BY <1>9, <3>1, <4>2 DEF Upto
      <3> QED
        BY <3>1 DEF DueBut, Due
    <2> QED
      BY <1>5, <1>8, <2>1, <2>2
  <1> QED
    BY <1>1, <1>2, <1>8, <1>12, <1>13, ReadsKeep

LEMMA WakeKeeps ==
  ASSUME StreamInv, NEW k \in Reads, Wake(k)
  PROVE  StreamInv'
  <1> DEFINE c == reads[k]
             heard == {i \in c.from + 1..pub : events[i].prop = Open}
             page == IF heard = {} THEN {} ELSE {Min(heard)}
             d == [c EXCEPT !.pc = "answered", !.page = page]
  <1>1. /\ c.pc = "held" /\ UNCHANGED <<events, pub, member, live, owner, srv, ws, shown, cursor, sure, httpLive>>
        /\ reads' = [reads EXCEPT ![k] = d]
    BY DEF Wake, activity
  <1>2. /\ shown \in [Rows -> Nat] /\ cursor \in Nat /\ events \in Seq(Event) /\ Len(events) \in Nat
        /\ ws \in {"closed", "connecting", "open"} /\ sure \in BOOLEAN /\ httpLive \in BOOLEAN
        /\ c \in Asked /\ ReadHolds(events, shown, pub, c) /\ pub \in Nat /\ pub <= Len(events)
    BY DEF StreamInv, StreamTypes
  <1>3. c.since \in Nat /\ c.from \in Nat
    BY <1>2 DEF Asked
  <1>4. /\ c.since <= Len(events) /\ Upto(events, shown, c.since) /\ ~c.subscribed /\ c.wait /\ c.by = "poll"
        /\ \A i \in 1..Len(events) : events[i].prop = Open => ~(c.since < i /\ i <= c.from)
    BY <1>1, <1>2 DEF ReadHolds
  <1>5. heard \in SUBSET Nat /\ \A i : i \in heard <=> i \in c.from + 1..pub /\ events[i].prop = Open
    BY <1>2, <1>3
  <1> HIDE DEF heard
  <1>6. ASSUME NEW j \in page PROVE j \in heard /\ \A i \in heard : j <= i
    <2>1. heard # {} /\ j = Min(heard)
      OBVIOUS
    <2> QED
      BY <1>5, <2>1, LeastIs
  <1>7. page \subseteq Nat
    BY <1>5, <1>6
  <1>8. /\ d \in Asked /\ d.pc = "answered" /\ d.page = page /\ d.subscribed = c.subscribed
        /\ d.by = c.by /\ d.wait = c.wait /\ d.since = c.since
    <2> HIDE DEF page
    <2> QED
      BY <1>2, <1>7 DEF Asked
  <1> HIDE DEF d, page
  <1>9. ReadHolds(events, shown, pub, d)
    <2>1. \A i \in d.page : i \in 1..Len(events) /\ events[i].prop = Open
      <3> SUFFICES ASSUME NEW i \in page PROVE i \in 1..Len(events) /\ events[i].prop = Open
        BY <1>8
      <3>1. i \in c.from + 1..pub /\ events[i].prop = Open
        BY <1>5, <1>6
      <3> QED
        BY <1>2, <1>3, <3>1
    <2>2. \A i \in 1..Len(events), j \in d.page : events[i].prop = Open /\ d.since < i /\ i < j => i \in d.page
      <3> SUFFICES ASSUME NEW i \in 1..Len(events), NEW j \in page,
                          events[i].prop = Open, c.since < i, i < j
                   PROVE  FALSE
        BY <1>8
      <3>1. j \in heard /\ \A h \in heard : j <= h
        BY <1>6
      <3>2. ~(i <= c.from)
        BY <1>4
      <3>3. j \in c.from + 1..pub
        BY <1>5, <3>1
      <3>4. i \in c.from + 1..pub
        BY <1>2, <1>3, <3>2, <3>3
      <3>5. i \in heard
        BY <1>5, <3>4
      <3>6. j <= i /\ j \in Nat
        BY <1>5, <3>1, <3>5
      <3> QED
        BY <3>6
    <2> QED
      BY <1>4, <1>8, <2>1, <2>2 DEF ReadHolds
  <1>10. ReadSays(events, owner, srv, pub, shown, d)
    BY <1>4, <1>8 DEF ReadSays
  <1> QED
    BY <1>1, <1>2, <1>8, <1>9, <1>10, ReadsKeep

(* A page is drawn, and the cursor and the next question move over it.     *)
LEMMA ReadAnsweredKeeps ==
  ASSUME StreamInv, NEW k \in Reads, ReadAnswered(k)
  PROVE  StreamInv'
  <1> DEFINE c == reads[k]
             next == IF c.page = {} THEN c.since ELSE Max(c.page)
             more == Cardinality(c.page) = PageSize
             d == IF more THEN [NoRead EXCEPT !.pc = "asked", !.by = c.by, !.since = next] ELSE NoRead
  <1>1. /\ c.pc = "answered" /\ UNCHANGED <<events, pub, member, live, owner, srv, ws>>
        /\ shown' = Apply(shown, c.page) /\ cursor' = IF next > cursor THEN next ELSE cursor
        /\ reads' = [reads EXCEPT ![k] = d]
    BY DEF ReadAnswered, activity
  <1>2. /\ (sure' = sure /\ httpLive' = httpLive)
           \/ (~more /\ c.by = "open" /\ sure' = (ws = "open" /\ c.subscribed) /\ httpLive' = httpLive)
           \/ (sure' = FALSE /\ httpLive' = TRUE)
    BY DEF ReadAnswered
  <1>3. /\ StreamTypes /\ events \in Seq(Event) /\ Len(events) \in Nat /\ cursor \in Nat
        /\ ws \in {"closed", "connecting", "open"} /\ sure \in BOOLEAN /\ httpLive \in BOOLEAN
        /\ c \in Asked /\ ReadHolds(events, shown, pub, c) /\ ReadSays(events, owner, srv, pub, shown, c)
        /\ cursor <= Len(events) /\ Upto(events, shown, cursor)
    BY DEF StreamInv, StreamTypes
  <1>4. /\ c.since \in Nat /\ c.page \subseteq Nat /\ c.by \in {"open", "poll"} /\ c.subscribed \in BOOLEAN
        /\ c.since <= Len(events) /\ Upto(events, shown, c.since) /\ c.page \subseteq 1..Len(events)
        /\ \A i \in 1..Len(events), j \in c.page :
             events[i].prop = Open /\ c.since < i /\ i < j => i \in c.page
    <2>1. c.since \in Nat /\ c.page \subseteq Nat /\ c.by \in {"open", "poll"} /\ c.subscribed \in BOOLEAN
      BY <1>3 DEF Asked
    <2> QED
      BY <1>1, <1>3, <2>1 DEF ReadHolds
  <1>5. /\ shown' \in [Rows -> Nat]
        /\ \A i \in 1..Len(events) : Cover(events, shown, i) => Cover(events, shown', i)
        /\ \A i \in c.page : Cover(events, shown', i)
    BY <1>1, <1>3, <1>4, ApplyDraws
  <1>6. Extends(events, events)
    BY <1>3 DEF Extends
  <1>7. next \in Nat /\ next <= Len(events) /\ Upto(events, shown', next)
    <2>1. CASE c.page = {}
      <3>1. next = c.since
        BY <2>1
      <3> HIDE DEF next
      <3> QED
        BY <1>3, <1>4, <1>5, <1>6, <3>1, UptoKept
    <2>2. CASE c.page # {}
      <3>1. c.page \in SUBSET Nat /\ \A i \in c.page : i <= Len(events)
        BY <1>3, <1>4
      <3>2. Max(c.page) \in c.page /\ \A i \in c.page : i <= Max(c.page)
        BY <1>3, <2>2, <3>1, GreatestIs
      <3>3. next = Max(c.page)
        BY <2>2
      <3> HIDE DEF next
      <3>4. next \in 1..Len(events) /\ next \in c.page
        BY <1>4, <3>2, <3>3
      <3>5. ASSUME NEW i \in 1..Len(events), events[i].prop = Open, i <= next
            PROVE  Cover(events, shown', i)
        <4>1. CASE i <= c.since
          BY <1>4, <1>5, <3>5, <4>1 DEF Upto
        <4>2. CASE ~(i <= c.since)
          <5>1. i \in c.page
            <6>1. c.since < i
              BY <1>3, <1>4, <4>2
            <6>2. CASE i = next
              BY <3>4, <6>2
            <6>3. CASE i # next
              <7>1. i < next
                BY <1>3, <3>4, <3>5, <6>3
              <7> QED
                BY <1>4, <3>4, <3>5, <6>1, <7>1
            <6> QED
              BY <6>2, <6>3
          <5> QED
            BY <1>5, <5>1
        <4> QED
          BY <4>1, <4>2
      <3> QED
        BY <1>3, <3>4, <3>5 DEF Upto
    <2> QED
      BY <2>1, <2>2
  <1>8. c.subscribed => Listens(srv) /\ (more \/ DueBut(events, owner, srv, pub, shown', {}))
    <2> SUFFICES ASSUME c.subscribed, ~more
                 PROVE  Listens(srv) /\ DueBut(events, owner, srv, pub, shown', {})
      BY <1>3 DEF ReadSays
    <2>1. Listens(srv) /\ DueBut(events, owner, srv, pub, shown, c.page)
      BY <1>3 DEF ReadSays
    <2>2. ASSUME NEW i \in 1..Len(events), Due(events, owner, srv, pub, shown, i)
          PROVE  Due(events, owner, srv, pub, shown', i)
      BY <1>5, <2>2 DEF Due
    <2>3. DueBut(events, owner, srv, pub, shown', {})
      <3> SUFFICES ASSUME ~srv.closed, srv.dropped = 0, NEW i \in 1..Len(events),
                          events[i].prop = Open, events[i].readable
                   PROVE  Due(events, owner, srv, pub, shown', i)
        BY DEF DueBut
      <3>1. CASE i \in c.page
        BY <1>5, <3>1 DEF Due
      <3>2. CASE i \notin c.page
        BY <2>1, <2>2, <3>2 DEF DueBut
      <3> QED
        BY <3>1, <3>2
    <2> QED
      BY <2>1, <2>3
  <1> HIDE DEF next, more
  <1>9. d \in Asked /\ ReadHolds(events, shown', pub, d) /\ ReadSays(events, owner, srv, pub, shown', d)
    <2>1. CASE more
      <3>1. d = [NoRead EXCEPT !.pc = "asked", !.by = c.by, !.since = next]
        BY <2>1
      <3>2. /\ d \in Asked /\ d.pc = "asked" /\ d.since = next /\ d.page = {} /\ d.subscribed = FALSE
            /\ d.wait = FALSE
        BY <1>4, <1>7, <3>1 DEF NoRead, Asked
      <3> HIDE DEF d
      <3> QED
        BY <1>7, <3>2, AskedIs
    <2>2. CASE ~more
      <3>1. d = NoRead
        BY <2>2
      <3> HIDE DEF d
      <3>2. NoRead \in Asked
        BY DEF NoRead, Asked
      <3>3. ReadHolds(events, shown', pub, NoRead) /\ ReadSays(events, owner, srv, pub, shown', NoRead)
        BY DEF NoRead, ReadHolds, ReadSays
      <3> QED
        BY <3>1, <3>2, <3>3
    <2> QED
      BY <2>1, <2>2
  <1> HIDE DEF d
  <1>10. cursor' \in Nat /\ (cursor' = cursor \/ (cursor' <= Len(events) /\ Upto(events, shown', cursor')))
    BY <1>1, <1>3, <1>7
  <1>11. sure' \in BOOLEAN /\ httpLive' \in BOOLEAN
    BY <1>2, <1>3, <1>4
  <1>12. CaughtUp(events, owner, srv, pub, shown', ws', sure') \/ (ws' = ws /\ sure' = sure)
    <2>1. CASE sure' = sure
      BY <1>1, <2>1
    <2>2. CASE sure' = FALSE
      BY <2>2 DEF CaughtUp
    <2>3. CASE ~more /\ sure' = (ws = "open" /\ c.subscribed)
      BY <1>1, <1>8, <2>3 DEF CaughtUp
    <2> QED
      BY <1>2, <2>1, <2>2, <2>3
  <1> QED
    BY <1>1, <1>3, <1>5, <1>9, <1>10, <1>11, <1>12, ReadsKeep

LEMMA StreamKept == StreamInv /\ [StreamNext]_streamvars => StreamInv'
  <1> SUFFICES ASSUME StreamInv, [StreamNext]_streamvars PROVE StreamInv'
    OBVIOUS
  <1>1. ASSUME Others PROVE StreamInv'
    BY <1>1, CommitKeeps, CommandKeeps DEF Others
  <1>2. ASSUME Server PROVE StreamInv'
    BY <1>2, PublishKeeps, AcceptKeeps, SubscribeKeeps, MembershipsKeeps, ForwardKeeps, AnswerKeeps,
       QueryKeeps, WakeKeeps DEF Server
  <1>3. ASSUME Tab PROVE StreamInv'
    <2>1. ASSUME Closes \/ SocketCut PROVE StreamInv'
      BY <2>1, LeaveKeeps DEF Closes, SocketCut
    <2>2. ASSUME NEW k \in Reads, ReadRefused(k) \/ Fails(k) PROVE StreamInv'
      BY <2>2, FailedKeeps DEF ReadRefused, Fails
    <2> QED
      BY <1>3, <2>1, <2>2, WriteKeeps, SocketOpensKeeps, PollKeeps, ReadAnsweredKeeps DEF Tab
  <1>4. CASE UNCHANGED streamvars
    BY <1>4 DEF streamvars, StreamInv, StreamTypes
  <1> QED
    BY <1>1, <1>2, <1>3, <1>4 DEF StreamNext

LEMMA StreamBegins == StreamInit => StreamInv
  <1> SUFFICES ASSUME StreamInit PROVE StreamInv
    OBVIOUS
  <1>1. /\ events = <<>> /\ pub = 0 /\ member = Propositions /\ live = Propositions /\ owner \in BOOLEAN
        /\ srv = NoSocket /\ ws = "closed" /\ shown = [r \in Rows |-> 0] /\ cursor = 0
        /\ httpLive = FALSE /\ sure = FALSE /\ reads = [k \in Reads |-> NoRead]
    BY DEF StreamInit
  <1>2. events \in Seq(Event) /\ Len(events) = 0 /\ \A i : i \notin 1..Len(events)
    BY <1>1
  <1>3. srv \in Half /\ srv.pc = "none" /\ srv.sub = <<>> /\ srv.out = <<>> /\ srv.ack = 0
    BY <1>1 DEF NoSocket, Half
  <1>4. NoRead \in Asked /\ ~NoRead.subscribed
    BY DEF NoRead, Asked
  <1>5. StreamTypes
    <2>1. shown \in [Rows -> Nat] /\ reads \in [Reads -> Asked]
      BY <1>1, <1>4
    <2>2. pub <= Len(events) /\ pub \in Nat /\ cursor \in Nat
      BY <1>1, <1>2
    <2> QED
      BY <1>1, <1>2, <1>3, <2>1, <2>2 DEF StreamTypes
  <1>6. Past(events, owner, member)
    BY <1>2 DEF Past, Stands, Turns
  <1>7. InStep(events, owner, member, srv, pub) /\ Outgoing(events, owner, srv)
    BY <1>1, <1>3 DEF InStep, Outgoing, Listens
  <1>8. cursor <= Len(events) /\ Upto(events, shown, cursor)
    BY <1>1, <1>2 DEF Upto
  <1>9. ReadHolds(events, shown, pub, NoRead) /\ ReadSays(events, owner, srv, pub, shown, NoRead)
    BY DEF NoRead, ReadHolds, ReadSays
  <1>10. CaughtUp(events, owner, srv, pub, shown, ws, sure)
    BY <1>1 DEF CaughtUp
  <1> QED
    BY <1>1, <1>3, <1>5, <1>6, <1>7, <1>8, <1>9, <1>10 DEF StreamInv

(* A tab that has caught up over a socket that was subscribed has drawn    *)
(* every change of its proposition, or will be handed it (HeardEverything).*)
THEOREM TabsHearEverything == StreamSpec => []HeardEverything
  <1>1. StreamInv => HeardEverything
    <2> SUFFICES ASSUME StreamInv, sure, Connected, NEW i \in 1..Len(events),
                        events[i].prop = Open, events[i].readable
                 PROVE  \/ Covered(i) \/ OnItsWay(i)
                        \/ \E j \in i..Len(events) : events[j].prop = Open /\ events[j].gone /\ OnItsWay(j)
      BY DEF HeardEverything, Hears
    <2>1. srv \in Half /\ ~srv.closed /\ srv.dropped = 0
      BY HalfTypes DEF StreamInv, StreamTypes, Connected, Behind
    <2>2. Due(events, owner, srv, pub, shown, i)
      BY <2>1 DEF StreamInv, CaughtUp, DueBut
    <2>3. DOMAIN srv.sub = 1..Len(srv.sub) /\ DOMAIN srv.out = 1..Len(srv.out)
      BY <2>1, HalfTypes
    <2>4. \A j : Way(srv, pub, j) => OnItsWay(j)
      BY <2>3 DEF Way, OnItsWay
    <2>5. Cover(events, shown, i) => Covered(i)
      BY DEF Cover, Covered, RowOf
    <2> QED
      BY <2>2, <2>4, <2>5 DEF Due, GoneAt
  <1>2. StreamInit => StreamInv
    BY StreamBegins
  <1>3. StreamInv /\ [StreamNext]_streamvars => StreamInv'
    BY StreamKept
  <1> QED
    BY <1>1, <1>2, <1>3, PTL DEF StreamSpec

(* A person is told only of what they could read when it happened, or of   *)
(* what they have joined since (TellsOnlyReaders).                         *)
THEOREM OnlyReadersAreTold == StreamSpec => []TellsOnlyReaders
  <1>1. StreamInv => TellsOnlyReaders
    <2> SUFFICES ASSUME StreamInv, NEW i \in 1..Len(events), NEW k \in DOMAIN srv.out, srv.out[k].ev = i
                 PROVE  \/ events[i].readable
                        \/ \E j \in i + 1..Len(events) :
                             events[j].prop = events[i].prop /\ events[j].entity = "member" /\ ~events[j].gone
      BY DEF TellsOnlyReaders
    <2>1. k \in 1..Len(srv.out)
      BY HalfTypes DEF StreamInv, StreamTypes
    <2>2. Fit(events, owner, i, srv.out[k].final)
      BY <2>1 DEF StreamInv, Outgoing
    <2> QED
      BY <2>2 DEF Fit, JoinAt
  <1>2. StreamInit => StreamInv
    BY StreamBegins
  <1>3. StreamInv /\ [StreamNext]_streamvars => StreamInv'
    BY StreamKept
  <1> QED
    BY <1>1, <1>2, <1>3, PTL DEF StreamSpec
=============================================================================
