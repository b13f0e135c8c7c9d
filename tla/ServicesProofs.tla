--------------------------- MODULE ServicesProofs ---------------------------
(***************************************************************************)
(* Proofs about the services that run beside the board.                    *)
(*                                                                         *)
(* Integrations, for any number of requests, restores and crashes: what    *)
(* the settings answer from memory is what is stored, and a form is stored *)
(* whole; a Drive that was disconnected stays so; and a proposition is     *)
(* published as one episode, once, by one request.                         *)
(*                                                                         *)
(* Notify, for any channels, rules, hours and batches: no channel is given *)
(* a line twice, mail gets every line it asks for, and what is marked sent *)
(* has gone out; a mention goes at once, a line goes out again only for a  *)
(* fault, and nothing goes out of a row that is given up.                  *)
(***************************************************************************)
EXTENDS Integrations, Notify, TLAPS, SequenceTheorems, FiniteSetTheorems, WellFoundedInduction

Keys == Plain \union Secret

Request(q) ==
  q = [do |-> q.do, at |-> q.at, want |-> q.want, tok |-> q.tok, chosen |-> q.chosen,
       was |-> q.was, id |-> q.id, sent |-> q.sent]

Rows(t) == t = [k \in Keys |-> t[k]]

(* What a request that waits to write may write: a form both plain keys    *)
(* alike, everything else secrets only.                                    *)
Wanted(q) ==
  /\ q.at \in {"want", "cache"} => DOMAIN q.want \subseteq Keys
  /\ q.at = "want" =>
       \/ DOMAIN q.want \subseteq Secret
       \/ /\ Plain \subseteq DOMAIN q.want
          /\ q.want["show_id"] = q.want["publish_status"]
  /\ q.at = "want" /\ q.do = "disconnect" =>
       \E k \in Secret : q.want = [key \in {k} |-> None]

Typed ==
  /\ req = [r \in Requests |-> req[r]] /\ \A r \in Requests : Request(req[r])
  /\ Rows(table) /\ Rows(memory)
  /\ writing \in Requests \union {None}

Writers == \A r \in Requests : Wanted(req[r]) /\ (req[r].at = "cache" <=> writing = r)

(* Between its commit and its memory a writer holds what is missing there. *)
Agrees ==
  restoring = None =>
    /\ writing = None => memory = Shown(table)
    /\ writing # None => Over(memory, req[writing].want) = Shown(table)

SettingsInv == Typed /\ Writers /\ Agrees /\ FormsWhole
-----------------------------------------------------------------------------
LEMMA NoneAsks == None \notin Requests
  BY IntegrationsAssumption

LEMMA Nobody ==
  Request(NoRequest) /\ NoRequest.at = "idle" /\ Wanted(NoRequest)
  BY DEF NoRequest, Request, Wanted

LEMMA ShownRows ==
  ASSUME NEW t, Rows(t)
  PROVE  Rows(Shown(t)) /\ \A k \in Keys : Shown(t)[k] = IF k \in Secret THEN t[k] # None ELSE t[k]
  BY DEF Rows, Shown

LEMMA FirstRows == Rows(FirstTable) /\ FirstTable["show_id"] = FirstTable["publish_status"]
  BY DEF Rows, FirstTable, Keys, Plain, Secret

LEMMA Initially == Init => SettingsInv
  <1> SUFFICES ASSUME Init PROVE SettingsInv
    OBVIOUS
  <1>1. Typed
    BY Nobody, FirstRows, ShownRows DEF Init, Typed
  <1>2. Writers
    BY Nobody, NoneAsks DEF Init, Writers
  <1> QED
    BY <1>1, <1>2, FirstRows DEF Init, SettingsInv, Agrees, FormsWhole

(* A step of one request that is not between its commit and its memory,    *)
(* and that leaves the settings alone.                                     *)
LEMMA Elsewhere ==
  ASSUME SettingsInv, UNCHANGED store, NEW r \in Requests, NEW q,
         req' = [req EXCEPT ![r] = q], Request(q), Wanted(q),
         req[r].at # "cache", q.at # "cache"
  PROVE  SettingsInv'
  <1>1. /\ req' = [x \in Requests |-> IF x = r THEN q ELSE req[x]]
        /\ UNCHANGED <<table, memory, writing, restoring>>
    BY DEF SettingsInv, Typed, store
  <1>2. Typed'
    BY <1>1 DEF SettingsInv, Typed
  <1>3. Writers'
    BY <1>1 DEF SettingsInv, Writers
  <1>4. Agrees'
    <2>1. writing # None => writing # r /\ writing \in Requests
      BY DEF SettingsInv, Typed, Writers
    <2>2. writing # None => req'[writing] = req[writing]
      BY <1>1, <2>1
    <2> QED
      BY <1>1, <2>2 DEF SettingsInv, Agrees
  <1>5. FormsWhole'
    BY <1>1 DEF SettingsInv, FormsWhole
  <1> QED
    BY <1>2, <1>3, <1>4, <1>5 DEF SettingsInv

LEMMA Still ==
  ASSUME SettingsInv, UNCHANGED <<table, memory, writing, restoring, req>>
  PROVE  SettingsInv'
  BY DEF SettingsInv, Typed, Writers, Agrees, FormsWhole

(* The commit of a save or of a deletion: rows change, the memory waits.   *)
LEMMA Commits ==
  ASSUME SettingsInv, NEW r \in Requests, writing = None, writing' = r,
         UNCHANGED <<memory, restoring>>,
         NEW w, DOMAIN w \subseteq Keys, NEW q, Request(q), q.at = "cache", q.want = w,
         req' = [req EXCEPT ![r] = q],
         table' = [k \in Keys |-> IF k \in DOMAIN w THEN w[k] ELSE table[k]],
         FormsWhole'
  PROVE  SettingsInv'
  <1>1. req' = [x \in Requests |-> IF x = r THEN q ELSE req[x]]
    BY DEF SettingsInv, Typed
  <1>2. Typed'
    BY <1>1 DEF SettingsInv, Typed, Rows
  <1>3. Writers'
    BY <1>1, NoneAsks DEF SettingsInv, Writers, Wanted
  <1>4. Agrees'
    <2>1. SUFFICES ASSUME restoring = None
                   PROVE  Over(memory, w) = Shown(table')
      BY <1>1, NoneAsks DEF Agrees
    <2>2. memory = Shown(table) /\ Rows(table)
      BY <2>1 DEF SettingsInv, Agrees, Typed
    <2>3. Shown(w) = [k \in DOMAIN w |-> IF k \in Secret THEN w[k] # None ELSE w[k]]
      BY DEF Shown
    <2>4. Shown(table) = [k \in Keys |-> IF k \in Secret THEN table[k] # None ELSE table[k]]
      BY <2>2 DEF Shown, Rows
    <2>5. Shown(table') = [k \in Keys |-> IF k \in Secret THEN table'[k] # None ELSE table'[k]]
      BY DEF Shown
    <2> QED
      BY <2>2, <2>3, <2>4, <2>5 DEF Over, Keys, Plain, Secret
  <1> QED
    BY <1>2, <1>3, <1>4 DEF SettingsInv

(* A request after a step of it.                                           *)
Moved(o, a) == [o EXCEPT !.at = a]
Writer(o, w) == [o EXCEPT !.at = "cache", !.want = w]

LEMMA MovedIs ==
  ASSUME NEW o, Request(o), NEW a
  PROVE  /\ Request(Moved(o, a)) /\ Moved(o, a).at = a
         /\ Moved(o, a).want = o.want /\ Moved(o, a).do = o.do
         /\ Moved(o, a).was = o.was /\ Moved(o, a).id = o.id /\ Moved(o, a).tok = o.tok
  <1> DEFINE q == Moved(o, a)
  <1>1. q = [o EXCEPT !.at = a]
    BY DEF Moved
  <1> HIDE DEF q
  <1>2. q = [do |-> o.do, at |-> a, want |-> o.want, tok |-> o.tok, chosen |-> o.chosen,
             was |-> o.was, id |-> o.id, sent |-> o.sent]
    BY <1>1 DEF Request
  <1>3. /\ Request(q) /\ q.at = a /\ q.want = o.want /\ q.do = o.do
        /\ q.was = o.was /\ q.id = o.id /\ q.tok = o.tok
    BY <1>2 DEF Request
  <1> QED
    BY <1>3 DEF q

LEMMA WriterIs ==
  ASSUME NEW o, Request(o), NEW w
  PROVE  Request(Writer(o, w)) /\ Writer(o, w).at = "cache" /\ Writer(o, w).want = w
  <1> DEFINE q == Writer(o, w)
  <1>1. q = [o EXCEPT !.at = "cache", !.want = w]
    BY DEF Writer
  <1> HIDE DEF q
  <1>2. q = [do |-> o.do, at |-> "cache", want |-> w, tok |-> o.tok, chosen |-> o.chosen,
             was |-> o.was, id |-> o.id, sent |-> o.sent]
    BY <1>1 DEF Request
  <1>3. Request(q) /\ q.at = "cache" /\ q.want = w
    BY <1>2 DEF Request
  <1> QED
    BY <1>3 DEF q

LEMMA Writing ==
  ASSUME SettingsInv, NEW r \in Requests, Commit(r) \/ Delete(r)
  PROVE  SettingsInv'
  <1>1. /\ writing = None /\ writing' = r /\ UNCHANGED <<memory, restoring>>
        /\ req[r].at = "want" /\ Rows(table) /\ Request(req[r]) /\ Wanted(req[r])
        /\ DOMAIN table = Keys /\ FormsWhole /\ req = [x \in Requests |-> req[x]]
    BY DEF Commit, Delete, Saves, Takes, SettingsInv, Typed, Writers, Rows
  <1>2. CASE Commit(r)
    <2> DEFINE keys == Applied(req[r].want)
    <2> DEFINE w == Restrict(req[r].want, keys)
    <2> DEFINE q == Writer(req[r], w)
    <2>1. /\ keys \subseteq DOMAIN req[r].want /\ DOMAIN req[r].want \subseteq Keys
          /\ \A k \in Plain : k \in DOMAIN req[r].want /\ k \notin keys
                              => table[k] = req[r].want[k]
      BY <1>1 DEF Applied, Wanted, Secret, Plain
    <2>2. /\ table' = [k \in Keys |-> IF k \in keys THEN req[r].want[k] ELSE table[k]]
          /\ req' = [req EXCEPT ![r] = q]
      BY <1>1, <1>2 DEF Commit, Writer
    <2> HIDE DEF keys
    <2>3. DOMAIN w = keys /\ (\A k \in keys : w[k] = req[r].want[k]) /\ DOMAIN w \subseteq Keys
      BY <2>1 DEF Restrict
    <2> HIDE DEF w
    <2>4. Request(q) /\ q.at = "cache" /\ q.want = w
      BY <1>1, WriterIs
    <2> HIDE DEF q
    <2>5. table' = [k \in Keys |-> IF k \in DOMAIN w THEN w[k] ELSE table[k]]
      BY <2>2, <2>3
    <2>6. FormsWhole'
      BY <1>1, <2>1, <2>2 DEF FormsWhole, Wanted, Keys, Plain, Secret
    <2> QED
      BY <1>1, <2>2, <2>3, <2>4, <2>5, <2>6, Commits
  <1>3. CASE Delete(r)
    <2> DEFINE q == Moved(req[r], "cache")
    <2>1. /\ req[r].do = "disconnect" /\ req' = [req EXCEPT ![r] = q]
          /\ \E k \in DOMAIN req[r].want : table' = [table EXCEPT ![k] = None]
      BY <1>3 DEF Delete, Goes, Moved
    <2>2. PICK k \in Secret : req[r].want = [key \in {k} |-> None]
      BY <1>1, <2>1 DEF Wanted
    <2> DEFINE w == [key \in {k} |-> None]
    <2>3. Request(q) /\ q.at = "cache" /\ q.want = w
      BY <1>1, <2>2, MovedIs
    <2> HIDE DEF q
    <2>4. table' = [table EXCEPT ![k] = None]
      BY <2>1, <2>2
    <2>5. table' = [x \in Keys |-> IF x \in DOMAIN w THEN w[x] ELSE table[x]]
      BY <1>1, <2>4
    <2>6. FormsWhole'
      BY <1>1, <2>2, <2>4 DEF FormsWhole, Keys, Plain, Secret
    <2>7. DOMAIN w \subseteq Keys /\ q.want = w /\ req' = [req EXCEPT ![r] = q]
      BY <2>1, <2>3 DEF Keys
    <2> HIDE DEF w
    <2> QED
      BY <1>1, <2>3, <2>5, <2>6, <2>7, Commits
  <1> QED
    BY <1>2, <1>3

(* The end of a write: the memory has it, and nobody is writing.           *)
LEMMA Caching ==
  ASSUME SettingsInv, NEW r \in Requests, Cache(r)
  PROVE  SettingsInv'
  <1>1. /\ req[r].at = "cache" /\ writing = r /\ writing' = None
        /\ memory' = Over(memory, req[r].want) /\ UNCHANGED <<table, restoring>>
        /\ req' = [x \in Requests |-> IF x = r THEN NoRequest ELSE req[x]]
    BY DEF Cache, Answers, Ends, SettingsInv, Typed, Writers
  <1>2. Typed'
    BY <1>1, Nobody DEF SettingsInv, Typed, Rows, Over
  <1>3. Writers'
    BY <1>1, Nobody, NoneAsks DEF SettingsInv, Writers
  <1>4. Agrees'
    BY <1>1, NoneAsks DEF SettingsInv, Agrees
  <1>5. FormsWhole'
    BY <1>1 DEF SettingsInv, FormsWhole
  <1> QED
    BY <1>2, <1>3, <1>4, <1>5 DEF SettingsInv

(* A request that waits to write one secret.                               *)
One(k, v) == [key \in {k} |-> v]

Secretly(k, v, do) == [Holds(k, v) EXCEPT !.do = do]

LEMMA SecretlyIs ==
  ASSUME NEW k, NEW v, NEW do
  PROVE  /\ Request(Secretly(k, v, do)) /\ Secretly(k, v, do).at = "want"
         /\ Secretly(k, v, do).do = do /\ Secretly(k, v, do).want = One(k, v)
  <1> DEFINE h == Holds(k, v)
  <1> DEFINE w == One(k, v)
  <1> DEFINE q == Secretly(k, v, do)
  <1>1. h = [NoRequest EXCEPT !.at = "want", !.want = w]
    BY DEF Holds, One
  <1>2. q = [h EXCEPT !.do = do]
    BY DEF Secretly
  <1> HIDE DEF w, h, q
  <1>3. h = [do |-> NoRequest.do, at |-> "want", want |-> w, tok |-> NoRequest.tok,
             chosen |-> NoRequest.chosen, was |-> NoRequest.was, id |-> NoRequest.id,
             sent |-> NoRequest.sent]
    BY <1>1, Nobody DEF Request
  <1>4. q = [do |-> do, at |-> "want", want |-> w, tok |-> NoRequest.tok,
             chosen |-> NoRequest.chosen, was |-> NoRequest.was, id |-> NoRequest.id,
             sent |-> NoRequest.sent]
    BY <1>2, <1>3
  <1>5. Request(q) /\ q.at = "want" /\ q.do = do /\ q.want = w
    BY <1>4 DEF Request
  <1> QED
    BY <1>5 DEF q, w

(* What a request is when it begins.                                       *)
Asked(q) ==
  \/ q = NoRequest
  \/ /\ q.at = "want" /\ q.do = "form"
     /\ Plain \subseteq DOMAIN q.want /\ DOMAIN q.want \subseteq Keys \ {"token"}
     /\ q.want["show_id"] = q.want["publish_status"]
  \/ q.at = "want" /\ q.do = "disconnect" /\ \E k \in Secret : q.want = One(k, None)
  \/ q.at = "configure" /\ q.do \in ToDrive /\ q.tok = table["token"]
  \/ q.at = "choose" /\ q.do \in {"save", "publish"}

LEMMA AskIs ==
  ASSUME NEW r \in Requests, Ask(r)
  PROVE  /\ \E q : Begins(r, q) /\ Request(q) /\ Asked(q)
         /\ UNCHANGED <<store, drive, driving, connections, choice, episode, publishing,
                        episodes, missed>>
  <1>1. CASE PostSettings(r)
    <2>1. PICK v \in 0..1, keys \in {Plain, Plain \union {"api_key"}} :
            Begins(r, [NoRequest EXCEPT !.do = "form", !.at = "want", !.want = [k \in keys |-> v]])
      BY <1>1 DEF PostSettings
    <2> DEFINE w == [k \in keys |-> v]
    <2> DEFINE q == [NoRequest EXCEPT !.do = "form", !.at = "want", !.want = w]
    <2>2. /\ DOMAIN w \subseteq Keys \ {"token"} /\ Plain \subseteq DOMAIN w
          /\ w["show_id"] = w["publish_status"]
      BY <2>1 DEF Keys, Plain, Secret
    <2>3. Begins(r, q)
      BY <2>1
    <2>4. q = [NoRequest EXCEPT !.do = "form", !.at = "want", !.want = w]
      OBVIOUS
    <2> HIDE DEF w, q
    <2>5. q = [do |-> "form", at |-> "want", want |-> w, tok |-> NoRequest.tok,
               chosen |-> NoRequest.chosen, was |-> NoRequest.was, id |-> NoRequest.id,
               sent |-> NoRequest.sent]
      BY <2>4, Nobody DEF Request
    <2>6. Request(q) /\ q.at = "want" /\ q.do = "form" /\ q.want = w
      BY <2>5 DEF Request
    <2> QED
      BY <1>1, <2>2, <2>3, <2>6 DEF Asked, PostSettings, driven, published
  <1>2. CASE Disconnect(r)
    <2>1. PICK k \in Secret : Begins(r, [Holds(k, None) EXCEPT !.do = "disconnect"])
      BY <1>2 DEF Disconnect
    <2> DEFINE q == Secretly(k, None, "disconnect")
    <2>2. Request(q) /\ q.at = "want" /\ q.do = "disconnect" /\ q.want = One(k, None)
      BY SecretlyIs
    <2>3. Begins(r, q)
      BY <2>1 DEF Secretly
    <2> HIDE DEF q
    <2> QED
      BY <1>2, <2>2, <2>3 DEF Asked, Disconnect, driven, published
  <1>3. CASE BeginDrive(r)
    <2>1. PICK what \in ToDrive :
            Begins(r, [NoRequest EXCEPT !.do = what, !.at = "configure", !.tok = table["token"]])
      BY <1>3 DEF BeginDrive
    <2> DEFINE q == [NoRequest EXCEPT !.do = what, !.at = "configure", !.tok = table["token"]]
    <2>2. q = [NoRequest EXCEPT !.do = what, !.at = "configure", !.tok = table["token"]]
      OBVIOUS
    <2>3. Begins(r, q)
      BY <2>1
    <2> HIDE DEF q
    <2>4. q = [do |-> what, at |-> "configure", want |-> NoRequest.want, tok |-> table["token"],
               chosen |-> NoRequest.chosen, was |-> NoRequest.was, id |-> NoRequest.id,
               sent |-> NoRequest.sent]
      BY <2>2, Nobody DEF Request
    <2>5. Request(q) /\ q.at = "configure" /\ q.do = what /\ q.tok = table["token"]
      BY <2>4 DEF Request
    <2> QED
      BY <1>3, <2>3, <2>5 DEF Asked, BeginDrive, published
  <1>4. CASE PostPublish(r)
    <2>1. PICK c, what : /\ what \in {"save", "publish"}
                             /\ Begins(r, [NoRequest EXCEPT !.do = what, !.at = "choose",
                                                            !.chosen = c])
      BY <1>4 DEF PostPublish
    <2> DEFINE q == [NoRequest EXCEPT !.do = what, !.at = "choose", !.chosen = c]
    <2>2. q = [NoRequest EXCEPT !.do = what, !.at = "choose", !.chosen = c]
      OBVIOUS
    <2>3. Begins(r, q)
      BY <2>1
    <2> HIDE DEF q
    <2>4. q = [do |-> what, at |-> "choose", want |-> NoRequest.want, tok |-> NoRequest.tok,
               chosen |-> c, was |-> NoRequest.was, id |-> NoRequest.id,
               sent |-> NoRequest.sent]
      BY <2>2, Nobody DEF Request
    <2>5. Request(q) /\ q.at = "choose" /\ q.do = what
      BY <2>4 DEF Request
    <2> QED
      BY <1>4, <2>1, <2>3, <2>5 DEF Asked, PostPublish, driven, published
  <1>5. CASE TestTransistor(r)
    BY <1>5, Nobody DEF TestTransistor, Asked, driven
  <1> QED
    BY <1>1, <1>2, <1>3, <1>4, <1>5 DEF Ask

LEMMA Asking ==
  ASSUME SettingsInv, NEW r \in Requests, Ask(r)
  PROVE  SettingsInv'
  <1>1. PICK q : Begins(r, q) /\ Request(q) /\ Asked(q)
    BY AskIs
  <1>2. UNCHANGED store /\ req[r].at # "cache" /\ req' = [req EXCEPT ![r] = q]
    BY <1>1, AskIs, Nobody DEF Begins
  <1>3. Wanted(q) /\ q.at # "cache"
    BY <1>1, Nobody DEF Asked, Wanted, One, Keys
  <1> QED
    BY <1>1, <1>2, <1>3, Elsewhere

LEMMA Serving ==
  ASSUME SettingsInv, NEW r \in Requests,
         \/ NoCommit(r) \/ Configure(r) \/ Access(r) \/ Renew(r) \/ Exchange(r)
         \/ SaveChoice(r) \/ BeginPublish(r) \/ Send(r) \/ Release(r)
         \/ RecordEpisode(r) \/ SaveShare(r)
  PROVE  SettingsInv'
  <1>1. /\ Request(req[r]) /\ UNCHANGED store
        /\ req[r].at # "cache" /\ req = [x \in Requests |-> req[x]]
    BY DEF SettingsInv, Typed, NoCommit, Takes, Configure, Access, Renew, Exchange, SaveChoice,
           BeginPublish, Send, Release, RecordEpisode, SaveShare, Rest
  <1>2. ASSUME NEW q, req' = [req EXCEPT ![r] = q], Request(q), q.at \notin {"want", "cache"}
        PROVE  SettingsInv'
    BY <1>1, <1>2, Elsewhere DEF Wanted
  <1>3. ASSUME Ends(r) PROVE SettingsInv'
    BY <1>2, <1>3, Nobody DEF Ends
  <1>4. ASSUME NEW a, Goes(r, a), a \notin {"want", "cache"} PROVE SettingsInv'
    <2>1. req' = [req EXCEPT ![r] = Moved(req[r], a)]
      BY <1>1, <1>4 DEF Goes, Moved
    <2> QED
      BY <1>1, <1>2, <1>4, <2>1, MovedIs
  <1>5. ASSUME NEW t, NEW do \in {"use", "callback"},
               req' = [req EXCEPT ![r] = [Holds("token", t) EXCEPT !.do = do]]
        PROVE  SettingsInv'
    <2> DEFINE w == One("token", t)
    <2> DEFINE q == Secretly("token", t, do)
    <2>2. Request(q) /\ q.at = "want" /\ q.do = do /\ q.want = w
      BY SecretlyIs
    <2>3. DOMAIN w \subseteq Secret /\ DOMAIN w \subseteq Keys
      BY DEF Keys, Secret, One
    <2>4. req' = [req EXCEPT ![r] = q]
      BY <1>5 DEF Secretly
    <2> HIDE DEF w, q
    <2> QED
      BY <1>1, <2>2, <2>3, <2>4, Elsewhere DEF Wanted
  <1>6. CASE NoCommit(r) \/ SaveShare(r)
    BY <1>3, <1>6 DEF NoCommit, Answers, SaveShare, GivesUp
  <1>7. CASE Configure(r)
    BY <1>3, <1>4, <1>7 DEF Configure
  <1>8. CASE Access(r)
    BY <1>3, <1>4, <1>8 DEF Access
  <1>9. CASE Renew(r)
    BY <1>3, <1>5, <1>9 DEF Renew, Answers
  <1>10. CASE Exchange(r)
    BY <1>3, <1>5, <1>10 DEF Exchange
  <1>11. CASE SaveChoice(r)
    BY <1>3, <1>4, <1>11 DEF SaveChoice
  <1>12. CASE BeginPublish(r)
    <2>1. \/ Ends(r)
          \/ req' = [req EXCEPT ![r].at = "send", ![r].was = episode]
      BY <1>12 DEF BeginPublish, Unready
    <2> DEFINE q == [req[r] EXCEPT !.at = "send", !.was = episode]
    <2>2. ASSUME ~Ends(r) PROVE req' = [req EXCEPT ![r] = q]
      BY <1>1, <2>1, <2>2
    <2>3. q = [req[r] EXCEPT !.at = "send", !.was = episode]
      OBVIOUS
    <2> HIDE DEF q
    <2>4. q = [do |-> req[r].do, at |-> "send", want |-> req[r].want, tok |-> req[r].tok,
               chosen |-> req[r].chosen, was |-> episode, id |-> req[r].id, sent |-> req[r].sent]
      BY <1>1, <2>3 DEF Request
    <2>5. Request(q) /\ q.at = "send"
      BY <2>4 DEF Request
    <2> QED
      BY <1>2, <1>3, <2>2, <2>5
  <1>13. CASE Send(r)
    <2> DEFINE e == IF req[r].was = None THEN Len(episodes) + 1 ELSE req[r].was
    <2> DEFINE a == IF episodes'[e].live THEN "record" ELSE "release"
    <2> DEFINE l == episodes'[e].live
    <2> DEFINE q == [req[r] EXCEPT !.id = e, !.sent = l, !.at = a]
    <2>1. Ends(r) \/ req' = [req EXCEPT ![r].id = e, ![r].sent = l, ![r].at = a]
      BY <1>13 DEF Send, GivesUp
    <2>2. a \notin {"want", "cache"}
      OBVIOUS
    <2> HIDE DEF e, a, l
    <2>3. ASSUME ~Ends(r) PROVE req' = [req EXCEPT ![r] = q]
      BY <1>1, <2>1, <2>3
    <2>4. q = [req[r] EXCEPT !.id = e, !.sent = l, !.at = a]
      OBVIOUS
    <2> HIDE DEF q
    <2>5. q = [do |-> req[r].do, at |-> a, want |-> req[r].want, tok |-> req[r].tok,
               chosen |-> req[r].chosen, was |-> req[r].was, id |-> e, sent |-> l]
      BY <1>1, <2>4 DEF Request
    <2>6. Request(q) /\ q.at = a
      BY <2>5 DEF Request
    <2> QED
      BY <1>2, <1>3, <2>2, <2>3, <2>6
  <1>14. CASE Release(r)
    <2>1. Goes(r, "record") \/ \E heard : req' = [req EXCEPT ![r].at = "record", ![r].sent = heard]
      BY <1>14 DEF Release
    <2>2. ASSUME NEW heard, req' = [req EXCEPT ![r].at = "record", ![r].sent = heard]
          PROVE  SettingsInv'
      <3> DEFINE q == [req[r] EXCEPT !.at = "record", !.sent = heard]
      <3>1. req' = [req EXCEPT ![r] = q]
        BY <1>1, <2>2
      <3>2. q = [req[r] EXCEPT !.at = "record", !.sent = heard]
        OBVIOUS
      <3> HIDE DEF q
      <3>3. q = [do |-> req[r].do, at |-> "record", want |-> req[r].want, tok |-> req[r].tok,
                 chosen |-> req[r].chosen, was |-> req[r].was, id |-> req[r].id, sent |-> heard]
        BY <1>1, <3>2 DEF Request
      <3>4. Request(q) /\ q.at = "record"
        BY <3>3 DEF Request
      <3> QED
        BY <1>2, <3>1, <3>4
    <2> QED
      BY <1>4, <2>1, <2>2
  <1>15. CASE RecordEpisode(r)
    BY <1>3, <1>4, <1>15 DEF RecordEpisode, GivesUp
  <1> QED
    BY <1>6, <1>7, <1>8, <1>9, <1>10, <1>11, <1>12, <1>13, <1>14, <1>15
-----------------------------------------------------------------------------
(* The rows go back under whatever is on its way, or the process dies.     *)
LEMMA Upsets ==
  ASSUME SettingsInv, Swap \/ Reload \/ Crash \/ Hour \/ UNCHANGED vars
  PROVE  SettingsInv'
  <1>1. CASE Swap
    <2>1. restoring' # None
      BY <1>1, IntegrationsAssumption DEF Swap
    <2> QED
      BY <1>1, <2>1, FirstRows DEF Swap, SettingsInv, Typed, Writers, Agrees, FormsWhole
  <1>2. CASE Reload
    <2>1. /\ UNCHANGED <<table, writing, req>>
          /\ \/ writing = None /\ memory' = Shown(table)
             \/ restoring' # None /\ memory' = memory
      BY <1>2, IntegrationsAssumption DEF Reload
    <2>2. Typed' /\ Writers' /\ FormsWhole'
      BY <2>1, ShownRows DEF SettingsInv, Typed, Writers, FormsWhole
    <2>3. Agrees'
      BY <2>1 DEF Agrees
    <2> QED
      BY <2>2, <2>3 DEF SettingsInv
  <1>3. CASE Crash
    <2>1. /\ table' = table /\ memory' = Shown(table) /\ writing' = None
          /\ req' = [r \in Requests |-> NoRequest]
      BY <1>3 DEF Crash
    <2>2. Typed' /\ Writers'
      BY <2>1, ShownRows, Nobody, NoneAsks DEF SettingsInv, Typed, Writers
    <2> QED
      BY <2>1, <2>2 DEF SettingsInv, Agrees, FormsWhole
  <1>4. CASE Hour \/ UNCHANGED vars
    BY <1>4, Still DEF Hour, vars, store
  <1> QED
    BY <1>1, <1>2, <1>3, <1>4

LEMMA Steps == SettingsInv /\ [Next]_vars => SettingsInv'
  BY Writing, Caching, Serving, Asking, Upsets DEF Next, Serve

(* For any number of requests: when nobody is writing and no restore is    *)
(* unfinished the settings in memory are the rows, and the rows of a form  *)
(* are of one form.                                                        *)
THEOREM SettingsHold == Spec => []SettingsAgree
  <1>1. SettingsInv => SettingsAgree
    BY DEF SettingsInv, Agrees, SettingsAgree, MemoryAgrees, FormsWhole
  <1> QED
    BY Initially, Steps, <1>1, PTL DEF Spec
-----------------------------------------------------------------------------
(* Google Drive.  A token is of a connection that has not been closed; the *)
(* instance may hold a stale one, but no request that is past Configure    *)
(* finds it.                                                               *)
Current(t) == t # None => t.n \in Nat /\ t.n > closed

Driven(q) ==
  /\ q.at \in {"configure", "access", "renew", "exchange"} => q.do \in ToDrive
  /\ q.at = "configure" => Current(q.tok)
  /\ q.at = "want" /\ q.do # "disconnect" /\ "token" \in DOMAIN q.want =>
       q.do \in ToDrive /\ Current(q.want["token"])

DriveInv ==
  /\ connections \in Nat /\ closed \in Nat /\ closed <= connections
  /\ Current(table["token"])
  /\ \A r \in Requests :
       /\ Driven(req[r])
       /\ req[r].at \in {"access", "renew"} => Current(drive)
       /\ req[r].at = "renew" => driving = r /\ drive # None

LEMMA NobodyDrives == Driven(NoRequest) /\ NoRequest.do \notin ToDrive
  BY DEF Driven, NoRequest, ToDrive

LEMMA DrivesFirst == Init => DriveInv
  <1> SUFFICES ASSUME Init PROVE DriveInv
    OBVIOUS
  <1>1. Current(FirstTable["token"])
    BY DEF Init, Current, FirstTable, Plain, Secret
  <1> QED
    BY <1>1, NobodyDrives, Nobody DEF Init, DriveInv

(* A step of one request that closes nothing and finds the instance as it  *)
(* was, or sets it while no other request holds the lock.                  *)
LEMMA Drives ==
  ASSUME SettingsInv, DriveInv, NEW r \in Requests, NEW q,
         req' = [req EXCEPT ![r] = q], Driven(q),
         UNCHANGED closed, connections' \in Nat, connections' >= connections,
         Current(table'["token"]),
         q.at = "access" => Current(drive'),
         q.at = "renew" => Current(drive') /\ drive' # None /\ driving' = r,
         \/ UNCHANGED drive /\ (driving \in {None, r} \/ UNCHANGED driving)
         \/ Current(drive') /\ driving \in {None, r}
  PROVE  DriveInv'
  <1>1. req' = [x \in Requests |-> IF x = r THEN q ELSE req[x]]
    BY DEF SettingsInv, Typed
  <1>2. ASSUME NEW x \in Requests, x # r
        PROVE  /\ Driven(req[x])' /\ (req'[x].at \in {"access", "renew"} => Current(drive)')
               /\ (req'[x].at = "renew" => driving' = x /\ drive' # None)
    BY <1>1, <1>2, NoneAsks DEF DriveInv, Driven, Current
  <1>3. /\ Driven(req[r])' /\ (req'[r].at \in {"access", "renew"} => Current(drive)')
        /\ (req'[r].at = "renew" => driving' = r /\ drive' # None)
    BY <1>1 DEF Driven, Current
  <1> QED
    BY <1>1, <1>2, <1>3 DEF DriveInv, Current

LEMMA AskingDrive ==
  ASSUME SettingsInv, DriveInv, NEW r \in Requests, Ask(r)
  PROVE  DriveInv'
  <1>1. PICK q : Begins(r, q) /\ Request(q) /\ Asked(q)
    BY AskIs
  <1>2. /\ req[r] = NoRequest /\ UNCHANGED <<table, drive, driving, connections>>
        /\ req' = [req EXCEPT ![r] = q]
    BY <1>1, AskIs DEF Begins, store
  <1>3. Driven(q) /\ q.at \notin {"access", "renew"}
    BY <1>1, NobodyDrives, Nobody DEF Asked, Driven, One, DriveInv, ToDrive, Secret
  <1>4. CASE UNCHANGED closed
    <2>1. connections' \in Nat /\ connections' >= connections /\ Current(table'["token"])
      BY <1>2 DEF DriveInv
    <2> QED
      BY <1>2, <1>3, <1>4, <2>1, Drives
  (* Nothing is stored and nobody is on the way to Drive, and the request  *)
  (* that begins holds no token.                                           *)
  <1>5. CASE ~UNCHANGED closed
    <2>1. BeginDrive(r)
      BY <1>5 DEF Ask, PostSettings, Disconnect, PostPublish, TestTransistor, driven
    <2>2. /\ closed' = connections /\ table["token"] = None
          /\ \A x \in Requests : req[x].do \notin ToDrive
      BY <1>5, <2>1 DEF BeginDrive
    <2>3. q.tok = None /\ q.at = "configure" /\ q.do \in ToDrive
      <3>1. PICK what \in ToDrive :
            Begins(r, [NoRequest EXCEPT !.do = what, !.at = "configure", !.tok = table["token"]])
        BY <2>1 DEF BeginDrive
      <3>2. q = [NoRequest EXCEPT !.do = what, !.at = "configure", !.tok = table["token"]]
        BY <1>2, <3>1 DEF Begins, SettingsInv, Typed
      <3> QED
        BY <2>2, <3>2, Nobody DEF Request
    <2>4. req' = [x \in Requests |-> IF x = r THEN q ELSE req[x]]
      BY <1>2 DEF SettingsInv, Typed
    <2>5. ASSUME NEW x \in Requests, x # r
          PROVE  Driven(req[x])' /\ req'[x].at \notin {"access", "renew"}
      BY <2>2, <2>4, <2>5 DEF DriveInv, Driven
    <2>6. Driven(req[r])' /\ req'[r].at \notin {"access", "renew"}
      BY <2>3, <2>4 DEF Driven, Current
    <2> QED
      BY <1>2, <2>2, <2>5, <2>6 DEF DriveInv, Current
  <1> QED
    BY <1>4, <1>5

LEMMA WantsIs ==
  ASSUME NEW t, NEW do
  PROVE  /\ [Holds("token", t) EXCEPT !.do = do] = Secretly("token", t, do)
         /\ Secretly("token", t, do).want["token"] = t
  <1>1. [Holds("token", t) EXCEPT !.do = do] = Secretly("token", t, do)
    BY Zenon DEF Secretly
  <1>2. Secretly("token", t, do).want = One("token", t)
    BY SecretlyIs
  <1>3. One("token", t)["token"] = t
    BY DEF One
  <1> QED
    BY <1>1, <1>2, <1>3

(* What a publication makes of its request.                                *)
Publishing == {"begin", "send", "release", "record", "share"}
Readied(o, was) == [o EXCEPT !.at = "send", !.was = was]
Drafted(o, e, l, a) == [o EXCEPT !.id = e, !.sent = l, !.at = a]
Told(o, l) == [o EXCEPT !.at = "record", !.sent = l]

LEMMA PublisherIs ==
  ASSUME NEW o, Request(o), NEW was, NEW e, NEW l, NEW a
  PROVE  /\ Request(Readied(o, was)) /\ Readied(o, was).at = "send" /\ Readied(o, was).was = was
         /\ Request(Drafted(o, e, l, a)) /\ Drafted(o, e, l, a).at = a
         /\ Drafted(o, e, l, a).id = e /\ Drafted(o, e, l, a).was = o.was
         /\ Request(Told(o, l)) /\ Told(o, l).at = "record" /\ Told(o, l).was = o.was
         /\ Told(o, l).id = o.id
  <1> DEFINE x == Readied(o, was)
  <1> DEFINE y == Drafted(o, e, l, a)
  <1> DEFINE z == Told(o, l)
  <1>1. /\ x = [o EXCEPT !.at = "send", !.was = was]
        /\ y = [o EXCEPT !.id = e, !.sent = l, !.at = a]
        /\ z = [o EXCEPT !.at = "record", !.sent = l]
    BY DEF Readied, Drafted, Told
  <1> HIDE DEF x, y, z
  <1>2. /\ x = [do |-> o.do, at |-> "send", want |-> o.want, tok |-> o.tok, chosen |-> o.chosen,
                was |-> was, id |-> o.id, sent |-> o.sent]
        /\ y = [do |-> o.do, at |-> a, want |-> o.want, tok |-> o.tok, chosen |-> o.chosen,
                was |-> o.was, id |-> e, sent |-> l]
        /\ z = [do |-> o.do, at |-> "record", want |-> o.want, tok |-> o.tok, chosen |-> o.chosen,
                was |-> o.was, id |-> o.id, sent |-> l]
    BY <1>1 DEF Request
  <1>3. Request(x) /\ x.at = "send" /\ x.was = was
    BY <1>2 DEF Request
  <1>4. Request(y) /\ y.at = a /\ y.id = e /\ y.was = o.was
    BY <1>2 DEF Request
  <1>5. Request(z) /\ z.at = "record" /\ z.was = o.was /\ z.id = o.id
    BY <1>2 DEF Request
  <1> QED
    BY <1>3, <1>4, <1>5 DEF x, y, z

(* Every step of a publication ends its request or moves it on.            *)
LEMMA PublishesIs ==
  ASSUME NEW r \in Requests, Request(req[r]), req = [x \in Requests |-> req[x]],
         SaveChoice(r) \/ BeginPublish(r) \/ Send(r) \/ Release(r) \/ RecordEpisode(r)
         \/ SaveShare(r)
  PROVE  \E q : /\ req' = [req EXCEPT ![r] = q] /\ Request(q)
                /\ (q = NoRequest \/ q.at \in Publishing)
  <1>1. ASSUME Ends(r) PROVE req' = [req EXCEPT ![r] = NoRequest] /\ Request(NoRequest)
    BY <1>1, Nobody DEF Ends
  <1>2. ASSUME NEW a \in Publishing, Goes(r, a)
        PROVE  LET q == Moved(req[r], a)
               IN  req' = [req EXCEPT ![r] = q] /\ Request(q) /\ q.at \in Publishing
    BY <1>2, MovedIs DEF Goes, Moved
  <1>3. CASE Ends(r) \/ \E a \in Publishing : Goes(r, a)
    BY <1>1, <1>2, <1>3
  <1>4. CASE BeginPublish(r) /\ ~Ends(r)
    <2> DEFINE q == Readied(req[r], episode)
    <2>1. req' = [req EXCEPT ![r] = q]
      BY <1>4 DEF BeginPublish, Unready, Readied
    <2>2. Request(q) /\ q.at \in Publishing
      BY PublisherIs DEF Publishing
    <2> HIDE DEF q
    <2> QED
      BY <2>1, <2>2
  <1>5. CASE Send(r) /\ ~Ends(r)
    <2> DEFINE e == IF req[r].was = None THEN Len(episodes) + 1 ELSE req[r].was
    <2> DEFINE l == episodes'[e].live
    <2> DEFINE a == IF l THEN "record" ELSE "release"
    <2> DEFINE q == Drafted(req[r], e, l, a)
    <2>1. req' = [req EXCEPT ![r] = q]
      BY <1>5 DEF Send, GivesUp, Drafted
    <2>2. a \in Publishing
      BY DEF Publishing
    <2> HIDE DEF e, l, a
    <2>3. Request(q) /\ q.at \in Publishing
      BY <2>2, PublisherIs
    <2> HIDE DEF q
    <2> QED
      BY <2>1, <2>3
  <1>6. CASE Release(r) /\ ~Goes(r, "record")
    <2>1. PICK l : req' = [req EXCEPT ![r] = Told(req[r], l)]
      BY <1>6 DEF Release, Told
    <2> DEFINE q == Told(req[r], l)
    <2>2. Request(q) /\ q.at \in Publishing
      BY PublisherIs DEF Publishing
    <2>3. req' = [req EXCEPT ![r] = q]
      BY <2>1
    <2> HIDE DEF q
    <2> QED
      BY <2>2, <2>3
  <1> QED
    BY <1>3, <1>4, <1>5, <1>6
       DEF SaveChoice, RecordEpisode, SaveShare, GivesUp, Publishing

LEMMA ServingDrive ==
  ASSUME SettingsInv, DriveInv, NEW r \in Requests, Serve(r)
  PROVE  DriveInv'
  <1>1. /\ Request(req[r]) /\ req = [x \in Requests |-> req[x]] /\ Rows(table)
        /\ Driven(req[r]) /\ connections \in Nat /\ closed \in Nat /\ closed <= connections
        /\ Current(table["token"]) /\ closed' = closed
    BY DEF SettingsInv, Typed, DriveInv, Serve, Commit, Delete, NoCommit, Cache, Configure, Access,
           Renew, Exchange, SaveChoice, BeginPublish, Send, Release, RecordEpisode, SaveShare,
           Rest, driven
  (* Steps that leave Drive alone, and the end of a request.               *)
  <1>2. ASSUME NEW q, req' = [req EXCEPT ![r] = q], Driven(q), q.at \notin {"access", "renew"},
               UNCHANGED <<drive, connections>>, Current(table'["token"]),
               driving \in {None, r} \/ UNCHANGED driving
        PROVE  DriveInv'
    BY <1>1, <1>2, Drives
  <1>3. ASSUME Ends(r), UNCHANGED <<drive, connections, driving, table>>
        PROVE  DriveInv'
    BY <1>1, <1>2, <1>3, NobodyDrives, Nobody DEF Ends
  <1>4. ASSUME Answers(r), UNCHANGED <<drive, connections, table>>
        PROVE  DriveInv'
    BY <1>1, <1>2, <1>4, NobodyDrives, Nobody DEF Answers, Ends
  <1>5. ASSUME NEW a, Goes(r, a)
        PROVE  LET q == Moved(req[r], a)
               IN  req' = [req EXCEPT ![r] = q] /\ q.at = a /\ q.do = req[r].do
                   /\ q.want = req[r].want
    BY <1>1, <1>5, MovedIs DEF Goes, Moved
  <1>6. CASE Commit(r)
    <2> DEFINE keys == Applied(req[r].want)
    <2> DEFINE q == Writer(req[r], Restrict(req[r].want, keys))
    <2>1. /\ keys \subseteq DOMAIN req[r].want /\ req[r].at = "want" /\ req[r].do # "disconnect"
          /\ req' = [req EXCEPT ![r] = q] /\ UNCHANGED <<drive, connections, driving>>
          /\ table' = [k \in Keys |-> IF k \in keys THEN req[r].want[k] ELSE table[k]]
      BY <1>1, <1>6 DEF Commit, Saves, Takes, Applied, Writer, driven, Rows
    <2> HIDE DEF keys
    <2>2. q.at = "cache"
      BY <1>1, WriterIs
    <2> HIDE DEF q
    <2>3. Driven(q) /\ Current(table'["token"])
      BY <1>1, <2>1, <2>2 DEF Driven, Keys, Secret
    <2> QED
      BY <1>2, <2>1, <2>2, <2>3
  <1>7. CASE Delete(r)
    <2>1. /\ UNCHANGED <<drive, connections, driving>> /\ Goes(r, "cache")
          /\ \E k \in DOMAIN req[r].want : table' = [table EXCEPT ![k] = None]
      BY <1>7 DEF Delete, driven
    <2>2. Current(table'["token"])
      BY <1>1, <2>1 DEF Current, Rows, Keys, Secret
    <2>3. Driven(Moved(req[r], "cache")) /\ Moved(req[r], "cache").at = "cache"
      BY <1>1, MovedIs DEF Driven
    <2> QED
      BY <1>2, <1>5, <2>1, <2>2, <2>3
  <1>8. CASE NoCommit(r) \/ Cache(r)
    BY <1>4, <1>8 DEF NoCommit, Cache, store
  <1>9. CASE Configure(r)
    <2>1. /\ req[r].at = "configure" /\ driving = None /\ drive' = req[r].tok
          /\ UNCHANGED <<table, driving, connections>> /\ Current(drive')
          /\ Ends(r) \/ Goes(r, "exchange") \/ Goes(r, "access")
      BY <1>1, <1>9 DEF Configure, Driven, store
    <2>2. ASSUME NEW q, req' = [req EXCEPT ![r] = q], Driven(q), q.at # "renew"
          PROVE  DriveInv'
      BY <1>1, <2>1, <2>2, Drives
    <2>3. CASE Ends(r)
      BY <2>2, <2>3, NobodyDrives, Nobody DEF Ends
    <2>4. ASSUME NEW a \in {"exchange", "access"}, Goes(r, a) PROVE DriveInv'
      <3>1. Driven(Moved(req[r], a)) /\ Moved(req[r], a).at = a
        BY <1>1, <2>1, <2>4, MovedIs DEF Driven
      <3> QED
        BY <1>5, <2>2, <2>4, <3>1
    <2> QED
      BY <2>1, <2>3, <2>4
  <1>10. CASE Access(r)
    <2>1. /\ req[r].at = "access" /\ driving = None /\ UNCHANGED <<table, drive, connections>>
          /\ \/ Ends(r) /\ UNCHANGED driving
             \/ Goes(r, "renew") /\ driving' = r /\ drive # None
      BY <1>10 DEF Access, store
    <2>2. CASE Goes(r, "renew") /\ driving' = r /\ drive # None
      <3>1. Driven(Moved(req[r], "renew")) /\ Moved(req[r], "renew").at = "renew"
        BY <1>1, <2>1, MovedIs DEF Driven
      <3>2. Current(drive)
        BY <2>1 DEF DriveInv
      <3> QED
        BY <1>1, <1>5, <2>1, <2>2, <3>1, <3>2, Drives
    <2> QED
      BY <1>3, <2>1, <2>2
  <1>11. CASE Renew(r)
    <2> DEFINE t == [NewToken(drive.n) EXCEPT !.renews = drive.renews]
    <2> DEFINE q == Secretly("token", t, "use")
    <2>1. /\ req[r].at = "renew" /\ UNCHANGED <<table, connections>>
          /\ \/ Answers(r) /\ UNCHANGED drive
             \/ drive' = t /\ req' = [req EXCEPT ![r] = q] /\ UNCHANGED driving
      BY <1>11 DEF Renew, store, Secretly
    <2>2. driving = r /\ drive # None /\ Current(drive) /\ req[r].do \in ToDrive
      BY <2>1 DEF DriveInv, Driven
    <2>3. t.n = drive.n
      BY DEF NewToken
    <2>4. Current(t)
      BY <2>2, <2>3 DEF Current
    <2> HIDE DEF t
    <2>5. Driven(q) /\ q.at = "want"
      BY <2>4, SecretlyIs, WantsIs DEF Driven, ToDrive
    <2> HIDE DEF q
    <2> QED
      BY <1>1, <1>4, <2>1, <2>2, <2>4, <2>5, Drives
  <1>12. CASE Exchange(r)
    <2> DEFINE t == NewToken(connections + 1)
    <2> DEFINE q == Secretly("token", t, "callback")
    <2>1. /\ UNCHANGED <<table, driving>>
          /\ \/ Ends(r) /\ UNCHANGED <<drive, connections>>
             \/ /\ driving = None /\ drive' = t /\ connections' = connections + 1
                /\ req' = [req EXCEPT ![r] = q]
      BY <1>12 DEF Exchange, store, Secretly
    <2>2. t.n = connections + 1
      BY DEF NewToken
    <2>3. Current(t)
      BY <1>1, <2>2 DEF Current
    <2> HIDE DEF t
    <2>4. Driven(q) /\ q.at = "want"
      BY <2>3, SecretlyIs, WantsIs DEF Driven, ToDrive
    <2> HIDE DEF q
    <2> QED
      BY <1>1, <1>3, <2>1, <2>3, <2>4, Drives
  (* A publication touches nothing of Drive, and its request is not of it. *)
  <1>13. CASE SaveChoice(r) \/ BeginPublish(r) \/ Send(r) \/ Release(r) \/ RecordEpisode(r)
              \/ SaveShare(r)
    <2>1. UNCHANGED <<table, drive, connections, driving>>
      BY <1>13 DEF SaveChoice, BeginPublish, Send, Release, RecordEpisode, SaveShare, Rest,
                   store, driven
    <2>2. PICK q : req' = [req EXCEPT ![r] = q] /\ (q = NoRequest \/ q.at \in Publishing)
      BY <1>1, <1>13, PublishesIs
    <2>3. Driven(q) /\ q.at \notin {"access", "renew"}
      BY <2>2, NobodyDrives, Nobody DEF Driven, Publishing
    <2> QED
      BY <1>1, <1>2, <2>1, <2>2, <2>3
  <1> QED
    BY <1>6, <1>7, <1>8, <1>9, <1>10, <1>11, <1>12, <1>13 DEF Serve

LEMMA UpsetsDrive ==
  ASSUME DriveInv, Swap \/ Reload \/ Crash \/ Hour \/ UNCHANGED vars
  PROVE  DriveInv'
  <1>1. CASE Swap
    <2>1. /\ closed' = 0 /\ table' = FirstTable /\ UNCHANGED <<connections, drive, driving, req>>
      BY <1>1 DEF Swap
    <2>2. Current(table["token"])'
      BY <2>1 DEF Current, FirstTable, Plain, Secret
    <2>3. ASSUME NEW t, Current(t) PROVE t # None => t.n \in Nat /\ t.n > closed'
      BY <2>1, <2>3 DEF DriveInv, Current
    <2>4. ASSUME NEW r \in Requests
          PROVE  /\ Driven(req[r])'
                 /\ req'[r].at \in {"access", "renew"} => Current(drive)'
                 /\ req'[r].at = "renew" => driving' = r /\ drive' # None
      <3>1. /\ Driven(req[r]) /\ req'[r] = req[r]
            /\ req[r].at \in {"access", "renew"} => Current(drive)
            /\ req[r].at = "renew" => driving = r /\ drive # None
        BY <2>1 DEF DriveInv
      <3>2. req[r].at \in {"access", "renew"} => (Current(drive))'
        BY <2>1, <2>3, <3>1 DEF Current
      <3>3. Driven(req[r])'
        BY <2>1, <2>3, <3>1 DEF Driven, Current
      <3> QED
        BY <2>1, <3>1, <3>2, <3>3
    <2> QED
      BY <2>1, <2>2, <2>4 DEF DriveInv
  <1>2. CASE Crash
    <2>1. /\ UNCHANGED <<table, connections, closed>> /\ req' = [r \in Requests |-> NoRequest]
      BY <1>2 DEF Crash
    <2> QED
      BY <2>1, NobodyDrives, Nobody DEF DriveInv, Current, Driven
  <1>3. CASE Reload \/ Hour \/ UNCHANGED vars
    <2>1. UNCHANGED <<table, connections, closed, drive, driving, req>>
      BY <1>3 DEF Reload, Hour, vars, store, driven
    <2> QED
      BY <2>1 DEF DriveInv, Current, Driven
  <1> QED
    BY <1>1, <1>2, <1>3

LEMMA DriveSteps == SettingsInv /\ DriveInv /\ [Next]_vars => DriveInv'
  BY AskingDrive, ServingDrive, UpsetsDrive DEF Next

(* For any number of requests, renewals, restores and crashes: once the    *)
(* owner has disconnected Drive, no request that was under way brings a    *)
(* token of that connection back.                                          *)
THEOREM DisconnectHolds == Spec => []StaysGone
  <1>1. DriveInv => StaysGone
    BY DEF DriveInv, Current, StaysGone
  <1> QED
    BY Initially, Steps, DrivesFirst, DriveSteps, <1>1, PTL DEF Spec
-----------------------------------------------------------------------------
(* Transistor.  One request at a time is between the flag and its release; *)
(* an episode whose number it has yet to record is pending.                *)
Publisher(q) == q.at \in {"send", "release", "record", "share"}
Pending(q) == q.at \in {"release", "record"} /\ q.id # q.was
IsNumber(e) == e \in 1..Len(episodes)

Episode(x) ==
  /\ x = [file |-> x.file, live |-> x.live, released |-> x.released]
  /\ x.live \in BOOLEAN /\ x.released = IF x.live THEN 1 ELSE 0

Listed == (\E S : episodes \in Seq(S)) /\ \A e \in 1..Len(episodes) : Episode(episodes[e])

(* How far a publication is, and what it knows of the episodes.            *)
Turn(q) ==
  /\ q.at \in {"send", "release", "record"} =>
       /\ q.was # None => IsNumber(q.was)
       /\ q.was = None => episode = None
  /\ q.at \in {"release", "record"} => IsNumber(q.id) /\ (q.id # q.was => q.was = None)
  /\ q.at = "release" => ~episodes[q.id].live

Alone ==
  /\ \A r, x \in Requests : Publisher(req[r]) /\ Publisher(req[x]) => r = x
  /\ publishing \in BOOLEAN /\ (publishing <=> \E r \in Requests : Publisher(req[r]))

(* Every episode but one is accounted for; that one's number is stored, or *)
(* pending, or it is not there.                                            *)
Counted ==
  /\ missed \in Nat
  /\ Len(episodes) <= missed + 1
  /\ episode = None /\ (\A r \in Requests : ~Pending(req[r])) => Len(episodes) <= missed

PublishInv ==
  /\ Listed /\ (episode # None => IsNumber(episode))
  /\ \A r \in Requests : Turn(req[r])
  /\ Alone /\ Counted

LEMMA NobodyPublishes == Turn(NoRequest) /\ ~Publisher(NoRequest) /\ ~Pending(NoRequest)
  BY Nobody DEF Turn, Publisher, Pending

LEMMA PublishesFirst == Init => PublishInv
  <1> SUFFICES ASSUME Init PROVE PublishInv
    OBVIOUS
  <1>1. Listed /\ Len(episodes) = 0
    BY DEF Init, Listed
  <1>2. Alone
    BY NobodyPublishes DEF Init, Alone
  <1> QED
    BY <1>1, <1>2, NobodyPublishes DEF Init, PublishInv, Counted

LEMMA ListedIs ==
  ASSUME Listed
  PROVE  Len(episodes) \in Nat /\ DOMAIN episodes = 1..Len(episodes)
  BY DEF Listed

(* A request that does not publish, before or after its step.              *)
LEMMA Quiet ==
  ASSUME SettingsInv, PublishInv, UNCHANGED <<episodes, episode, publishing, missed>>,
         NEW r \in Requests, NEW q, req' = [req EXCEPT ![r] = q],
         ~Publisher(req[r]), ~Publisher(q)
  PROVE  PublishInv'
  <1>1. req' = [x \in Requests |-> IF x = r THEN q ELSE req[x]]
    BY DEF SettingsInv, Typed
  <1>2. Listed' /\ (episode' # None => IsNumber(episode)')
    BY DEF PublishInv, Listed, IsNumber
  <1>3. \A x \in Requests : Turn(req[x])'
    BY <1>1 DEF PublishInv, Turn, IsNumber, Publisher
  <1>4. Alone'
    BY <1>1 DEF PublishInv, Alone
  <1>5. Counted'
    BY <1>1 DEF PublishInv, Counted, Publisher, Pending
  <1> QED
    BY <1>2, <1>3, <1>4, <1>5 DEF PublishInv

(* A step of the one that publishes, or of one that begins to while nobody *)
(* does.                                                                   *)
LEMMA Advances ==
  ASSUME SettingsInv, PublishInv,
         NEW r \in Requests, NEW q, req' = [req EXCEPT ![r] = q],
         Publisher(req[r]) \/ ~publishing,
         publishing' \in BOOLEAN, publishing' <=> Publisher(q),
         Listed', episode' # None => IsNumber(episode)', Turn(q)',
         missed' \in Nat, Len(episodes') <= missed' + 1,
         episode' = None /\ ~Pending(q) => Len(episodes') <= missed'
  PROVE  PublishInv'
  <1>1. req' = [x \in Requests |-> IF x = r THEN q ELSE req[x]]
    BY DEF SettingsInv, Typed
  <1>2. \A x \in Requests : x # r => ~Publisher(req[x])
    BY DEF PublishInv, Alone
  <1>3. \A x \in Requests : Turn(req[x])'
    <2>1. ASSUME NEW x \in Requests, x # r PROVE Turn(req[x])'
      BY <1>1, <1>2, <2>1 DEF Turn, Publisher
    <2>2. Turn(req[r])'
      BY <1>1 DEF Turn
    <2> QED
      BY <2>1, <2>2
  <1>4. Alone'
    BY <1>1, <1>2 DEF Alone
  <1>5. Counted'
    <2>1. (\A x \in Requests : ~Pending(req[x]))' => ~Pending(q)
      BY <1>1
    <2> QED
      BY <2>1 DEF Counted
  <1> QED
    BY <1>3, <1>4, <1>5 DEF PublishInv

(* The list of episodes with one more, and with one of them changed.       *)
LEMMA ListGrows ==
  ASSUME Listed, NEW x, Episode(x), episodes' = Append(episodes, x)
  PROVE  /\ Listed' /\ Len(episodes') = Len(episodes) + 1
         /\ episodes'[Len(episodes) + 1] = x
         /\ \A e \in 1..Len(episodes) : episodes'[e] = episodes[e]
  <1>1. PICK S : episodes \in Seq(S)
    BY DEF Listed
  <1> DEFINE T == S \union {x}
  <1>2. episodes \in Seq(T) /\ x \in T
    BY <1>1
  <1> HIDE DEF T
  <1>3. /\ episodes' \in Seq(T) /\ Len(episodes') = Len(episodes) + 1
        /\ episodes'[Len(episodes) + 1] = x
        /\ \A e \in 1..Len(episodes) : episodes'[e] = episodes[e]
    BY <1>2, AppendProperties
  <1>4. Listed'
    BY <1>3, ListedIs DEF Listed, Episode
  <1> QED
    BY <1>3, <1>4

LEMMA ListChanges ==
  ASSUME Listed, NEW n \in 1..Len(episodes), NEW x, Episode(x),
         episodes' = [episodes EXCEPT ![n] = x]
  PROVE  /\ Listed' /\ Len(episodes') = Len(episodes) /\ episodes'[n] = x
  <1>1. PICK S : episodes \in Seq(S)
    BY DEF Listed
  <1> DEFINE T == S \union {x}
  <1>2. /\ episodes' \in Seq(T) /\ Len(episodes') = Len(episodes) /\ episodes'[n] = x
        /\ \A e \in 1..Len(episodes) : e # n => episodes'[e] = episodes[e]
    BY <1>1
  <1> HIDE DEF T
  <1>3. Listed'
    BY <1>2 DEF Listed, Episode
  <1> QED
    BY <1>2, <1>3

(* An episode with another file, and one that is released.                 *)
Refiled(x, f) == [x EXCEPT !.file = f]
Out(x) == [x EXCEPT !.live = TRUE, !.released = @ + 1]

LEMMA EpisodeIs ==
  ASSUME NEW x, Episode(x), NEW f
  PROVE  /\ Episode(Refiled(x, f)) /\ Refiled(x, f).live = x.live
         /\ ~x.live => Episode(Out(x))
  <1> DEFINE y == Refiled(x, f)
  <1> DEFINE z == Out(x)
  <1>1. y = [x EXCEPT !.file = f] /\ z = [x EXCEPT !.live = TRUE, !.released = x.released + 1]
    BY Zenon DEF Refiled, Out
  <1> HIDE DEF y, z
  <1>2. x = [file |-> x.file, live |-> x.live, released |-> x.released]
    BY DEF Episode
  <1>3. /\ y = [file |-> f, live |-> x.live, released |-> x.released]
        /\ z = [file |-> x.file, live |-> TRUE, released |-> x.released + 1]
    BY <1>1, <1>2
  <1>4. Episode(y) /\ y.live = x.live
    BY <1>3 DEF Episode
  <1>5. ~x.live => Episode(z)
    BY <1>3 DEF Episode
  <1> QED
    BY <1>4, <1>5 DEF y, z

(* The end of a publication lets the next one in.                          *)
LEMMA GivingUp ==
  ASSUME SettingsInv, PublishInv, NEW r \in Requests, Publisher(req[r]), GivesUp(r),
         Listed', episode' # None => IsNumber(episode)',
         missed' \in Nat, Len(episodes') <= missed' + 1,
         episode' = None => Len(episodes') <= missed'
  PROVE  PublishInv'
  BY Advances, NobodyPublishes, Nobody DEF GivesUp, Ends, Turn

LEMMA Sending ==
  ASSUME SettingsInv, PublishInv, NEW r \in Requests, Send(r)
  PROVE  PublishInv'
  <1> DEFINE was == req[r].was
  <1> DEFINE e == IF was = None THEN Len(episodes) + 1 ELSE was
  <1> DEFINE l == episodes'[e].live
  <1> DEFINE a == IF l THEN "record" ELSE "release"
  <1>1. /\ req[r].at = "send" /\ Publisher(req[r]) /\ Request(req[r]) /\ episode' = episode
        /\ Listed /\ Len(episodes) \in Nat /\ missed \in Nat
        /\ (was # None => IsNumber(was)) /\ (was = None => episode = None)
        /\ (episode # None => IsNumber(episode)) /\ publishing
    BY ListedIs DEF Send, PublishInv, SettingsInv, Typed, Publisher, Turn, Counted, Alone
  (* Nobody else is at Transistor, so nothing is pending.                  *)
  <1>2. Len(episodes) <= missed + 1 /\ (episode = None => Len(episodes) <= missed)
    <2>1. \A x \in Requests : ~Pending(req[x])
      BY <1>1 DEF PublishInv, Alone, Publisher, Pending
    <2> QED
      BY <2>1 DEF PublishInv, Counted
  <1>3. CASE GivesUp(r) /\ UNCHANGED <<episodes, missed>>
    <2>1. Listed' /\ (episode' # None => IsNumber(episode)')
      BY <1>1, <1>3 DEF Listed, IsNumber
    <2> QED
      BY <1>1, <1>2, <1>3, <2>1, GivingUp
  <1>4. CASE /\ episodes' = IF was = None
                            THEN Append(episodes, [file |-> req[r].chosen.file, live |-> FALSE,
                                                   released |-> 0])
                            ELSE [episodes EXCEPT ![e].file = req[r].chosen.file]
             /\ \/ GivesUp(r) /\ missed' = missed + (IF was = None THEN 1 ELSE 0)
                \/ /\ req' = [req EXCEPT ![r].id = e, ![r].sent = l, ![r].at = a]
                   /\ UNCHANGED <<publishing, missed>>
    <2>1. /\ Listed' /\ Len(episodes') = Len(episodes) + (IF was = None THEN 1 ELSE 0)
          /\ episodes'[e].live \in BOOLEAN
      <3>1. CASE was = None
        <4> DEFINE new == [file |-> req[r].chosen.file, live |-> FALSE, released |-> 0]
        <4>1. episodes' = Append(episodes, new)
          BY <1>4, <3>1
        <4>2. Episode(new) /\ new.live = FALSE
          BY DEF Episode
        <4> HIDE DEF new
        <4> QED
          BY <1>1, <3>1, <4>1, <4>2, ListGrows
      <3>2. CASE was # None
        <4> DEFINE new == Refiled(episodes[was], req[r].chosen.file)
        <4>1. episodes' = [episodes EXCEPT ![was] = new] /\ was \in 1..Len(episodes)
          BY <1>1, <1>4, <3>2 DEF IsNumber, Refiled
        <4>2. Episode(episodes[was])
          BY <1>1, <4>1 DEF Listed
        <4>3. Episode(new) /\ new.live = episodes[was].live
          BY <4>2, EpisodeIs
        <4>4. new.live \in BOOLEAN
          BY <4>3 DEF Episode
        <4> HIDE DEF new
        <4>5. Listed' /\ Len(episodes') = Len(episodes) /\ episodes'[was] = new
          BY <1>1, <4>1, <4>3, ListChanges
        <4> QED
          BY <1>1, <3>2, <4>4, <4>5
      <3> QED
        BY <3>1, <3>2
    <2>2. /\ e \in 1..Len(episodes') /\ (e # was <=> was = None)
          /\ (was # None => was \in 1..Len(episodes'))
          /\ (episode # None => episode \in 1..Len(episodes'))
      BY <1>1, <2>1, IntegrationsAssumption DEF IsNumber
    <2> HIDE DEF e
    <2>3. CASE GivesUp(r) /\ missed' = missed + (IF was = None THEN 1 ELSE 0)
      <3>1. missed' \in Nat /\ Len(episodes') <= missed' + 1
            /\ (episode' = None => Len(episodes') <= missed')
        BY <1>1, <1>2, <2>1, <2>3
      <3>2. episode' # None => IsNumber(episode)'
        BY <1>1, <2>2 DEF IsNumber
      <3> QED
        BY <1>1, <2>1, <2>3, <3>1, <3>2, GivingUp
    <2>4. CASE /\ req' = [req EXCEPT ![r].id = e, ![r].sent = l, ![r].at = a]
               /\ UNCHANGED <<publishing, missed>>
      <3> DEFINE p == Drafted(req[r], e, l, a)
      <3>1. req' = [req EXCEPT ![r] = p]
        BY <2>4 DEF Drafted
      <3>2. a \in {"release", "record"} /\ (a = "release" => ~episodes'[e].live)
        OBVIOUS
      <3> HIDE DEF a, l
      <3>3. p.at = a /\ p.id = e /\ p.was = was
        BY <1>1, PublisherIs
      <3> HIDE DEF p
      <3>4. PICK q : req' = [req EXCEPT ![r] = q] /\ q.at = a /\ q.id = e /\ q.was = was
        BY <3>1, <3>3
      <3>5. Turn(q)' /\ Publisher(q) /\ (episode' # None => IsNumber(episode)')
        BY <1>1, <2>2, <3>4, <3>2 DEF Turn, IsNumber, Publisher
      <3>6. missed' \in Nat /\ Len(episodes') <= missed' + 1
            /\ (episode' = None /\ ~Pending(q) => Len(episodes') <= missed')
        BY <1>1, <1>2, <2>1, <2>2, <2>4, <3>4, <3>2 DEF Pending
      <3>7. publishing' \in BOOLEAN /\ publishing'
        BY <1>1, <2>4 DEF PublishInv, Alone
      <3> QED
        BY <1>1, <2>1, <3>4, <3>5, <3>6, <3>7, Advances
    <2> QED
      BY <1>4, <2>3, <2>4
  <1> QED
    BY <1>3, <1>4 DEF Send

LEMMA Releasing ==
  ASSUME SettingsInv, PublishInv, NEW r \in Requests, Release(r)
  PROVE  PublishInv'
  <1> DEFINE e == req[r].id
  <1>1. /\ req[r].at = "release" /\ Publisher(req[r]) /\ Request(req[r])
        /\ UNCHANGED <<episode, publishing, missed>> /\ publishing \in BOOLEAN /\ publishing
        /\ Listed /\ e \in 1..Len(episodes) /\ ~episodes[e].live /\ Turn(req[r])
        /\ (episode # None => IsNumber(episode))
        /\ missed \in Nat /\ Len(episodes) <= missed + 1
    BY DEF Release, PublishInv, SettingsInv, Typed, Publisher, Turn, Alone, IsNumber, Counted
  <1>2. episode = None /\ ~Pending(req[r]) => Len(episodes) <= missed
    BY <1>1 DEF PublishInv, Alone, Counted, Publisher, Pending
  <1>3. PICK q : /\ req' = [req EXCEPT ![r] = q] /\ q.at = "record"
                 /\ q.id = e /\ q.was = req[r].was
    <2>1. CASE Goes(r, "record")
      <3> DEFINE p == Moved(req[r], "record")
      <3>1. p.at = "record" /\ p.id = e /\ p.was = req[r].was
        BY <1>1, MovedIs
      <3>2. req' = [req EXCEPT ![r] = p]
        BY <2>1 DEF Goes, Moved
      <3> HIDE DEF p
      <3> QED
        BY <3>1, <3>2
    <2>2. CASE \E l : req' = [req EXCEPT ![r].at = "record", ![r].sent = l]
      <3>1. PICK l : req' = [req EXCEPT ![r].at = "record", ![r].sent = l]
        BY <2>2
      <3> DEFINE p == Told(req[r], l)
      <3>2. p.at = "record" /\ p.id = e /\ p.was = req[r].was
        BY <1>1, PublisherIs
      <3>3. req' = [req EXCEPT ![r] = p]
        BY <3>1 DEF Told
      <3> HIDE DEF p
      <3> QED
        BY <3>2, <3>3
    <2> QED
      BY <2>1, <2>2 DEF Release
  <1>4. Listed' /\ Len(episodes') = Len(episodes)
    <2>1. CASE UNCHANGED episodes
      BY <1>1, <2>1 DEF Listed
    <2>2. CASE episodes' = [episodes EXCEPT ![e].live = TRUE, ![e].released = @ + 1]
      <3> DEFINE new == Out(episodes[e])
      <3>1. episodes' = [episodes EXCEPT ![e] = new]
        BY <1>1, <2>2, ListedIs DEF Out
      <3>2. Episode(episodes[e])
        BY <1>1 DEF Listed
      <3>3. Episode(new)
        BY <1>1, <3>2, EpisodeIs
      <3> HIDE DEF new
      <3> QED
        BY <1>1, <3>1, <3>3, ListChanges
    <2> QED
      BY <2>1, <2>2 DEF Release
  <1>5. Turn(q)' /\ Publisher(q) /\ (episode' # None => IsNumber(episode)')
    BY <1>1, <1>3, <1>4 DEF Turn, IsNumber, Publisher
  <1>6. missed' \in Nat /\ Len(episodes') <= missed' + 1
        /\ (episode' = None /\ ~Pending(q) => Len(episodes') <= missed')
    BY <1>1, <1>2, <1>3, <1>4 DEF Pending
  <1> QED
    BY <1>1, <1>3, <1>4, <1>5, <1>6, Advances

LEMMA Recording ==
  ASSUME SettingsInv, PublishInv, NEW r \in Requests, RecordEpisode(r)
  PROVE  PublishInv'
  <1> DEFINE o == req[r]
  <1>1. /\ o.at = "record" /\ Publisher(o) /\ Request(o) /\ episodes' = episodes
        /\ Listed /\ IsNumber(o.id) /\ publishing \in BOOLEAN /\ publishing
        /\ (o.id # o.was => o.was = None) /\ (o.was = None => episode = None)
        /\ (episode # None => IsNumber(episode))
        /\ missed \in Nat /\ Len(episodes) \in Nat /\ Len(episodes) <= missed + 1
    BY ListedIs DEF RecordEpisode, PublishInv, SettingsInv, Typed, Publisher, Turn, Alone, Counted
  <1>2. episode = None /\ o.id = o.was => Len(episodes) <= missed
    BY <1>1 DEF PublishInv, Alone, Counted, Publisher, Pending
  <1>3. Listed'
    BY <1>1 DEF Listed
  <1>4. CASE /\ episode' = IF o.id # o.was THEN o.id ELSE episode
             /\ UNCHANGED missed
    <2>1. /\ (episode' # None => IsNumber(episode)')
          /\ missed' \in Nat /\ Len(episodes') <= missed' + 1
          /\ (episode' = None => Len(episodes') <= missed')
      BY <1>1, <1>2, <1>4, IntegrationsAssumption DEF IsNumber
    <2>2. CASE GivesUp(r)
      BY <1>1, <1>3, <2>1, <2>2, GivingUp
    <2>3. CASE Goes(r, "share") /\ UNCHANGED publishing
      <3> DEFINE p == Moved(o, "share")
      <3>1. p.at = "share" /\ Publisher(p)
        BY <1>1, MovedIs DEF Publisher
      <3>2. req' = [req EXCEPT ![r] = p]
        BY <2>3 DEF Goes, Moved
      <3> HIDE DEF p
      <3>3. PICK q : req' = [req EXCEPT ![r] = q] /\ q.at = "share" /\ Publisher(q)
        BY <3>1, <3>2
      <3>4. Turn(q)'
        BY <3>3 DEF Turn
      <3> QED
        BY <1>1, <1>3, <2>1, <2>3, <3>3, <3>4, Advances
    <2> QED
      BY <1>4, <2>2, <2>3 DEF RecordEpisode
  <1>5. CASE o.id # o.was /\ missed' = missed + 1 /\ GivesUp(r) /\ UNCHANGED episode
    <2>1. /\ (episode' # None => IsNumber(episode)')
          /\ missed' \in Nat /\ Len(episodes') <= missed'
      BY <1>1, <1>5 DEF IsNumber
    <2> QED
      BY <1>1, <1>3, <1>5, <2>1, GivingUp
  <1> QED
    BY <1>4, <1>5 DEF RecordEpisode

LEMMA Sharing ==
  ASSUME SettingsInv, PublishInv, NEW r \in Requests, SaveShare(r)
  PROVE  PublishInv'
  <1>1. /\ req[r].at = "share" /\ Publisher(req[r]) /\ GivesUp(r)
        /\ UNCHANGED <<episode, episodes, missed>>
        /\ Listed /\ (episode # None => IsNumber(episode))
        /\ missed \in Nat /\ Len(episodes) \in Nat /\ Len(episodes) <= missed + 1
    BY ListedIs DEF SaveShare, PublishInv, Publisher, Counted
  <1>2. episode = None => Len(episodes) <= missed
    BY <1>1 DEF PublishInv, Alone, Counted, Publisher, Pending
  <1>3. Listed' /\ (episode' # None => IsNumber(episode)')
    BY <1>1 DEF Listed, IsNumber
  <1> QED
    BY <1>1, <1>2, <1>3, GivingUp

LEMMA Beginning ==
  ASSUME SettingsInv, PublishInv, NEW r \in Requests, BeginPublish(r)
  PROVE  PublishInv'
  <1>1. /\ req[r].at = "begin" /\ ~Publisher(req[r]) /\ Request(req[r])
        /\ UNCHANGED <<episode, episodes, missed>>
        /\ Listed /\ (episode # None => IsNumber(episode))
        /\ missed \in Nat /\ Len(episodes) \in Nat /\ Len(episodes) <= missed + 1
    BY ListedIs DEF BeginPublish, PublishInv, SettingsInv, Typed, Publisher, Counted
  <1>2. CASE Ends(r) /\ UNCHANGED publishing
    BY <1>1, <1>2, Quiet, NobodyPublishes DEF Ends
  <1>3. CASE /\ ~publishing /\ publishing' = TRUE
             /\ req' = [req EXCEPT ![r].at = "send", ![r].was = episode]
    <2> DEFINE p == Readied(req[r], episode)
    <2>1. p.at = "send" /\ p.was = episode
      BY <1>1, PublisherIs
    <2>2. req' = [req EXCEPT ![r] = p]
      BY <1>3 DEF Readied
    <2> HIDE DEF p
    <2>3. PICK q : req' = [req EXCEPT ![r] = q] /\ q.at = "send" /\ q.was = episode
      BY <2>1, <2>2
    <2>4. Turn(q)' /\ Publisher(q) /\ Listed' /\ (episode' # None => IsNumber(episode)')
      BY <1>1, <2>3 DEF Turn, IsNumber, Publisher, Listed
    <2>5. episode = None => Len(episodes) <= missed
      BY <1>3 DEF PublishInv, Alone, Counted, Publisher, Pending
    <2> QED
      BY <1>1, <1>3, <2>3, <2>4, <2>5, Advances
  <1> QED
    BY <1>2, <1>3 DEF BeginPublish, Unready

(* The requests that publish nothing.                                      *)
LEMMA QuietSteps ==
  ASSUME SettingsInv, PublishInv, NEW r \in Requests,
         \/ Ask(r) \/ Commit(r) \/ Delete(r) \/ NoCommit(r) \/ Cache(r)
         \/ Configure(r) \/ Access(r) \/ Renew(r) \/ Exchange(r) \/ SaveChoice(r)
  PROVE  PublishInv'
  <1>1. UNCHANGED <<episodes, episode, publishing, missed>>
    BY AskIs DEF Commit, Delete, NoCommit, Cache, Configure, Access, Renew, Exchange, SaveChoice,
       Publishes, published
  <1>2. /\ Request(req[r]) /\ req = [x \in Requests |-> req[x]] /\ ~Publisher(req[r])
    BY AskIs, Nobody DEF SettingsInv, Typed, Publisher, Begins, Commit, Delete, NoCommit, Cache,
       Configure, Access, Renew, Exchange, SaveChoice, Saves, Takes
  <1>3. ASSUME NEW q, req' = [req EXCEPT ![r] = q], ~Publisher(q) PROVE PublishInv'
    BY <1>1, <1>2, <1>3, Quiet
  <1>4. CASE Ask(r)
    <2>1. PICK q : req' = [req EXCEPT ![r] = q] /\ Asked(q)
      BY <1>4, AskIs DEF Begins
    <2>2. ~Publisher(q)
      BY <2>1, NobodyPublishes DEF Asked, Publisher
    <2> QED
      BY <1>3, <2>1, <2>2
  <1>5. CASE Commit(r)
    <2> DEFINE w == Restrict(req[r].want, Applied(req[r].want))
    <2> DEFINE q == Writer(req[r], w)
    <2>1. req' = [req EXCEPT ![r] = q]
      BY <1>5 DEF Commit, Writer
    <2> HIDE DEF w
    <2>2. ~Publisher(q)
      BY <1>2, WriterIs DEF Publisher
    <2> HIDE DEF q
    <2> QED
      BY <1>3, <2>1, <2>2
  <1>6. ASSUME NEW a \in {"cache", "exchange", "access", "renew", "begin"}, Goes(r, a)
        PROVE  PublishInv'
    <2> DEFINE q == Moved(req[r], a)
    <2>1. req' = [req EXCEPT ![r] = q]
      BY <1>6 DEF Goes, Moved
    <2>2. ~Publisher(q)
      BY <1>2, MovedIs DEF Publisher
    <2> HIDE DEF q
    <2> QED
      BY <1>3, <2>1, <2>2
  <1>7. CASE Ends(r)
    BY <1>3, <1>7, NobodyPublishes DEF Ends
  <1>8. ASSUME NEW t, NEW do, req' = [req EXCEPT ![r] = Secretly("token", t, do)]
        PROVE  PublishInv'
    <2> DEFINE q == Secretly("token", t, do)
    <2>1. ~Publisher(q)
      BY SecretlyIs DEF Publisher
    <2>2. req' = [req EXCEPT ![r] = q]
      BY <1>8
    <2> HIDE DEF q
    <2> QED
      BY <1>3, <2>1, <2>2
  <1>9. CASE Renew(r) \/ Exchange(r)
    BY <1>7, <1>8, <1>9 DEF Renew, Exchange, Answers, Secretly
  <1> QED
    BY <1>4, <1>5, <1>6, <1>7, <1>9
       DEF Delete, NoCommit, Cache, Answers, Configure, Access, SaveChoice

LEMMA UpsetsPublishing ==
  ASSUME PublishInv, Swap \/ Reload \/ Crash \/ Hour \/ UNCHANGED vars
  PROVE  PublishInv'
  <1>1. Len(episodes) \in Nat
    BY ListedIs DEF PublishInv
  <1>2. CASE Swap
    <2>1. /\ UNCHANGED <<episodes, publishing, req>> /\ episode' = None
          /\ missed' = missed + (IF episode # None THEN 1 ELSE 0)
      BY <1>2 DEF Swap
    <2>2. Listed' /\ Alone' /\ \A r \in Requests : Turn(req[r])'
      BY <2>1 DEF PublishInv, Listed, Alone, Turn, IsNumber
    <2>3. Counted'
      BY <1>1, <2>1 DEF PublishInv, Counted
    <2> QED
      BY <2>1, <2>2, <2>3 DEF PublishInv
  <1>3. CASE Crash
    <2> DEFINE lost == {r \in Requests : req[r].at \in {"release", "record"}
                                         /\ req[r].id # req[r].was}
    <2>1. /\ UNCHANGED <<episodes, episode>> /\ publishing' = FALSE
          /\ missed' = missed + Cardinality(lost)
          /\ req' = [r \in Requests |-> NoRequest]
      BY <1>3 DEF Crash
    <2>2. lost = {r \in Requests : Pending(req[r])}
      BY DEF Pending
    <2> HIDE DEF lost
    (* Only the one that publishes can have a number to lose.              *)
    <2>3. \/ lost = {} /\ Cardinality(lost) = 0
          \/ Cardinality(lost) = 1
      <3>1. CASE lost = {}
        BY <3>1, FS_EmptySet
      <3>2. CASE lost # {}
        <4>1. PICK r \in Requests : Pending(req[r])
          BY <2>2, <3>2
        <4>2. lost = {r}
          BY <2>2, <4>1 DEF PublishInv, Alone, Publisher, Pending
        <4> QED
          BY <4>2, FS_Singleton
      <3> QED
        BY <3>1, <3>2
    <2>4. Listed' /\ (\A r \in Requests : Turn(req[r])') /\ Alone'
      BY <2>1, NobodyPublishes, Nobody DEF PublishInv, Listed, Turn, Alone
    <2>5. Counted'
      BY <1>1, <2>1, <2>2, <2>3 DEF PublishInv, Counted
    <2> QED
      BY <2>1, <2>4, <2>5 DEF PublishInv, IsNumber
  <1>4. CASE Reload \/ Hour \/ UNCHANGED vars
    <2>1. UNCHANGED <<episodes, episode, publishing, missed, req>>
      BY <1>4 DEF Reload, Hour, vars, published
    <2> QED
      BY <2>1 DEF PublishInv, Listed, IsNumber, Turn, Alone, Counted
  <1> QED
    BY <1>2, <1>3, <1>4

LEMMA PublishSteps == SettingsInv /\ PublishInv /\ [Next]_vars => PublishInv'
  BY Beginning, Sending, Releasing, Recording, Sharing, QuietSteps, UpsetsPublishing
     DEF Next, Serve

(* For any number of requests, restores and crashes: no more episodes are  *)
(* made than one and those whose number was lost, none is released twice,  *)
(* and the flag is up exactly while one request publishes.                 *)
THEOREM PublicationsHold == Spec => []PublishedOnce
  <1>1. PublishInv => PublishedOnce
    <2> SUFFICES ASSUME PublishInv PROVE PublishedOnce
      OBVIOUS
    <2> DEFINE them == {r \in Requests : req[r].at \in {"send", "release", "record", "share"}}
    <2>1. them = {r \in Requests : Publisher(req[r])}
      BY DEF Publisher
    <2> HIDE DEF them
    <2>2. Cardinality(them) = IF publishing THEN 1 ELSE 0
      <3>1. CASE publishing
        <4>1. PICK r \in Requests : Publisher(req[r])
          BY <3>1 DEF PublishInv, Alone
        <4>2. them = {r}
          BY <2>1, <4>1 DEF PublishInv, Alone
        <4> QED
          BY <3>1, <4>2, FS_Singleton
      <3>2. CASE ~publishing
        <4>1. them = {}
          BY <2>1, <3>2 DEF PublishInv, Alone
        <4> QED
          BY <3>2, <4>1, FS_EmptySet
      <3> QED
        BY <3>1, <3>2
    <2>3. OnePublisher
      BY <2>2 DEF OnePublisher, them
    <2>4. OneEpisode
      BY ListedIs DEF PublishInv, Counted, OneEpisode
    <2>5. ReleasedOnce
      <3>1. ASSUME NEW e \in DOMAIN episodes PROVE episodes[e].released <= 1
        <4>1. Episode(episodes[e])
          BY <3>1, ListedIs DEF PublishInv, Listed
        <4> QED
          BY <4>1 DEF Episode
      <3> QED
        BY <3>1 DEF ReleasedOnce
    <2> QED
      BY <2>3, <2>4, <2>5 DEF PublishedOnce
  <1> QED
    BY Initially, Steps, PublishesFirst, PublishSteps, <1>1, PTL DEF Spec
-----------------------------------------------------------------------------
(***************************************************************************)
(* Notify: the lines of an account, for any channels, rules and hours.     *)
(***************************************************************************)
RowFields == {"channel", "collapse", "items", "wait", "age", "tried", "attempts", "sent"}
RowRec(r) ==
  /\ RowFields \subseteq DOMAIN r
  /\ r.channel \in Channels /\ r.items \in Seq(Lines) /\ r.age \in Nat /\ r.attempts \in Nat
  /\ r.tried \in Nat \cup {Never}
Rowed(rows) ==
  /\ rows = [i \in DOMAIN rows |-> rows[i]]
  /\ DOMAIN rows \subseteq Nat /\ \E n \in Nat : \A i \in DOMAIN rows : i <= n
  /\ \A i \in DOMAIN rows : RowRec(rows[i])

(* The four things LinesKept says of a table of rows: that the lines are   *)
(* of what was queued, that no channel has one twice, that mail has all it *)
(* asks for, and that what is marked sent has arrived.                     *)
Queued(n, m) == ({"log"} \X (1..n)) \cup ({"due"} \X (1..m))
Within(rows, n, m) ==
  \A i \in DOMAIN rows : \A k \in DOMAIN rows[i].items : rows[i].items[k] \in Queued(n, m)
LinesApart(rows) ==
  \A i, j \in DOMAIN rows : rows[i].channel = rows[j].channel =>
    \A k \in DOMAIN rows[i].items : \A l \in DOMAIN rows[j].items :
      rows[i].items[k] = rows[j].items[l] => i = j /\ k = l
Covers(rows, lg, gone, n) ==
  \A c \in Email \ gone : \A e \in 1..n : <<lg[e], c>> \in Ticked =>
    \E i \in DOMAIN rows : rows[i].channel = c /\ <<"log", e>> \in Range(rows[i].items)
HasArrived(rows, got) ==
  \A i \in DOMAIN rows : rows[i].sent =>
    \A k \in DOMAIN rows[i].items : <<rows[i].items[k], rows[i].channel>> \in got
Table(rows, lg, gone, got, n, m) ==
  /\ Rowed(rows) /\ Within(rows, n, m) /\ LinesApart(rows)
  /\ Covers(rows, lg, gone, n) /\ HasArrived(rows, got)

(* A transaction's table has every row of the one it began with, and adds  *)
(* lines only to those whose turn had not come when it began, or came      *)
(* since (fell).                                                           *)
Ahead(rows, more, fell) ==
  \A i \in DOMAIN rows :
    /\ i \in DOMAIN more
    /\ more[i].channel = rows[i].channel /\ more[i].sent = rows[i].sent /\ more[i].wait = rows[i].wait
    /\ more[i].tried = rows[i].tried
    /\ \A x \in DOMAIN rows[i].items : rows[i].items[x] \in Range(more[i].items)
    /\ more[i].items = rows[i].items \/ rows[i].wait # 0 \/ i \in fell

(* The rows of the worker's batch are in the table, due and unsent, with   *)
(* the lines it has read and none but those that came late; what is under  *)
(* the number of one that is gone all came late.                           *)
Held(q, rows, lost) ==
  /\ q.id \in DOMAIN rows
  /\ rows[q.id].channel = q.channel /\ ~rows[q.id].sent /\ rows[q.id].wait = 0
  /\ \A y \in DOMAIN q.items : q.items[y] \in Range(rows[q.id].items)
  /\ \A x \in DOMAIN rows[q.id].items :
       \/ rows[q.id].items[x] \in Range(q.items)
       \/ <<rows[q.id].items[x], rows[q.id].channel>> \in lost
Strayed(q, rows, lost) ==
  q.id \in DOMAIN rows =>
    \A x \in DOMAIN rows[q.id].items : <<rows[q.id].items[x], rows[q.id].channel>> \in lost
AsRead(batch, rows, lost) ==
  /\ \A k \in DOMAIN batch :
       IF batch[k].gone THEN Strayed(batch[k], rows, lost) ELSE Held(batch[k], rows, lost)
  /\ \A j, k \in DOMAIN batch : batch[j].id = batch[k].id => j = k
(* A line that is marked sent has arrived, or came late.                   *)
Settled == delivered \cup late

Arrived(batch, got) ==
  \A k \in DOMAIN batch[1].items : <<batch[1].items[k], batch[1].channel>> \in got

NotifyInv ==
  /\ log \in Seq(Kinds) /\ cursor \in 0..Len(log) /\ dated \in Nat
  /\ verified = [c \in DOMAIN verified |-> verified[c]] /\ DOMAIN verified \subseteq Channels
  /\ \A c \in Email \ deleted : c \in DOMAIN verified /\ verified[c]
  /\ worker = [pc |-> worker.pc, batch |-> worker.batch] /\ worker.batch \in Seq(Entry)
  /\ worker.pc \in {"tick", "once"} <=> worker.batch = <<>>
  /\ Table(outbox, log, deleted, Settled, cursor, dated)
  /\ AsRead(worker.batch, outbox, late)
  /\ worker.pc = "mark" => Arrived(worker.batch, delivered)
  /\ tx.open => /\ tx = [open |-> TRUE, rows |-> tx.rows, cursor |-> tx.cursor, fell |-> tx.fell]
                /\ tx.cursor \in cursor..Len(log)
                /\ Table(tx.rows, log, deleted, Settled, tx.cursor, dated)
                /\ Ahead(outbox, tx.rows, tx.fell)

-----------------------------------------------------------------------------
LEMMA HighestIs ==
  ASSUME NEW S \in SUBSET Nat, NEW n \in Nat, \A i \in S : i <= n, S # {}
  PROVE  Max(S) \in S /\ \A i \in S : i <= Max(S)
  <1> DEFINE T == {k \in Nat : \A i \in S : i <= k}
  <1>0. n \in T /\ T \subseteq Nat
    OBVIOUS
  <1>1. PICK k \in T : \A j \in T : ~(j < k)
    <2> HIDE DEF T
    <2>1. PICK k \in T : \A j \in T : <<j, k>> \notin OpToRel(<, Nat)
      BY <1>0, WFMin, NatLessThanWellFounded, Zenon
    <2>2. \A j \in T : ~(j < k)
      BY <1>0, <2>1, Zenon DEF OpToRel
    <2> QED
      BY <2>2
  <1>2. k \in Nat /\ \A i \in S : i <= k
    BY <1>1
  <1>3. k \in S
    <2> SUFFICES ASSUME k \notin S PROVE FALSE
      OBVIOUS
    <2>1. \A i \in S : i <= k - 1 /\ k - 1 \in Nat
      BY <1>2
    <2>2. k - 1 \in T
      BY <2>1
    <2> QED
      BY <1>1, <1>2, <2>2
  <1>4. \E g \in S : \A y \in S : g >= y
    BY <1>2, <1>3
  <1>5. Max(S) \in S /\ \A y \in S : Max(S) >= y
    BY <1>4, Zenon DEF Max
  <1> QED
    BY <1>5

LEMMA LowestIs ==
  ASSUME NEW S \in SUBSET Nat, S # {}
  PROVE  Min(S) \in S /\ \A i \in S : Min(S) <= i
  <1>1. PICK k \in S : \A j \in S : <<j, k>> \notin OpToRel(<, Nat)
    BY WFMin, NatLessThanWellFounded, Zenon
  <1>2. \A j \in S : ~(j < k)
    BY <1>1, Zenon DEF OpToRel
  <1>3. \E g \in S : \A y \in S : g <= y
    BY <1>2
  <1>4. Min(S) \in S /\ \A y \in S : Min(S) <= y
    BY <1>3, Zenon DEF Min
  <1> QED
    BY <1>4

LEMMA ChannelsAre == IsFiniteSet(Channels) /\ Channels \subseteq Nat
  <1>1. IsFiniteSet(Channels) /\ Channels = 1..Cardinality(Channels)
    BY NotifyAssumption
  <1>2. Cardinality(Channels) \in Nat
    BY <1>1, FS_CardinalityType
  <1>3. 1..Cardinality(Channels) \subseteq Nat
    BY <1>2
  <1> QED
    BY <1>1, <1>3, Zenon

(* Numbers given in the order of the channels are different.               *)
LEMMA RanksApart ==
  ASSUME NEW S \in SUBSET Channels, NEW rank, rank = [c \in S |-> Cardinality({d \in S : d <= c})]
  PROVE  /\ \A c \in S : rank[c] \in 1..Cardinality(S)
         /\ \A c, d \in S : rank[c] = rank[d] => c = d
         /\ Cardinality(S) \in Nat
  <1> DEFINE upto(c) == {d \in S : d <= c}
  <1>1. IsFiniteSet(S) /\ S \subseteq Nat
    BY ChannelsAre, FS_Subset
  <1>2. \A c \in S : rank[c] = Cardinality(upto(c)) /\ c \in upto(c) /\ upto(c) \subseteq S
    BY <1>1
  <1>3. \A c \in S : \A d \in S : c < d => upto(c) \subseteq upto(d) \ {d} /\ d \in upto(d)
    <2> SUFFICES ASSUME NEW c \in S, NEW d \in S, c < d PROVE upto(c) \subseteq upto(d) \ {d} /\ d \in upto(d)
      OBVIOUS
    <2>1. c \in Nat /\ d \in Nat
      BY <1>1
    <2>2. ASSUME NEW e \in S, e <= c PROVE e <= d /\ e # d
      BY <1>1, <2>1, <2>2
    <2>3. upto(c) \subseteq upto(d) \ {d}
      BY <2>2, Zenon
    <2> QED
      BY <2>1, <2>3
  <1> HIDE DEF upto
  <1>4. \A c \in S : IsFiniteSet(upto(c)) /\ Cardinality(upto(c)) \in Nat /\ Cardinality(upto(c)) <= Cardinality(S)
    BY <1>1, <1>2, FS_Subset, FS_CardinalityType
  <1>5. Cardinality(S) \in Nat
    BY <1>1, FS_CardinalityType
  <1>6. ASSUME NEW c \in S PROVE rank[c] \in 1..Cardinality(S)
    <2>1. Cardinality(upto(c)) # 0
      BY <1>2, <1>4, FS_EmptySet
    <2> QED
      BY <1>2, <1>4, <1>5, <2>1
  <1>7. ASSUME NEW c \in S, NEW d \in S, c < d PROVE rank[c] # rank[d]
    <2>1. Cardinality(upto(d) \ {d}) = Cardinality(upto(d)) - 1 /\ IsFiniteSet(upto(d) \ {d})
      BY <1>3, <1>4, <1>7, FS_RemoveElement
    <2>2. Cardinality(upto(c)) <= Cardinality(upto(d) \ {d})
      BY <1>3, <1>7, <2>1, FS_Subset
    <2> QED
      BY <1>2, <1>4, <2>1, <2>2
  <1>8. \A c, d \in S : c < d \/ d < c \/ c = d
    BY <1>1
  <1>9. ASSUME NEW c \in S, NEW d \in S, rank[c] = rank[d] PROVE c = d
    BY <1>7, <1>8, <1>9
  <1> QED
    BY <1>5, <1>6, <1>9

(* What writing a line for some channels does to a table that has it not:  *)
(* one row of each takes it, one whose turn has not come or a new one.     *)
TakesLine(r, q, line) ==
  /\ q.channel = r.channel /\ q.sent = r.sent /\ q.wait = r.wait /\ q.tried = r.tried
  /\ q.items = r.items \/ (q.items = Append(r.items, line) /\ r.wait > 0 /\ ~r.sent /\ Sendable(r))
Lacks(rows, line) == \A i \in DOMAIN rows : \A k \in DOMAIN rows[i].items : rows[i].items[k] # line
Carries(r, line) == \E k \in DOMAIN r.items : r.items[k] = line
Written(rows, out, cs, line) ==
  /\ Rowed(out)
  /\ \A i \in DOMAIN rows : i \in DOMAIN out /\ TakesLine(rows[i], out[i], line)
  /\ \A i \in DOMAIN out : i \in DOMAIN rows \/ (out[i].items = <<line>> /\ ~out[i].sent)
  /\ \A i, j \in DOMAIN out :
       out[i].channel = out[j].channel /\ Carries(out[i], line) /\ Carries(out[j], line) => i = j
  /\ \A c \in cs : \E i \in DOMAIN out : out[i].channel = c /\ Carries(out[i], line)

(* What may not merge has a row of its own.                                *)
OwnRows(out, slots, line) ==
  \A c \in DOMAIN slots : slots[c].collapse = "" =>
    \E i \in DOMAIN out : out[i].items = <<line>> /\ out[i].wait = slots[c].wait

LEMMA WriteIs ==
  ASSUME NEW rows, Rowed(rows), NEW slots, DOMAIN slots \subseteq Channels,
         NEW line \in Lines, Lacks(rows, line), NEW more, more = Write(rows, slots, line)
  PROVE  /\ Written(rows, more, DOMAIN slots, line)
         /\ OwnRows(more, slots, line)
  <1> DEFINE merging == {c \in DOMAIN slots : Merges(rows, c, slots[c])}
             new == DOMAIN slots \ merging
             top == Max(DOMAIN rows \cup {0})
             Number(c) == top + Cardinality({d \in new : d <= c})
             takes(c) == Min(Mergeable(rows, c, slots[c]))
             out == Write(rows, slots, line)
             row(c) == NewRow(c, slots[c], line)
             longer(i) == [rows[i] EXCEPT !.items = Append(@, line)]
  <1>1. /\ top \in Nat /\ \A i \in DOMAIN rows : i <= top
        /\ DOMAIN rows \subseteq Nat /\ \A i \in DOMAIN rows : RowRec(rows[i])
    <2>1. PICK n \in Nat : \A i \in DOMAIN rows : i <= n
      BY DEF Rowed
    <2>2. DOMAIN rows \cup {0} \in SUBSET Nat /\ \A i \in DOMAIN rows \cup {0} : i <= n
      BY <2>1 DEF Rowed
    <2>3. top \in DOMAIN rows \cup {0} /\ \A i \in DOMAIN rows \cup {0} : i <= top
      BY <2>2, HighestIs
    <2> QED
      BY <2>2, <2>3 DEF Rowed
  <1>2. /\ DOMAIN out = DOMAIN rows \cup {Number(c) : c \in new}
        /\ out = [i \in DOMAIN out |-> out[i]]
        /\ \A i \in DOMAIN out :
             out[i] = IF i \notin DOMAIN rows THEN row(CHOOSE d \in new : Number(d) = i)
                      ELSE IF \E c \in merging : i = takes(c) THEN longer(i)
                      ELSE rows[i]
    <2> DEFINE S == DOMAIN rows \cup {Number(c) : c \in new}
               body(i) == IF i \notin DOMAIN rows THEN row(CHOOSE d \in new : Number(d) = i)
                          ELSE IF \E c \in merging : i = takes(c) THEN longer(i)
                          ELSE rows[i]
    <2>1. out = [i \in S |-> body(i)]
      BY Zenon DEF Write
    <2> HIDE DEF out, S, body
    <2>2. DOMAIN out = S /\ out = [i \in DOMAIN out |-> out[i]] /\ \A i \in DOMAIN out : out[i] = body(i)
      BY <2>1
    <2> QED
      BY <2>2, Zenon DEF S, body
  <1>3. new \in SUBSET Channels
    OBVIOUS
  <1>4. /\ \A c \in new : Number(c) \in top + 1..top + Cardinality(new)
        /\ \A c, d \in new : Number(c) = Number(d) => c = d
        /\ Cardinality(new) \in Nat
    <2> DEFINE rank == [c \in new |-> Cardinality({d \in new : d <= c})]
    <2>1. /\ \A c \in new : rank[c] \in 1..Cardinality(new)
          /\ \A c, d \in new : rank[c] = rank[d] => c = d
          /\ Cardinality(new) \in Nat
      BY <1>3, RanksApart
    <2>2. \A c \in new : Number(c) = top + rank[c]
      OBVIOUS
    <2> HIDE DEF rank, new, top, Number
    <2> QED
      BY <1>1, <2>1, <2>2
  <1>5. \A c \in merging : /\ takes(c) \in DOMAIN rows /\ rows[takes(c)].channel = c
                            /\ ~rows[takes(c)].sent /\ rows[takes(c)].wait > 0 /\ Sendable(rows[takes(c)])
    <2> SUFFICES ASSUME NEW c \in merging
                 PROVE  takes(c) \in Mergeable(rows, c, slots[c])
      BY DEF Mergeable
    <2>1. Mergeable(rows, c, slots[c]) \in SUBSET Nat /\ Mergeable(rows, c, slots[c]) # {}
      BY <1>1 DEF Mergeable, Merges
    <2> QED
      BY <2>1, LowestIs
  <1>6. \A i \in DOMAIN rows : i \in DOMAIN out
    BY <1>2
  <1>7. \A c \in new : /\ Number(c) \in DOMAIN out /\ Number(c) \notin DOMAIN rows
                        /\ Number(c) \in Nat /\ Number(c) <= top + Cardinality(new)
                        /\ out[Number(c)] = row(c)
    <2> SUFFICES ASSUME NEW c \in new
                 PROVE  /\ Number(c) \in DOMAIN out /\ Number(c) \notin DOMAIN rows
                        /\ Number(c) \in Nat /\ Number(c) <= top + Cardinality(new)
                        /\ out[Number(c)] = row(c)
      OBVIOUS
    <2>1. Number(c) \in DOMAIN out
      <3> HIDE DEF Number, new, out
      <3> QED
        BY <1>2
    <2>2. Number(c) \in Nat /\ Number(c) > top /\ Number(c) <= top + Cardinality(new)
      <3> HIDE DEF top, new, Number
      <3> QED
        BY <1>1, <1>4
    <2>3. Number(c) \notin DOMAIN rows
      <3> HIDE DEF top, new, Number
      <3> QED
        BY <1>1, <2>2
    <2>4. (CHOOSE d \in new : Number(d) = Number(c)) = c
      <3> HIDE DEF top, new, Number
      <3> QED
        BY <1>4
    <2> HIDE DEF top, new, Number, out, row
    <2> QED
      BY <1>2, <2>1, <2>2, <2>3, <2>4
  <1> HIDE DEF merging, new, top, Number, takes, out
  <1>8. \A i \in DOMAIN out : i \in DOMAIN rows \/ \E c \in new : i = Number(c)
    BY <1>2
  <1>9. ASSUME NEW i \in DOMAIN rows
        PROVE  RowRec(out[i]) /\ TakesLine(rows[i], out[i], line)
    <2>1. RowRec(rows[i]) /\ rows[i].items \in Seq(Lines) /\ Append(rows[i].items, line) \in Seq(Lines)
      BY <1>1 DEF RowRec
    <2>2. CASE \E c \in merging : i = takes(c)
      <3>1. out[i] = longer(i) /\ rows[i].wait > 0 /\ ~rows[i].sent /\ Sendable(rows[i])
        BY <1>2, <1>5, <1>6, <2>2
      <3> QED
        BY <2>1, <3>1 DEF RowRec, RowFields, TakesLine
    <2>3. CASE ~\E c \in merging : i = takes(c)
      <3>1. out[i] = rows[i]
        BY <1>2, <1>6, <2>3
      <3> QED
        BY <2>1, <3>1 DEF TakesLine
    <2> QED
      BY <2>2, <2>3
  <1>10. ASSUME NEW c \in new
         PROVE  /\ RowRec(row(c)) /\ row(c).channel = c /\ row(c).items = <<line>> /\ ~row(c).sent
    BY <1>3 DEF NewRow, RowRec, RowFields, Never
  <1>11. Rowed(out)
    <2>1. \A i \in DOMAIN out : RowRec(out[i])
      BY <1>7, <1>8, <1>9, <1>10
    <2>2. DOMAIN out \subseteq Nat /\ \A i \in DOMAIN out : i <= top + Cardinality(new)
      BY <1>1, <1>4, <1>7, <1>8
    <2>3. top + Cardinality(new) \in Nat
      BY <1>1, <1>4
    <2> QED
      BY <1>2, <2>1, <2>2, <2>3 DEF Rowed
  <1>12. \A i \in DOMAIN out : i \in DOMAIN rows \/ (out[i].items = <<line>> /\ ~out[i].sent)
    <2>1. \A c \in new : out[Number(c)].items = <<line>> /\ ~out[Number(c)].sent
      BY <1>7, <1>10
    <2> QED
      BY <1>8, <2>1
  <1>13. \A i \in DOMAIN rows : Carries(out[i], line) => \E c \in merging : i = takes(c)
    BY <1>2, <1>6 DEF Lacks, Carries
  <1>14. ASSUME NEW i \in DOMAIN out, NEW j \in DOMAIN out, out[i].channel = out[j].channel,
                Carries(out[i], line), Carries(out[j], line)
         PROVE  i = j
    <2>1. \A h \in DOMAIN out : Carries(out[h], line) =>
            \/ \E c \in merging : h = takes(c) /\ out[h].channel = c
            \/ \E c \in new : h = Number(c) /\ out[h].channel = c
      BY <1>5, <1>7, <1>8, <1>9, <1>10, <1>13 DEF TakesLine
    <2>2. \A c \in new : c \notin merging
      BY DEF new
    <2> QED
      BY <1>14, <2>1, <2>2
  <1>15. ASSUME NEW c \in DOMAIN slots
         PROVE  \E i \in DOMAIN out : out[i].channel = c /\ Carries(out[i], line)
    <2>1. CASE c \in new
      <3>1. Carries(row(c), line)
        BY <1>10, <2>1 DEF Carries
      <3> QED
        BY <1>7, <1>10, <2>1, <3>1
    <2>2. CASE c \in merging
      <3>1. takes(c) \in DOMAIN rows /\ rows[takes(c)].channel = c /\ takes(c) \in DOMAIN out
        BY <1>5, <1>6, <2>2
      <3>2. out[takes(c)] = longer(takes(c))
        BY <1>2, <2>2, <3>1
      <3>3. RowRec(rows[takes(c)])
        BY <1>1, <3>1
      <3>4. out[takes(c)].items = Append(rows[takes(c)].items, line) /\ out[takes(c)].channel = c
        BY <3>1, <3>2, <3>3 DEF RowRec
      <3>5. Carries(out[takes(c)], line)
        <4>1. rows[takes(c)].items \in Seq(Lines)
          BY <3>3 DEF RowRec
        <4> QED
          BY <3>4, <4>1 DEF Carries
      <3> QED
        BY <3>1, <3>4, <3>5
    <2> QED
      BY <2>1, <2>2 DEF new
  <1>16. Written(rows, out, DOMAIN slots, line)
    BY <1>6, <1>9, <1>11, <1>12, <1>14, <1>15 DEF Written
  <1>17. ASSUME NEW c \in DOMAIN slots, slots[c].collapse = ""
         PROVE  \E i \in DOMAIN out : out[i].items = <<line>> /\ out[i].wait = slots[c].wait
    <2>1. c \in new
      BY <1>17 DEF new, merging, Merges
    <2>2. row(c).items = <<line>> /\ row(c).wait = slots[c].wait
      BY DEF NewRow
    <2> QED
      BY <1>7, <2>1, <2>2
  <1>18. more = out
    BY DEF out
  <1>19. OwnRows(out, slots, line)
    BY <1>17 DEF OwnRows
  <1> QED
    BY <1>16, <1>18, <1>19

LEMMA SlotsAre ==
  ASSUME NEW kind, DOMAIN verified \subseteq Channels
  PROVE  /\ DOMAIN Slots(kind) \subseteq Channels
         /\ \A c \in DOMAIN verified : verified[c] /\ <<kind, c>> \in Ticked => c \in DOMAIN Slots(kind)
  <1> DEFINE usable == {c \in DOMAIN verified : verified[c]}
             slots  == [c \in {d \in usable : <<kind, d>> \in Ticked} |-> Schedule(c, kind)]
             takers == IF DOMAIN slots # {} THEN DOMAIN slots ELSE usable
  <1>1. Slots(kind) = IF kind = "mentioned" /\ \A c \in DOMAIN slots : slots[c].wait > 0
                      THEN MentionNow(slots, usable) ELSE slots
    BY Zenon DEF Slots
  <1>2. DOMAIN slots = {d \in usable : <<kind, d>> \in Ticked} /\ usable \subseteq Channels
    OBVIOUS
  <1> HIDE DEF slots
  <1>3. takers \in SUBSET Nat /\ takers \subseteq Channels
    BY <1>2, ChannelsAre
  <1>4. /\ DOMAIN MentionNow(slots, usable) \subseteq Channels
        /\ DOMAIN slots \subseteq DOMAIN MentionNow(slots, usable)
    <2>1. CASE takers = {}
      <3>1. MentionNow(slots, usable) = slots
        BY <2>1 DEF MentionNow
      <3> QED
        BY <1>2, <3>1
    <2>2. CASE takers # {}
      <3>1. Min(takers) \in takers
        BY <1>3, <2>2, LowestIs
      <3>2. DOMAIN MentionNow(slots, usable) = DOMAIN slots \cup {Min(takers)}
        BY <2>2 DEF MentionNow
      <3> QED
        BY <1>2, <1>3, <3>1, <3>2
    <2> QED
      BY <2>1, <2>2
  <1> HIDE DEF usable
  <1>5. DOMAIN slots \subseteq DOMAIN Slots(kind) /\ DOMAIN Slots(kind) \subseteq Channels
    BY <1>1, <1>2, <1>4
  <1> QED
    BY <1>2, <1>5 DEF usable

LEMMA TableWritten ==
  ASSUME NEW rows, NEW lg, NEW gone, NEW got, NEW n \in Nat, NEW m \in Nat,
         Table(rows, lg, gone, got, n, m),
         NEW k \in Nat, NEW j \in Nat, n <= k, m <= j,
         NEW line, line \notin Queued(n, m), line \in Queued(k, j),
         NEW cs, NEW out, Written(rows, out, cs, line),
         \A e \in n + 1..k : line = <<"log", e>> /\ \A c \in Email \ gone : <<lg[e], c>> \in Ticked => c \in cs
  PROVE  Table(out, lg, gone, got, k, j)
  <1>1. /\ Rowed(rows) /\ Within(rows, n, m) /\ LinesApart(rows)
        /\ Covers(rows, lg, gone, n) /\ HasArrived(rows, got)
    BY DEF Table
  <1>2. /\ Rowed(out)
        /\ \A i \in DOMAIN rows : i \in DOMAIN out /\ TakesLine(rows[i], out[i], line)
        /\ \A i \in DOMAIN out : i \in DOMAIN rows \/ (out[i].items = <<line>> /\ ~out[i].sent)
    BY DEF Written
  <1>3. \A i \in DOMAIN rows : rows[i].items \in Seq(Lines) /\ Len(rows[i].items) \in Nat
    BY <1>1 DEF Rowed, RowRec
  <1>4. Queued(n, m) \subseteq Queued(k, j)
    BY DEF Queued
  (* A line of a row is the one written, or was at its place before.        *)
  <1>5. ASSUME NEW i \in DOMAIN out, NEW h \in DOMAIN out[i].items
        PROVE  \/ /\ i \in DOMAIN rows /\ h \in DOMAIN rows[i].items
                  /\ out[i].items[h] = rows[i].items[h] /\ out[i].channel = rows[i].channel
               \/ out[i].items[h] = line /\ \A g \in DOMAIN out[i].items : g # h =>
                     /\ i \in DOMAIN rows /\ g \in DOMAIN rows[i].items
                     /\ out[i].items[g] = rows[i].items[g]
    <2>1. CASE i \notin DOMAIN rows
      <3>1. out[i].items = <<line>>
        BY <1>2, <2>1
      <3> QED
        BY <1>5, <3>1
    <2>2. CASE i \in DOMAIN rows
      <3>1. out[i].channel = rows[i].channel
        BY <1>2, <2>2 DEF TakesLine
      <3>2. CASE out[i].items = rows[i].items
        BY <1>5, <2>2, <3>1, <3>2
      <3>3. CASE out[i].items = Append(rows[i].items, line)
        <4>1. /\ DOMAIN out[i].items = 1..Len(rows[i].items) + 1
              /\ \A g \in 1..Len(rows[i].items) : out[i].items[g] = rows[i].items[g]
              /\ out[i].items[Len(rows[i].items) + 1] = line
              /\ DOMAIN rows[i].items = 1..Len(rows[i].items) /\ Len(rows[i].items) \in Nat
          BY <1>3, <2>2, <3>3
        <4> QED
          BY <1>5, <2>2, <3>1, <4>1
      <3> QED
        BY <1>2, <2>2, <3>2, <3>3 DEF TakesLine
    <2> QED
      BY <2>1, <2>2
  <1>6. Within(out, k, j)
    <2> SUFFICES ASSUME NEW i \in DOMAIN out, NEW h \in DOMAIN out[i].items
                 PROVE  out[i].items[h] \in Queued(k, j)
      BY DEF Within
    <2> QED
      BY <1>1, <1>4, <1>5 DEF Within
  <1>7. LinesApart(out)
    <2> SUFFICES ASSUME NEW i \in DOMAIN out, NEW g \in DOMAIN out, out[i].channel = out[g].channel,
                        NEW h \in DOMAIN out[i].items, NEW l \in DOMAIN out[g].items,
                        out[i].items[h] = out[g].items[l]
                 PROVE  i = g /\ h = l
      BY DEF LinesApart
    <2>1. CASE out[i].items[h] # line
      <3>1. /\ i \in DOMAIN rows /\ h \in DOMAIN rows[i].items
            /\ out[i].items[h] = rows[i].items[h] /\ out[i].channel = rows[i].channel
        BY <1>5, <2>1
      <3>2. /\ g \in DOMAIN rows /\ l \in DOMAIN rows[g].items
            /\ out[g].items[l] = rows[g].items[l] /\ out[g].channel = rows[g].channel
        BY <1>5, <2>1
      <3>3. rows[i].channel = rows[g].channel /\ rows[i].items[h] = rows[g].items[l]
        BY <3>1, <3>2
      <3> QED
        BY <1>1, <3>1, <3>2, <3>3 DEF LinesApart
    <2>2. CASE out[i].items[h] = line
      <3>1. i = g
        BY <2>2 DEF Written, Carries
      <3>2. ASSUME h # l PROVE FALSE
        <4>1. \A f \in DOMAIN rows : \A e \in DOMAIN rows[f].items : rows[f].items[e] # line
          BY <1>1 DEF Within
        <4>2. l \in DOMAIN out[i].items /\ out[i].items[l] = line
          BY <2>2, <3>1
        <4>3. ~(i \in DOMAIN rows /\ h \in DOMAIN rows[i].items /\ out[i].items[h] = rows[i].items[h])
          BY <2>2, <4>1
        <4>4. i \in DOMAIN rows /\ l \in DOMAIN rows[i].items /\ out[i].items[l] = rows[i].items[l]
          BY <1>5, <3>2, <4>2, <4>3
        <4> QED
          BY <4>1, <4>2, <4>4
      <3> QED
        BY <3>1, <3>2
    <2> QED
      BY <2>1, <2>2
  <1>8. Covers(out, lg, gone, k)
    <2> SUFFICES ASSUME NEW c \in Email \ gone, NEW e \in 1..k, <<lg[e], c>> \in Ticked
                 PROVE  \E i \in DOMAIN out : out[i].channel = c /\ <<"log", e>> \in Range(out[i].items)
      BY DEF Covers
    <2>1. CASE e <= n
      <3>1. e \in 1..n
        BY <2>1
      <3>2. PICK i \in DOMAIN rows : rows[i].channel = c /\ <<"log", e>> \in Range(rows[i].items)
        BY <1>1, <3>1 DEF Covers
      <3>3. PICK h \in DOMAIN rows[i].items : rows[i].items[h] = <<"log", e>>
        BY <3>2 DEF Range
      <3>4. h \in DOMAIN out[i].items /\ out[i].items[h] = <<"log", e>>
        <4>1. CASE out[i].items = rows[i].items
          BY <3>3, <4>1
        <4>2. CASE out[i].items = Append(rows[i].items, line)
          BY <1>3, <3>3, <4>2
        <4> QED
          BY <1>2, <4>1, <4>2 DEF TakesLine
      <3>5. i \in DOMAIN out /\ out[i].channel = c
        BY <1>2, <3>2 DEF TakesLine
      <3> QED
        BY <3>4, <3>5 DEF Range
    <2>2. CASE ~(e <= n)
      <3>1. line = <<"log", e>> /\ c \in cs
        BY <2>2
      <3>2. PICK i \in DOMAIN out : out[i].channel = c /\ Carries(out[i], line)
        BY <3>1 DEF Written
      <3> QED
        BY <3>1, <3>2 DEF Carries, Range
    <2> QED
      BY <2>1, <2>2
  <1>9. HasArrived(out, got)
    <2> SUFFICES ASSUME NEW i \in DOMAIN out, out[i].sent
                 PROVE  \A h \in DOMAIN out[i].items : <<out[i].items[h], out[i].channel>> \in got
      BY DEF HasArrived
    <2>1. i \in DOMAIN rows
      BY <1>2
    <2>2. rows[i].sent /\ out[i].items = rows[i].items /\ out[i].channel = rows[i].channel
      BY <1>2, <2>1 DEF TakesLine
    <2> QED
      BY <1>1, <2>1, <2>2 DEF HasArrived
  <1> QED
    BY <1>2, <1>6, <1>7, <1>8, <1>9 DEF Table

-----------------------------------------------------------------------------
(* Rows may change all but their lines and their channel, and be marked    *)
(* sent when these have arrived.                                           *)
LEMMA TableKept ==
  ASSUME NEW rows, NEW lg, NEW gone, NEW got, NEW n, NEW m, Table(rows, lg, gone, got, n, m),
         NEW out, out = [i \in DOMAIN rows |-> out[i]], NEW more, got \subseteq more,
         \A i \in DOMAIN rows :
           /\ RowRec(out[i]) /\ out[i].channel = rows[i].channel /\ out[i].items = rows[i].items
           /\ out[i].sent => \/ rows[i].sent
                             \/ \A k \in DOMAIN rows[i].items : <<rows[i].items[k], rows[i].channel>> \in more
  PROVE  Table(out, lg, gone, more, n, m)
  <1>1. /\ Rowed(rows) /\ Within(rows, n, m) /\ LinesApart(rows)
        /\ Covers(rows, lg, gone, n) /\ HasArrived(rows, got)
    BY DEF Table
  <1>2. DOMAIN out = DOMAIN rows /\ out = [i \in DOMAIN out |-> out[i]]
    <2>1. DOMAIN [i \in DOMAIN rows |-> out[i]] = DOMAIN rows
      OBVIOUS
    <2> QED
      BY <2>1
  <1>3. Rowed(out)
    BY <1>1, <1>2 DEF Rowed
  <1>4. Within(out, n, m)
    BY <1>1, <1>2 DEF Within
  <1>5. LinesApart(out)
    <2> SUFFICES ASSUME NEW i \in DOMAIN out, NEW j \in DOMAIN out, out[i].channel = out[j].channel,
                        NEW k \in DOMAIN out[i].items, NEW l \in DOMAIN out[j].items,
                        out[i].items[k] = out[j].items[l]
                 PROVE  i = j /\ k = l
      BY DEF LinesApart
    <2>1. /\ i \in DOMAIN rows /\ j \in DOMAIN rows /\ rows[i].channel = rows[j].channel
          /\ k \in DOMAIN rows[i].items /\ l \in DOMAIN rows[j].items
          /\ rows[i].items[k] = rows[j].items[l]
      BY <1>2
    <2> QED
      BY <1>1, <2>1 DEF LinesApart
  <1>6. Covers(out, lg, gone, n)
    <2> SUFFICES ASSUME NEW c \in Email \ gone, NEW e \in 1..n, <<lg[e], c>> \in Ticked
                 PROVE  \E i \in DOMAIN out : out[i].channel = c /\ <<"log", e>> \in Range(out[i].items)
      BY DEF Covers
    <2>1. PICK i \in DOMAIN rows : rows[i].channel = c /\ <<"log", e>> \in Range(rows[i].items)
      BY <1>1 DEF Covers
    <2> QED
      BY <1>2, <2>1
  <1>7. HasArrived(out, more)
    BY <1>1, <1>2 DEF HasArrived
  <1> QED
    BY <1>3, <1>4, <1>5, <1>6, <1>7 DEF Table

(* A longer log and more that has arrived take nothing away.               *)
LEMMA TableGrows ==
  ASSUME NEW rows, NEW lg, NEW gone, NEW got, NEW n, NEW m, Table(rows, lg, gone, got, n, m),
         NEW more, got \subseteq more, NEW longer, \A e \in 1..n : longer[e] = lg[e]
  PROVE  Table(rows, longer, gone, more, n, m)
  <1>1. HasArrived(rows, more)
    BY DEF Table, HasArrived
  <1>2. Covers(rows, longer, gone, n)
    BY DEF Table, Covers
  <1> QED
    BY <1>1, <1>2 DEF Table

(* A channel's rows go with it.                                            *)
LEMMA TableCut ==
  ASSUME NEW rows, NEW lg, NEW gone, NEW got, NEW n, NEW m, Table(rows, lg, gone, got, n, m),
         NEW c, NEW out, out = Restrict(rows, {i \in DOMAIN rows : rows[i].channel # c})
  PROVE  Table(out, lg, gone \cup {c}, got, n, m)
  <1>1. /\ Rowed(rows) /\ Within(rows, n, m) /\ LinesApart(rows)
        /\ Covers(rows, lg, gone, n) /\ HasArrived(rows, got)
    BY DEF Table
  <1>2. /\ DOMAIN out = {i \in DOMAIN rows : rows[i].channel # c}
        /\ out = [i \in DOMAIN out |-> out[i]]
        /\ \A i \in DOMAIN out : out[i] = rows[i] /\ i \in DOMAIN rows
    BY DEF Restrict
  <1>3. Rowed(out)
    BY <1>1, <1>2 DEF Rowed
  <1>4. Within(out, n, m) /\ HasArrived(out, got)
    BY <1>1, <1>2 DEF Within, HasArrived
  <1>5. LinesApart(out)
    BY <1>1, <1>2 DEF LinesApart
  <1>6. Covers(out, lg, gone \cup {c}, n)
    <2> SUFFICES ASSUME NEW d \in Email \ (gone \cup {c}), NEW e \in 1..n, <<lg[e], d>> \in Ticked
                 PROVE  \E i \in DOMAIN out : out[i].channel = d /\ <<"log", e>> \in Range(out[i].items)
      BY DEF Covers
    <2>1. PICK i \in DOMAIN rows : rows[i].channel = d /\ <<"log", e>> \in Range(rows[i].items)
      BY <1>1 DEF Covers
    <2> QED
      BY <1>2, <2>1
  <1> QED
    BY <1>3, <1>4, <1>5, <1>6 DEF Table

(* The rest of the batch, when the row at hand is done with.               *)
LEMMA RestAsRead ==
  ASSUME NEW batch \in Seq(Entry), NEW rows, NEW lost, AsRead(batch, rows, lost), batch # <<>>,
         NEW out, \A i \in DOMAIN out : i # batch[1].id => i \in DOMAIN rows,
         \A i \in DOMAIN rows : i # batch[1].id => i \in DOMAIN out /\ out[i] = rows[i],
         NEW pc, NEW w, w = AfterRow([pc |-> pc, batch |-> batch])
  PROVE  /\ w = [pc |-> w.pc, batch |-> w.batch] /\ w.batch \in Seq(Entry)
         /\ w.pc \in {"tick", "once"} <=> w.batch = <<>>
         /\ AsRead(w.batch, out, lost)
         /\ w.pc # "mark"
  <1>1. CASE Len(batch) > 1
    <2>1. w = [pc |-> "row", batch |-> Tail(batch)]
      BY <1>1 DEF AfterRow
    <2>2. /\ Tail(batch) \in Seq(Entry) /\ Len(Tail(batch)) = Len(batch) - 1 /\ Len(batch) \in Nat
          /\ DOMAIN Tail(batch) = 1..Len(batch) - 1 /\ DOMAIN batch = 1..Len(batch)
          /\ \A k \in 1..Len(batch) - 1 : Tail(batch)[k] = batch[k + 1]
      OBVIOUS
    <2>3. Tail(batch) # <<>>
      <3>1. Len(Tail(batch)) # 0
        <4> DEFINE l == Len(batch)
                   t == Len(Tail(batch))
        <4>1. t = l - 1 /\ l \in Nat /\ l > 1
          BY <1>1, <2>2
        <4>2. t # 0
          <5> HIDE DEF l, t
          <5> QED
            BY <4>1
        <4> QED
          BY <4>2
      <3>2. Len(<<>>) = 0
        OBVIOUS
      <3> QED
        BY <3>1, <3>2
    <2>4. ASSUME NEW k \in 1..Len(batch) - 1
          PROVE  k + 1 \in DOMAIN batch /\ k + 1 # 1 /\ 1 \in DOMAIN batch /\ Tail(batch)[k] = batch[k + 1]
      BY <1>1, <2>2
    <2>5. ASSUME NEW k \in DOMAIN Tail(batch)
          PROVE  IF Tail(batch)[k].gone THEN Strayed(Tail(batch)[k], out, lost)
                 ELSE Held(Tail(batch)[k], out, lost)
      <3> DEFINE q == batch[k + 1]
      <3>1. k + 1 \in DOMAIN batch /\ q.id # batch[1].id /\ Tail(batch)[k] = q
        BY <2>2, <2>4 DEF AsRead
      <3>2. IF q.gone THEN Strayed(q, rows, lost) ELSE Held(q, rows, lost)
        BY <3>1 DEF AsRead
      <3> HIDE DEF q
      <3>3. CASE q.gone
        BY <3>1, <3>2, <3>3 DEF Strayed
      <3>4. CASE ~q.gone
        <4>1. q.id \in DOMAIN out /\ out[q.id] = rows[q.id]
          BY <3>1, <3>2, <3>4 DEF Held
        <4> QED
          BY <3>1, <3>2, <3>4, <4>1 DEF Held
      <3> QED
        BY <3>3, <3>4
    <2>6. ASSUME NEW j \in DOMAIN Tail(batch), NEW k \in DOMAIN Tail(batch), Tail(batch)[j].id = Tail(batch)[k].id
          PROVE  j = k
      <3>1. batch[j + 1].id = batch[k + 1].id /\ j + 1 \in DOMAIN batch /\ k + 1 \in DOMAIN batch
        BY <2>2, <2>4, <2>6
      <3>2. j + 1 = k + 1
        BY <3>1 DEF AsRead
      <3> QED
        BY <2>2, <3>2
    <2>7. AsRead(Tail(batch), out, lost)
      BY <2>5, <2>6 DEF AsRead
    <2>8. w.pc = "row" /\ w.batch = Tail(batch)
      BY <2>1
    <2> QED
      BY <2>1, <2>2, <2>3, <2>7, <2>8
  <1>2. CASE ~(Len(batch) > 1)
    <2>1. w = [pc |-> "tick", batch |-> <<>>]
      BY <1>2 DEF AfterRow, AtRest
    <2>2. AsRead(<<>>, out, lost)
      BY DEF AsRead
    <2>3. w.pc = "tick" /\ w.batch = <<>> /\ <<>> \in Seq(Entry)
      BY <2>1
    <2> QED
      BY <2>1, <2>2, <2>3
  <1> QED
    BY <1>1, <1>2

(* Steps of the worker that change no row.                                 *)
LEMMA WorkerMoves ==
  ASSUME NotifyInv, UNCHANGED <<log, cursor, dated, outbox, verified, deleted, late>>,
         tx' = tx \/ ~tx'.open, delivered \subseteq delivered',
         worker' = [pc |-> worker'.pc, batch |-> worker'.batch], worker'.batch \in Seq(Entry),
         worker'.pc \in {"tick", "once"} <=> worker'.batch = <<>>,
         AsRead(worker'.batch, outbox, late), worker'.pc = "mark" => Arrived(worker'.batch, delivered')
  PROVE  NotifyInv'
  <1>1. Settled \subseteq Settled'
    BY DEF Settled
  <1> DEFINE more == Settled'
  <1>2. Table(outbox, log, deleted, more, cursor, dated)
    BY <1>1, TableGrows DEF NotifyInv
  <1>3. ASSUME tx'.open
        PROVE  /\ tx = [open |-> TRUE, rows |-> tx.rows, cursor |-> tx.cursor, fell |-> tx.fell] /\ tx' = tx
               /\ tx.cursor \in cursor..Len(log) /\ Ahead(outbox, tx.rows, tx.fell)
               /\ Table(tx.rows, log, deleted, more, tx.cursor, dated)
    <2>1. tx' = tx /\ tx.open
      BY <1>3
    <2>2. /\ tx = [open |-> TRUE, rows |-> tx.rows, cursor |-> tx.cursor, fell |-> tx.fell]
          /\ tx.cursor \in cursor..Len(log) /\ Ahead(outbox, tx.rows, tx.fell)
          /\ Table(tx.rows, log, deleted, Settled, tx.cursor, dated)
      BY <2>1 DEF NotifyInv
    <2> QED
      BY <1>1, <2>1, <2>2, TableGrows
  <1> HIDE DEF more
  <1>4. more = Settled'
    BY DEF more
  <1> QED
    BY <1>2, <1>3, <1>4 DEF NotifyInv

(* A step that ends with an update of the row at hand.                     *)
LEMMA RowDone ==
  ASSUME NotifyInv, Free, worker.pc \notin {"tick", "once"},
         UNCHANGED <<log, cursor, dated, verified, deleted, delivered, late, tx>>,
         NEW r, Update(r), Onward,
         RowRec(Row) => RowRec(r) /\ r.channel = Row.channel /\ r.items = Row.items,
         Id \in DOMAIN outbox /\ r.sent => worker.pc = "mark" \/ Row.sent
  PROVE  NotifyInv'
  <1>1. /\ worker = [pc |-> worker.pc, batch |-> worker.batch] /\ worker.batch \in Seq(Entry)
        /\ worker.batch # <<>> /\ AsRead(worker.batch, outbox, late)
        /\ Table(outbox, log, deleted, Settled, cursor, dated) /\ Rowed(outbox)
        /\ worker.pc = "mark" => Arrived(worker.batch, delivered)
    BY DEF NotifyInv, Table
  <1>2. 1 \in DOMAIN worker.batch
    BY <1>1
  <1>3. /\ DOMAIN outbox' = DOMAIN outbox /\ outbox' = [i \in DOMAIN outbox |-> outbox'[i]]
        /\ Id \in DOMAIN outbox => outbox'[Id] = r
        /\ \A i \in DOMAIN outbox : i # Id => outbox'[i] = outbox[i]
    <2>1. outbox = [i \in DOMAIN outbox |-> outbox[i]]
      BY <1>1 DEF Rowed
    <2>2. CASE Here
      <3>1. outbox' = [outbox EXCEPT ![Id] = r]
        BY <2>2 DEF Update
      <3> QED
        BY <2>1, <3>1
    <2>3. CASE ~Here
      <3>1. outbox' = outbox /\ Id \notin DOMAIN outbox
        BY <2>3 DEF Update, Here
      <3> QED
        BY <2>1, <3>1
    <2> QED
      BY <2>2, <2>3
  <1>4. \A i \in DOMAIN outbox : RowRec(outbox[i])
    BY <1>1 DEF Rowed
  (* What is marked arrived with the mark, or came late.                    *)
  <1>5. ASSUME worker.pc = "mark", Id \in DOMAIN outbox, NEW x \in DOMAIN Row.items
        PROVE  <<Row.items[x], Row.channel>> \in Settled
    <2> DEFINE q == worker.batch[1]
    <2>1. q.id = Id /\ Row = outbox[Id] /\ IF q.gone THEN Strayed(q, outbox, late) ELSE Held(q, outbox, late)
      BY <1>1, <1>2 DEF AsRead, Id, Row
    <2>2. \A y \in DOMAIN q.items : <<q.items[y], q.channel>> \in delivered
      BY <1>1, <1>5 DEF Arrived
    <2> HIDE DEF q
    <2>3. CASE q.gone
      BY <1>5, <2>1, <2>3 DEF Strayed, Settled
    <2>4. CASE ~q.gone
      BY <1>5, <2>1, <2>2, <2>4 DEF Held, Settled, Range
    <2> QED
      BY <2>3, <2>4
  <1>6. ASSUME NEW i \in DOMAIN outbox
        PROVE  /\ RowRec(outbox'[i]) /\ outbox'[i].channel = outbox[i].channel
               /\ outbox'[i].items = outbox[i].items
               /\ outbox'[i].sent => \/ outbox[i].sent
                                     \/ \A k \in DOMAIN outbox[i].items :
                                          <<outbox[i].items[k], outbox[i].channel>> \in Settled
    <2>1. CASE i # Id
      BY <1>3, <1>4, <2>1
    <2>2. CASE i = Id
      <3>1. /\ outbox'[i] = r /\ RowRec(r) /\ r.channel = Row.channel /\ r.items = Row.items /\ outbox[i] = Row
            /\ Id \in DOMAIN outbox
        BY <1>3, <1>4, <2>2 DEF Row
      <3>2. r.sent => Row.sent \/ \A k \in DOMAIN Row.items : <<Row.items[k], Row.channel>> \in Settled
        BY <1>5, <3>1
      <3> QED
        BY <3>1, <3>2
    <2> QED
      BY <2>1, <2>2
  <1> DEFINE out == outbox'
  <1>7. Table(out, log, deleted, Settled, cursor, dated)
    <2>1. /\ out = [i \in DOMAIN outbox |-> out[i]]
          /\ \A i \in DOMAIN outbox :
               /\ RowRec(out[i]) /\ out[i].channel = outbox[i].channel /\ out[i].items = outbox[i].items
               /\ out[i].sent => \/ outbox[i].sent
                                 \/ \A k \in DOMAIN outbox[i].items :
                                      <<outbox[i].items[k], outbox[i].channel>> \in Settled
      BY <1>3, <1>6
    <2> HIDE DEF out
    <2> QED
      BY <1>1, <2>1, TableKept
  <1>8. worker' = AfterRow([pc |-> worker.pc, batch |-> worker.batch])
    BY <1>1 DEF Onward
  <1>9. /\ worker' = [pc |-> worker'.pc, batch |-> worker'.batch] /\ worker'.batch \in Seq(Entry)
        /\ worker'.pc \in {"tick", "once"} <=> worker'.batch = <<>>
        /\ AsRead(worker'.batch, out, late) /\ worker'.pc # "mark"
    <2>1. /\ \A i \in DOMAIN out : i # worker.batch[1].id => i \in DOMAIN outbox
          /\ \A i \in DOMAIN outbox : i # worker.batch[1].id => i \in DOMAIN out /\ out[i] = outbox[i]
      BY <1>3 DEF Id
    <2> DEFINE batch == worker.batch
               pc == worker.pc
               w == worker'
    <2>2. /\ batch \in Seq(Entry) /\ AsRead(batch, outbox, late) /\ batch # <<>>
          /\ w = AfterRow([pc |-> pc, batch |-> batch])
          /\ \A i \in DOMAIN out : i # batch[1].id => i \in DOMAIN outbox
          /\ \A i \in DOMAIN outbox : i # batch[1].id => i \in DOMAIN out /\ out[i] = outbox[i]
      BY <1>1, <1>8, <2>1
    <2> HIDE DEF out, batch, pc, w
    <2>3. /\ w = [pc |-> w.pc, batch |-> w.batch] /\ w.batch \in Seq(Entry)
          /\ w.pc \in {"tick", "once"} <=> w.batch = <<>>
          /\ AsRead(w.batch, out, late)
          /\ w.pc # "mark"
      BY <2>2, RestAsRead
    <2> QED
      BY <2>3 DEF w
  <1>10. Settled' = Settled
    BY DEF Settled
  <1> QED
    BY <1>7, <1>9, <1>10 DEF NotifyInv, Free

-----------------------------------------------------------------------------
(* What the queueing of a line leaves, in the table or in a transaction's. *)
LEMMA QueueUserIs ==
  ASSUME NotifyInv, NEW rows, NEW n \in Nat, NEW m \in Nat,
         Table(rows, log, deleted, Settled, n, m),
         NEW k \in Nat, NEW j \in Nat, n <= k, m <= j, NEW kind,
         NEW line \in Lines, line \notin Queued(n, m), line \in Queued(k, j),
         \A e \in n + 1..k : line = <<"log", e>> /\ kind = log[e],
         NEW out, out = QueueUser(rows, kind, line)
  PROVE  /\ Table(out, log, deleted, Settled, k, j)
         /\ \A i \in DOMAIN rows : i \in DOMAIN out /\ TakesLine(rows[i], out[i], line)
         /\ \A i \in DOMAIN out : i \in DOMAIN rows \/ out[i].items = <<line>>
  <1>1. /\ Rowed(rows) /\ Lacks(rows, line) /\ DOMAIN verified \subseteq Channels
        /\ \A c \in Email \ deleted : c \in DOMAIN verified /\ verified[c]
    BY DEF NotifyInv, Table, Within, Lacks
  <1>2. /\ DOMAIN Slots(kind) \subseteq Channels
        /\ \A c \in DOMAIN verified : verified[c] /\ <<kind, c>> \in Ticked => c \in DOMAIN Slots(kind)
    BY <1>1, SlotsAre
  <1>3. Written(rows, out, DOMAIN Slots(kind), line)
    BY <1>1, <1>2, WriteIs DEF QueueUser
  <1>4. \A e \in n + 1..k : /\ line = <<"log", e>>
                             /\ \A c \in Email \ deleted : <<log[e], c>> \in Ticked => c \in DOMAIN Slots(kind)
    BY <1>1, <1>2
  <1>5. Table(out, log, deleted, Settled, k, j)
    BY <1>3, <1>4, TableWritten
  <1> QED
    BY <1>3, <1>5 DEF Written

(* Lines go only to rows whose turn has not come.                          *)
LEMMA TakenIsAhead ==
  ASSUME NEW rows, NEW more, Rowed(more), NEW out, NEW line, NEW fell, Ahead(rows, more, fell),
         \A i \in DOMAIN more : i \in DOMAIN out /\ TakesLine(more[i], out[i], line)
  PROVE  Ahead(rows, out, fell)
  <1> SUFFICES ASSUME NEW i \in DOMAIN rows
               PROVE  /\ i \in DOMAIN out
                      /\ out[i].channel = rows[i].channel /\ out[i].sent = rows[i].sent
                      /\ out[i].wait = rows[i].wait /\ out[i].tried = rows[i].tried
                      /\ \A x \in DOMAIN rows[i].items : rows[i].items[x] \in Range(out[i].items)
                      /\ out[i].items = rows[i].items \/ rows[i].wait # 0 \/ i \in fell
    BY DEF Ahead
  <1>1. /\ i \in DOMAIN more
        /\ more[i].channel = rows[i].channel /\ more[i].sent = rows[i].sent /\ more[i].wait = rows[i].wait
        /\ more[i].tried = rows[i].tried
        /\ \A x \in DOMAIN rows[i].items : rows[i].items[x] \in Range(more[i].items)
        /\ more[i].items = rows[i].items \/ rows[i].wait # 0 \/ i \in fell
    BY DEF Ahead
  <1>2. i \in DOMAIN out /\ TakesLine(more[i], out[i], line) /\ more[i].items \in Seq(Lines)
    BY <1>1 DEF Rowed, RowRec
  <1>3. CASE out[i].items = more[i].items
    BY <1>1, <1>2, <1>3 DEF TakesLine
  <1>4. CASE out[i].items = Append(more[i].items, line) /\ more[i].wait > 0
    <2> DEFINE s == more[i].items
               t == Append(s, line)
    <2>1. \A x \in DOMAIN s : x \in DOMAIN t /\ t[x] = s[x]
      BY <1>2
    <2>2. Range(s) \subseteq Range(t)
      BY <2>1, Zenon DEF Range
    <2>3. more[i].wait # 0
      BY <1>4
    <2> HIDE DEF s, t
    <2>4. out[i].items = t /\ more[i].items = s
      BY <1>4 DEF s, t
    <2> QED
      BY <1>1, <1>2, <2>2, <2>3, <2>4 DEF TakesLine
  <1> QED
    BY <1>2, <1>3, <1>4 DEF TakesLine

(* What a commit adds to the rows of the batch is late.                    *)
LEMMA CommitAsRead ==
  ASSUME NotifyInv, tx.open
  PROVE  AsRead(worker.batch, tx.rows, late \cup Overlooked)
  <1> DEFINE batch == worker.batch
             rows == tx.rows
             lost == late \cup Overlooked
  <1>1. /\ AsRead(batch, outbox, late) /\ Ahead(outbox, rows, tx.fell) /\ Rowed(rows)
    BY DEF NotifyInv, Table
  <1>2. ASSUME NEW k \in DOMAIN batch, batch[k].id \in DOMAIN rows,
               NEW x \in DOMAIN rows[batch[k].id].items,
               rows[batch[k].id].items[x] \in Added(batch[k].id),
               batch[k].gone \/ batch[k].id \in tx.fell
        PROVE  <<rows[batch[k].id].items[x], rows[batch[k].id].channel>> \in lost
    <2> DEFINE i == batch[k].id
               line == rows[i].items[x]
               c == rows[i].channel
    <2>1. c \in Channels /\ line \in UNION {Added(j) : j \in DOMAIN tx.rows}
      BY <1>1, <1>2 DEF Rowed, RowRec
    <2>2. <<line, c>> \in Overlooked
      BY <1>2, <2>1 DEF Overlooked
    <2> QED
      BY <2>2
  <1>3. ASSUME NEW i \in DOMAIN rows, NEW x \in DOMAIN rows[i].items, rows[i].items[x] \notin Added(i)
        PROVE  i \in DOMAIN outbox /\ rows[i].items[x] \in Range(outbox[i].items)
    <2>1. rows[i].items[x] \in Range(rows[i].items)
      BY DEF Range
    <2> QED
      BY <1>3, <2>1 DEF Added
  <1>4. ASSUME NEW k \in DOMAIN batch
        PROVE  IF batch[k].gone THEN Strayed(batch[k], rows, lost) ELSE Held(batch[k], rows, lost)
    <2> DEFINE q == batch[k]
    <2>1. IF q.gone THEN Strayed(q, outbox, late) ELSE Held(q, outbox, late)
      BY <1>1 DEF AsRead
    <2>2. \A i \in DOMAIN outbox : i \in DOMAIN rows /\ rows[i].channel = outbox[i].channel
      BY <1>1 DEF Ahead
    <2>3. CASE q.gone
      <3>1. ASSUME q.id \in DOMAIN rows, NEW x \in DOMAIN rows[q.id].items
            PROVE  <<rows[q.id].items[x], rows[q.id].channel>> \in lost
        <4>1. CASE rows[q.id].items[x] \in Added(q.id)
          BY <1>2, <2>3, <3>1, <4>1
        <4>2. CASE rows[q.id].items[x] \notin Added(q.id)
          <5>1. q.id \in DOMAIN outbox /\ rows[q.id].items[x] \in Range(outbox[q.id].items)
            BY <1>3, <3>1, <4>2
          <5>2. rows[q.id].channel = outbox[q.id].channel
            BY <2>2, <5>1
          <5> QED
            BY <2>1, <2>3, <5>1, <5>2 DEF Strayed, Range
        <4> QED
          BY <4>1, <4>2
      <3> QED
        BY <2>3, <3>1 DEF Strayed
    <2>4. CASE ~q.gone
      <3>1. Held(q, outbox, late)
        BY <2>1, <2>4
      <3>2. /\ q.id \in DOMAIN outbox /\ outbox[q.id].channel = q.channel /\ ~outbox[q.id].sent
            /\ outbox[q.id].wait = 0
        BY <3>1 DEF Held
      <3>3. /\ q.id \in DOMAIN rows /\ rows[q.id].channel = q.channel /\ ~rows[q.id].sent
            /\ rows[q.id].wait = 0
            /\ \A x \in DOMAIN outbox[q.id].items : outbox[q.id].items[x] \in Range(rows[q.id].items)
            /\ rows[q.id].items = outbox[q.id].items \/ q.id \in tx.fell
        BY <1>1, <3>2 DEF Ahead
      <3>4. ASSUME NEW y \in DOMAIN q.items PROVE q.items[y] \in Range(rows[q.id].items)
        <4>1. q.items[y] \in Range(outbox[q.id].items)
          BY <3>1 DEF Held
        <4> QED
          BY <3>3, <4>1 DEF Range
      <3>5. ASSUME NEW x \in DOMAIN rows[q.id].items
            PROVE  \/ rows[q.id].items[x] \in Range(q.items)
                   \/ <<rows[q.id].items[x], rows[q.id].channel>> \in lost
        <4>1. CASE rows[q.id].items[x] \in Added(q.id) /\ q.id \in tx.fell
          BY <1>2, <3>3, <4>1
        <4>2. CASE rows[q.id].items[x] \in Range(outbox[q.id].items)
          <5>1. PICK z \in DOMAIN outbox[q.id].items : outbox[q.id].items[z] = rows[q.id].items[x]
            BY <4>2 DEF Range
          <5>2. \/ outbox[q.id].items[z] \in Range(q.items)
                \/ <<outbox[q.id].items[z], outbox[q.id].channel>> \in late
            BY <3>1 DEF Held
          <5> QED
            BY <3>2, <3>3, <5>1, <5>2
        <4>3. CASE rows[q.id].items = outbox[q.id].items
          <5>1. rows[q.id].items[x] \in Range(outbox[q.id].items)
            BY <4>3 DEF Range
          <5> QED
            BY <4>2, <5>1
        <4> QED
          BY <1>3, <3>3, <4>1, <4>2, <4>3
      <3> HIDE DEF q, rows, lost
      <3>6. Held(q, rows, lost)
        BY <3>3, <3>4, <3>5 DEF Held
      <3> QED
        BY <2>4, <3>6 DEF q
    <2> QED
      BY <2>3, <2>4
  <1> HIDE DEF rows, lost, batch
  <1>5. \A j, k \in DOMAIN batch : batch[j].id = batch[k].id => j = k
    BY <1>1 DEF AsRead
  <1>6. AsRead(batch, rows, lost)
    BY <1>4, <1>5 DEF AsRead
  <1> QED
    BY <1>6 DEF batch, rows, lost

LEMMA LogsMore ==
  ASSUME NotifyInv, NEW kind \in Kinds, Happens(kind)
  PROVE  NotifyInv'
  <1>1. /\ log \in Seq(Kinds) /\ log' = Append(log, kind) /\ cursor \in 0..Len(log) /\ ~tx.open /\ tx' = tx
        /\ UNCHANGED <<cursor, dated, outbox, verified, worker, delivered, deleted, late>>
    BY DEF Happens, Free, NotifyInv, history
  <1>2. /\ log' \in Seq(Kinds) /\ Len(log') = Len(log) + 1 /\ Len(log) \in Nat
        /\ \A e \in 1..Len(log) : log'[e] = log[e]
    BY <1>1
  <1>3. \A e \in 1..cursor : log'[e] = log[e]
    BY <1>1, <1>2
  <1>4. Table(outbox, log', deleted, Settled, cursor, dated) /\ Settled' = Settled
    <2>1. Table(outbox, log, deleted, Settled, cursor, dated)
      BY DEF NotifyInv
    <2> QED
      BY <1>1, <1>3, <2>1, TableGrows DEF Settled
  <1>5. cursor \in 0..Len(log')
    BY <1>1, <1>2
  <1> QED
    BY <1>1, <1>2, <1>4, <1>5 DEF NotifyInv

LEMMA CatchesUp == NotifyInv /\ (Watcher \/ CatchUpFails) => NotifyInv'
  <1> SUFFICES ASSUME NotifyInv, Watcher \/ CatchUpFails PROVE NotifyInv'
    OBVIOUS
  <1>1. /\ log \in Seq(Kinds) /\ Len(log) \in Nat /\ cursor \in 0..Len(log) /\ dated \in Nat
        /\ Table(outbox, log, deleted, Settled, cursor, dated) /\ AsRead(worker.batch, outbox, late)
    BY DEF NotifyInv
  <1>2. CASE CatchUpBegins
    <2>1. /\ tx' = [open |-> TRUE, rows |-> outbox, cursor |-> cursor, fell |-> {}]
          /\ UNCHANGED <<log, cursor, dated, outbox, verified, worker, delivered, deleted, late>>
      BY <1>2 DEF CatchUpBegins, events, history
    <2>2. Ahead(outbox, outbox, {})
      BY DEF Ahead, Range
    <2>3. /\ tx'.rows = outbox /\ tx'.cursor = cursor /\ cursor \in cursor..Len(log) /\ tx'.fell = {}
          /\ tx' = [open |-> TRUE, rows |-> tx'.rows, cursor |-> tx'.cursor, fell |-> tx'.fell]
      BY <1>1, <2>1
    <2>4. Settled' = Settled
      BY <2>1 DEF Settled
    <2> QED
      BY <1>1, <2>1, <2>2, <2>3, <2>4 DEF NotifyInv
  <1>3. CASE CatchUpQueues
    <2> DEFINE n == tx.cursor + 1
               line == <<"log", n>>
               kind == log[n]
               out == QueueUser(tx.rows, kind, line)
    <2>1. /\ tx.open /\ tx.cursor < Len(log) /\ tx' = [[tx EXCEPT !.rows = out] EXCEPT !.cursor = n]
          /\ UNCHANGED <<log, cursor, dated, outbox, verified, worker, delivered, deleted, late>>
      BY <1>3 DEF CatchUpQueues, events, history
    <2>2. /\ tx = [open |-> TRUE, rows |-> tx.rows, cursor |-> tx.cursor, fell |-> tx.fell]
          /\ tx.cursor \in cursor..Len(log) /\ Ahead(outbox, tx.rows, tx.fell)
          /\ Table(tx.rows, log, deleted, Settled, tx.cursor, dated)
      BY <2>1 DEF NotifyInv
    <2>3. tx.cursor \in Nat /\ n \in Nat /\ n \in cursor..Len(log) /\ tx.cursor <= n
      BY <1>1, <2>1, <2>2
    <2>4. line \in Lines /\ line \notin Queued(tx.cursor, dated) /\ line \in Queued(n, dated)
      BY <1>1, <2>3 DEF Lines, Queued
    <2>5. \A e \in tx.cursor + 1..n : line = <<"log", e>> /\ kind = log[e]
      <3>1. \A e \in tx.cursor + 1..n : e = n
        BY <2>3
      <3> QED
        BY <3>1
    <2>6. tx' = [open |-> TRUE, rows |-> out, cursor |-> n, fell |-> tx.fell]
      BY <2>1, <2>2
    <2>7. /\ tx'.rows = out /\ tx'.cursor = n /\ tx'.fell = tx.fell
          /\ tx' = [open |-> TRUE, rows |-> tx'.rows, cursor |-> tx'.cursor, fell |-> tx'.fell]
      BY <2>6
    <2> HIDE DEF n, line, kind
    <2>8. /\ Table(out, log, deleted, Settled, n, dated)
          /\ \A i \in DOMAIN tx.rows : i \in DOMAIN out /\ TakesLine(tx.rows[i], out[i], line)
      <3> DEFINE rows == tx.rows
                 m == tx.cursor
      <3>1. out = QueueUser(rows, kind, line) /\ dated <= dated /\ dated \in Nat
        BY <1>1
      <3>2. m \in Nat /\ n \in Nat /\ m <= n /\ Table(rows, log, deleted, Settled, m, dated)
        BY <2>2, <2>3
      <3>3. /\ line \in Lines /\ line \notin Queued(m, dated) /\ line \in Queued(n, dated)
            /\ \A e \in m + 1..n : line = <<"log", e>> /\ kind = log[e]
        BY <2>4, <2>5
      <3> HIDE DEF out, rows, m
      <3>4. /\ Table(out, log, deleted, Settled, n, dated)
            /\ \A i \in DOMAIN rows : i \in DOMAIN out /\ TakesLine(rows[i], out[i], line)
        BY <3>1, <3>2, <3>3, QueueUserIs
      <3> QED
        BY <3>4 DEF rows
    <2> HIDE DEF out
    <2>9. Ahead(outbox, out, tx.fell)
      BY <2>2, <2>8, TakenIsAhead DEF Table
    <2>10. Settled' = Settled
      BY <2>1 DEF Settled
    <2> QED
      BY <1>1, <2>1, <2>3, <2>7, <2>8, <2>9, <2>10 DEF NotifyInv
  <1>4. CASE CatchUpCommits
    <2>1. /\ tx.open /\ outbox' = tx.rows /\ cursor' = tx.cursor /\ tx' = NoTx
          /\ late' = late \cup Overlooked
          /\ UNCHANGED <<log, dated, verified, worker, delivered, deleted>>
      BY <1>4 DEF CatchUpCommits
    <2>2. /\ tx.cursor \in cursor..Len(log)
          /\ Table(tx.rows, log, deleted, Settled, tx.cursor, dated)
      BY <2>1 DEF NotifyInv
    <2>3. AsRead(worker.batch, tx.rows, late') /\ ~tx'.open /\ tx.cursor \in 0..Len(log)
      BY <1>1, <2>1, <2>2, CommitAsRead DEF NoTx
    <2> DEFINE more == Settled'
    <2>4. Settled \subseteq more
      BY <2>1 DEF Settled
    <2>5. Table(tx.rows, log, deleted, more, tx.cursor, dated)
      BY <2>2, <2>4, TableGrows
    <2> HIDE DEF more
    <2>6. more = Settled'
      BY DEF more
    <2> QED
      BY <2>1, <2>3, <2>5, <2>6 DEF NotifyInv
  <1>5. CASE CatchUpFails
    <2>1. ~tx'.open /\ UNCHANGED <<log, cursor, dated, outbox, verified, worker, delivered, deleted, late>>
      BY <1>5 DEF CatchUpFails, events, history, NoTx
    <2>2. Settled' = Settled
      BY <2>1 DEF Settled
    <2> QED
      BY <2>1, <2>2 DEF NotifyInv
  <1> QED
    BY <1>2, <1>3, <1>4, <1>5 DEF Watcher

LEMMA Ticks == NotifyInv /\ (DailyTick \/ TickNotDue \/ TickFails) => NotifyInv'
  <1> SUFFICES ASSUME NotifyInv, DailyTick \/ TickNotDue \/ TickFails PROVE NotifyInv'
    OBVIOUS
  <1>1. /\ worker = [pc |-> worker.pc, batch |-> worker.batch] /\ worker.batch \in Seq(Entry)
        /\ cursor \in 0..Len(log) /\ Len(log) \in Nat /\ dated \in Nat
        /\ worker.pc \in {"tick", "once"} <=> worker.batch = <<>>
        /\ AsRead(worker.batch, outbox, late) /\ Table(outbox, log, deleted, Settled, cursor, dated)
    BY DEF NotifyInv
  <1>2. /\ worker' = [worker EXCEPT !.pc = "once"]
        /\ worker.pc = "tick"
        /\ UNCHANGED <<log, cursor, verified, delivered, deleted, late, tx>>
    BY DEF DailyTick, TickNotDue, TickFails, At, events, history
  <1>3. worker' = [pc |-> "once", batch |-> worker.batch]
    BY <1>1, <1>2
  <1>4. /\ worker'.pc = "once" /\ worker'.batch = <<>> /\ worker.batch = <<>> /\ <<>> \in Seq(Entry)
        /\ worker' = [pc |-> worker'.pc, batch |-> worker'.batch]
    BY <1>1, <1>2, <1>3
  <1>5. CASE UNCHANGED <<outbox, dated>>
    BY <1>1, <1>2, <1>4, <1>5, WorkerMoves
  <1>6. CASE ~tx.open /\ dated' = dated + 1 /\ outbox' = QueueUser(outbox, "due", <<"due", dated + 1>>)
    <2> DEFINE line == <<"due", dated + 1>>
    <2>1. line \in Lines /\ line \notin Queued(cursor, dated) /\ line \in Queued(cursor, dated + 1)
      BY <1>1 DEF Lines, Queued
    <2>2. cursor \in Nat /\ dated + 1 \in Nat /\ dated <= dated + 1 /\ cursor <= cursor
      BY <1>1
    <2>3. cursor + 1..cursor = {}
      BY <2>2
    <2> HIDE DEF line
    <2>4. outbox' = QueueUser(outbox, "due", line)
      BY <1>6 DEF line
    <2>5. /\ Table(outbox', log, deleted, Settled, cursor, dated + 1)
          /\ \A i \in DOMAIN outbox : i \in DOMAIN outbox' /\ TakesLine(outbox[i], outbox'[i], line)
      BY <1>1, <2>1, <2>2, <2>3, <2>4, QueueUserIs
    <2>6. AsRead(<<>>, outbox', late)
      BY DEF AsRead
    <2>7. Settled' = Settled
      BY <1>2 DEF Settled
    <2> QED
      BY <1>1, <1>2, <1>4, <1>6, <2>2, <2>5, <2>6, <2>7 DEF NotifyInv
  <1> QED
    BY <1>5, <1>6 DEF DailyTick, TickNotDue, TickFails, events, Free

LEMMA BatchIsRead == NotifyInv /\ ReadBatch => NotifyInv'
  <1> SUFFICES ASSUME NotifyInv, ReadBatch PROVE NotifyInv'
    OBVIOUS
  <1>1. /\ UNCHANGED <<log, cursor, dated, outbox, verified, delivered, deleted, late, tx>>
        /\ Rowed(outbox)
    BY DEF ReadBatch, events, history, NotifyInv, Table
  <1>2. CASE Due = {}
    <2>1. worker' = [pc |-> "tick", batch |-> <<>>]
      BY <1>2 DEF ReadBatch, AtRest
    <2>2. worker'.pc = "tick" /\ worker'.batch = <<>> /\ worker'.batch \in Seq(Entry)
      BY <2>1
    <2>3. AsRead(worker'.batch, outbox, late)
      BY <2>2 DEF AsRead
    <2>4. /\ worker' = [pc |-> worker'.pc, batch |-> worker'.batch]
          /\ worker'.pc \in {"tick", "once"} <=> worker'.batch = <<>>
          /\ worker'.pc # "mark"
      BY <2>1, <2>2
    <2> QED
      BY <1>1, <2>2, <2>3, <2>4, WorkerMoves
  <1>3. CASE Due # {}
    <2> DEFINE n == Min({BatchSize, Cardinality(Due)})
    <2>1. PICK ids \in Injection(1..n, Due) :
            worker' = [pc |-> "row",
              batch |-> [k \in DOMAIN ids |->
                [id |-> ids[k], channel |-> outbox[ids[k]].channel, items |-> outbox[ids[k]].items,
                 attempts |-> outbox[ids[k]].attempts, past |-> outbox[ids[k]].age >= GiveUpAfter,
                 gone |-> FALSE]]]
      BY <1>3 DEF ReadBatch
    <2> DEFINE batch == [k \in DOMAIN ids |->
                [id |-> ids[k], channel |-> outbox[ids[k]].channel, items |-> outbox[ids[k]].items,
                 attempts |-> outbox[ids[k]].attempts, past |-> outbox[ids[k]].age >= GiveUpAfter,
                 gone |-> FALSE]]
    <2>2. n \in Nat /\ n >= 1
      <3>1. PICK top \in Nat : \A i \in DOMAIN outbox : i <= top
        BY <1>1 DEF Rowed
      <3>2. Due \subseteq 0..top
        BY <1>1, <3>1 DEF Due, Rowed
      <3>3. IsFiniteSet(Due) /\ Cardinality(Due) \in Nat
        <4>0. 0 \in Int /\ top \in Int
          OBVIOUS
        <4>1. IsFiniteSet(0..top)
          BY <4>0, FS_Interval, Zenon
        <4> QED
          BY <3>2, <4>1, FS_Subset, FS_CardinalityType, Zenon
      <3>4. Cardinality(Due) # 0
        BY <1>3, <3>3, FS_EmptySet
      <3>5. BatchSize \in Nat /\ BatchSize >= 1
        BY NotifyAssumption
      <3>6. n \in {BatchSize, Cardinality(Due)}
        BY <3>3, <3>5, LowestIs
      <3> QED
        BY <3>3, <3>4, <3>5, <3>6
    <2> HIDE DEF n
    <2>3. /\ DOMAIN ids = 1..n /\ \A k \in 1..n : ids[k] \in Due
          /\ \A j, k \in 1..n : ids[j] = ids[k] => j = k
      BY DEF Injection, IsInjective
    <2>4. \A k \in 1..n : /\ ids[k] \in DOMAIN outbox /\ ids[k] \in Nat /\ RowRec(outbox[ids[k]])
                           /\ ~outbox[ids[k]].sent /\ outbox[ids[k]].wait = 0
      BY <1>1, <2>3 DEF Due, Rowed
    <2>5. /\ DOMAIN batch = 1..n /\ batch = [k \in 1..n |-> batch[k]]
          /\ \A k \in 1..n : /\ batch[k].id = ids[k] /\ batch[k].channel = outbox[ids[k]].channel
                               /\ batch[k].items = outbox[ids[k]].items /\ ~batch[k].gone
      BY <2>3
    <2>6. \A k \in 1..n : batch[k] \in Entry
      <3> SUFFICES ASSUME NEW k \in 1..n PROVE batch[k] \in Entry
        OBVIOUS
      <3>1. batch[k] = [id |-> ids[k], channel |-> outbox[ids[k]].channel, items |-> outbox[ids[k]].items,
                        attempts |-> outbox[ids[k]].attempts, past |-> outbox[ids[k]].age >= GiveUpAfter,
                 gone |-> FALSE]
        BY <2>3
      <3>2. (outbox[ids[k]].age >= GiveUpAfter) \in BOOLEAN
        BY <2>4, NotifyAssumption DEF RowRec
      <3>3. /\ outbox[ids[k]].channel \in Channels /\ outbox[ids[k]].items \in Seq(Lines)
            /\ outbox[ids[k]].attempts \in Nat /\ ids[k] \in Nat
        BY <2>4 DEF RowRec
      <3> QED
        <4> HIDE DEF batch
        <4> QED
          BY <3>1, <3>2, <3>3 DEF Entry
    <2>7. worker' = [pc |-> "row", batch |-> batch]
      BY <2>1
    <2> HIDE DEF batch
    <2>8. batch \in Seq(Entry) /\ batch # <<>>
      BY <2>2, <2>5, <2>6
    <2>9. AsRead(batch, outbox, late)
      <3>1. \A k \in 1..n : Held(batch[k], outbox, late)
        BY <2>4, <2>5 DEF Held, Range
      <3> QED
        BY <2>3, <2>5, <3>1 DEF AsRead
    <2>10. /\ worker'.pc = "row" /\ worker'.batch = batch
           /\ worker' = [pc |-> worker'.pc, batch |-> worker'.batch]
      BY <2>7
    <2>11. worker'.pc \in {"tick", "once"} <=> worker'.batch = <<>>
      BY <2>8, <2>10
    <2>12. worker'.batch \in Seq(Entry) /\ AsRead(worker'.batch, outbox, late) /\ worker'.pc # "mark"
      BY <2>8, <2>9, <2>10
    <2> QED
      BY <1>1, <2>10, <2>11, <2>12, WorkerMoves
  <1> QED
    BY <1>2, <1>3

-----------------------------------------------------------------------------
(* What the worker writes is the row at hand again, if it is there, with   *)
(* other times and tries, and marked sent when its lines have gone out.    *)
Rewritten(r) ==
  /\ Update(r)
  /\ RowRec(Row) => /\ RowRec(r) /\ r.channel = Row.channel /\ r.items = Row.items
                    /\ IF worker.pc = "mark" THEN r.sent ELSE r.sent <=> Row.sent

LEMMA UpdatesAre ==
  ASSUME NotifyInv, Stops \/ MarkSent \/ Retries \/ Waits
  PROVE  /\ \E r : Rewritten(r)
         /\ Onward /\ Free /\ worker.pc \notin {"tick", "once"}
         /\ worker.pc \in {"mark", "failed", "unset"} \/ StillSendable
         /\ UNCHANGED <<phase, log, cursor, dated, verified, deleted, delivered, late, again, tx, stops>>
  <1>1. /\ Onward /\ Free /\ worker.pc \notin {"tick", "once"}
        /\ worker.pc \in {"mark", "failed", "unset"} \/ StillSendable
        /\ UNCHANGED <<phase, log, cursor, dated, verified, deleted, delivered, late, again, tx, stops>>
    BY DEF Stops, MarkSent, Retries, Waits, events, history, time
  <1>3. CASE Stops
    <2> DEFINE r == GivenUp(Row)
    <2>1. Update(r) /\ worker.pc = "row"
      BY <1>3 DEF Stops
    <2>2. RowRec(Row) => RowRec(r) /\ r.channel = Row.channel /\ r.items = Row.items /\ r.sent = Row.sent
      BY NotifyAssumption DEF RowRec, RowFields, GivenUp
    <2> QED
      BY <1>1, <2>1, <2>2 DEF Rewritten
  <1>4. CASE MarkSent
    <2> DEFINE r == [Row EXCEPT !.sent = TRUE, !.wait = 0, !.age = 0, !.tried = Never, !.attempts = 0]
    <2>1. Update(r) /\ worker.pc = "mark"
      BY <1>4 DEF MarkSent
    <2>2. RowRec(Row) => RowRec(r) /\ r.channel = Row.channel /\ r.items = Row.items /\ r.sent
      BY DEF RowRec, RowFields, Never
    <2> QED
      BY <1>1, <2>1, <2>2 DEF Rewritten
  <1>5. CASE Retries
    <2> DEFINE r == [Row EXCEPT !.attempts = @ + 1, !.wait = Backoff(worker.batch[1].attempts + 1),
                                !.tried = IF @ = Never THEN 0 ELSE @]
    <2>1. Update(r) /\ worker.pc = "failed"
      BY <1>5 DEF Retries
    <2>2. RowRec(Row) => RowRec(r) /\ r.channel = Row.channel /\ r.items = Row.items /\ r.sent = Row.sent
      BY DEF RowRec, RowFields, Never
    <2> QED
      BY <1>1, <2>1, <2>2 DEF Rewritten
  <1>6. CASE Waits
    <2> DEFINE r == IF worker.batch[1].past /\ ~worker.batch[1].gone THEN GivenUp(Row)
                    ELSE [Row EXCEPT !.wait = PollEvery]
    <2>1. Update(r) /\ worker.pc = "unset"
      BY <1>6 DEF Waits
    <2>2. RowRec(Row) => RowRec(r) /\ r.channel = Row.channel /\ r.items = Row.items /\ r.sent = Row.sent
      BY NotifyAssumption DEF RowRec, RowFields, GivenUp
    <2> QED
      BY <1>1, <2>1, <2>2 DEF Rewritten
  <1> QED
    BY <1>1, <1>3, <1>4, <1>5, <1>6

LEMMA WorkerSends ==
  ASSUME NotifyInv,
         RowGoes \/ Skips \/ Stops \/ Arrives \/ Refused \/ MarkSent \/ Retries \/ Waits
  PROVE  NotifyInv'
  <1>1. /\ worker = [pc |-> worker.pc, batch |-> worker.batch] /\ worker.batch \in Seq(Entry)
        /\ worker.pc \in {"tick", "once"} <=> worker.batch = <<>>
        /\ AsRead(worker.batch, outbox, late) /\ Rowed(outbox)
        /\ worker.pc = "mark" => Arrived(worker.batch, delivered)
    BY DEF NotifyInv, Table
  <1>2. ASSUME NEW pc, At(pc)
        PROVE  worker'.pc = pc /\ worker'.batch = worker.batch /\ worker' = [pc |-> worker'.pc, batch |-> worker'.batch]
    <2>1. worker' = [pc |-> pc, batch |-> worker.batch]
      BY <1>1, <1>2 DEF At
    <2> QED
      BY <2>1
  <1>3. CASE RowGoes
    <2>1. /\ At("send") /\ worker.pc = "row"
          /\ UNCHANGED <<log, cursor, dated, outbox, verified, deleted, delivered, late, tx>>
      BY <1>3 DEF RowGoes, events, history
    <2> QED
      BY <1>1, <1>2, <2>1, WorkerMoves
  <1>4. CASE Skips
    <2>1. /\ worker' = AfterRow([pc |-> worker.pc, batch |-> worker.batch]) /\ worker.pc = "row"
          /\ UNCHANGED <<log, cursor, dated, outbox, verified, deleted, delivered, late, tx>>
      BY <1>1, <1>4 DEF Skips, Onward, events, history
    <2>2. /\ worker' = [pc |-> worker'.pc, batch |-> worker'.batch] /\ worker'.batch \in Seq(Entry)
          /\ worker'.pc \in {"tick", "once"} <=> worker'.batch = <<>>
          /\ AsRead(worker'.batch, outbox, late) /\ worker'.pc # "mark"
      BY <1>1, <2>1, RestAsRead
    <2> QED
      BY <2>1, <2>2, WorkerMoves
  <1>5. CASE Arrives
    <2>1. /\ At("mark") /\ worker.pc = "send" /\ delivered' = delivered \cup Carried
          /\ UNCHANGED <<log, cursor, dated, outbox, verified, deleted, late, tx>>
      BY <1>5 DEF Arrives, events
    <2>2. Arrived(worker.batch, delivered')
      BY <2>1 DEF Arrived, Carried
    <2> QED
      BY <1>1, <1>2, <2>1, <2>2, WorkerMoves
  <1>6. CASE Refused
    <2>1. /\ At(IF Unset THEN "unset" ELSE "failed") /\ worker.pc = "send"
          /\ UNCHANGED <<log, cursor, dated, outbox, verified, deleted, delivered, late, tx>>
      BY <1>6 DEF Refused, events, history
    <2>2. worker'.pc # "mark"
      BY <1>2, <2>1
    <2> QED
      BY <1>1, <1>2, <2>1, <2>2, WorkerMoves
  <1>7. CASE Stops \/ MarkSent \/ Retries \/ Waits
    <2>1. /\ Onward /\ Free /\ worker.pc \notin {"tick", "once"}
          /\ UNCHANGED <<log, cursor, dated, verified, deleted, delivered, late, tx>>
      BY <1>7, UpdatesAre
    <2>2. PICK r : Rewritten(r)
      BY <1>7, UpdatesAre
    <2>3. Update(r) /\ RowRec(Row) => RowRec(r) /\ r.channel = Row.channel /\ r.items = Row.items
      BY <2>2 DEF Rewritten
    <2>4. Id \in DOMAIN outbox /\ r.sent => worker.pc = "mark" \/ Row.sent
      <3>1. Id \in DOMAIN outbox => RowRec(Row)
        BY <1>1 DEF Rowed, Row
      <3> QED
        BY <2>2, <3>1 DEF Rewritten
    <2>5. Update(r)
      BY <2>2 DEF Rewritten
    <2> QED
      BY <2>1, <2>3, <2>4, <2>5, RowDone
  <1> QED
    BY <1>3, <1>4, <1>5, <1>6, <1>7

LEMMA WorkerFails ==
  ASSUME NotifyInv, OnceFails \/ Dies
  PROVE  NotifyInv'
  <1>1. /\ worker' = [pc |-> "tick", batch |-> <<>>] /\ (tx' = tx \/ ~tx'.open)
        /\ UNCHANGED <<log, cursor, dated, outbox, verified, delivered, deleted, late>>
    BY DEF OnceFails, Dies, AtRest, NoTx, events, history
  <1>2. /\ worker'.pc = "tick" /\ worker'.batch = <<>> /\ worker'.batch \in Seq(Entry)
        /\ worker' = [pc |-> worker'.pc, batch |-> worker'.batch]
    BY <1>1
  <1>3. AsRead(<<>>, outbox, late)
    BY DEF AsRead
  <1> QED
    BY <1>1, <1>2, <1>3, WorkerMoves

-----------------------------------------------------------------------------
(* What time does to a row leaves its lines and its channel, and a row     *)
(* whose turn has come waits no longer; rows alike in what time reads stay *)
(* alike.                                                                  *)
LEMMA AgedIs ==
  ASSUME NEW r, RowRec(r), NEW q, q = Aged(r)
  PROVE  /\ RowRec(q) /\ q.channel = r.channel /\ q.items = r.items /\ q.sent = r.sent
         /\ r.wait = 0 => q.wait = 0
         /\ ~Sendable(r) => ~Sendable(q)
         /\ q.wait = IF r.sent THEN r.wait ELSE Max({r.wait - 1, 0})
         /\ q.tried = IF r.sent \/ r.tried = Never THEN r.tried ELSE Older(r.tried)
  <1>1. CASE r.sent
    <2>1. q = r
      BY <1>1 DEF Aged
    <2> QED
      BY <1>1, <2>1
  <1>2. CASE ~r.sent
    <2> DEFINE wait == Max({r.wait - 1, 0})
               tried == IF r.tried = Never THEN r.tried ELSE Older(r.tried)
               age == IF r.channel \in Email THEN Older(r.age) ELSE r.age
    <2>1. age \in Nat /\ tried \in Nat \cup {Never} /\ (r.tried >= GiveUpAfter => tried >= GiveUpAfter)
      <3>1. r.age \in Nat /\ GiveUpAfter \in Nat /\ r.tried \in Nat \cup {Never}
        BY NotifyAssumption DEF RowRec
      <3>2. ASSUME NEW n \in Nat PROVE Older(n) \in Nat /\ (n >= GiveUpAfter => Older(n) >= GiveUpAfter)
        <4>1. {n + 1, GiveUpAfter} \in SUBSET Nat /\ {n + 1, GiveUpAfter} # {}
          BY <3>1
        <4>2. Older(n) \in {n + 1, GiveUpAfter}
          BY <4>1, LowestIs DEF Older
        <4> QED
          BY <3>1, <4>2
      <3> QED
        BY <3>1, <3>2
    <2>2. r.wait = 0 => wait = 0
      <3> SUFFICES ASSUME r.wait = 0 PROVE wait = 0
        OBVIOUS
      <3>1. \E g \in {-1, 0} : \A y \in {-1, 0} : g >= y
        OBVIOUS
      <3>2. Max({-1, 0}) \in {-1, 0} /\ \A y \in {-1, 0} : Max({-1, 0}) >= y
        BY <3>1, Zenon DEF Max
      <3>3. Max({-1, 0}) = 0
        BY <3>2
      <3>4. r.wait - 1 = -1
        OBVIOUS
      <3> QED
        BY <3>3, <3>4
    <2>3. q = [[[r EXCEPT !.wait = wait] EXCEPT !.tried = tried] EXCEPT !.age = age]
      BY <1>2 DEF Aged, RowRec, RowFields
    <2> HIDE DEF wait, tried, age
    <2>4. /\ RowRec(q) /\ q.channel = r.channel /\ q.items = r.items /\ q.sent = r.sent
          /\ q.wait = wait /\ q.tried = tried
      BY <2>1, <2>3 DEF RowRec, RowFields
    <2>5. ~Sendable(r) => ~Sendable(q)
      <3>1. r.tried \in Int /\ tried \in Int /\ GiveUpAfter \in Int
        BY <2>1, NotifyAssumption DEF RowRec, Never
      <3> QED
        BY <2>1, <2>4, <3>1 DEF Sendable
    <2>6. q.wait = (IF r.sent THEN r.wait ELSE Max({r.wait - 1, 0}))
      BY <1>2, <2>4, Zenon DEF wait
    <2>7. q.tried = (IF r.sent \/ r.tried = Never THEN r.tried ELSE Older(r.tried))
      BY <1>2, <2>4, Zenon DEF tried
    <2> QED
      BY <2>2, <2>4, <2>5, <2>6, <2>7
  <1> QED
    BY <1>1, <1>2

LEMMA AllAgedIs ==
  ASSUME NEW rows, Rowed(rows), NEW out, out = AllAged(rows)
  PROVE  /\ out = [i \in DOMAIN rows |-> out[i]]
         /\ \A i \in DOMAIN rows :
              /\ RowRec(out[i]) /\ out[i].channel = rows[i].channel /\ out[i].items = rows[i].items
              /\ out[i].sent = rows[i].sent /\ (rows[i].wait = 0 => out[i].wait = 0)
              /\ ~Sendable(rows[i]) => ~Sendable(out[i])
  <1>1. out = [i \in DOMAIN rows |-> out[i]] /\ \A i \in DOMAIN rows : out[i] = Aged(rows[i])
    BY Zenon DEF AllAged
  <1>2. \A i \in DOMAIN rows : RowRec(rows[i])
    BY DEF Rowed
  <1>3. ASSUME NEW i \in DOMAIN rows
        PROVE  /\ RowRec(out[i]) /\ out[i].channel = rows[i].channel /\ out[i].items = rows[i].items
               /\ out[i].sent = rows[i].sent /\ (rows[i].wait = 0 => out[i].wait = 0)
               /\ ~Sendable(rows[i]) => ~Sendable(out[i])
    <2> DEFINE r == rows[i]
               q == out[i]
    <2>1. RowRec(r) /\ q = Aged(r)
      BY <1>1, <1>2
    <2> HIDE DEF r, q
    <2>2. /\ RowRec(q) /\ q.channel = r.channel /\ q.items = r.items /\ q.sent = r.sent
          /\ (r.wait = 0 => q.wait = 0) /\ (~Sendable(r) => ~Sendable(q))
      BY <2>1, AgedIs
    <2> QED
      BY <2>2 DEF r, q
  <1> QED
    BY <1>1, <1>3

(* A table ages beside the one it began with; a row with more lines in it  *)
(* that falls due meanwhile is noted.                                      *)
LEMMA AgedAhead ==
  ASSUME NEW rows, NEW more, Rowed(rows), Rowed(more), NEW fell, Ahead(rows, more, fell),
         NEW out, out = AllAged(rows), NEW far, far = AllAged(more), NEW fallen,
         \A i \in DOMAIN rows : more[i].items # rows[i].items /\ more[i].wait # 0 /\ Aged(more[i]).wait = 0
            => i \in fallen
  PROVE  Ahead(out, far, fell \cup fallen)
  <1> SUFFICES ASSUME NEW i \in DOMAIN out
               PROVE  /\ i \in DOMAIN far
                      /\ far[i].channel = out[i].channel /\ far[i].sent = out[i].sent
                      /\ far[i].wait = out[i].wait /\ far[i].tried = out[i].tried
                      /\ \A x \in DOMAIN out[i].items : out[i].items[x] \in Range(far[i].items)
                      /\ far[i].items = out[i].items \/ out[i].wait # 0 \/ i \in fell \cup fallen
    BY DEF Ahead
  <1>1. DOMAIN out = DOMAIN rows /\ DOMAIN far = DOMAIN more /\ out[i] = Aged(rows[i])
    BY DEF AllAged
  <1>2. /\ i \in DOMAIN more
        /\ more[i].channel = rows[i].channel /\ more[i].sent = rows[i].sent /\ more[i].wait = rows[i].wait
        /\ more[i].tried = rows[i].tried
        /\ \A x \in DOMAIN rows[i].items : rows[i].items[x] \in Range(more[i].items)
        /\ more[i].items = rows[i].items \/ rows[i].wait # 0 \/ i \in fell
    BY <1>1 DEF Ahead
  <1>3. far[i] = Aged(more[i]) /\ RowRec(rows[i]) /\ RowRec(more[i])
    BY <1>1, <1>2 DEF AllAged, Rowed
  <1>4. /\ out[i].channel = rows[i].channel /\ out[i].items = rows[i].items /\ out[i].sent = rows[i].sent
        /\ out[i].wait = (IF rows[i].sent THEN rows[i].wait ELSE Max({rows[i].wait - 1, 0}))
        /\ out[i].tried = (IF rows[i].sent \/ rows[i].tried = Never THEN rows[i].tried ELSE Older(rows[i].tried))
    BY <1>1, <1>3, AgedIs
  <1>5. /\ far[i].channel = more[i].channel /\ far[i].items = more[i].items /\ far[i].sent = more[i].sent
        /\ far[i].wait = (IF more[i].sent THEN more[i].wait ELSE Max({more[i].wait - 1, 0}))
        /\ far[i].tried = (IF more[i].sent \/ more[i].tried = Never THEN more[i].tried ELSE Older(more[i].tried))
    BY <1>3, AgedIs
  <1>6. far[i].wait = out[i].wait /\ far[i].tried = out[i].tried
    BY <1>2, <1>4, <1>5, Zenon
  <1>7. far[i].items = out[i].items \/ out[i].wait # 0 \/ i \in fell \cup fallen
    BY <1>1, <1>2, <1>3, <1>4, <1>5, <1>6
  <1>8. \A x \in DOMAIN out[i].items : out[i].items[x] \in Range(far[i].items)
    BY <1>2, <1>4, <1>5
  <1>9. i \in DOMAIN far /\ far[i].channel = out[i].channel /\ far[i].sent = out[i].sent
    BY <1>1, <1>2, <1>4, <1>5
  <1> QED
    BY <1>6, <1>7, <1>8, <1>9

LEMMA Passes ==
  ASSUME NotifyInv, TimePasses
  PROVE  NotifyInv'
  <1>1. /\ outbox' = AllAged(outbox)
        /\ tx' = IF tx.open THEN [tx EXCEPT !.rows = AllAged(@), !.fell = @ \cup FallDue] ELSE tx
        /\ UNCHANGED <<log, cursor, dated, verified, worker, delivered, deleted, late>>
    BY DEF TimePasses, events, history
  <1>2. /\ Table(outbox, log, deleted, Settled, cursor, dated) /\ Rowed(outbox)
        /\ AsRead(worker.batch, outbox, late)
    BY DEF NotifyInv, Table
  <1>3. Settled' = Settled
    BY <1>1 DEF Settled
  <1>4. ASSUME NEW rows, NEW n, Table(rows, log, deleted, Settled, n, dated)
        PROVE  Table(AllAged(rows), log, deleted, Settled, n, dated)
    <2> DEFINE out == AllAged(rows)
    <2>1. Rowed(rows)
      BY <1>4 DEF Table
    <2>2. /\ out = [i \in DOMAIN rows |-> out[i]]
          /\ \A i \in DOMAIN rows :
               /\ RowRec(out[i]) /\ out[i].channel = rows[i].channel
               /\ out[i].items = rows[i].items /\ out[i].sent = rows[i].sent
      BY <2>1, AllAgedIs
    <2> HIDE DEF out
    <2>3. Table(out, log, deleted, Settled, n, dated)
      BY <1>4, <2>2, TableKept
    <2> QED
      BY <2>3 DEF out
  <1>5. Table(outbox', log, deleted, Settled, cursor, dated)
    BY <1>1, <1>2, <1>4
  <1>6. /\ DOMAIN outbox' = DOMAIN outbox
        /\ \A i \in DOMAIN outbox :
             /\ outbox'[i].channel = outbox[i].channel
             /\ outbox'[i].items = outbox[i].items /\ outbox'[i].sent = outbox[i].sent
             /\ outbox[i].wait = 0 => outbox'[i].wait = 0
    <2>1. /\ outbox' = [i \in DOMAIN outbox |-> outbox'[i]]
          /\ \A i \in DOMAIN outbox :
               /\ outbox'[i].channel = outbox[i].channel
               /\ outbox'[i].items = outbox[i].items /\ outbox'[i].sent = outbox[i].sent
               /\ outbox[i].wait = 0 => outbox'[i].wait = 0
      BY <1>1, <1>2, AllAgedIs
    <2> QED
      BY <2>1
  <1>7. AsRead(worker.batch, outbox', late)
    <2>1. ASSUME NEW k \in DOMAIN worker.batch
          PROVE  IF worker.batch[k].gone THEN Strayed(worker.batch[k], outbox', late)
                 ELSE Held(worker.batch[k], outbox', late)
      <3>1. IF worker.batch[k].gone THEN Strayed(worker.batch[k], outbox, late)
            ELSE Held(worker.batch[k], outbox, late)
        BY <1>2 DEF AsRead
      <3>2. CASE worker.batch[k].gone
        BY <1>6, <3>1, <3>2 DEF Strayed
      <3>3. CASE ~worker.batch[k].gone
        BY <1>6, <3>1, <3>3 DEF Held
      <3> QED
        BY <3>2, <3>3
    <2> QED
      BY <1>2, <2>1 DEF AsRead
  <1>8. ASSUME tx.open
        PROVE  /\ tx' = [open |-> TRUE, rows |-> tx'.rows, cursor |-> tx'.cursor, fell |-> tx'.fell]
               /\ tx'.cursor = tx.cursor /\ Table(tx'.rows, log, deleted, Settled, tx.cursor, dated)
               /\ Ahead(outbox', tx'.rows, tx'.fell) /\ tx.cursor \in cursor..Len(log)
    <2>1. /\ tx = [open |-> TRUE, rows |-> tx.rows, cursor |-> tx.cursor, fell |-> tx.fell]
          /\ tx.cursor \in cursor..Len(log) /\ Ahead(outbox, tx.rows, tx.fell)
          /\ Table(tx.rows, log, deleted, Settled, tx.cursor, dated) /\ Rowed(tx.rows)
      BY <1>8 DEF NotifyInv, Table
    <2> DEFINE far == AllAged(tx.rows)
               fallen == FallDue
    <2> DEFINE felled == tx.fell \cup fallen
    <2>2. tx' = [[tx EXCEPT !.rows = far] EXCEPT !.fell = felled]
      BY <1>1, <1>8, <2>1
    <2>3. \A i \in DOMAIN outbox :
            tx.rows[i].items # outbox[i].items /\ tx.rows[i].wait # 0 /\ Aged(tx.rows[i]).wait = 0 => i \in fallen
      BY DEF FallDue
    <2>4. Table(far, log, deleted, Settled, tx.cursor, dated)
      BY <1>4, <2>1
    <2>5. far = AllAged(tx.rows)
      OBVIOUS
    <2>6. tx' = [open |-> TRUE, rows |-> far, cursor |-> tx.cursor, fell |-> felled]
      <3>1. ASSUME NEW t, NEW open, NEW rows, NEW n, NEW fell, NEW x, NEW y,
                   t = [open |-> open, rows |-> rows, cursor |-> n, fell |-> fell],
                   NEW s, s = [t EXCEPT !.rows = x], NEW q, q = [s EXCEPT !.fell = y]
            PROVE  q = [open |-> open, rows |-> x, cursor |-> n, fell |-> y]
        <4>1. s = [open |-> open, rows |-> x, cursor |-> n, fell |-> fell]
          BY <3>1
        <4> HIDE <3>1
        <4>2. q = [s EXCEPT !.fell = y]
          BY <3>1
        <4> QED
          BY <4>1, <4>2
      <3>2. tx = [open |-> TRUE, rows |-> tx.rows, cursor |-> tx.cursor, fell |-> tx.fell]
        BY <2>1
      <3> HIDE DEF far, fallen, felled
      <3>3. [[tx EXCEPT !.rows = far] EXCEPT !.fell = felled]
              = [open |-> TRUE, rows |-> far, cursor |-> tx.cursor, fell |-> felled]
        <4> DEFINE s == [tx EXCEPT !.rows = far]
                   q == [s EXCEPT !.fell = felled]
        <4>1. s = [tx EXCEPT !.rows = far] /\ q = [s EXCEPT !.fell = felled]
          OBVIOUS
        <4> HIDE DEF s, q
        <4> DEFINE open == tx.open
        <4>2. open = TRUE /\ tx = [open |-> open, rows |-> tx.rows, cursor |-> tx.cursor, fell |-> tx.fell]
          <5>1. tx.open = TRUE
            BY <3>2
          <5> QED
            BY <3>2, <5>1, Zenon
        <4> HIDE DEF open
        <4>3. q = [open |-> open, rows |-> far, cursor |-> tx.cursor, fell |-> felled]
          <5> DEFINE t == tx
                     rows == tx.rows
                     n == tx.cursor
                     fell == tx.fell
          <5>1. t = [open |-> open, rows |-> rows, cursor |-> n, fell |-> fell] /\ s = [t EXCEPT !.rows = far]
            BY <4>1, <4>2, Zenon
          <5> HIDE DEF t, rows, n, fell
          <5>2. q = [open |-> open, rows |-> far, cursor |-> n, fell |-> felled]
            BY <3>1, <4>1, <5>1
          <5> QED
            BY <5>2, Zenon DEF n
        <4>4. q = [open |-> TRUE, rows |-> far, cursor |-> tx.cursor, fell |-> felled]
          BY <4>2, <4>3, Zenon
        <4> QED
          BY <4>4 DEF s, q
      <3> QED
        BY <2>2, <3>3, Zenon
    <2> HIDE DEF far, fallen
    <2>7. Ahead(outbox', far, felled)
      BY <1>1, <1>2, <2>1, <2>3, <2>5, AgedAhead
    <2> HIDE DEF felled
    <2>8. tx'.rows = far /\ tx'.cursor = tx.cursor /\ tx'.fell = felled /\ tx'.open
      BY <2>6
    <2> QED
      BY <2>1, <2>4, <2>6, <2>7, <2>8
  <1>9. tx'.open => tx.open
    BY <1>1
  <1> QED
    BY <1>1, <1>3, <1>5, <1>7, <1>8, <1>9 DEF NotifyInv

LEMMA CutIs ==
  ASSUME NEW old \in Seq(Entry), NEW c, NEW batch, batch = Cut(old, c)
  PROVE  /\ batch \in Seq(Entry) /\ (batch = <<>> <=> old = <<>>)
         /\ DOMAIN batch = DOMAIN old
         /\ \A k \in DOMAIN batch :
              /\ batch[k].id = old[k].id /\ batch[k].items = old[k].items
              /\ batch[k].channel = old[k].channel
              /\ batch[k].gone <=> old[k].gone \/ old[k].channel = c
  <1>1. /\ DOMAIN batch = DOMAIN old /\ batch = [k \in DOMAIN old |-> batch[k]]
        /\ \A k \in DOMAIN old : batch[k] = [old[k] EXCEPT !.gone = @ \/ old[k].channel = c]
    BY DEF Cut
  <1>2. DOMAIN old = 1..Len(old) /\ Len(old) \in Nat /\ \A k \in DOMAIN old : old[k] \in Entry
    OBVIOUS
  <1>3. ASSUME NEW k \in DOMAIN old
        PROVE  /\ batch[k] \in Entry /\ batch[k].id = old[k].id /\ batch[k].items = old[k].items
               /\ batch[k].channel = old[k].channel
               /\ batch[k].gone <=> old[k].gone \/ old[k].channel = c
    <2>1. batch[k] = [old[k] EXCEPT !.gone = @ \/ old[k].channel = c] /\ old[k] \in Entry
      BY <1>1, <1>2
    <2> DEFINE cut == old[k].gone \/ old[k].channel = c
    <2>2. batch[k] = [old[k] EXCEPT !.gone = cut] /\ cut \in BOOLEAN
      BY <2>1
    <2> HIDE DEF cut
    <2>3. /\ batch[k] \in Entry /\ batch[k].id = old[k].id /\ batch[k].items = old[k].items
          /\ batch[k].channel = old[k].channel /\ batch[k].gone = cut
      BY <2>1, <2>2 DEF Entry
    <2> QED
      BY <2>3 DEF cut
  <1>4. batch \in Seq(Entry)
    BY <1>1, <1>2, <1>3
  <1>5. batch = <<>> <=> old = <<>>
    <2>1. Len(batch) = Len(old)
      BY <1>1, <1>2, <1>4
    <2> QED
      BY <1>4, <2>1
  <1> QED
    BY <1>1, <1>3, <1>4, <1>5

LEMMA OwnerActs ==
  ASSUME NotifyInv, Owner
  PROVE  NotifyInv'
  <1>1. /\ Table(outbox, log, deleted, Settled, cursor, dated) /\ Rowed(outbox)
        /\ AsRead(worker.batch, outbox, late)
        /\ verified = [c \in DOMAIN verified |-> verified[c]] /\ DOMAIN verified \subseteq Channels
        /\ \A c \in Email \ deleted : c \in DOMAIN verified /\ verified[c]
    BY DEF NotifyInv, Table
  <1>2. ~tx.open /\ tx' = tx /\ UNCHANGED <<log, cursor, dated, delivered, late>> /\ Settled' = Settled
    BY DEF Owner, Tested, EditsDestination, DeletesChannel, CreatesChannel, SetsMail, Free, events, history, Settled
  <1>3. ASSUME UNCHANGED <<outbox, deleted, worker>>,
               verified' = [c \in DOMAIN verified' |-> verified'[c]], DOMAIN verified' \subseteq Channels,
               \A c \in Email \ deleted : c \in DOMAIN verified' /\ verified'[c]
        PROVE  NotifyInv'
    BY <1>2, <1>3 DEF NotifyInv
  <1>4. ASSUME NEW c \in Channels, Tested(c) PROVE NotifyInv'
    <2>1. c \in DOMAIN verified /\ verified' = [verified EXCEPT ![c] = TRUE] /\ UNCHANGED <<outbox, deleted, worker>>
      BY <1>4 DEF Tested, history
    <2>2. /\ DOMAIN verified' = DOMAIN verified /\ verified' = [d \in DOMAIN verified |-> verified'[d]]
          /\ verified'[c] /\ \A d \in DOMAIN verified : d # c => verified'[d] = verified[d]
      BY <1>1, <2>1
    <2> QED
      BY <1>1, <1>3, <2>1, <2>2
  <1>5. ASSUME NEW c \in Channels, EditsDestination(c) PROVE NotifyInv'
    <2>1. /\ c \in DOMAIN verified /\ c \notin Email /\ verified' = [verified EXCEPT ![c] = FALSE]
          /\ UNCHANGED <<outbox, deleted, worker>>
      BY <1>5 DEF EditsDestination, history
    <2>2. /\ DOMAIN verified' = DOMAIN verified /\ verified' = [d \in DOMAIN verified |-> verified'[d]]
          /\ \A d \in DOMAIN verified : d # c => verified'[d] = verified[d]
      BY <1>1, <2>1
    <2> QED
      BY <1>1, <1>3, <2>1, <2>2
  <1>6. ASSUME NEW c \in Channels, DeletesChannel(c) PROVE NotifyInv'
    <2>1. /\ c \in DOMAIN verified /\ deleted' = deleted \cup {c}
          /\ worker' = [worker EXCEPT !.batch = Cut(worker.batch, c)]
          /\ verified' = Restrict(verified, DOMAIN verified \ {c})
          /\ outbox' = Restrict(outbox, {i \in DOMAIN outbox : outbox[i].channel # c})
      BY <1>6, Zenon DEF DeletesChannel
    <2>2. Table(outbox', log, deleted', Settled, cursor, dated)
      BY <1>1, <2>1, TableCut
    <2>3. /\ DOMAIN verified' = DOMAIN verified \ {c} /\ verified' = [d \in DOMAIN verified' |-> verified'[d]]
          /\ \A d \in DOMAIN verified' : verified'[d] = verified[d]
      BY <2>1 DEF Restrict
    <2>4. /\ \A i \in DOMAIN outbox : outbox[i].channel # c => i \in DOMAIN outbox' /\ outbox'[i] = outbox[i]
          /\ \A i \in DOMAIN outbox' : i \in DOMAIN outbox /\ outbox[i].channel # c /\ outbox'[i] = outbox[i]
      BY <2>1 DEF Restrict
    <2> DEFINE batch == Cut(worker.batch, c)
    <2>5. /\ worker.batch \in Seq(Entry) /\ worker = [pc |-> worker.pc, batch |-> worker.batch]
          /\ worker.pc \in {"tick", "once"} <=> worker.batch = <<>>
          /\ worker.pc = "mark" => Arrived(worker.batch, delivered)
      BY DEF NotifyInv
    <2>6. /\ batch \in Seq(Entry) /\ (batch = <<>> <=> worker.batch = <<>>)
          /\ DOMAIN batch = DOMAIN worker.batch
          /\ \A k \in DOMAIN batch :
               /\ batch[k].id = worker.batch[k].id /\ batch[k].items = worker.batch[k].items
               /\ batch[k].channel = worker.batch[k].channel
               /\ batch[k].gone <=> worker.batch[k].gone \/ worker.batch[k].channel = c
      BY <2>5, CutIs
    <2> HIDE DEF batch
    <2>7. worker' = [pc |-> worker.pc, batch |-> batch]
      BY <2>1, <2>5 DEF batch
    <2>8. AsRead(batch, outbox', late)
      <3>1. ASSUME NEW k \in DOMAIN batch
            PROVE  IF batch[k].gone THEN Strayed(batch[k], outbox', late) ELSE Held(batch[k], outbox', late)
        <4>1. /\ batch[k].id = worker.batch[k].id /\ batch[k].items = worker.batch[k].items
              /\ batch[k].channel = worker.batch[k].channel
              /\ batch[k].gone <=> worker.batch[k].gone \/ worker.batch[k].channel = c
              /\ k \in DOMAIN worker.batch
          BY <2>6
        <4>2. IF worker.batch[k].gone THEN Strayed(worker.batch[k], outbox, late)
              ELSE Held(worker.batch[k], outbox, late)
          BY <1>1, <4>1 DEF AsRead
        <4>3. CASE worker.batch[k].gone
          BY <2>4, <4>1, <4>2, <4>3 DEF Strayed
        <4>4. CASE ~worker.batch[k].gone /\ worker.batch[k].channel = c
          <5>1. batch[k].id \notin DOMAIN outbox'
            BY <2>4, <4>1, <4>2, <4>4 DEF Held
          <5> QED
            BY <4>1, <4>4, <5>1 DEF Strayed
        <4>5. CASE ~worker.batch[k].gone /\ worker.batch[k].channel # c
          <5>1. batch[k].id \in DOMAIN outbox' /\ outbox'[batch[k].id] = outbox[batch[k].id] /\ ~batch[k].gone
            BY <2>4, <4>1, <4>2, <4>5 DEF Held
          <5> QED
            BY <4>1, <4>2, <4>5, <5>1 DEF Held
        <4> QED
          BY <4>3, <4>4, <4>5
      <3>2. \A j, k \in DOMAIN batch : batch[j].id = batch[k].id => j = k
        BY <1>1, <2>6 DEF AsRead
      <3> QED
        BY <3>1, <3>2 DEF AsRead
    <2>9. worker'.pc = worker.pc /\ worker'.batch = batch /\ worker' = [pc |-> worker'.pc, batch |-> worker'.batch]
      BY <2>7
    <2>10. worker.pc = "mark" => Arrived(batch, delivered)
      <3> SUFFICES ASSUME worker.pc = "mark" PROVE Arrived(batch, delivered)
        OBVIOUS
      <3>1. 1 \in DOMAIN batch
        BY <2>5, <2>6
      <3> QED
        BY <2>5, <2>6, <3>1 DEF Arrived
    <2>11. /\ worker'.batch \in Seq(Entry) /\ AsRead(worker'.batch, outbox', late)
           /\ worker'.pc \in {"tick", "once"} <=> worker'.batch = <<>>
           /\ worker'.pc = "mark" => Arrived(worker'.batch, delivered)
      BY <2>5, <2>6, <2>8, <2>9, <2>10
    <2>12. /\ \A d \in Email \ deleted' : d \in DOMAIN verified' /\ verified'[d]
           /\ DOMAIN verified' \subseteq Channels
      BY <1>1, <2>1, <2>3
    <2>13. log \in Seq(Kinds) /\ cursor \in 0..Len(log) /\ dated \in Nat
      BY DEF NotifyInv
    <2> QED
      BY <1>2, <2>2, <2>3, <2>9, <2>11, <2>12, <2>13 DEF NotifyInv
  <1>7. CASE CreatesChannel
    <2> DEFINE c == 1 + Max(DOMAIN verified \cup {0})
    <2>1. /\ c \in Channels /\ UNCHANGED <<outbox, deleted, worker>>
          /\ verified' = [d \in DOMAIN verified \cup {c} |-> IF d = c THEN c \in Email ELSE verified[d]]
      BY <1>7 DEF CreatesChannel, history
    <2>2. c \notin DOMAIN verified
      <3>1. PICK n \in Nat : \A d \in DOMAIN verified : d <= n /\ d \in Nat
        <4>1. Channels = 1..Cardinality(Channels) /\ Cardinality(Channels) \in Nat
          BY NotifyAssumption, FS_CardinalityType
        <4> QED
          BY <1>1, <4>1
      <3>2. DOMAIN verified \cup {0} \in SUBSET Nat /\ \A d \in DOMAIN verified \cup {0} : d <= n
        BY <3>1
      <3> DEFINE top == Max(DOMAIN verified \cup {0})
      <3>3. \A d \in DOMAIN verified \cup {0} : d <= top
        BY <3>1, <3>2, HighestIs
      <3>4. top \in Nat
        BY <3>1, <3>2, HighestIs
      <3>5. c = 1 + top
        OBVIOUS
      <3> HIDE DEF top, c
      <3> QED
        BY <3>1, <3>3, <3>4, <3>5
    <2> HIDE DEF c
    <2>3. /\ DOMAIN verified' = DOMAIN verified \cup {c} /\ verified' = [d \in DOMAIN verified' |-> verified'[d]]
          /\ \A d \in DOMAIN verified : verified'[d] = verified[d]
      BY <2>1, <2>2
    <2> QED
      BY <1>1, <1>3, <2>1, <2>3
  <1>8. CASE SetsMail
    <2>1. UNCHANGED <<outbox, deleted, verified, worker>>
      BY <1>8 DEF SetsMail, history
    <2> QED
      BY <1>1, <1>3, <2>1
  <1> QED
    BY <1>4, <1>5, <1>6, <1>7, <1>8 DEF Owner

LEMMA Starts == NotifyInit => NotifyInv
  <1> SUFFICES ASSUME NotifyInit PROVE NotifyInv
    OBVIOUS
  <1>1. /\ log = <<>> /\ cursor = 0 /\ outbox = <<>> /\ dated = 0 /\ delivered = {} /\ deleted = {} /\ late = {}
        /\ verified \in [Channels -> BOOLEAN] /\ \A c \in Email : verified[c]
        /\ ~tx.open /\ worker = [pc |-> "tick", batch |-> <<>>]
    BY DEF NotifyInit, NoTx, AtRest
  <1>2. worker.pc = "tick" /\ worker.batch = <<>> /\ <<>> \in Seq(Entry) /\ <<>> \in Seq(Kinds) /\ Len(<<>>) = 0
    BY <1>1
  <1>3. Rowed(<<>>)
    <2>1. DOMAIN <<>> = {} /\ <<>> = [i \in DOMAIN <<>> |-> <<>>[i]]
      OBVIOUS
    <2> QED
      BY <2>1 DEF Rowed
  <1>4. Within(<<>>, 0, 0) /\ LinesApart(<<>>) /\ HasArrived(<<>>, {}) /\ Covers(<<>>, <<>>, {}, 0)
    BY DEF Within, LinesApart, HasArrived, Covers
  <1>5. Table(outbox, log, deleted, Settled, cursor, dated)
    BY <1>1, <1>3, <1>4 DEF Table, Settled
  <1>6. AsRead(<<>>, outbox, late)
    BY DEF AsRead
  <1>7. Email \subseteq Channels
    BY NotifyAssumption
  <1> QED
    BY <1>1, <1>2, <1>5, <1>6, <1>7 DEF NotifyInv

LEMMA InvKept == NotifyInv /\ [NotifyNext]_notifyvars => NotifyInv'
  <1> SUFFICES ASSUME NotifyInv, [NotifyNext]_notifyvars PROVE NotifyInv'
    OBVIOUS
  <1>1. ASSUME NEW kind \in Kinds, Happens(kind) PROVE NotifyInv'
    BY <1>1, LogsMore
  <1>2. CASE Watcher
    BY <1>2, CatchesUp
  <1>3. CASE Worker
    BY <1>3, Ticks, BatchIsRead, WorkerSends DEF Worker
  <1>4. CASE Owner
    BY <1>4, OwnerActs
  <1>5. CASE Faults
    BY <1>5, CatchesUp, Ticks, WorkerFails DEF Faults
  <1>6. CASE TimePasses
    BY <1>6, Passes
  <1>7. CASE UNCHANGED notifyvars
    BY <1>7 DEF notifyvars, history, events, NotifyInv, Settled
  <1> QED
    BY <1>1, <1>2, <1>3, <1>4, <1>5, <1>6, <1>7 DEF NotifyNext

LEMMA KeptByInv == NotifyInv => LinesKept
  <1> SUFFICES ASSUME NotifyInv PROVE LinesKept
    OBVIOUS
  <1>1. /\ Within(outbox, cursor, dated) /\ LinesApart(outbox)
        /\ Covers(outbox, log, deleted, cursor) /\ HasArrived(outbox, Settled)
    BY DEF NotifyInv, Table
  <1>2. NothingLost
    BY <1>1 DEF NothingLost, HasArrived, Settled
  <1>3. QueuedOnce
    BY <1>1 DEF QueuedOnce, Within, LinesApart, Covers, Queued
  <1> QED
    BY <1>2, <1>3 DEF LinesKept

(* No channel is given a line twice, mail gets every line it asks for, and *)
(* a row marked sent has gone out with all its lines, but for those that   *)
(* came late: merged while the row fell due and was read, or written under *)
(* the number of a row that went with its channel (enqueue.go queueUser    *)
(* and write, outbox.go once).                                             *)
THEOREM LinesAreKept == NotifySpec => []LinesKept
  <1>1. NotifyInit => NotifyInv
    BY Starts
  <1>2. NotifyInv /\ [NotifyNext]_notifyvars => NotifyInv'
    BY InvKept
  <1>3. NotifyInv => LinesKept
    BY KeptByInv
  <1> QED
    BY <1>1, <1>2, <1>3, PTL DEF NotifySpec

-----------------------------------------------------------------------------

(* When a line goes out, and how often.  A number is tainted when a row    *)
(* under it may be sent again with a line that has gone out, or when the   *)
(* worker holds such a row that went with its channel: but for the one     *)
(* about to be marked there are as many as there were faults, at most, and *)
(* each delivery of a line that went out before takes one of them away.    *)
Tainted(rows, got) ==
  {i \in DOMAIN rows : /\ ~rows[i].sent
                       /\ \E k \in DOMAIN rows[i].items : <<rows[i].items[k], rows[i].channel>> \in got}
Stained(batch, got) ==
  {batch[k].id : k \in {j \in DOMAIN batch :
     batch[j].gone /\ \E y \in DOMAIN batch[j].items : <<batch[j].items[y], batch[j].channel>> \in got}}
Twice(rows, batch, got) == Tainted(rows, got) \cup Stained(batch, got)
Marking(w) == IF w.pc = "mark" THEN {w.batch[1].id} ELSE {}
Outweighed(S, n, m) == IsFiniteSet(S) /\ n + Cardinality(S) <= m

(* No new table has a line that was queued before in another row of it.    *)
OldLines(rows, out, n, m) ==
  \A i \in DOMAIN out : \A x \in DOMAIN out[i].items : out[i].items[x] \in Queued(n, m) =>
    i \in DOMAIN rows /\ rows[i].channel = out[i].channel /\ out[i].items[x] \in Range(rows[i].items)

(* The lines of an entry of the worker's batch were queued before, and no  *)
(* other row or entry of its channel has one of them.                      *)
Shares(q, r) == r.channel = q.channel /\ \E y \in DOMAIN q.items : q.items[y] \in Range(r.items)
Sole(batch, rows, n, m) ==
  /\ \A k \in DOMAIN batch : \A y \in DOMAIN batch[k].items : batch[k].items[y] \in Queued(n, m)
  /\ \A k \in DOMAIN batch : \A i \in DOMAIN rows :
       Shares(batch[k], rows[i]) => ~batch[k].gone /\ i = batch[k].id
  /\ \A j, k \in DOMAIN batch : Shares(batch[j], batch[k]) => j = k

(* While somebody can be told, each mention has a row that goes at once.   *)
Usable == \E c \in DOMAIN verified : verified[c]
Calls(rows, lg, usable, n, k) ==
  usable => \A e \in n + 1..k : lg[e] = "mentioned" =>
    \E i \in DOMAIN rows : <<"log", e>> \in Range(rows[i].items) /\ rows[i].wait = 0

ToldInv ==
  /\ phase \in 0..Day - 1 /\ again \in Nat /\ stops \in Nat
  /\ \A l, c : <<l, c>> \in delivered => l \in Queued(cursor, dated)
  /\ Sole(worker.batch, outbox, cursor, dated)
  /\ Outweighed(Twice(outbox, worker.batch, delivered) \ Marking(worker), again, stops)
  /\ tx.open => /\ OldLines(outbox, tx.rows, cursor, dated)
                /\ Calls(tx.rows, log, Usable, cursor, tx.cursor)

LEMMA FewerOutweighed ==
  ASSUME NEW S, NEW T, T \subseteq S, NEW n \in Nat, NEW m \in Nat, NEW k \in Nat, m <= k,
         Outweighed(S, n, m)
  PROVE  Outweighed(T, n, k)
  <1>1. IsFiniteSet(S) /\ n + Cardinality(S) <= m
    BY DEF Outweighed
  <1>2. IsFiniteSet(T) /\ Cardinality(T) <= Cardinality(S) /\ Cardinality(T) \in Nat /\ Cardinality(S) \in Nat
    BY <1>1, FS_Subset, FS_CardinalityType
  <1> QED
    BY <1>1, <1>2 DEF Outweighed

LEMMA FaultOutweighs ==
  ASSUME NEW S, NEW x, NEW T, T \subseteq S \cup {x}, NEW n \in Nat, NEW m \in Nat, Outweighed(S, n, m)
  PROVE  Outweighed(T, n, m + 1)
  <1>1. IsFiniteSet(S) /\ n + Cardinality(S) <= m
    BY DEF Outweighed
  <1>2. /\ IsFiniteSet(S \cup {x}) /\ Cardinality(S \cup {x}) <= Cardinality(S) + 1
        /\ Cardinality(S \cup {x}) \in Nat /\ Cardinality(S) \in Nat
    <2>1. IsFiniteSet(S \cup {x}) /\ Cardinality(S \cup {x}) = IF x \in S THEN Cardinality(S) ELSE Cardinality(S) + 1
      BY <1>1, FS_AddElement
    <2> QED
      BY <1>1, <2>1, FS_CardinalityType
  <1>3. n + Cardinality(S \cup {x}) <= m + 1
    BY <1>1, <1>2
  <1>4. Outweighed(S \cup {x}, n, m + 1)
    BY <1>2, <1>3 DEF Outweighed
  <1> QED
    BY <1>4, FewerOutweighed

LEMMA AgainOutweighed ==
  ASSUME NEW S, NEW x \in S, NEW T, T \subseteq S \ {x}, NEW n \in Nat, NEW m \in Nat, Outweighed(S, n, m)
  PROVE  Outweighed(T, n + 1, m)
  <1>1. IsFiniteSet(S) /\ n + Cardinality(S) <= m
    BY DEF Outweighed
  <1>2. IsFiniteSet(S \ {x}) /\ Cardinality(S \ {x}) = Cardinality(S) - 1 /\ Cardinality(S) \in Nat
    BY <1>1, FS_RemoveElement, FS_CardinalityType
  <1>3. n + 1 + Cardinality(S \ {x}) <= m
    BY <1>1, <1>2
  <1>4. Outweighed(S \ {x}, n + 1, m)
    BY <1>2, <1>3 DEF Outweighed
  <1> QED
    BY <1>4, FewerOutweighed

(* A line that nobody has been told taints no row.                         *)
LEMMA WrittenIsNew ==
  ASSUME NEW rows, Rowed(rows), NEW out, NEW line, NEW n, NEW m, line \notin Queued(n, m),
         \A i \in DOMAIN rows : i \in DOMAIN out /\ TakesLine(rows[i], out[i], line),
         \A i \in DOMAIN out : i \in DOMAIN rows \/ out[i].items = <<line>>
  PROVE  OldLines(rows, out, n, m)
  <1> SUFFICES ASSUME NEW i \in DOMAIN out, NEW k \in DOMAIN out[i].items, out[i].items[k] \in Queued(n, m)
               PROVE  i \in DOMAIN rows /\ rows[i].channel = out[i].channel /\ out[i].items[k] \in Range(rows[i].items)
    BY DEF OldLines
  <1>1. out[i].items[k] # line
    OBVIOUS
  <1>2. i \in DOMAIN rows
    <2> SUFFICES ASSUME out[i].items = <<line>> PROVE FALSE
      OBVIOUS
    <2>1. k = 1 /\ out[i].items[k] = line
      OBVIOUS
    <2> QED
      BY <1>1, <2>1
  <1>3. out[i].channel = rows[i].channel /\ rows[i].items \in Seq(Lines)
    BY <1>2 DEF TakesLine, Rowed, RowRec
  <1>4. k \in DOMAIN rows[i].items /\ rows[i].items[k] = out[i].items[k]
    <2>1. CASE out[i].items = rows[i].items
      BY <2>1
    <2>2. CASE out[i].items = Append(rows[i].items, line)
      BY <1>1, <1>3, <2>2
    <2> QED
      BY <1>2, <2>1, <2>2 DEF TakesLine
  <1>5. out[i].items[k] \in Range(rows[i].items)
    BY <1>4, Zenon DEF Range
  <1> QED
    BY <1>2, <1>3, <1>5

(* No more rows are tainted where no line has gone to another row.         *)
LEMMA OldTaints ==
  ASSUME NEW rows, NEW out, NEW n, NEW m, NEW got, OldLines(rows, out, n, m),
         \A l, c : <<l, c>> \in got => l \in Queued(n, m),
         \A i \in DOMAIN rows : i \in DOMAIN out /\ rows[i].sent => out[i].sent
  PROVE  Tainted(out, got) \subseteq Tainted(rows, got)
  <1> SUFFICES ASSUME NEW i \in DOMAIN out, ~out[i].sent, NEW k \in DOMAIN out[i].items,
                      <<out[i].items[k], out[i].channel>> \in got
               PROVE  i \in Tainted(rows, got)
    BY DEF Tainted
  <1>1. out[i].items[k] \in Queued(n, m)
    OBVIOUS
  <1>2. i \in DOMAIN rows /\ rows[i].channel = out[i].channel /\ out[i].items[k] \in Range(rows[i].items)
    BY <1>1 DEF OldLines
  <1>3. PICK x \in DOMAIN rows[i].items : rows[i].items[x] = out[i].items[k]
    BY <1>2 DEF Range
  <1> QED
    BY <1>2, <1>3 DEF Tainted

LEMMA SoleRows ==
  ASSUME NEW batch, NEW rows, NEW n, NEW m, Sole(batch, rows, n, m),
         NEW out, OldLines(rows, out, n, m), NEW k, NEW j, Queued(n, m) \subseteq Queued(k, j)
  PROVE  Sole(batch, out, k, j)
  <1>1. ASSUME NEW g \in DOMAIN batch, NEW i \in DOMAIN out, Shares(batch[g], out[i])
        PROVE  ~batch[g].gone /\ i = batch[g].id
    <2>1. PICK y \in DOMAIN batch[g].items : batch[g].items[y] \in Range(out[i].items)
      BY <1>1 DEF Shares
    <2>2. PICK x \in DOMAIN out[i].items : out[i].items[x] = batch[g].items[y]
      BY <2>1 DEF Range
    <2>3. out[i].items[x] \in Queued(n, m)
      BY <2>2 DEF Sole
    <2>4. i \in DOMAIN rows /\ rows[i].channel = out[i].channel /\ batch[g].items[y] \in Range(rows[i].items)
      BY <2>2, <2>3 DEF OldLines
    <2>5. Shares(batch[g], rows[i])
      BY <1>1, <2>4 DEF Shares
    <2> QED
      BY <2>4, <2>5 DEF Sole
  <1> QED
    BY <1>1 DEF Sole

LEMMA SoleTail ==
  ASSUME NEW batch \in Seq(Entry), NEW rows, NEW n, NEW m, NEW got, Sole(batch, rows, n, m),
         NEW pc, NEW w, w = AfterRow([pc |-> pc, batch |-> batch]), batch # <<>>
  PROVE  Sole(w.batch, rows, n, m) /\ Stained(w.batch, got) \subseteq Stained(batch, got) /\ Marking(w) = {}
  <1>1. CASE Len(batch) > 1
    <2> DEFINE rest == Tail(batch)
    <2>1. w = [pc |-> "row", batch |-> rest]
      BY <1>1 DEF AfterRow
    <2>2. \A k \in DOMAIN rest : k \in Nat /\ k + 1 \in DOMAIN batch /\ rest[k] = batch[k + 1]
      BY <1>1
    <2>3. w.batch = rest /\ w.pc = "row"
      BY <2>1
    <2> HIDE DEF rest
    <2>4. Sole(rest, rows, n, m)
      <3>1. ASSUME NEW j \in DOMAIN rest, NEW k \in DOMAIN rest, Shares(rest[j], rest[k]) PROVE j = k
        <4>1. j + 1 = k + 1
          BY <2>2, <3>1 DEF Sole
        <4> QED
          BY <2>2, <4>1
      <3> QED
        BY <2>2, <3>1 DEF Sole
    <2>5. Stained(rest, got) \subseteq Stained(batch, got)
      BY <2>2 DEF Stained
    <2> QED
      BY <2>3, <2>4, <2>5 DEF Marking
  <1>2. CASE ~(Len(batch) > 1)
    <2>1. w = [pc |-> "tick", batch |-> <<>>]
      BY <1>2 DEF AfterRow, AtRest
    <2>2. w.batch = <<>> /\ w.pc = "tick"
      BY <2>1
    <2>3. Sole(<<>>, rows, n, m) /\ Stained(<<>>, got) = {}
      BY DEF Sole, Stained
    <2> QED
      BY <2>2, <2>3 DEF Marking
  <1> QED
    BY <1>1, <1>2

LEMMA MentionNowIs ==
  ASSUME DOMAIN verified \subseteq Channels, Usable, phase \in 0..Day - 1
  PROVE  \E c \in DOMAIN Slots("mentioned") :
           Slots("mentioned")[c].wait = 0 /\ Slots("mentioned")[c].collapse = ""
  <1> DEFINE usable == {c \in DOMAIN verified : verified[c]}
             slots  == [c \in {d \in usable : <<"mentioned", d>> \in Ticked} |-> Schedule(c, "mentioned")]
             takers == IF DOMAIN slots # {} THEN DOMAIN slots ELSE usable
  <1>1. Slots("mentioned") = IF \A c \in DOMAIN slots : slots[c].wait > 0
                             THEN MentionNow(slots, usable) ELSE slots
    BY Zenon DEF Slots
  <1>2. /\ DOMAIN slots = {d \in usable : <<"mentioned", d>> \in Ticked}
        /\ usable \subseteq Channels /\ usable # {}
        /\ \A c \in DOMAIN slots : slots[c] = Schedule(c, "mentioned")
    BY DEF Usable
  <1> HIDE DEF slots, usable
  <1>3. CASE \A c \in DOMAIN slots : slots[c].wait > 0
    <2>1. takers \in SUBSET Nat /\ takers # {}
      BY <1>2, ChannelsAre
    <2>2. MentionNow(slots, usable)
            = [c \in DOMAIN slots \cup {Min(takers)} |-> IF c = Min(takers) THEN AtOnce ELSE slots[c]]
      BY <2>1, Zenon DEF MentionNow
    <2>3. AtOnce.wait = 0 /\ AtOnce.collapse = ""
      BY DEF AtOnce
    <2> HIDE DEF takers
    <2> QED
      BY <1>1, <1>3, <2>2, <2>3
  <1>4. CASE ~\A c \in DOMAIN slots : slots[c].wait > 0
    <2>1. PICK c \in DOMAIN slots : ~(slots[c].wait > 0)
      BY <1>4
    <2>2. slots[c].wait = 0 /\ slots[c].collapse = ""
      <3>1. slots[c] = Schedule(c, "mentioned")
        BY <1>2
      <3>2. NextDigest > 0
        BY NotifyAssumption DEF NextDigest
      <3>3. ~Collapses("mentioned")
        BY DEF Collapses
      <3>4. c \notin Digest
        <4> SUFFICES ASSUME c \in Digest PROVE FALSE
          OBVIOUS
        <4>1. slots[c] = [wait |-> NextDigest, collapse |-> "digest"]
          BY <3>1, Zenon DEF Schedule
        <4>2. slots[c].wait = NextDigest
          BY <4>1
        <4> QED
          BY <2>1, <3>2, <4>2
      <3> DEFINE left == IF QuietLeft(c) > 0 THEN QuietLeft(c) ELSE 0
      <3>5. slots[c].wait = left /\ slots[c].collapse = ""
        <4>1. slots[c] = [collapse |-> "", wait |-> left]
          BY <3>1, <3>3, <3>4, Zenon DEF Schedule
        <4> HIDE DEF left
        <4> DEFINE s == slots[c]
        <4>2. s = [wait |-> left, collapse |-> ""]
          BY <4>1
        <4> HIDE DEF s
        <4>3. s.wait = left /\ s.collapse = ""
          BY <4>2
        <4> QED
          BY <4>3 DEF s
      <3> HIDE DEF left
      <3>6. left > 0 \/ left = 0
        BY DEF left
      <3> QED
        BY <2>1, <3>5, <3>6
    <2> QED
      BY <1>1, <1>4, <2>2
  <1> QED
    BY <1>3, <1>4

LEMMA QueuesMention ==
  ASSUME NEW rows, Rowed(rows), DOMAIN verified \subseteq Channels, phase \in 0..Day - 1, Usable,
         NEW line \in Lines, Lacks(rows, line), NEW out, out = QueueUser(rows, "mentioned", line)
  PROVE  \E i \in DOMAIN out : out[i].items = <<line>> /\ out[i].wait = 0
  <1>1. /\ DOMAIN Slots("mentioned") \subseteq Channels
        /\ \E c \in DOMAIN Slots("mentioned") :
             Slots("mentioned")[c].wait = 0 /\ Slots("mentioned")[c].collapse = ""
    BY SlotsAre, MentionNowIs
  <1> DEFINE slots == Slots("mentioned")
  <1>2. out = Write(rows, slots, line)
    BY DEF QueueUser
  <1>3. DOMAIN slots \subseteq Channels /\ \E c \in DOMAIN slots : slots[c].wait = 0 /\ slots[c].collapse = ""
    BY <1>1
  <1> HIDE DEF slots
  <1>4. OwnRows(out, slots, line)
    BY <1>2, <1>3, WriteIs
  <1> QED
    BY <1>3, <1>4 DEF OwnRows

(* Steps that tell nobody, with what they leave to be outweighed.          *)
LEMMA ToldBy ==
  ASSUME ToldInv, phase' \in 0..Day - 1, again' = again, stops' \in Nat,
         Queued(cursor, dated) \subseteq Queued(cursor', dated'), delivered' = delivered,
         Sole(worker'.batch, outbox', cursor', dated'),
         tx'.open => /\ OldLines(outbox', tx'.rows, cursor', dated')
                     /\ Calls(tx'.rows, log', Usable', cursor', tx'.cursor),
         Outweighed(Twice(outbox', worker'.batch, delivered) \ Marking(worker'), again, stops')
  PROVE  ToldInv'
  <1>1. again \in Nat /\ \A l, c : <<l, c>> \in delivered => l \in Queued(cursor', dated')
    BY DEF ToldInv
  <1> QED
    BY <1>1 DEF ToldInv

(* Steps after which no more rows are tainted.                             *)
LEMMA ToldOf ==
  ASSUME ToldInv, phase' \in 0..Day - 1, again' = again, stops' \in Nat, stops <= stops',
         Queued(cursor, dated) \subseteq Queued(cursor', dated'), delivered' = delivered,
         Sole(worker'.batch, outbox', cursor', dated'),
         tx'.open => /\ OldLines(outbox', tx'.rows, cursor', dated')
                     /\ Calls(tx'.rows, log', Usable', cursor', tx'.cursor),
         Twice(outbox', worker'.batch, delivered) \ Marking(worker')
            \subseteq Twice(outbox, worker.batch, delivered) \ Marking(worker)
  PROVE  ToldInv'
  <1>1. /\ again \in Nat /\ stops \in Nat
        /\ Outweighed(Twice(outbox, worker.batch, delivered) \ Marking(worker), again, stops)
    BY DEF ToldInv
  <1>2. Outweighed(Twice(outbox', worker'.batch, delivered) \ Marking(worker'), again, stops')
    BY <1>1, FewerOutweighed
  <1> QED
    BY <1>2, ToldBy

LEMMA WatcherTells ==
  ASSUME NotifyInv, ToldInv, Watcher \/ CatchUpFails
  PROVE  ToldInv'
  <1>1. /\ phase \in 0..Day - 1 /\ again \in Nat /\ stops \in Nat
        /\ \A l, c : <<l, c>> \in delivered => l \in Queued(cursor, dated)
        /\ Sole(worker.batch, outbox, cursor, dated)
        /\ Outweighed(Twice(outbox, worker.batch, delivered) \ Marking(worker), again, stops)
    BY DEF ToldInv
  <1>2. /\ log \in Seq(Kinds) /\ Len(log) \in Nat /\ cursor \in 0..Len(log) /\ dated \in Nat
        /\ DOMAIN verified \subseteq Channels
    BY DEF NotifyInv
  <1>3. ASSUME tx.open
        PROVE  /\ tx = [open |-> TRUE, rows |-> tx.rows, cursor |-> tx.cursor, fell |-> tx.fell]
               /\ tx.cursor \in cursor..Len(log) /\ tx.cursor \in Nat
               /\ Table(tx.rows, log, deleted, Settled, tx.cursor, dated) /\ Rowed(tx.rows)
               /\ Within(tx.rows, tx.cursor, dated) /\ Ahead(outbox, tx.rows, tx.fell)
               /\ OldLines(outbox, tx.rows, cursor, dated)
               /\ Calls(tx.rows, log, Usable, cursor, tx.cursor)
    <2>1. /\ tx = [open |-> TRUE, rows |-> tx.rows, cursor |-> tx.cursor, fell |-> tx.fell]
          /\ tx.cursor \in cursor..Len(log) /\ Ahead(outbox, tx.rows, tx.fell)
          /\ Table(tx.rows, log, deleted, Settled, tx.cursor, dated)
      BY <1>3 DEF NotifyInv
    <2>2. Rowed(tx.rows) /\ Within(tx.rows, tx.cursor, dated) /\ tx.cursor \in Nat
      BY <1>2, <2>1 DEF Table
    <2> QED
      BY <1>3, <2>1, <2>2 DEF ToldInv
  <1>4. CASE CatchUpBegins
    <2>1. /\ tx' = [open |-> TRUE, rows |-> outbox, cursor |-> cursor, fell |-> {}]
          /\ UNCHANGED <<phase, log, cursor, dated, outbox, verified, worker, delivered, again, stops>>
      BY <1>4 DEF CatchUpBegins, events, history, time
    <2>2. tx'.rows = outbox /\ tx'.cursor = cursor
      BY <2>1
    <2>3. cursor + 1..cursor = {}
      BY <1>2
    <2>4. Calls(outbox, log, Usable', cursor, cursor) /\ OldLines(outbox, outbox, cursor, dated)
      BY <2>3 DEF Calls, OldLines, Range
    <2> QED
      BY <1>1, <2>1, <2>2, <2>4 DEF ToldInv
  <1>5. CASE CatchUpQueues
    <2> DEFINE n == tx.cursor + 1
               line == <<"log", n>>
               kind == log[n]
               out == QueueUser(tx.rows, kind, line)
    <2>1. /\ tx.open /\ tx.cursor < Len(log) /\ tx' = [[tx EXCEPT !.rows = out] EXCEPT !.cursor = n]
          /\ UNCHANGED <<phase, log, cursor, dated, outbox, verified, worker, delivered, again, stops>>
      BY <1>5 DEF CatchUpQueues, events, history, time
    <2>2. n \in Nat /\ n = tx.cursor + 1 /\ tx.cursor < n
      BY <1>3, <2>1
    <2>3. line \in Lines /\ line \notin Queued(tx.cursor, dated)
      BY <1>2, <1>3, <2>1, <2>2 DEF Lines, Queued
    <2>4. Queued(cursor, dated) \subseteq Queued(tx.cursor, dated)
      BY <1>2, <1>3, <2>1 DEF Queued
    <2>5. tx' = [open |-> TRUE, rows |-> out, cursor |-> n, fell |-> tx.fell]
      BY <1>3, <2>1
    <2>6. tx'.rows = out /\ tx'.cursor = n
      BY <2>5
    <2>7. line = <<"log", n>> /\ kind = log[n] /\ out = QueueUser(tx.rows, kind, line)
      OBVIOUS
    <2> HIDE DEF n, line, kind, out
    <2>8. Lacks(tx.rows, line)
      BY <1>3, <2>1, <2>3 DEF Lacks, Within
    <2>9. /\ \A i \in DOMAIN tx.rows : i \in DOMAIN out /\ TakesLine(tx.rows[i], out[i], line)
          /\ \A i \in DOMAIN out : i \in DOMAIN tx.rows \/ out[i].items = <<line>>
      <3>1. DOMAIN Slots(kind) \subseteq Channels
        BY <1>2, SlotsAre
      <3>2. Written(tx.rows, out, DOMAIN Slots(kind), line)
        BY <1>3, <2>1, <2>3, <2>7, <2>8, <3>1, WriteIs DEF QueueUser
      <3> QED
        BY <3>2 DEF Written
    <2>10. OldLines(outbox, out, cursor, dated)
      <3> DEFINE rows == tx.rows
      <3>1. line \notin Queued(cursor, dated) /\ Rowed(rows) /\ OldLines(outbox, rows, cursor, dated)
        BY <1>3, <2>1, <2>3, <2>4
      <3>2. /\ \A i \in DOMAIN rows : i \in DOMAIN out /\ TakesLine(rows[i], out[i], line)
            /\ \A i \in DOMAIN out : i \in DOMAIN rows \/ out[i].items = <<line>>
        BY <2>9
      <3> HIDE DEF rows
      <3>3. OldLines(rows, out, cursor, dated)
        BY <3>1, <3>2, WrittenIsNew
      <3> QED
        BY <3>1, <3>3 DEF OldLines, Range
    <2>11. Calls(out, log, Usable, cursor, n)
      <3> SUFFICES ASSUME Usable, NEW e \in cursor + 1..n, log[e] = "mentioned"
                   PROVE  \E i \in DOMAIN out : <<"log", e>> \in Range(out[i].items) /\ out[i].wait = 0
        BY DEF Calls
      <3>1. CASE e = n
        <4> DEFINE rows == tx.rows
        <4>1. out = QueueUser(rows, "mentioned", line) /\ Rowed(rows) /\ Lacks(rows, line)
          BY <1>3, <2>1, <2>7, <2>8, <3>1
        <4> HIDE DEF rows
        <4>2. PICK i \in DOMAIN out : out[i].items = <<line>> /\ out[i].wait = 0
          BY <1>1, <1>2, <2>3, <4>1, QueuesMention
        <4>3. line \in Range(<<line>>)
          BY DEF Range
        <4> QED
          BY <2>7, <3>1, <4>2, <4>3
      <3>2. CASE e # n
        <4>1. e \in cursor + 1..tx.cursor
          BY <1>2, <1>3, <2>1, <2>2, <3>2
        <4>2. PICK i \in DOMAIN tx.rows : <<"log", e>> \in Range(tx.rows[i].items) /\ tx.rows[i].wait = 0
          BY <1>3, <2>1, <4>1 DEF Calls
        <4>3. i \in DOMAIN out /\ out[i].wait = 0 /\ out[i].items = tx.rows[i].items
          BY <2>9, <4>2 DEF TakesLine
        <4> QED
          BY <4>2, <4>3
      <3> QED
        BY <3>1, <3>2
    <2>12. Usable' = Usable
      BY <2>1 DEF Usable
    <2> QED
      BY <1>1, <2>1, <2>6, <2>10, <2>11, <2>12 DEF ToldInv
  <1>6. CASE CatchUpCommits
    <2>1. /\ tx.open /\ outbox' = tx.rows /\ cursor' = tx.cursor /\ ~tx'.open
          /\ UNCHANGED <<phase, dated, worker, delivered, again, stops>>
      BY <1>6 DEF CatchUpCommits, NoTx, time
    <2>2. Queued(cursor, dated) \subseteq Queued(cursor', dated')
      BY <1>2, <1>3, <2>1 DEF Queued
    <2>3. Sole(worker.batch, outbox', cursor', dated')
      BY <1>1, <1>3, <2>1, <2>2, SoleRows
    <2>4. Tainted(outbox', delivered) \subseteq Tainted(outbox, delivered)
      <3> DEFINE rows == tx.rows
      <3>1. \A i \in DOMAIN outbox : i \in DOMAIN rows /\ outbox[i].sent => rows[i].sent
        BY <1>3, <2>1 DEF Ahead
      <3>2. OldLines(outbox, rows, cursor, dated) /\ outbox' = rows
        BY <1>3, <2>1
      <3> HIDE DEF rows
      <3> QED
        BY <1>1, <3>1, <3>2, OldTaints
    <2>5. Twice(outbox', worker'.batch, delivered) \ Marking(worker')
            \subseteq Twice(outbox, worker.batch, delivered) \ Marking(worker)
      BY <2>1, <2>4 DEF Twice
    <2> QED
      BY <1>1, <2>1, <2>2, <2>3, <2>5, ToldOf
  <1>7. CASE CatchUpFails
    <2>1. /\ ~tx'.open /\ stops' = stops + 1
          /\ UNCHANGED <<phase, cursor, dated, outbox, worker, delivered, again>>
      BY <1>7 DEF CatchUpFails, events, history, NoTx, time
    <2>2. stops + 1 \in Nat /\ stops <= stops + 1
      BY <1>1
    <2> QED
      BY <1>1, <2>1, <2>2, ToldOf
  <1> QED
    BY <1>4, <1>5, <1>6, <1>7 DEF Watcher

(* No later entry of the batch has the number of the first.                *)
LEMMA IdsGoOn ==
  ASSUME NotifyInv, worker.batch # <<>>,
         worker' = AfterRow([pc |-> worker.pc, batch |-> worker.batch])
  PROVE  Id \notin Stained(worker'.batch, delivered)
  <1>1. worker.batch \in Seq(Entry) /\ \A j, k \in DOMAIN worker.batch : worker.batch[j].id = worker.batch[k].id => j = k
    BY DEF NotifyInv, AsRead
  <1> DEFINE batch == worker.batch
  <1>2. CASE Len(batch) > 1
    <2> DEFINE rest == Tail(batch)
    <2>1. worker' = [pc |-> "row", batch |-> rest]
      BY <1>2 DEF AfterRow
    <2>2. \A k \in DOMAIN rest : k + 1 \in DOMAIN batch /\ k + 1 # 1 /\ 1 \in DOMAIN batch /\ rest[k] = batch[k + 1]
      BY <1>1, <1>2
    <2>3. \A k \in DOMAIN rest : rest[k].id # batch[1].id
      BY <1>1, <2>2
    <2> HIDE DEF rest
    <2>4. worker'.batch = rest
      BY <2>1
    <2> QED
      BY <2>3, <2>4 DEF Stained, Id
  <1>3. CASE ~(Len(batch) > 1)
    <2>1. worker' = [pc |-> "tick", batch |-> <<>>]
      BY <1>3 DEF AfterRow, AtRest
    <2>2. worker'.batch = <<>>
      BY <2>1
    <2> QED
      BY <2>2 DEF Stained
  <1> QED
    BY <1>2, <1>3

(* A step that ends with an update of the row at hand.                     *)
LEMMA RowTells ==
  ASSUME NotifyInv, ToldInv, Stops \/ MarkSent \/ Retries \/ Waits
  PROVE  ToldInv'
  <1>1. /\ Onward /\ ~tx.open /\ tx' = tx /\ worker.pc \notin {"tick", "once"}
        /\ UNCHANGED <<phase, cursor, dated, delivered, again, stops>>
    BY UpdatesAre DEF Free
  <1>2. PICK r : Rewritten(r)
    BY UpdatesAre
  <1>3. /\ phase \in 0..Day - 1 /\ stops \in Nat /\ Sole(worker.batch, outbox, cursor, dated)
        /\ \A l, c : <<l, c>> \in delivered => l \in Queued(cursor, dated)
    BY DEF ToldInv
  <1>4. /\ worker = [pc |-> worker.pc, batch |-> worker.batch] /\ worker.batch \in Seq(Entry)
        /\ worker.batch # <<>> /\ Rowed(outbox)
    BY <1>1 DEF NotifyInv, Table
  <1>5. /\ DOMAIN outbox' = DOMAIN outbox
        /\ \A i \in DOMAIN outbox : i # Id => outbox'[i] = outbox[i]
        /\ Id \in DOMAIN outbox =>
             /\ outbox'[Id].channel = outbox[Id].channel /\ outbox'[Id].items = outbox[Id].items
             /\ ~outbox'[Id].sent => worker.pc # "mark" /\ ~outbox[Id].sent
             /\ outbox[Id].sent => outbox'[Id].sent
    <2>1. Update(r) /\ (Here => RowRec(Row)) /\ outbox = [i \in DOMAIN outbox |-> outbox[i]]
      BY <1>2, <1>4 DEF Rewritten, Rowed, Row, Here
    <2>2. CASE Here
      <3>1. /\ outbox' = [outbox EXCEPT ![Id] = r] /\ Id \in DOMAIN outbox /\ Row = outbox[Id]
            /\ r.channel = Row.channel /\ r.items = Row.items
        BY <1>2, <2>1, <2>2 DEF Rewritten, Update, Here, Row
      <3>2. IF worker.pc = "mark" THEN r.sent ELSE r.sent <=> Row.sent
        BY <1>2, <2>1, <2>2 DEF Rewritten
      <3>3. /\ DOMAIN outbox' = DOMAIN outbox /\ outbox'[Id] = r
            /\ \A i \in DOMAIN outbox : i # Id => outbox'[i] = outbox[i]
        BY <2>1, <3>1
      <3>4. /\ ~r.sent => worker.pc # "mark" /\ ~Row.sent
            /\ Row.sent => r.sent
        BY <3>2, Zenon
      <3> QED
        BY <3>1, <3>3, <3>4
    <2>3. CASE ~Here
      BY <2>1, <2>3 DEF Update, Here
    <2> QED
      BY <2>2, <2>3
  <1>6. OldLines(outbox, outbox', cursor, dated)
    <2> DEFINE out == outbox'
    <2>1. /\ DOMAIN out = DOMAIN outbox
          /\ \A i \in DOMAIN outbox : out[i].channel = outbox[i].channel /\ out[i].items = outbox[i].items
      BY <1>5
    <2> HIDE DEF out
    <2>2. OldLines(outbox, out, cursor, dated)
      BY <2>1 DEF OldLines, Range
    <2> QED
      BY <2>2 DEF out
  <1>7. worker' = AfterRow([pc |-> worker.pc, batch |-> worker.batch])
    BY <1>1, <1>4 DEF Onward
  <1>8. /\ Sole(worker'.batch, outbox, cursor, dated) /\ Marking(worker') = {}
        /\ Stained(worker'.batch, delivered) \subseteq Stained(worker.batch, delivered)
    <2> DEFINE batch == worker.batch
               pc == worker.pc
               w == worker'
               got == delivered
    <2>1. /\ batch \in Seq(Entry) /\ batch # <<>> /\ w = AfterRow([pc |-> pc, batch |-> batch])
          /\ Sole(batch, outbox, cursor, dated)
      BY <1>3, <1>4, <1>7
    <2> HIDE DEF batch, pc, w, got
    <2>2. Sole(w.batch, outbox, cursor, dated) /\ Stained(w.batch, got) \subseteq Stained(batch, got) /\ Marking(w) = {}
      BY <2>1, SoleTail
    <2> QED
      BY <2>2, Zenon DEF batch, w, got
  <1>9. Sole(worker'.batch, outbox', cursor', dated')
    <2> DEFINE batch == worker'.batch
               out == outbox'
    <2>1. Sole(batch, outbox, cursor, dated) /\ OldLines(outbox, out, cursor, dated)
      BY <1>6, <1>8
    <2> HIDE DEF batch, out
    <2>2. Sole(batch, out, cursor, dated)
      BY <2>1, SoleRows
    <2> QED
      BY <1>1, <2>2 DEF batch, out
  <1>10. Tainted(outbox', delivered) \subseteq Tainted(outbox, delivered)
    <2> DEFINE out == outbox'
    <2>1. /\ OldLines(outbox, out, cursor, dated)
          /\ \A i \in DOMAIN outbox : i \in DOMAIN out /\ outbox[i].sent => out[i].sent
      BY <1>5, <1>6
    <2> HIDE DEF out
    <2>2. Tainted(out, delivered) \subseteq Tainted(outbox, delivered)
      BY <1>3, <2>1, OldTaints
    <2> QED
      BY <2>2 DEF out
  (* What was to be marked is marked, and no entry goes by its number.      *)
  <1>11. ASSUME worker.pc = "mark" PROVE Id \notin Twice(outbox', worker'.batch, delivered)
    <2>1. Id \notin Tainted(outbox', delivered)
      BY <1>5, <1>11 DEF Tainted
    <2>2. Id \notin Stained(worker'.batch, delivered)
      BY <1>4, <1>7, IdsGoOn
    <2> QED
      BY <2>1, <2>2 DEF Twice
  <1>12. Twice(outbox', worker'.batch, delivered) \ Marking(worker')
            \subseteq Twice(outbox, worker.batch, delivered) \ Marking(worker)
    <2>1. Twice(outbox', worker'.batch, delivered) \subseteq Twice(outbox, worker.batch, delivered)
      BY <1>8, <1>10 DEF Twice
    <2> QED
      BY <1>11, <2>1 DEF Marking, Id
  <1> QED
    BY <1>1, <1>3, <1>9, <1>12, ToldOf

LEMMA ArrivalTells ==
  ASSUME NotifyInv, ToldInv, Arrives
  PROVE  ToldInv'
  <1> DEFINE got == delivered \cup Carried
             q == worker.batch[1]
  <1>1. /\ delivered' = got /\ worker.pc = "send" /\ At("mark")
        /\ again' = again + IF Carried \cap delivered = {} THEN 0 ELSE 1
        /\ UNCHANGED <<phase, log, cursor, dated, outbox, verified, tx, stops>>
    BY DEF Arrives, events, time
  <1>2. /\ phase \in 0..Day - 1 /\ again \in Nat /\ stops \in Nat
        /\ \A l, c : <<l, c>> \in delivered => l \in Queued(cursor, dated)
        /\ Sole(worker.batch, outbox, cursor, dated)
        /\ Outweighed(Twice(outbox, worker.batch, delivered) \ Marking(worker), again, stops)
    BY DEF ToldInv
  <1>3. /\ worker = [pc |-> worker.pc, batch |-> worker.batch] /\ worker.batch \in Seq(Entry)
        /\ worker.batch # <<>> /\ AsRead(worker.batch, outbox, late)
    BY <1>1 DEF NotifyInv
  <1>4. 1 \in DOMAIN worker.batch /\ q = worker.batch[1] /\ Id = q.id
    BY <1>3 DEF Id
  <1>5. \A g : g \in Carried <=> \E k \in DOMAIN q.items : g = <<q.items[k], q.channel>>
    BY DEF Carried
  <1>6. IF q.gone THEN Strayed(q, outbox, late) ELSE Held(q, outbox, late)
    BY <1>3, <1>4 DEF AsRead
  <1>7. Marking(worker) = {} /\ Marking(worker') = {Id} /\ worker'.batch = worker.batch
    <2>1. worker' = [pc |-> "mark", batch |-> worker.batch]
      BY <1>1, <1>3 DEF At
    <2>2. worker'.pc = "mark" /\ worker'.batch = worker.batch
      BY <2>1
    <2> QED
      BY <1>1, <1>4, <2>2 DEF Marking
  <1> HIDE DEF got, q
  (* A line of the row at hand is in no other row or entry of its channel.  *)
  <1>8. Tainted(outbox, got) \subseteq Tainted(outbox, delivered) \cup {Id}
    <2> SUFFICES ASSUME NEW i \in DOMAIN outbox, ~outbox[i].sent, i # Id, NEW k \in DOMAIN outbox[i].items,
                        <<outbox[i].items[k], outbox[i].channel>> \in got
                 PROVE  <<outbox[i].items[k], outbox[i].channel>> \in delivered
      BY DEF Tainted
    <2> SUFFICES ASSUME <<outbox[i].items[k], outbox[i].channel>> \in Carried PROVE FALSE
      BY DEF got
    <2>1. PICK l \in DOMAIN q.items : <<outbox[i].items[k], outbox[i].channel>> = <<q.items[l], q.channel>>
      BY <1>5
    <2>2. outbox[i].channel = q.channel /\ q.items[l] \in Range(outbox[i].items)
      <3>1. outbox[i].items[k] \in Range(outbox[i].items)
        BY DEF Range
      <3> QED
        BY <2>1, <3>1
    <2>3. Shares(q, outbox[i])
      BY <2>2 DEF Shares
    <2> QED
      BY <1>2, <1>4, <2>3 DEF Sole
  <1>9. Stained(worker.batch, got) \subseteq Stained(worker.batch, delivered) \cup {Id}
    <2> DEFINE batch == worker.batch
    <2> SUFFICES ASSUME NEW j \in DOMAIN batch, batch[j].gone, batch[j].id # Id, NEW k \in DOMAIN batch[j].items,
                        <<batch[j].items[k], batch[j].channel>> \in got
                 PROVE  <<batch[j].items[k], batch[j].channel>> \in delivered
      BY DEF Stained
    <2> SUFFICES ASSUME <<batch[j].items[k], batch[j].channel>> \in Carried PROVE FALSE
      BY DEF got
    <2>1. PICK l \in DOMAIN q.items : <<batch[j].items[k], batch[j].channel>> = <<q.items[l], q.channel>>
      BY <1>5
    <2>2. batch[j].channel = q.channel /\ q.items[l] \in Range(batch[j].items)
      <3>1. batch[j].items[k] \in Range(batch[j].items)
        BY DEF Range
      <3> QED
        BY <2>1, <3>1
    <2>3. Shares(batch[1], batch[j])
      BY <1>4, <2>2 DEF Shares
    <2>4. j = 1
      BY <1>2, <1>4, <2>3 DEF Sole
    <2> QED
      BY <1>4, <2>4
  <1>10. Twice(outbox, worker.batch, got) \ {Id} \subseteq Twice(outbox, worker.batch, delivered)
    BY <1>8, <1>9 DEF Twice
  <1>11. Outweighed(Twice(outbox, worker.batch, got) \ {Id}, again', stops)
    <2> DEFINE S == Twice(outbox, worker.batch, delivered)
               T == Twice(outbox, worker.batch, got) \ {Id}
    <2>0. Outweighed(S, again, stops) /\ T \subseteq S /\ T \subseteq S \ {Id}
      <3>1. Twice(outbox, worker.batch, delivered) \ {} = Twice(outbox, worker.batch, delivered)
        OBVIOUS
      <3> QED
        BY <1>2, <1>7, <1>10, <3>1
    <2>1. CASE Carried \cap delivered = {}
      <3>1. again' = again
        BY <1>1, <1>2, <2>1
      <3> HIDE DEF S, T
      <3> QED
        BY <1>2, <2>0, <3>1, FewerOutweighed DEF T
    <2>2. CASE Carried \cap delivered # {}
      <3>1. Id \in S
        <4>1. PICK k \in DOMAIN q.items : <<q.items[k], q.channel>> \in delivered
          BY <1>5, <2>2
        <4>2. CASE q.gone
          <5>1. Id \in Stained(worker.batch, delivered)
            BY <1>4, <4>1, <4>2 DEF Stained
          <5> QED
            BY <5>1 DEF Twice
        <4>3. CASE ~q.gone
          <5>1. /\ Id \in DOMAIN outbox /\ outbox[Id].channel = q.channel /\ ~outbox[Id].sent
                /\ q.items[k] \in Range(outbox[Id].items)
            BY <1>4, <1>6, <4>3 DEF Held
          <5>2. PICK x \in DOMAIN outbox[Id].items : outbox[Id].items[x] = q.items[k]
            BY <5>1 DEF Range
          <5>3. Id \in Tainted(outbox, delivered)
            BY <4>1, <5>1, <5>2 DEF Tainted
          <5> QED
            BY <5>3 DEF Twice
        <4> QED
          BY <4>2, <4>3
      <3>2. again' = again + 1
        BY <1>1, <2>2
      <3> HIDE DEF S, T
      <3> QED
        BY <1>2, <2>0, <3>1, <3>2, AgainOutweighed DEF T
    <2> QED
      BY <2>1, <2>2
  <1>12. ASSUME NEW l, NEW c, <<l, c>> \in got PROVE l \in Queued(cursor, dated)
    <2>1. CASE <<l, c>> \in delivered
      BY <1>2, <2>1
    <2>2. CASE <<l, c>> \in Carried
      <3>1. PICK k \in DOMAIN q.items : <<l, c>> = <<q.items[k], q.channel>>
        BY <1>5, <2>2
      <3>2. l = q.items[k]
        BY <3>1
      <3> QED
        BY <1>2, <1>4, <3>2 DEF Sole
    <2> QED
      BY <1>12, <2>1, <2>2 DEF got
  <1>13. again' \in Nat
    BY <1>1, <1>2
  <1>14. Usable' = Usable
    BY <1>1 DEF Usable
  <1>15. tx.open => OldLines(outbox, tx.rows, cursor, dated) /\ Calls(tx.rows, log, Usable, cursor, tx.cursor)
    BY DEF ToldInv
  <1> QED
    BY <1>1, <1>2, <1>7, <1>11, <1>12, <1>13, <1>14, <1>15 DEF ToldInv

(* The daily pass writes one line that nobody has been told.               *)
LEMMA TickTells ==
  ASSUME NotifyInv, ToldInv, DailyTick \/ TickNotDue \/ TickFails
  PROVE  ToldInv'
  <1>1. /\ phase \in 0..Day - 1 /\ again \in Nat /\ stops \in Nat /\ stops + 1 \in Nat /\ stops <= stops + 1
        /\ \A l, c : <<l, c>> \in delivered => l \in Queued(cursor, dated)
        /\ Outweighed(Twice(outbox, worker.batch, delivered) \ Marking(worker), again, stops)
    BY DEF ToldInv
  <1>2. /\ worker.pc = "tick" /\ worker = [pc |-> worker.pc, batch |-> worker.batch] /\ worker.batch = <<>>
        /\ cursor \in Nat /\ dated \in Nat
        /\ Table(outbox, log, deleted, Settled, cursor, dated) /\ Rowed(outbox)
    BY DEF NotifyInv, Table, DailyTick, TickNotDue, TickFails
  <1>3. Marking(worker) = {} /\ Marking(worker') = {} /\ worker'.batch = <<>>
    <2>1. worker' = [pc |-> "once", batch |-> worker.batch]
      BY <1>2 DEF DailyTick, TickNotDue, TickFails, At
    <2>2. worker'.pc = "once" /\ worker'.batch = <<>>
      BY <1>2, <2>1
    <2> QED
      BY <1>2, <2>2 DEF Marking
  <1>4. /\ UNCHANGED <<phase, log, cursor, verified, delivered, again, tx>> /\ Usable' = Usable
        /\ stops' \in Nat /\ stops <= stops'
    <2>1. /\ UNCHANGED <<phase, log, cursor, verified, delivered, again, tx>>
          /\ stops' = stops \/ stops' = stops + 1
      BY DEF DailyTick, TickNotDue, TickFails, events, history, time
    <2> QED
      BY <1>1, <2>1 DEF Usable
  <1>5. Sole(worker'.batch, outbox', cursor', dated')
    BY <1>3 DEF Sole
  <1>6. CASE UNCHANGED <<outbox, dated>>
    <2>1. tx'.open => OldLines(outbox', tx'.rows, cursor', dated') /\ Calls(tx'.rows, log', Usable', cursor', tx'.cursor)
      BY <1>4, <1>6 DEF ToldInv
    <2>2. Twice(outbox', worker'.batch, delivered) \ Marking(worker')
            \subseteq Twice(outbox, worker.batch, delivered) \ Marking(worker)
      BY <1>2, <1>3, <1>6
    <2>3. Queued(cursor, dated) \subseteq Queued(cursor', dated')
      BY <1>4, <1>6
    <2> QED
      BY <1>1, <1>4, <1>5, <2>1, <2>2, <2>3, ToldOf
  <1>7. CASE ~tx.open /\ dated' = dated + 1 /\ outbox' = QueueUser(outbox, "due", <<"due", dated + 1>>)
    <2> DEFINE line == <<"due", dated + 1>>
    <2>1. /\ line \in Lines /\ line \notin Queued(cursor, dated) /\ line \in Queued(cursor, dated + 1)
          /\ Queued(cursor, dated) \subseteq Queued(cursor, dated + 1)
      BY <1>2 DEF Lines, Queued
    <2>2. dated + 1 \in Nat /\ dated <= dated + 1 /\ cursor <= cursor /\ cursor + 1..cursor = {}
      BY <1>2
    <2> HIDE DEF line
    <2>3. outbox' = QueueUser(outbox, "due", line)
      BY <1>7 DEF line
    <2> DEFINE out == outbox'
    <2>4. out = QueueUser(outbox, "due", line)
      BY <2>3
    <2> HIDE DEF out
    <2>5. Lacks(outbox, line) /\ DOMAIN Slots("due") \subseteq Channels
      <3>1. DOMAIN verified \subseteq Channels /\ Within(outbox, cursor, dated)
        BY <1>2 DEF NotifyInv, Table
      <3> QED
        BY <2>1, <3>1, SlotsAre DEF Lacks, Within
    <2>6. Written(outbox, out, DOMAIN Slots("due"), line)
      BY <1>2, <2>1, <2>4, <2>5, WriteIs DEF QueueUser
    <2>7. /\ \A i \in DOMAIN outbox : i \in DOMAIN out /\ TakesLine(outbox[i], out[i], line)
          /\ \A i \in DOMAIN out : i \in DOMAIN outbox \/ out[i].items = <<line>>
      BY <2>6 DEF Written
    <2>8. OldLines(outbox, out, cursor, dated)
      BY <1>2, <2>1, <2>7, WrittenIsNew
    <2>9. \A i \in DOMAIN outbox : i \in DOMAIN out /\ outbox[i].sent => out[i].sent
      BY <2>7 DEF TakesLine
    <2>10. Tainted(out, delivered) \subseteq Tainted(outbox, delivered)
      BY <1>1, <2>8, <2>9, OldTaints
    <2>11. Twice(outbox', worker'.batch, delivered) \ Marking(worker')
            \subseteq Twice(outbox, worker.batch, delivered) \ Marking(worker)
      BY <1>2, <1>3, <2>10 DEF Twice, out
    <2>12. ~tx'.open /\ Queued(cursor, dated) \subseteq Queued(cursor', dated')
      BY <1>4, <1>7, <2>1
    <2> QED
      BY <1>1, <1>4, <1>5, <2>11, <2>12, ToldOf
  <1> QED
    BY <1>6, <1>7 DEF DailyTick, TickNotDue, TickFails, events, Free

LEMMA WorkerTells ==
  ASSUME NotifyInv, ToldInv, ReadBatch \/ RowGoes \/ Skips \/ Refused \/ OnceFails \/ Dies
  PROVE  ToldInv'
  <1>1. /\ phase \in 0..Day - 1 /\ again \in Nat /\ stops \in Nat /\ stops + 1 \in Nat /\ stops <= stops + 1
        /\ Sole(worker.batch, outbox, cursor, dated)
        /\ Outweighed(Twice(outbox, worker.batch, delivered) \ Marking(worker), again, stops)
    BY DEF ToldInv
  <1>2. /\ worker = [pc |-> worker.pc, batch |-> worker.batch] /\ worker.batch \in Seq(Entry)
        /\ worker.pc \in {"tick", "once"} <=> worker.batch = <<>>
        /\ Rowed(outbox) /\ LinesApart(outbox) /\ Within(outbox, cursor, dated)
    BY DEF NotifyInv, Table
  <1>3. UNCHANGED <<phase, log, cursor, dated, outbox, verified, delivered, again>> /\ Usable' = Usable
    BY DEF ReadBatch, RowGoes, Skips, Refused, OnceFails, Dies, events, history, time, Usable
  <1>4. tx'.open => /\ OldLines(outbox', tx'.rows, cursor', dated')
                    /\ Calls(tx'.rows, log', Usable', cursor', tx'.cursor)
    <2>1. tx' = tx \/ ~tx'.open
      BY DEF ReadBatch, RowGoes, Skips, Refused, OnceFails, Dies, NoTx
    <2> QED
      BY <1>3, <2>1 DEF ToldInv
  <1>5. ASSUME stops' = stops, Marking(worker) = {}, Sole(worker'.batch, outbox, cursor, dated),
               Stained(worker'.batch, delivered) \subseteq Stained(worker.batch, delivered)
        PROVE  ToldInv'
    <2>1. Twice(outbox', worker'.batch, delivered) \ Marking(worker')
            \subseteq Twice(outbox, worker.batch, delivered) \ Marking(worker)
      BY <1>3, <1>5 DEF Twice
    <2> QED
      BY <1>1, <1>3, <1>4, <1>5, <2>1, ToldOf
  <1>6. CASE ReadBatch /\ Due = {}
    <2>1. worker' = AtRest /\ worker.pc = "once" /\ stops' = stops
      BY <1>6 DEF ReadBatch
    <2>2. worker'.batch = <<>>
      BY <2>1 DEF AtRest
    <2>3. Sole(<<>>, outbox, cursor, dated) /\ Stained(<<>>, delivered) = {}
      BY DEF Sole, Stained
    <2> QED
      BY <1>5, <2>1, <2>2, <2>3 DEF Marking
  <1>7. CASE ReadBatch /\ Due # {}
    <2>1. /\ \E ids \in Injection(1..Min({BatchSize, Cardinality(Due)}), Due) :
               worker' = [pc |-> "row",
                 batch |-> [k \in DOMAIN ids |->
                   [id |-> ids[k], channel |-> outbox[ids[k]].channel, items |-> outbox[ids[k]].items,
                    attempts |-> outbox[ids[k]].attempts, past |-> outbox[ids[k]].age >= GiveUpAfter,
                    gone |-> FALSE]]]
          /\ worker.pc = "once" /\ stops' = stops
      BY <1>7 DEF ReadBatch
    <2>2. PICK ids \in Injection(1..Min({BatchSize, Cardinality(Due)}), Due) :
               worker' = [pc |-> "row",
                 batch |-> [k \in DOMAIN ids |->
                   [id |-> ids[k], channel |-> outbox[ids[k]].channel, items |-> outbox[ids[k]].items,
                    attempts |-> outbox[ids[k]].attempts, past |-> outbox[ids[k]].age >= GiveUpAfter,
                    gone |-> FALSE]]]
      BY <2>1
    <2> DEFINE batch == [k \in DOMAIN ids |->
                 [id |-> ids[k], channel |-> outbox[ids[k]].channel, items |-> outbox[ids[k]].items,
                  attempts |-> outbox[ids[k]].attempts, past |-> outbox[ids[k]].age >= GiveUpAfter,
                  gone |-> FALSE]]
    <2>3. \A k \in DOMAIN ids : ids[k] \in Due
      BY DEF Injection
    <2>4. /\ \A j, k \in DOMAIN ids : ids[j] = ids[k] => j = k
          /\ \A k \in DOMAIN ids : ids[k] \in DOMAIN outbox
      BY <2>3 DEF Injection, IsInjective, Due
    <2>5. /\ DOMAIN batch = DOMAIN ids
          /\ \A k \in DOMAIN batch : /\ batch[k].id = ids[k] /\ batch[k].channel = outbox[ids[k]].channel
                                     /\ batch[k].items = outbox[ids[k]].items /\ ~batch[k].gone
      OBVIOUS
    <2>6. worker'.batch = batch
      BY <2>2
    <2> HIDE DEF batch
    <2>7. ASSUME NEW k \in DOMAIN batch, NEW i \in DOMAIN outbox, Shares(batch[k], outbox[i]) PROVE i = ids[k]
      <3>1. PICK y \in DOMAIN batch[k].items : batch[k].items[y] \in Range(outbox[i].items)
        BY <2>7 DEF Shares
      <3>2. PICK x \in DOMAIN outbox[i].items : outbox[i].items[x] = batch[k].items[y]
        BY <3>1 DEF Range
      <3>3. /\ ids[k] \in DOMAIN outbox /\ outbox[i].channel = outbox[ids[k]].channel
            /\ y \in DOMAIN outbox[ids[k]].items /\ outbox[i].items[x] = outbox[ids[k]].items[y]
        BY <2>4, <2>5, <2>7, <3>2 DEF Shares
      <3> QED
        BY <1>2, <3>3 DEF LinesApart
    <2>8. ASSUME NEW j \in DOMAIN batch, NEW k \in DOMAIN batch, Shares(batch[j], batch[k]) PROVE j = k
      <3>1. Shares(batch[j], outbox[ids[k]]) /\ ids[k] \in DOMAIN outbox
        BY <2>4, <2>5, <2>8 DEF Shares
      <3>2. ids[k] = ids[j]
        BY <2>7, <3>1
      <3> QED
        BY <2>4, <2>5, <3>2
    <2>9. ASSUME NEW k \in DOMAIN batch, NEW y \in DOMAIN batch[k].items
          PROVE  batch[k].items[y] \in Queued(cursor, dated)
      BY <1>2, <2>4, <2>5 DEF Within
    <2>10. Sole(batch, outbox, cursor, dated)
      BY <2>5, <2>7, <2>8, <2>9 DEF Sole
    <2>11. Stained(batch, delivered) = {}
      BY <2>5 DEF Stained
    <2> QED
      BY <1>5, <2>1, <2>6, <2>10, <2>11 DEF Marking
  <1>8. CASE RowGoes \/ Refused
    <2>1. PICK pc : At(pc)
      BY <1>8 DEF RowGoes, Refused
    <2>2. worker' = [pc |-> pc, batch |-> worker.batch]
      BY <1>2, <2>1 DEF At
    <2>3. worker'.batch = worker.batch
      BY <2>2
    <2>4. worker.pc # "mark" /\ stops' = stops
      BY <1>8 DEF RowGoes, Refused
    <2> QED
      BY <1>1, <1>5, <2>3, <2>4 DEF Marking
  <1>9. CASE Skips
    <2>1. /\ worker.pc = "row" /\ stops' = stops
          /\ worker' = AfterRow([pc |-> worker.pc, batch |-> worker.batch])
      BY <1>2, <1>9 DEF Skips, Onward
    <2> DEFINE batch == worker.batch
               pc == worker.pc
               w == worker'
               got == delivered
    <2>2. /\ batch \in Seq(Entry) /\ batch # <<>> /\ w = AfterRow([pc |-> pc, batch |-> batch])
          /\ Sole(batch, outbox, cursor, dated)
      BY <1>1, <1>2, <2>1
    <2> HIDE DEF batch, pc, w, got
    <2>3. Sole(w.batch, outbox, cursor, dated) /\ Stained(w.batch, got) \subseteq Stained(batch, got)
      BY <2>2, SoleTail
    <2>4. Sole(worker'.batch, outbox, cursor, dated) /\ Stained(worker'.batch, delivered) \subseteq Stained(worker.batch, delivered)
      BY <2>3, Zenon DEF batch, w, got
    <2> QED
      BY <1>5, <2>1, <2>4 DEF Marking
  <1>10. CASE OnceFails \/ Dies
    <2>1. stops' = stops + 1 /\ worker' = AtRest
      BY <1>10 DEF OnceFails, Dies
    <2>2. worker'.batch = <<>>
      BY <2>1 DEF AtRest
    <2>3. Sole(<<>>, outbox, cursor, dated) /\ Stained(<<>>, delivered) = {}
      BY DEF Sole, Stained
    <2> DEFINE old == Twice(outbox, worker.batch, delivered) \ Marking(worker)
               new == Twice(outbox', worker'.batch, delivered) \ Marking(worker')
    <2>4. new \subseteq old \cup {Id}
      BY <1>3, <2>2, <2>3 DEF Twice, Marking, Id
    <2> HIDE DEF old, new
    <2>5. Outweighed(old, again, stops)
      BY <1>1 DEF old
    <2>6. Outweighed(new, again, stops + 1)
      BY <1>1, <2>4, <2>5, FaultOutweighs
    <2>7. Outweighed(Twice(outbox', worker'.batch, delivered) \ Marking(worker'), again, stops')
      BY <2>1, <2>6 DEF new
    <2>8. Sole(worker'.batch, outbox', cursor', dated')
      BY <1>3, <2>2, <2>3
    <2>9. /\ phase' \in 0..Day - 1 /\ again' = again /\ stops' \in Nat /\ delivered' = delivered
          /\ Queued(cursor, dated) \subseteq Queued(cursor', dated')
      BY <1>1, <1>3, <2>1
    <2> QED
      BY <1>4, <2>7, <2>8, <2>9, ToldBy
  <1> QED
    BY <1>6, <1>7, <1>8, <1>9, <1>10

(* Where rows keep their lines, and those that are due stay so, what is    *)
(* told of them stays.                                                     *)
LEMMA CallsOn ==
  ASSUME NEW rows, NEW out, NEW lg, NEW usable, NEW n, NEW k, Calls(rows, lg, usable, n, k),
         DOMAIN out = DOMAIN rows,
         \A i \in DOMAIN rows : out[i].items = rows[i].items /\ (rows[i].wait = 0 => out[i].wait = 0)
  PROVE  Calls(out, lg, usable, n, k)
  BY DEF Calls

LEMMA PassingTells ==
  ASSUME NotifyInv, ToldInv, TimePasses
  PROVE  ToldInv'
  <1>1. /\ phase \in 0..Day - 1 /\ again \in Nat /\ stops \in Nat /\ Rowed(outbox)
        /\ Sole(worker.batch, outbox, cursor, dated) /\ dated \in Nat /\ Day \in Nat \ {0}
    BY NotifyAssumption DEF ToldInv, NotifyInv, Table
  <1>2. /\ UNCHANGED <<log, cursor, dated, verified, delivered, again, stops, worker>> /\ Usable' = Usable
        /\ phase' = (phase + 1) % Day /\ outbox' = AllAged(outbox)
        /\ tx' = IF tx.open THEN [tx EXCEPT !.rows = AllAged(@), !.fell = @ \cup FallDue] ELSE tx
    BY DEF TimePasses, events, history, Usable
  <1>3. phase' \in 0..Day - 1
    BY <1>1, <1>2
  <1>4. ASSUME NEW rows, Rowed(rows), NEW out, out = AllAged(rows)
        PROVE  /\ DOMAIN out = DOMAIN rows
               /\ \A i \in DOMAIN rows : /\ out[i].channel = rows[i].channel /\ out[i].items = rows[i].items
                                         /\ out[i].sent = rows[i].sent /\ (rows[i].wait = 0 => out[i].wait = 0)
    BY <1>4, AllAgedIs
  <1> DEFINE out == outbox'
  <1>5. /\ DOMAIN out = DOMAIN outbox
        /\ \A i \in DOMAIN outbox : /\ out[i].channel = outbox[i].channel /\ out[i].items = outbox[i].items
                                    /\ out[i].sent = outbox[i].sent
    BY <1>1, <1>2, <1>4
  <1>6. OldLines(outbox, out, cursor, dated) /\ Tainted(out, delivered) = Tainted(outbox, delivered)
    <2> HIDE DEF out
    <2> QED
      BY <1>5 DEF OldLines, Range, Tainted
  <1>7. Sole(worker.batch, out, cursor, dated)
    <2> HIDE DEF out
    <2> QED
      BY <1>1, <1>6, SoleRows
  <1>8. ASSUME tx.open
        PROVE  /\ OldLines(out, tx'.rows, cursor, dated)
               /\ Calls(tx'.rows, log, Usable, cursor, tx'.cursor)
    <2>1. /\ tx = [open |-> TRUE, rows |-> tx.rows, cursor |-> tx.cursor, fell |-> tx.fell]
          /\ Rowed(tx.rows) /\ OldLines(outbox, tx.rows, cursor, dated)
          /\ Calls(tx.rows, log, Usable, cursor, tx.cursor)
      BY <1>8 DEF ToldInv, NotifyInv, Table
    <2> DEFINE far == AllAged(tx.rows)
    <2>2. tx'.rows = far /\ tx'.cursor = tx.cursor
      <3> DEFINE felled == tx.fell \cup FallDue
      <3>1. tx' = [[tx EXCEPT !.rows = far] EXCEPT !.fell = felled]
        BY <1>2, <1>8
      <3> HIDE DEF far, felled
      <3> DEFINE s == [tx EXCEPT !.rows = far]
      <3>2. s.rows = far /\ s.cursor = tx.cursor /\ s = [tx EXCEPT !.rows = far] /\ DOMAIN s = DOMAIN tx
        BY <2>1
      <3> HIDE DEF s
      <3>3. tx' = [s EXCEPT !.fell = felled]
        BY <3>1 DEF s
      <3>4. "rows" \in DOMAIN s /\ "cursor" \in DOMAIN s
        BY <2>1, <3>2
      <3> QED
        BY <3>2, <3>3, <3>4
    <2>3. /\ DOMAIN far = DOMAIN tx.rows
          /\ \A i \in DOMAIN tx.rows : /\ far[i].channel = tx.rows[i].channel /\ far[i].items = tx.rows[i].items
                                       /\ (tx.rows[i].wait = 0 => far[i].wait = 0)
      BY <1>4, <2>1
    <2> HIDE DEF far, out
    <2> DEFINE rows == tx.rows
    <2>4. Calls(far, log, Usable, cursor, tx.cursor)
      <3>1. /\ Calls(rows, log, Usable, cursor, tx.cursor) /\ DOMAIN far = DOMAIN rows
            /\ \A i \in DOMAIN rows : far[i].items = rows[i].items /\ (rows[i].wait = 0 => far[i].wait = 0)
        BY <2>1, <2>3
      <3> HIDE DEF rows
      <3> QED
        BY <3>1, CallsOn
    <2>5. OldLines(out, far, cursor, dated)
      <3>1. ASSUME NEW i \in DOMAIN far, NEW x \in DOMAIN far[i].items, far[i].items[x] \in Queued(cursor, dated)
            PROVE  i \in DOMAIN out /\ out[i].channel = far[i].channel /\ far[i].items[x] \in Range(out[i].items)
        <4>1. /\ i \in DOMAIN rows /\ rows[i].channel = far[i].channel /\ rows[i].items = far[i].items
              /\ OldLines(outbox, rows, cursor, dated)
          BY <2>1, <2>3
        <4> HIDE DEF rows
        <4>2. /\ i \in DOMAIN outbox /\ outbox[i].channel = rows[i].channel
              /\ rows[i].items[x] \in Range(outbox[i].items)
          BY <3>1, <4>1 DEF OldLines
        <4> QED
          BY <1>5, <4>1, <4>2
      <3> QED
        BY <3>1 DEF OldLines
    <2> QED
      BY <2>2, <2>4, <2>5
  <1>9. tx'.open => tx.open
    BY <1>2
  <1>10. Twice(outbox', worker'.batch, delivered) \ Marking(worker')
           \subseteq Twice(outbox, worker.batch, delivered) \ Marking(worker)
    BY <1>2, <1>6 DEF Twice
  <1>11. /\ phase' \in 0..Day - 1 /\ again' = again /\ stops' \in Nat /\ stops <= stops' /\ delivered' = delivered
         /\ Queued(cursor, dated) \subseteq Queued(cursor', dated') /\ Sole(worker'.batch, outbox', cursor', dated')
    BY <1>1, <1>2, <1>3, <1>7
  <1>12. tx'.open => /\ OldLines(outbox', tx'.rows, cursor', dated')
                     /\ Calls(tx'.rows, log', Usable', cursor', tx'.cursor)
    BY <1>2, <1>8, <1>9
  <1> HIDE DEF out
  <1> QED
    BY <1>10, <1>11, <1>12, ToldOf

(* A row the worker has goes with its channel: only its number is left.    *)
LEMMA DeletingTells ==
  ASSUME NotifyInv, ToldInv, NEW c \in Channels, DeletesChannel(c)
  PROVE  ToldInv'
  <1>1. /\ phase \in 0..Day - 1 /\ again \in Nat /\ stops \in Nat /\ Sole(worker.batch, outbox, cursor, dated)
        /\ worker = [pc |-> worker.pc, batch |-> worker.batch] /\ worker.batch \in Seq(Entry)
        /\ AsRead(worker.batch, outbox, late) /\ (worker.pc = "mark" => worker.batch # <<>>)
    BY DEF ToldInv, NotifyInv
  <1>2. /\ ~tx'.open /\ UNCHANGED <<phase, cursor, dated, delivered, again, stops>>
        /\ worker' = [worker EXCEPT !.batch = Cut(worker.batch, c)]
        /\ outbox' = Restrict(outbox, {i \in DOMAIN outbox : outbox[i].channel # c})
    BY Zenon DEF DeletesChannel, Free, events, time
  <1> DEFINE old == worker.batch
             batch == Cut(old, c)
             out == outbox'
  <1>3. /\ DOMAIN batch = DOMAIN old
        /\ \A k \in DOMAIN batch :
              /\ batch[k].id = old[k].id /\ batch[k].items = old[k].items
              /\ batch[k].channel = old[k].channel
              /\ batch[k].gone <=> old[k].gone \/ old[k].channel = c
    BY <1>1, CutIs
  <1>4. /\ \A i \in DOMAIN out : i \in DOMAIN outbox /\ outbox[i].channel # c /\ out[i] = outbox[i]
        /\ \A i \in DOMAIN outbox : outbox[i].channel # c => i \in DOMAIN out
    BY <1>2 DEF Restrict
  <1>5. worker' = [pc |-> worker.pc, batch |-> batch]
    BY <1>1, <1>2
  <1>6. worker'.pc = worker.pc /\ worker'.batch = batch
    BY <1>5
  <1>7. Marking(worker') = Marking(worker)
    <2>1. CASE worker.pc = "mark"
      <3>1. 1 \in DOMAIN old
        BY <1>1, <2>1
      <3>2. batch[1].id = old[1].id
        BY <1>3, <3>1
      <3> QED
        BY <1>6, <2>1, <3>2 DEF Marking
    <2>2. CASE worker.pc # "mark"
      BY <1>6, <2>2 DEF Marking
    <2> QED
      BY <2>1, <2>2
  <1>8. Sole(old, outbox, cursor, dated) /\ AsRead(old, outbox, late)
    BY <1>1
  <1> HIDE DEF old, batch, out
  <1>9. Sole(batch, out, cursor, dated)
    <2>1. ASSUME NEW k \in DOMAIN batch, NEW i \in DOMAIN out, Shares(batch[k], out[i])
          PROVE  ~batch[k].gone /\ i = batch[k].id
      <3>1. Shares(old[k], outbox[i]) /\ k \in DOMAIN old /\ i \in DOMAIN outbox
        BY <1>3, <1>4, <2>1 DEF Shares
      <3>2. ~old[k].gone /\ i = old[k].id
        BY <1>8, <3>1 DEF Sole
      <3>3. old[k].channel # c
        BY <1>4, <3>1 DEF Shares
      <3> QED
        BY <1>3, <3>2, <3>3
    <2>2. ASSUME NEW j \in DOMAIN batch, NEW k \in DOMAIN batch, Shares(batch[j], batch[k]) PROVE j = k
      <3>1. Shares(old[j], old[k]) /\ j \in DOMAIN old /\ k \in DOMAIN old
        BY <1>3, <2>2 DEF Shares
      <3> QED
        BY <1>8, <3>1 DEF Sole
    <2>3. \A k \in DOMAIN batch : \A y \in DOMAIN batch[k].items : batch[k].items[y] \in Queued(cursor, dated)
      BY <1>3, <1>8 DEF Sole
    <2> QED
      BY <2>1, <2>2, <2>3 DEF Sole
  <1>10. Tainted(out, delivered) \subseteq Tainted(outbox, delivered)
    BY <1>4 DEF Tainted
  <1>11. Stained(batch, delivered) \subseteq Stained(old, delivered) \cup Tainted(outbox, delivered)
    <2> SUFFICES ASSUME NEW j \in DOMAIN batch, batch[j].gone, NEW y \in DOMAIN batch[j].items,
                        <<batch[j].items[y], batch[j].channel>> \in delivered
                 PROVE  batch[j].id \in Stained(old, delivered) \cup Tainted(outbox, delivered)
      BY DEF Stained
    <2>1. /\ j \in DOMAIN old /\ y \in DOMAIN old[j].items /\ batch[j].id = old[j].id
          /\ <<old[j].items[y], old[j].channel>> \in delivered
      BY <1>3
    <2>2. CASE old[j].gone
      BY <2>1, <2>2 DEF Stained
    <2>3. CASE ~old[j].gone
      <3>1. Held(old[j], outbox, late)
        BY <1>8, <2>1, <2>3 DEF AsRead
      <3>2. /\ old[j].id \in DOMAIN outbox /\ ~outbox[old[j].id].sent
            /\ outbox[old[j].id].channel = old[j].channel /\ old[j].items[y] \in Range(outbox[old[j].id].items)
        BY <2>1, <3>1 DEF Held
      <3>3. PICK x \in DOMAIN outbox[old[j].id].items : outbox[old[j].id].items[x] = old[j].items[y]
        BY <3>2 DEF Range
      <3> QED
        BY <2>1, <3>2, <3>3 DEF Tainted
    <2> QED
      BY <2>2, <2>3
  <1>12. Twice(out, batch, delivered) \subseteq Twice(outbox, old, delivered)
    BY <1>10, <1>11 DEF Twice
  <1>13. Twice(outbox', worker'.batch, delivered) \ Marking(worker')
           \subseteq Twice(outbox, worker.batch, delivered) \ Marking(worker)
    BY <1>6, <1>7, <1>12 DEF old, out
  <1>14. /\ phase' \in 0..Day - 1 /\ again' = again /\ stops' \in Nat /\ stops <= stops' /\ delivered' = delivered
         /\ Queued(cursor, dated) \subseteq Queued(cursor', dated') /\ Sole(worker'.batch, outbox', cursor', dated')
    BY <1>1, <1>2, <1>6, <1>9 DEF out
  <1> QED
    BY <1>2, <1>13, <1>14, ToldOf

LEMMA OthersTell ==
  ASSUME NotifyInv, ToldInv, Owner \/ TimePasses \/ \E kind \in Kinds : Happens(kind)
  PROVE  ToldInv'
  <1>1. CASE \/ \E c \in Channels : Tested(c) \/ EditsDestination(c)
             \/ CreatesChannel \/ SetsMail \/ \E kind \in Kinds : Happens(kind)
    <2>1. /\ ~tx'.open
          /\ UNCHANGED <<phase, outbox, cursor, dated, delivered, again, stops, worker>>
      BY <1>1 DEF Tested, EditsDestination, CreatesChannel, SetsMail, Happens, Free, events, history, time
    <2> QED
      BY <2>1 DEF ToldInv
  <1> QED
    BY <1>1, PassingTells, DeletingTells DEF Owner

LEMMA ToldStarts == NotifyInit => ToldInv
  <1> SUFFICES ASSUME NotifyInit PROVE ToldInv
    OBVIOUS
  <1>1. /\ phase = 0 /\ outbox = <<>> /\ delivered = {} /\ again = 0 /\ stops = 0 /\ ~tx.open
        /\ worker.batch = <<>> /\ Day \in Nat \ {0}
    BY NotifyAssumption DEF NotifyInit, NoTx, AtRest
  <1>2. Twice(outbox, worker.batch, delivered) \ Marking(worker) = {}
    BY <1>1 DEF Twice, Tainted, Stained
  <1>3. Outweighed({}, 0, 0)
    BY FS_EmptySet DEF Outweighed
  <1>4. Outweighed(Twice(outbox, worker.batch, delivered) \ Marking(worker), again, stops)
    BY <1>1, <1>2, <1>3, Zenon
  <1>5. phase \in 0..Day - 1 /\ \A l, c : <<l, c>> \notin delivered
    BY <1>1
  <1>6. Sole(worker.batch, outbox, cursor, dated)
    BY <1>1 DEF Sole
  <1> QED
    BY <1>1, <1>4, <1>5, <1>6 DEF ToldInv

LEMMA ToldKept == NotifyInv /\ ToldInv /\ [NotifyNext]_notifyvars => ToldInv'
  <1> SUFFICES ASSUME NotifyInv, ToldInv, [NotifyNext]_notifyvars PROVE ToldInv'
    OBVIOUS
  <1>1. CASE Watcher \/ Faults
    BY <1>1, WatcherTells, TickTells, WorkerTells DEF Faults
  <1>2. CASE Worker
    BY <1>2, TickTells, WorkerTells, RowTells, ArrivalTells DEF Worker
  <1>3. CASE Owner \/ TimePasses \/ \E kind \in Kinds : Happens(kind)
    BY <1>3, OthersTell
  <1>4. CASE UNCHANGED notifyvars
    <2>1. UNCHANGED <<phase, log, cursor, outbox, verified, tx, worker, delivered, again, dated, stops>>
      BY <1>4 DEF notifyvars, time, events, history
    <2> QED
      BY <2>1 DEF ToldInv, Usable
  <1> QED
    BY <1>1, <1>2, <1>3, <1>4 DEF NotifyNext

-----------------------------------------------------------------------------
LEMMA FewTwice == ToldInv => ToldTwiceOnlyByFault
  <1> SUFFICES ASSUME ToldInv PROVE again <= stops
    BY DEF ToldTwiceOnlyByFault
  <1> DEFINE S == Twice(outbox, worker.batch, delivered) \ Marking(worker)
  <1>1. IsFiniteSet(S) /\ again + Cardinality(S) <= stops /\ again \in Nat /\ stops \in Nat
    BY DEF ToldInv, Outweighed
  <1> HIDE DEF S
  <1>2. Cardinality(S) \in Nat
    BY <1>1, FS_CardinalityType
  <1> QED
    BY <1>1, <1>2

(* The cursor passes events only with the transaction that queued them.    *)
LEMMA MentionGoes ==
  ASSUME NotifyInv, ToldInv, [NotifyNext]_notifyvars,
         NEW n \in cursor + 1..cursor', log[n] = "mentioned", \E c \in DOMAIN verified : verified[c]
  PROVE  \E i \in DOMAIN outbox' : <<"log", n>> \in Range(outbox'[i].items) /\ outbox'[i].wait = 0
  <1>1. CASE CatchUpCommits
    <2>1. tx.open /\ outbox' = tx.rows /\ cursor' = tx.cursor
      BY <1>1 DEF CatchUpCommits
    <2>2. Calls(tx.rows, log, Usable, cursor, tx.cursor)
      BY <2>1 DEF ToldInv
    <2> QED
      BY <2>1, <2>2 DEF Calls, Usable
  <1>2. CASE cursor' = cursor
    <2>1. cursor \in Nat
      BY DEF NotifyInv
    <2> QED
      BY <1>2, <2>1
  <1> QED
    BY <1>1, <1>2
    DEF NotifyNext, notifyvars, Happens, Watcher, CatchUpBegins, CatchUpQueues, Worker, DailyTick, TickNotDue,
        ReadBatch, RowGoes, Skips, Stops, Arrives, Refused, MarkSent, Retries, Waits, Owner, Tested,
        EditsDestination, DeletesChannel, CreatesChannel, SetsMail, Faults, CatchUpFails, TickFails,
        OnceFails, Dies, TimePasses, events

(* A row that is given up takes no line and is not sent, in the rows as    *)
(* the one writer has them.                                                *)
LEMMA LatestIs ==
  ASSUME NotifyInv
  PROVE  /\ Rowed(Latest) /\ Rowed(outbox)
         /\ tx.open => Latest = tx.rows /\ Ahead(outbox, tx.rows, tx.fell)
         /\ ~tx.open => Latest = outbox
  BY DEF Latest, NotifyInv, Table

Rests(rows, out, i) ==
  i \in DOMAIN out => Dead(out, i) /\ Range(out[i].items) \subseteq Range(rows[i].items)

(* A row takes lines only while it may still be sent.                      *)
LEMMA TakingRests ==
  ASSUME NEW rows, NEW i, Dead(rows, i), NEW out, NEW line, TakesLine(rows[i], out[i], line)
  PROVE  Rests(rows, out, i)
  <1>1. out[i].items = rows[i].items /\ out[i].sent = rows[i].sent /\ out[i].tried = rows[i].tried
    BY DEF TakesLine, Dead
  <1> QED
    BY <1>1 DEF Rests, Dead, Sendable

(* What a transaction began with has no more lines than it.                *)
LEMMA BehindRests ==
  ASSUME NEW rows, NEW more, NEW fell, Ahead(rows, more, fell), NEW i, Dead(more, i)
  PROVE  Rests(more, rows, i)
  <1> SUFFICES ASSUME i \in DOMAIN rows
               PROVE  Dead(rows, i) /\ Range(rows[i].items) \subseteq Range(more[i].items)
    BY DEF Rests
  <1>1. /\ more[i].sent = rows[i].sent /\ more[i].tried = rows[i].tried
        /\ \A x \in DOMAIN rows[i].items : rows[i].items[x] \in Range(more[i].items)
    BY DEF Ahead
  <1>2. Range(rows[i].items) \subseteq Range(more[i].items)
    BY <1>1, Zenon DEF Range
  <1> QED
    BY <1>1, <1>2 DEF Dead, Sendable

LEMMA AgingRests ==
  ASSUME NEW rows, Rowed(rows), NEW out, out = AllAged(rows), NEW i, Dead(rows, i)
  PROVE  Rests(rows, out, i)
  <1>1. /\ out[i].items = rows[i].items /\ out[i].sent = rows[i].sent
        /\ ~Sendable(rows[i]) => ~Sendable(out[i])
    BY AllAgedIs DEF Dead
  <1> QED
    BY <1>1 DEF Rests, Dead

LEMMA DeadRests ==
  ASSUME NotifyInv, [NotifyNext]_notifyvars, NEW i, Dead(Latest, i), ~InHand(i)
  PROVE  Rests(Latest, Latest', i)
  <1>1. /\ Rowed(Latest) /\ Rowed(outbox)
        /\ tx.open => Latest = tx.rows /\ Ahead(outbox, tx.rows, tx.fell)
        /\ ~tx.open => Latest = outbox
        /\ tx'.open => Latest' = tx'.rows
        /\ ~tx'.open => Latest' = outbox'
    BY LatestIs DEF Latest
  <1>2. Dead(Latest, i) /\ i \in DOMAIN Latest
    BY DEF Dead
  <1> DEFINE rows == Latest
             out == Latest'
  <1>3. CASE out = rows
    <2>1. Dead(rows, i)
      BY <1>2
    <2> HIDE DEF rows, out
    <2>2. Rests(rows, out, i)
      BY <1>3, <2>1 DEF Rests
    <2> QED
      BY <2>2 DEF rows, out
  <1>4. CASE CatchUpBegins
    <2>1. tx' = [open |-> TRUE, rows |-> outbox, cursor |-> cursor, fell |-> {}] /\ ~tx.open
      BY <1>4 DEF CatchUpBegins, Free
    <2>2. tx'.rows = outbox /\ tx'.open
      BY <2>1
    <2> QED
      BY <1>1, <1>3, <2>1, <2>2
  <1>5. CASE CatchUpQueues
    <2> DEFINE n == tx.cursor + 1
               line == <<"log", n>>
               kind == log[n]
               new == QueueUser(tx.rows, kind, line)
    <2>1. tx.open /\ tx.cursor < Len(log) /\ tx' = [[tx EXCEPT !.rows = new] EXCEPT !.cursor = n]
      BY <1>5 DEF CatchUpQueues
    <2>2. /\ tx = [open |-> TRUE, rows |-> tx.rows, cursor |-> tx.cursor, fell |-> tx.fell]
          /\ tx.cursor \in cursor..Len(log) /\ cursor \in Nat /\ Len(log) \in Nat /\ dated \in Nat
          /\ Table(tx.rows, log, deleted, Settled, tx.cursor, dated)
      BY <2>1 DEF NotifyInv
    <2>3. tx.cursor \in Nat /\ n \in Nat /\ n = tx.cursor + 1 /\ tx.cursor <= n /\ dated <= dated
      BY <2>2
    <2>4. line \in Lines /\ line \notin Queued(tx.cursor, dated) /\ line \in Queued(n, dated)
      BY <2>2, <2>3 DEF Lines, Queued
    <2>5. \A e \in tx.cursor + 1..n : e = n
      BY <2>3
    <2>6. tx' = [open |-> TRUE, rows |-> new, cursor |-> n, fell |-> tx.fell]
      BY <2>1, <2>2
    <2>7. tx'.open /\ tx'.rows = new
      BY <2>6
    <2>8. line = <<"log", n>> /\ kind = log[n] /\ new = QueueUser(tx.rows, kind, line)
      OBVIOUS
    <2> HIDE DEF n, line, kind, new
    <2>9. \A e \in tx.cursor + 1..n : line = <<"log", e>> /\ kind = log[e]
      BY <2>5, <2>8
    <2>10. \A k \in DOMAIN tx.rows : k \in DOMAIN new /\ TakesLine(tx.rows[k], new[k], line)
      BY <2>2, <2>3, <2>4, <2>8, <2>9, QueueUserIs
    <2>11. Dead(tx.rows, i) /\ i \in DOMAIN tx.rows
      BY <1>1, <1>2, <2>1
    <2>12. Rests(tx.rows, new, i)
      BY <2>10, <2>11, TakingRests
    <2> QED
      BY <1>1, <2>1, <2>7, <2>12
  <1>6. CASE CatchUpCommits
    <2>1. tx.open /\ outbox' = tx.rows /\ ~tx'.open
      BY <1>6 DEF CatchUpCommits, NoTx
    <2> QED
      BY <1>1, <1>3, <2>1
  <1>7. CASE outbox' = outbox /\ ~tx'.open
    <2>1. CASE tx.open
      BY <1>1, <1>2, <1>7, <2>1, BehindRests
    <2>2. CASE ~tx.open
      BY <1>1, <1>3, <1>7, <2>2
    <2> QED
      BY <2>1, <2>2
  <1>8. CASE DailyTick
    <2>1. ~tx.open /\ tx' = tx
      BY <1>8 DEF DailyTick, Free
    <2>2. CASE outbox' = QueueUser(outbox, "due", <<"due", dated + 1>>)
      <3> DEFINE line == <<"due", dated + 1>>
      <3>1. /\ cursor \in Nat /\ dated \in Nat /\ dated + 1 \in Nat /\ dated <= dated + 1 /\ cursor <= cursor
            /\ cursor + 1..cursor = {} /\ Table(outbox, log, deleted, Settled, cursor, dated)
        BY DEF NotifyInv
      <3>2. line \in Lines /\ line \notin Queued(cursor, dated) /\ line \in Queued(cursor, dated + 1)
        BY <3>1 DEF Lines, Queued
      <3>3. outbox' = QueueUser(outbox, "due", line)
        BY <2>2
      <3> HIDE DEF line
      <3>4. \A k \in DOMAIN outbox : k \in DOMAIN outbox' /\ TakesLine(outbox[k], outbox'[k], line)
        BY <3>1, <3>2, <3>3, QueueUserIs
      <3>5. Dead(outbox, i) /\ i \in DOMAIN outbox
        BY <1>1, <1>2, <2>1
      <3>6. Rests(outbox, outbox', i)
        BY <3>4, <3>5, TakingRests
      <3> QED
        BY <1>1, <2>1, <3>6
    <2>3. CASE outbox' = outbox
      BY <1>7, <2>1, <2>3
    <2> QED
      BY <1>8, <2>2, <2>3 DEF DailyTick
  <1>9. CASE Stops \/ MarkSent \/ Retries \/ Waits
    <2>1. PICK r : Rewritten(r)
      BY <1>9, UpdatesAre
    <2>2. /\ worker.pc \in {"mark", "failed", "unset"} \/ StillSendable
          /\ ~tx.open /\ tx' = tx
      BY <1>9, UpdatesAre DEF Free
    <2>3. Dead(outbox, i) /\ i \in DOMAIN outbox /\ Rowed(outbox)
      BY <1>1, <1>2, <2>2
    <2>4. i # Id
      BY <2>2, <2>3 DEF InHand, StillSendable, Row, Dead
    <2>5. outbox'[i] = outbox[i]
      BY <2>1, <2>3, <2>4 DEF Rewritten, Update
    <2>6. DOMAIN outbox' = DOMAIN outbox
      BY <2>1 DEF Rewritten, Update
    <2>7. Rests(outbox, outbox', i)
      BY <2>3, <2>5 DEF Rests, Dead
    <2> QED
      BY <1>1, <2>2, <2>7
  <1>10. CASE TimePasses
    <2>1. /\ outbox' = AllAged(outbox)
          /\ tx' = IF tx.open THEN [tx EXCEPT !.rows = AllAged(@), !.fell = @ \cup FallDue] ELSE tx
      BY <1>10 DEF TimePasses
    <2>2. CASE tx.open
      <3>1. tx = [open |-> TRUE, rows |-> tx.rows, cursor |-> tx.cursor, fell |-> tx.fell]
        BY <2>2 DEF NotifyInv
      <3> DEFINE far == AllAged(tx.rows)
                 felled == tx.fell \cup FallDue
                 s == [tx EXCEPT !.rows = far]
      <3>2. tx' = [s EXCEPT !.fell = felled]
        BY <2>1, <2>2
      <3> HIDE DEF far, felled
      <3>3. s.rows = far /\ s.open /\ DOMAIN s = DOMAIN tx /\ "rows" \in DOMAIN s /\ "open" \in DOMAIN s
        BY <3>1
      <3> HIDE DEF s
      <3>4. tx'.rows = far /\ tx'.open
        BY <3>2, <3>3
      <3>5. Rests(tx.rows, far, i)
        BY <1>1, <1>2, <2>2, AgingRests DEF far
      <3> QED
        BY <1>1, <2>2, <3>4, <3>5
    <2>3. CASE ~tx.open
      BY <1>1, <1>2, <2>1, <2>3, AgingRests
    <2> QED
      BY <2>2, <2>3
  <1>11. ASSUME NEW c \in Channels, DeletesChannel(c) PROVE Rests(Latest, Latest', i)
    <2>1. outbox' = Restrict(outbox, {k \in DOMAIN outbox : outbox[k].channel # c}) /\ ~tx.open /\ tx' = tx
      BY <1>11 DEF DeletesChannel, Free
    <2>2. i \in DOMAIN outbox' => outbox'[i] = outbox[i]
      BY <2>1 DEF Restrict
    <2>3. Dead(outbox, i)
      BY <1>1, <1>2, <2>1
    <2>4. Rests(outbox, outbox', i)
      BY <2>2, <2>3 DEF Rests, Dead
    <2> QED
      BY <1>1, <2>1, <2>4
  <1>12. ASSUME UNCHANGED <<outbox, tx>> PROVE Rests(Latest, Latest', i)
    <2>1. Latest' = Latest
      BY <1>12 DEF Latest
    <2> QED
      BY <1>3, <2>1
  <1> HIDE DEF rows, out
  <1>13. CASE Watcher \/ Faults
    <2>1. CASE CatchUpFails
      BY <1>7, <2>1 DEF CatchUpFails, NoTx
    <2>2. CASE TickFails \/ OnceFails
      BY <1>12, <2>2 DEF TickFails, OnceFails
    <2>3. CASE Dies
      BY <1>7, <2>3 DEF Dies, NoTx
    <2> QED
      BY <1>4, <1>5, <1>6, <1>13, <2>1, <2>2, <2>3 DEF Watcher, Faults
  <1>14. CASE Worker
    <2>1. CASE TickNotDue \/ ReadBatch \/ RowGoes \/ Skips \/ Arrives \/ Refused
      BY <1>12, <2>1 DEF TickNotDue, ReadBatch, RowGoes, Skips, Arrives, Refused
    <2> QED
      BY <1>8, <1>9, <1>14, <2>1 DEF Worker
  <1>15. CASE Owner \/ \E kind \in Kinds : Happens(kind)
    <2>1. CASE \/ \E c \in Channels : Tested(c) \/ EditsDestination(c)
               \/ CreatesChannel \/ SetsMail \/ \E kind \in Kinds : Happens(kind)
      BY <1>12, <2>1 DEF Tested, EditsDestination, CreatesChannel, SetsMail, Happens
    <2> QED
      BY <1>11, <1>15, <2>1 DEF Owner
  <1>16. CASE UNCHANGED notifyvars
    BY <1>12, <1>16 DEF notifyvars
  <1> QED
    BY <1>10, <1>13, <1>14, <1>15, <1>16 DEF NotifyNext

(* Only the row at hand is taken up, and only while it may be sent.        *)
LEMMA DeadIsNotTaken ==
  ASSUME NotifyInv, [NotifyNext]_notifyvars, NEW i, Dead(Latest, i), ~InHand(i)
  PROVE  ~InHand(i)'
  <1>1. worker = [pc |-> worker.pc, batch |-> worker.batch] /\ worker.batch \in Seq(Entry)
    BY DEF NotifyInv
  (* What is past its day for the writer is so in the table, if it is there. *)
  <1>2. i \in DOMAIN outbox => ~outbox[i].sent /\ ~Sendable(outbox[i])
    <2>1. CASE tx.open
      <3>1. Dead(tx.rows, i) /\ Ahead(outbox, tx.rows, tx.fell)
        BY <2>1, LatestIs
      <3>2. Rests(tx.rows, outbox, i)
        BY <3>1, BehindRests
      <3> QED
        BY <3>2 DEF Rests, Dead
    <2>2. CASE ~tx.open
      BY <2>2, LatestIs DEF Dead
    <2> QED
      BY <2>1, <2>2
  <1>3. ASSUME UNCHANGED worker PROVE ~InHand(i)'
    BY <1>3 DEF InHand, Id
  <1>4. ASSUME NEW pc, At(pc), pc = "once" \/ worker.pc = "send" \/ StillSendable
        PROVE ~InHand(i)'
    <2>1. worker' = [pc |-> pc, batch |-> worker.batch]
      BY <1>1, <1>4 DEF At
    <2>2. worker'.pc = pc /\ worker'.batch = worker.batch
      BY <2>1
    <2> QED
      BY <1>2, <1>4, <2>2 DEF InHand, Id, StillSendable, Here, Row
  <1>5. ASSUME worker'.pc \notin {"send", "mark", "failed", "unset"} PROVE ~InHand(i)'
    BY <1>5 DEF InHand
  <1>6. ASSUME worker' = AtRest \/ Onward \/ ReadBatch PROVE ~InHand(i)'
    <2>1. worker' = AtRest \/ \E batch : worker' = [pc |-> "row", batch |-> batch]
      BY <1>6 DEF Onward, AfterRow, ReadBatch
    <2>2. AtRest.pc = "tick"
      BY DEF AtRest
    <2>3. worker'.pc \in {"tick", "row"}
      BY <2>1, <2>2
    <2> QED
      BY <1>5, <2>3
  <1>7. ASSUME NEW c \in Channels, DeletesChannel(c) PROVE ~InHand(i)'
    <2>1. worker' = [worker EXCEPT !.batch = Cut(worker.batch, c)]
      BY <1>7, Zenon DEF DeletesChannel
    <2> DEFINE batch == Cut(worker.batch, c)
    <2>2. /\ (batch = <<>> <=> worker.batch = <<>>) /\ DOMAIN batch = DOMAIN worker.batch
          /\ \A k \in DOMAIN batch : batch[k].id = worker.batch[k].id
      BY <1>1, CutIs
    <2>3. worker' = [pc |-> worker.pc, batch |-> batch]
      BY <1>1, <2>1
    <2> HIDE DEF batch
    <2>4. worker'.pc = worker.pc /\ worker'.batch = batch
      BY <2>3
    <2>5. worker.pc \in {"send", "mark", "failed", "unset"} => 1 \in DOMAIN worker.batch
      <3>1. worker.pc \in {"tick", "once"} <=> worker.batch = <<>>
        BY DEF NotifyInv
      <3> QED
        BY <1>1, <3>1
    <2> QED
      BY <2>2, <2>4, <2>5 DEF InHand, Id
  <1>8. CASE Watcher \/ Faults
    BY <1>3, <1>4, <1>6, <1>8
    DEF Watcher, CatchUpBegins, CatchUpQueues, CatchUpCommits, Faults, CatchUpFails, TickFails, OnceFails, Dies
  <1>9. CASE Worker
    BY <1>4, <1>6, <1>9
    DEF Worker, DailyTick, TickNotDue, RowGoes, Skips, Stops, Arrives, Refused, MarkSent, Retries, Waits
  <1>10. CASE Owner \/ TimePasses \/ \E kind \in Kinds : Happens(kind)
    <2>1. CASE \/ \E c \in Channels : Tested(c) \/ EditsDestination(c)
               \/ CreatesChannel \/ SetsMail \/ TimePasses \/ \E kind \in Kinds : Happens(kind)
      BY <1>3, <2>1 DEF Tested, EditsDestination, CreatesChannel, SetsMail, TimePasses, Happens
    <2> QED
      BY <1>7, <1>10, <2>1 DEF Owner
  <1>11. CASE UNCHANGED notifyvars
    BY <1>3, <1>11 DEF notifyvars
  <1> QED
    BY <1>8, <1>9, <1>10, <1>11 DEF NotifyNext

(* The account is told a line twice only for each crash or failed write    *)
(* between its going out and its mark, of a mention at once while any      *)
(* channel can take it, and nothing of a row that is given up, whatever    *)
(* the clock and the owner do while the watcher writes and the worker      *)
(* sends (enqueue.go queueUser and write, outbox.go once, stillSendable    *)
(* and markSent).                                                          *)
THEOREM ToldOnceAtOnce == NotifySpec => ToldAsAsked
  <1>1. NotifyInit => NotifyInv /\ ToldInv
    BY Starts, ToldStarts
  <1>2. NotifyInv /\ ToldInv /\ [NotifyNext]_notifyvars => NotifyInv' /\ ToldInv'
    BY InvKept, ToldKept
  <1>3. ToldInv => ToldTwiceOnlyByFault
    BY FewTwice
  <1>4. NotifyInv /\ ToldInv /\ [NotifyNext]_notifyvars =>
          [\A n \in cursor + 1..cursor' :
             log[n] = "mentioned" /\ (\E c \in DOMAIN verified : verified[c]) =>
               \E i \in DOMAIN outbox' : <<"log", n>> \in Range(outbox'[i].items) /\ outbox'[i].wait = 0]_notifyvars
    BY MentionGoes
  <1>5. NotifyInv /\ [NotifyNext]_notifyvars =>
          [\A i \in DOMAIN Latest : Dead(Latest, i) /\ ~InHand(i) =>
             /\ ~InHand(i)'
             /\ i \in DOMAIN Latest' => /\ Dead(Latest, i)'
                                         /\ Range(Latest'[i].items) \subseteq Range(Latest[i].items)]_notifyvars
    <2> SUFFICES ASSUME NotifyInv, [NotifyNext]_notifyvars, NEW i \in DOMAIN Latest, Dead(Latest, i), ~InHand(i)
                 PROVE  /\ ~InHand(i)'
                        /\ i \in DOMAIN Latest' =>
                             Dead(Latest, i)' /\ Range(Latest'[i].items) \subseteq Range(Latest[i].items)
      OBVIOUS
    <2>1. ~InHand(i)'
      BY DeadIsNotTaken
    <2>2. Rests(Latest, Latest', i)
      BY DeadRests
    <2> QED
      BY <2>1, <2>2 DEF Rests
  <1> QED
    BY <1>1, <1>2, <1>3, <1>4, <1>5, PTL DEF NotifySpec, ToldAsAsked, MentionGoesNow, GivenUpStays
=============================================================================
