---------------------------- MODULE Integrations ----------------------------
(***************************************************************************)
(* The settings table and its copy in memory, and the two integrations     *)
(* that read it: Google Drive, whose token a request may renew while the   *)
(* owner disconnects it, and Transistor, to which a proposition is         *)
(* published as one episode (internal/settings, internal/integrations,     *)
(* internal/server/{settings_page,integrations_page,publish}.go).          *)
(*                                                                         *)
(* A request is a process that runs one handler; its steps are the         *)
(* statements others can come between.  A restore may put the first day's  *)
(* database back, and the process may die, between any two of them.        *)
(***************************************************************************)
EXTENDS Naturals, Sequences, FiniteSets, Functions

CONSTANTS
  Requests,          \* requests at a time
  None,              \* no value, no token, no episode, nobody
  MaxAsked, MaxHour, MaxEpisodes, MaxCrash   \* bounds

ASSUME IntegrationsAssumption ==
  /\ {MaxAsked, MaxHour, MaxEpisodes, MaxCrash} \subseteq Nat
  /\ None \notin Requests \union {"reload", "failed"} \union Nat

VARIABLES
  table,      \* the settings table: [key -> value], None where there is no row
  memory,     \* settings.values and settings.present
  writing,    \* who holds settings.writeMu
  drive,      \* the token in the one Drive instance
  driving,    \* who holds Drive.mu
  keyed,      \* the one Transistor instance has an API key
  choice,     \* the proposition's publish choice: [file, share]
  episode,    \* propositions.transistor_episode_id
  publishing, \* server.publishing
  cookie,     \* the browser holds a state to come back with
  restoring,  \* none, or what of a restore is left: "reload", "failed"
  req,        \* what each request does and how far it is
  episodes,   \* at Transistor: the episodes there are
  hour, asked, crashes,
  connections, closed, missed     \* ghosts: see Ghosts

store == <<table, memory, writing, restoring>>
driven == <<drive, driving, cookie, connections, closed>>
published == <<keyed, choice, episode, publishing, episodes, missed>>
vars == <<store, driven, published, req, hour, asked, crashes>>

(* Ghosts.  connections: the consents Google has given, which number the   *)
(* tokens.  closed: the connections the owner has ended, as of the last    *)
(* request to Drive that began with none stored and none under way.        *)
(* missed: the episodes whose number was lost on the way to the database.  *)

Plain == {"show_id", "publish_status"}
Secret == {"api_key", "token"}

(* A Token and the hour its access part is good for.                       *)
NewToken(n) == [n |-> n, hour |-> hour, renews |-> TRUE]

NoChoice == [file |-> None, share |-> None]
NoRequest == [do |-> "none", at |-> "idle", want |-> <<>>, tok |-> None,
              chosen |-> NoChoice, was |-> None, id |-> None, sent |-> FALSE]

FirstTable == [k \in Plain \union Secret |->
  IF k \in Plain THEN 0 ELSE IF k = "token" THEN [n |-> 1, hour |-> 0, renews |-> TRUE] ELSE 0]

(* What reload makes of the rows: a secret is only known to be there.      *)
Shown(rows) == [k \in DOMAIN rows |-> IF k \in Secret THEN rows[k] # None ELSE rows[k]]

Init ==
  /\ table = FirstTable /\ memory = Shown(FirstTable) /\ writing = None /\ restoring = None
  /\ drive = None /\ driving = None /\ cookie = FALSE
  /\ keyed = FALSE /\ choice = NoChoice /\ episode = None /\ publishing = FALSE
  /\ req = [r \in Requests |-> NoRequest]
  /\ episodes = <<>> /\ hour = 0 /\ asked = 0 /\ crashes = 0
  /\ connections = 1 /\ closed = 0 /\ missed = 0

-----------------------------------------------------------------------------
(* A request that passes the write gate begins a handler.                  *)
Begins(r, q) ==
  /\ asked < MaxAsked /\ restoring # "reload" /\ req[r] = NoRequest
  /\ asked' = asked + 1
  /\ req' = [req EXCEPT ![r] = q]

Goes(r, to) == req' = [req EXCEPT ![r].at = to]
Ends(r) == req' = [req EXCEPT ![r] = NoRequest]

(* The request ends and lets go of what its handler deferred.              *)
Answers(r) ==
  /\ Ends(r)
  /\ driving' = IF driving = r THEN None ELSE driving

Holds(k, v) == [NoRequest EXCEPT !.at = "want", !.want = [key \in {k} |-> v]]

(* A saved form carries both plain keys, and the API key unless its field  *)
(* was left empty, which keeps what is stored.                             *)
PostSettings(r) ==
  /\ \E v \in 0..1, keys \in {Plain, Plain \union {"api_key"}} :
       Begins(r, [NoRequest EXCEPT !.do = "form", !.at = "want", !.want = [k \in keys |-> v]])
  /\ UNCHANGED <<store, driven, published, hour, crashes>>

Disconnect(r) ==
  /\ \E k \in Secret : Begins(r, [Holds(k, None) EXCEPT !.do = "disconnect"])
  /\ UNCHANGED <<store, driven, published, hour, crashes>>

(* The rows a save changes: a plain value that is there already is left.   *)
Applied(want) == {k \in DOMAIN want : k \in Secret \/ table[k] # want[k]}

(* The writers' lock keeps the order of the rows and of the memory.        *)
Takes(r) == req[r].at = "want" /\ writing = None

Saves(r) == Takes(r) /\ req[r].do # "disconnect"

\* Slip: each key of a form is stored in a transaction of its own.
CommitEach(r) ==
  /\ Saves(r)
  /\ \E keys \in SUBSET Applied(req[r].want) :
       /\ keys # {}
       /\ table' = [k \in DOMAIN table |-> IF k \in keys THEN req[r].want[k] ELSE table[k]]
       /\ writing' = r
       /\ req' = [req EXCEPT ![r].at = "cache", ![r].want = Restrict(@, keys)]
  /\ UNCHANGED <<memory, restoring, driven, published, hour, asked, crashes>>

(* SetManyAs: the rows of a save in one transaction.                       *)
Commit(r) ==
  LET keys == Applied(req[r].want)
  IN /\ Saves(r) /\ keys # {}
     /\ table' = [k \in DOMAIN table |-> IF k \in keys THEN req[r].want[k] ELSE table[k]]
     /\ writing' = r
     /\ req' = [req EXCEPT ![r].at = "cache", ![r].want = Restrict(@, keys)]
     /\ UNCHANGED <<memory, restoring, driven, published, hour, asked, crashes>>

(* Delete: a row that is there, which is what disconnecting means.         *)
Delete(r) ==
  /\ Takes(r) /\ req[r].do = "disconnect"
  /\ \E k \in DOMAIN req[r].want :
       table[k] # None /\ table' = [table EXCEPT ![k] = None]
  /\ writing' = r
  /\ Goes(r, "cache")
  /\ UNCHANGED <<memory, restoring, driven, published, hour, asked, crashes>>

(* A value is refused, there is nothing to write, or the transaction       *)
(* failed and rolled back.                                                 *)
NoCommit(r) ==
  /\ Takes(r)
  /\ Answers(r)
  /\ UNCHANGED <<store, drive, cookie, connections, closed, published, hour, asked, crashes>>

(* The memory with the rows that were written.                             *)
Over(old, rows) ==
  [k \in DOMAIN old |-> IF k \in DOMAIN rows THEN Shown(rows)[k] ELSE old[k]]

(* The memory follows the commit before the lock is let go.                *)
Cache(r) ==
  /\ req[r].at = "cache"
  /\ memory' = Over(memory, req[r].want)
  /\ writing' = IF writing = r THEN None ELSE writing
  /\ Answers(r)
  /\ UNCHANGED <<table, restoring, drive, cookie, connections, closed, published,
                 hour, asked, crashes>>

-----------------------------------------------------------------------------
ToDrive == {"use", "connect", "callback"}

(* The press of Connect gives the browser a state to come back with.       *)
GivesState(r) == cookie' = (cookie \/ req[r].do = "connect")

(* The return from Google is let in with that state, which it spends.      *)
SpendsState(what) ==
  /\ what = "callback" => cookie
  /\ cookie' = (cookie /\ what # "callback")

(* loadDrive reads the settings; what it hands the instance comes after.   *)
BeginDrive(r) ==
  /\ \E what \in ToDrive :
       /\ SpendsState(what)
       /\ Begins(r, [NoRequest EXCEPT !.do = what, !.at = "configure", !.tok = table["token"]])
  /\ closed' = IF table["token"] = None /\ \A q \in Requests : req[q].do \notin ToDrive
               THEN connections ELSE closed
  /\ UNCHANGED <<store, drive, driving, connections, published, hour, crashes>>

\* Slip: settings without a token leave the instance the one it had.
ConfigureOver(r) ==
  /\ req[r].at = "configure" /\ driving = None
  /\ drive' = IF req[r].tok = None THEN drive ELSE req[r].tok
  /\ GivesState(r)
  /\ CASE req[r].do = "connect" -> Ends(r)
       [] req[r].do = "callback" -> Goes(r, "exchange")
       [] OTHER -> Goes(r, "access")
  /\ UNCHANGED <<store, driving, connections, closed, published, hour, asked, crashes>>

Configure(r) ==
  /\ req[r].at = "configure" /\ driving = None
  /\ drive' = req[r].tok
  /\ GivesState(r)
  /\ CASE req[r].do = "connect" -> Ends(r)
       [] req[r].do = "callback" -> Goes(r, "exchange")
       [] OTHER -> Goes(r, "access")
  /\ UNCHANGED <<store, driving, connections, closed, published, hour, asked, crashes>>

(* access: the token in hand if it is good, else a renewal under the lock. *)
Access(r) ==
  /\ req[r].at = "access" /\ driving = None
  /\ IF drive = None \/ drive.hour = hour \/ ~drive.renews
     THEN Ends(r) /\ UNCHANGED driving
     ELSE Goes(r, "renew") /\ driving' = r
  /\ UNCHANGED <<store, drive, cookie, connections, closed, published, hour, asked, crashes>>

(* What Google answers leaves the refresh token out; the one in hand stays. *)
Renew(r) ==
  LET t == [NewToken(drive.n) EXCEPT !.renews = drive.renews]
  IN /\ req[r].at = "renew"
     /\ \/ Answers(r) /\ UNCHANGED drive
        \/ /\ drive' = t
           /\ req' = [req EXCEPT ![r] = [Holds("token", t) EXCEPT !.do = "use"]]
           /\ UNCHANGED driving
     /\ UNCHANGED <<store, cookie, connections, closed, published, hour, asked, crashes>>

(* Exchange, without the lock until its answer is in.                      *)
Exchange(r) ==
  LET t == NewToken(connections + 1)
  IN /\ req[r].at = "exchange"
     /\ \/ Ends(r) /\ UNCHANGED <<drive, connections>>
        \/ /\ driving = None
           /\ drive' = t /\ connections' = connections + 1
           /\ req' = [req EXCEPT ![r] = [Holds("token", t) EXCEPT !.do = "callback"]]
     /\ UNCHANGED <<store, driving, cookie, closed, published, hour, asked, crashes>>

-----------------------------------------------------------------------------
(* postPublish: the section has to be on; then the choice of the form over *)
(* the one that is stored, whose share link it keeps.                      *)
PostPublish(r) ==
  /\ memory["api_key"]
  /\ \E file \in 1..2, what \in {"save", "publish"} :
       Begins(r, [NoRequest EXCEPT !.do = what, !.at = "choose",
                                   !.chosen = [choice EXCEPT !.file = file]])
  /\ UNCHANGED <<store, driven, published, hour, crashes>>

Publishes == <<keyed, episode, publishing, episodes, missed>>
Rest == <<store, driven, hour, asked, crashes>>

SaveChoice(r) ==
  /\ req[r].at = "choose"
  /\ \/ /\ choice' = req[r].chosen
        /\ IF req[r].do = "publish" THEN Goes(r, "begin") ELSE Ends(r)
     \/ Ends(r) /\ UNCHANGED choice
  /\ UNCHANGED <<Publishes, Rest>>

(* The status is not the one to publish at, the notes are empty, or the    *)
(* recording is not there or not whole.                                    *)
Unready(r) == Ends(r)

(* One publication at a time.  The key is loaded, and the status, the      *)
(* notes, the recording and the episode's number are read, behind it.      *)
BeginPublish(r) ==
  /\ req[r].at = "begin"
  /\ IF publishing THEN Ends(r) /\ UNCHANGED <<publishing, keyed>>
     ELSE /\ keyed' = (table["api_key"] # None)
          /\ \/ Unready(r) /\ UNCHANGED publishing
             \/ /\ table["api_key"] # None
                /\ publishing' = TRUE
                /\ req' = [req EXCEPT ![r].at = "send", ![r].was = episode]
  /\ UNCHANGED <<choice, episode, episodes, missed, Rest>>

\* Slip: a publication that fails forgets the flag.
GivesUpHolding(r) == Ends(r) /\ UNCHANGED publishing

GivesUp(r) == Ends(r) /\ publishing' = FALSE

\* Slip: an episode that is out is released once more.
SendAgain(r) ==
  LET was == req[r].was
      e == IF was = None THEN Len(episodes) + 1 ELSE was
  IN /\ req[r].at = "send" /\ keyed /\ e <= MaxEpisodes
     /\ episodes' = IF was = None
                    THEN Append(episodes, [file |-> req[r].chosen.file, live |-> FALSE, released |-> 0])
                    ELSE [episodes EXCEPT ![e].file = req[r].chosen.file]
     /\ req' = [req EXCEPT ![r].id = e, ![r].at = "release"]
     /\ UNCHANGED <<publishing, missed, keyed, choice, episode, Rest>>

(* A call goes with the key the instance has when it is made.              *)
Reaches == keyed

(* The draft: made, or brought up to date in place.  The call may be       *)
(* refused, and an answer may be lost on its way back.                     *)
Send(r) ==
  LET was == req[r].was
      e == IF was = None THEN Len(episodes) + 1 ELSE was
  IN /\ req[r].at = "send"
     /\ \/ GivesUp(r) /\ UNCHANGED <<episodes, missed>>
        \/ /\ Reaches /\ e <= MaxEpisodes
           /\ episodes' = IF was = None
                          THEN Append(episodes, [file |-> req[r].chosen.file, live |-> FALSE, released |-> 0])
                          ELSE [episodes EXCEPT ![e].file = req[r].chosen.file]
           /\ \/ /\ GivesUp(r)
                 /\ missed' = missed + (IF was = None THEN 1 ELSE 0)
              \/ /\ req' = [req EXCEPT ![r].id = e, ![r].sent = episodes'[e].live,
                                       ![r].at = IF episodes'[e].live THEN "record" ELSE "release"]
                 /\ UNCHANGED <<publishing, missed>>
     /\ UNCHANGED <<keyed, choice, episode, Rest>>

(* Publishing is a call of its own, and may fail with the draft in place.  *)
Release(r) ==
  LET e == req[r].id
  IN /\ req[r].at = "release"
     /\ \/ Goes(r, "record") /\ UNCHANGED episodes
        \/ /\ Reaches
           /\ episodes' = [episodes EXCEPT ![e].live = TRUE, ![e].released = @ + 1]
           /\ \E heard \in BOOLEAN : req' = [req EXCEPT ![r].at = "record", ![r].sent = heard]
     /\ UNCHANGED <<keyed, choice, episode, publishing, missed, Rest>>

\* Slip: the number is recorded only when the whole publication went well.
RecordEpisodeSent(r) ==
  /\ req[r].at = "record"
  /\ episode' = IF req[r].sent THEN req[r].id ELSE episode
  /\ IF req[r].sent THEN Goes(r, "share") /\ UNCHANGED publishing ELSE GivesUp(r)
  /\ UNCHANGED <<keyed, choice, episodes, missed, Rest>>

(* The number goes into the row before the error of the call is looked at. *)
RecordEpisode(r) ==
  /\ req[r].at = "record"
  /\ \/ /\ episode' = IF req[r].id # req[r].was THEN req[r].id ELSE episode
        /\ IF req[r].sent THEN Goes(r, "share") /\ UNCHANGED publishing ELSE GivesUp(r)
        /\ UNCHANGED missed
     \/ /\ req[r].id # req[r].was
        /\ missed' = missed + 1
        /\ GivesUp(r) /\ UNCHANGED episode
  /\ UNCHANGED <<keyed, choice, episodes, Rest>>

(* The share link is saved with the choice the publication began with.     *)
SaveShare(r) ==
  /\ req[r].at = "share"
  /\ choice' \in {[req[r].chosen EXCEPT !.share = req[r].id], choice}
  /\ GivesUp(r)
  /\ UNCHANGED <<keyed, episode, episodes, missed, Rest>>

(* The test button hands the instance the key the settings hold.           *)
TestTransistor(r) ==
  /\ Begins(r, NoRequest)
  /\ keyed' = (table["api_key"] # None)
  /\ UNCHANGED <<store, driven, choice, episode, publishing, episodes, missed, hour, crashes>>

-----------------------------------------------------------------------------
(* A restore puts the first day's rows back under the requests that are on *)
(* their way, and has the settings read again.                             *)
Swap ==
  /\ asked < MaxAsked /\ restoring # "reload"
  /\ asked' = asked + 1
  /\ table' = FirstTable /\ choice' = NoChoice /\ episode' = None
  /\ missed' = missed + (IF episode # None THEN 1 ELSE 0)
  /\ restoring' = "reload" /\ closed' = 0
  /\ UNCHANGED <<memory, writing, drive, driving, cookie, connections, keyed, publishing,
                 req, episodes, hour, crashes>>

\* Slip: the table is read again without waiting for a writer.
ReloadUnlocked ==
  /\ restoring = "reload"
  /\ memory' = Shown(table) /\ restoring' = None
  /\ UNCHANGED <<table, writing, driven, published, req, hour, asked, crashes>>

Reload ==
  /\ restoring = "reload"
  /\ \/ writing = None /\ memory' = Shown(table) /\ restoring' = None
     \/ restoring' = "failed" /\ UNCHANGED memory
  /\ UNCHANGED <<table, writing, driven, published, req, hour, asked, crashes>>

(* The process dies and comes back: settings.Open reads the table.         *)
Crash ==
  /\ crashes < MaxCrash
  /\ crashes' = crashes + 1
  /\ missed' = missed + Cardinality({r \in Requests :
                  req[r].at \in {"release", "record"} /\ req[r].id # req[r].was})
  /\ memory' = Shown(table) /\ writing' = None /\ restoring' = None
  /\ drive' = None /\ driving' = None /\ keyed' = FALSE /\ publishing' = FALSE
  /\ req' = [r \in Requests |-> NoRequest]
  /\ UNCHANGED <<table, cookie, connections, closed, choice, episode, episodes, hour, asked>>

(* The access part of every token runs out.                                *)
Hour ==
  /\ hour < MaxHour
  /\ hour' = hour + 1
  /\ UNCHANGED <<store, driven, published, req, asked, crashes>>

Serve(r) ==
  \/ Commit(r) \/ Delete(r) \/ NoCommit(r) \/ Cache(r)
  \/ Configure(r) \/ Access(r) \/ Renew(r) \/ Exchange(r)
  \/ SaveChoice(r) \/ BeginPublish(r) \/ Send(r) \/ Release(r)
  \/ RecordEpisode(r) \/ SaveShare(r)

Ask(r) ==
  \/ PostSettings(r) \/ Disconnect(r) \/ BeginDrive(r) \/ PostPublish(r) \/ TestTransistor(r)

Next ==
  \/ \E r \in Requests : Serve(r) \/ Ask(r)
  \/ Swap \/ Reload \/ Crash \/ Hour

Spec == Init /\ [][Next]_vars
-----------------------------------------------------------------------------
TypeOK ==
  /\ DOMAIN table = Plain \union Secret /\ DOMAIN memory = DOMAIN table
  /\ writing \in Requests \union {None} /\ driving \in Requests \union {None}
  /\ {publishing, keyed, cookie} \subseteq BOOLEAN

(* When no writer is between its commit and its memory, and no restore is  *)
(* unfinished, what Get and IsSet answer is what the rows say.             *)
MemoryAgrees == writing = None /\ restoring = None => memory = Shown(table)

(* The two fields of a form are stored together or not at all.             *)
FormsWhole == table["show_id"] = table["publish_status"]

(* A Drive the owner disconnected stays so until somebody connects it or a *)
(* restore brings it back: only a request that was already under way may   *)
(* store its renewed token over the empty place.                           *)
StaysGone == table["token"] # None => table["token"].n > closed

(* A proposition is one episode at Transistor, but for the episodes whose  *)
(* number was lost with an answer, a write, a process or a database.       *)
OneEpisode == Len(episodes) <= 1 + missed

(* An episode is released once, so that its date does not move.            *)
ReleasedOnce == \A e \in DOMAIN episodes : episodes[e].released <= 1

(* The flag is up while one publication is under way and down when none   *)
(* is, so that every one that ends lets the next one in.                   *)
OnePublisher ==
  Cardinality({r \in Requests : req[r].at \in {"send", "release", "record", "share"}})
    = IF publishing THEN 1 ELSE 0

(* What the settings say in memory is what was stored, and a form was      *)
(* stored whole.                                                           *)
SettingsAgree == MemoryAgrees /\ FormsWhole

(* A proposition is published once: one episode, released once, by one     *)
(* request at a time.                                                      *)
PublishedOnce == OneEpisode /\ ReleasedOnce /\ OnePublisher
=============================================================================
