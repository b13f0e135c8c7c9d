------------------------------ MODULE Accounts ------------------------------
(***************************************************************************)
(* Accounts, sessions, authenticators, invitations and password resets     *)
(* (internal/auth, the account pages of internal/server, internal/store).  *)
(* Numbers of accounts and of invitations are given again once the highest *)
(* is free, whatever still names them.                                     *)
(*                                                                         *)
(* A request reads its account when it arrives and commits later, and what *)
(* it read is what it goes on with: a sign-in checks a password, claims a  *)
(* code and starts a session in three steps, with other requests between   *)
(* them.  An enrollment in progress is nowhere but in a cookie, which may  *)
(* come back late, or twice.                                               *)
(* Time is counted in the authenticator's steps of half a minute.          *)
(***************************************************************************)
EXTENDS Naturals, FiniteSets, FiniteSetsExt, Functions

CONSTANTS
  MaxId, MaxInvite,     \* bounds of account and invitation numbers
  Emails,
  Workers,              \* requests being served
  Skew,                 \* how many steps a code may be early or late
  InviteLife, ResetLife, PendingLife,
  MaxNow, MaxOps    \* bounds

ASSUME AccountsAssumption ==
  {MaxId, MaxInvite, Skew, InviteLife, ResetLife, PendingLife, MaxNow, MaxOps} \subseteq Nat

Ids     == 1..MaxId
Invites == 1..MaxInvite
Roles   == {"owner", "editor"}

VARIABLES
  now,
  users,        \* the users table
  sessions,     \* the sessions table: of whom, at which epoch, and what proved it
  invitations,  \* the invitations table
  resets,       \* the password_resets table: [user, expires, used]
  cookies,      \* enrollments in progress
  work,         \* what each request is doing
  required,     \* signin.require_totp is "all"
  codes,        \* every code accepted: [user, secret, since, step, enrolls, n]
  made,         \* every account made: [by, of, asked, n]
  gone,         \* every account deleted, by its row
  revoked,      \* every invitation revoked, by its row
  fresh,        \* passwords, secrets, tokens and rows drawn so far
  ops

vars == <<now, users, sessions, invitations, resets, cookies, work, required, codes, made,
          gone, revoked, fresh, ops>>

ghosts == <<codes, made, gone, revoked>>
tables == <<users, sessions, invitations, resets>>

(* An account.  row tells one use of its number from another, since when   *)
(* its secret was last recorded; neither is in the table.                  *)
NoUser == [role |-> "none", email |-> 0, pw |-> 0, secret |-> 0, last |-> 0, epoch |-> 0,
           row |-> 0, since |-> 0]

NoInvite == [state |-> "none", email |-> 0, role |-> "none", expires |-> 0, row |-> 0]

(* What a request goes on with of the account it read.                     *)
Read(u) == [role |-> u.role, pw |-> u.pw, secret |-> u.secret, epoch |-> u.epoch, row |-> u.row]

\* proof is the password that was proved, which the code need not keep.
Free == [pc |-> "idle", user |-> 0, read |-> Read(NoUser), to |-> "none", proof |-> 0]

Live(i) == users[i].role # "none"
People == {i \in Ids : Live(i)}
Owners == {i \in Ids : users[i].role = "owner"}

(* A workspace with nobody in it, or with owners signed in: the first lost *)
(* their authenticator (the program makes no account without one, but      *)
(* signin.go expects them), or somebody is asked to join, perhaps with an  *)
(* address that is in use.                                                 *)
Init ==
  /\ now = 1
  /\ \E k \in {0} \cup Ids : \E e \in [Ids -> Emails], lost \in BOOLEAN :
       /\ k = 0 \/ IsInjective(e)
       /\ users = [i \in Ids |->
            IF i <= k
            THEN [NoUser EXCEPT !.role = "owner", !.email = e[i], !.pw = 1, !.epoch = 1,
                                !.secret = IF lost /\ i = 1 THEN 0 ELSE i, !.row = i, !.since = i]
            ELSE NoUser]
       /\ sessions = {[user |-> i, row |-> i, epoch |-> 1, pw |-> 1, proof |-> 1, enrolled |-> FALSE] :
                        i \in 1..k}
       /\ \E asked \in IF k = 0 \/ lost THEN {NoInvite}
                       ELSE [state : {"pending"}, email : Emails \ {e[1]}, role : {"editor"},
                             expires : 2..(1 + InviteLife), row : {1}] :
            invitations = [i \in Invites |-> IF i = 1 THEN asked ELSE NoInvite]
  /\ resets = {} /\ cookies = {} /\ codes = {} /\ made = {} /\ gone = {} /\ revoked = {}
  /\ work = [w \in Workers |-> Free]
  /\ required = TRUE        \* the registry's default
  /\ fresh = Cardinality(Ids)
  /\ ops = 0

-----------------------------------------------------------------------------
(* INTEGER PRIMARY KEY: one more than the largest number in the table.     *)
NextId == Max({0} \cup People) + 1
NextInvite == Max({0} \cup {i \in Invites : invitations[i].state # "none"}) + 1

Usable(s) == Live(s.user) /\ s.epoch = users[s.user].epoch

(* CheckCode: the steps whose codes are good now.                          *)
Good == {s \in 0..(MaxNow + Skew) : s + Skew >= now /\ s <= now + Skew}

\* Slip: a code is good as long as its time runs.
CodesAgain(i) == Good

(* ClaimTOTPStep: those later than the last one used.                      *)
Codes(i) == {s \in Good : users[i].last < s}

Accept(i, secret, since, s, enrolls) ==
  codes \cup {[user |-> i, secret |-> secret, since |-> since, step |-> s, enrolls |-> enrolls,
               n |-> Cardinality({c \in codes : /\ c.user = i /\ c.secret = secret
                                                /\ c.since = since /\ c.step = s})]}

NeedsAuthenticator(role) == role = "owner" \/ required

Goes(w, pc) == work' = [work EXCEPT ![w].pc = pc]
Ends(w) == work' = [work EXCEPT ![w] = Free]

(* MaxOps bounds the requests.                                             *)
Counted == ops < MaxOps /\ ops' = ops + 1

Arrives(w, pc, i, to) ==
  /\ work[w].pc = "idle"
  /\ Counted
  /\ work' = [work EXCEPT ![w] = [pc |-> pc, user |-> i, read |-> Read(users[i]), to |-> to,
                                proof |-> users[i].pw]]

Row(i, r) == users' = [users EXCEPT ![i] = r]
-----------------------------------------------------------------------------
(* postLogin, Authenticate: the account is read and its password checked.  *)
Login(w, i) ==
  /\ Live(i)
  /\ Arrives(w, IF users[i].secret # 0 THEN "code" ELSE "start", i, "login")
  /\ UNCHANGED <<now, tables, cookies, required, ghosts, fresh>>

(* requireUser: a request of a signed-in person.  Those that change what   *)
(* the account is recovered with ask for the password and a code again.    *)
Signed(w, i) ==
  /\ {s \in sessions : s.user = i /\ Usable(s)} # {}
  /\ \E what \in {"password", "reenrol", "signout", "delete", "role"} :
       /\ what = "role" => users[i].role = "owner"
       /\ Arrives(w, IF what \in {"password", "reenrol"} /\ users[i].secret # 0
                     THEN "code" ELSE "commit", i, what)
  /\ UNCHANGED <<now, tables, cookies, required, ghosts, fresh>>

Turned(to) == IF to = "login" THEN "start" ELSE "commit"

(* CheckTOTP: the code is checked against the secret the request read, the *)
(* step claimed in the table as it is.                                     *)
ClaimCode(w) ==
  LET i == work[w].user IN
  /\ work[w].pc = "code"
  /\ Live(i)
  /\ \E s \in Codes(i) :
       /\ Row(i, [users[i] EXCEPT !.last = s])
       /\ codes' = Accept(i, work[w].read.secret, users[i].since, s, FALSE)
  /\ Goes(w, Turned(work[w].to))
  /\ UNCHANGED <<now, sessions, invitations, resets, cookies, required, made, gone, revoked, fresh, ops>>

(* No code, a used one, or an account that is gone.                        *)
Refused(w) ==
  /\ work[w].pc = "code"
  /\ Ends(w)
  /\ UNCHANGED <<now, tables, cookies, required, ghosts, fresh, ops>>

(* A session names the number of its account and the epoch; what else is   *)
(* here is which account it was, its password then, and the one proved.    *)
Session(q, epoch) ==
  IF Live(q.user)
  THEN sessions \cup {[user |-> q.user, row |-> q.read.row, epoch |-> epoch, pw |-> q.read.pw,
                       proof |-> q.proof, enrolled |-> q.to = "enrolled"]}
  ELSE sessions

Cookie(kind, i, u) ==
  [kind |-> kind, user |-> i, row |-> u.row, invite |-> 0, email |-> 0, role |-> "none", pw |-> u.pw,
   secret |-> fresh', expires |-> now + PendingLife]

\* Slip: the session starts at the epoch of the moment.
StartNow(w) ==
  /\ work[w].pc = "start"
  /\ Ends(w)
  /\ sessions' = Session(work[w], users[work[w].user].epoch)
  /\ UNCHANGED <<now, users, invitations, resets, cookies, required, ghosts, fresh, ops>>

(* StartSession, or startEnrolment for an account that needs an            *)
(* authenticator and has none, on what was read of it at the start.        *)
Start(w) ==
  LET u == work[w].read IN
  /\ work[w].pc = "start"
  /\ Ends(w)
  /\ IF work[w].to = "login" /\ u.secret = 0 /\ NeedsAuthenticator(u.role)
     THEN /\ fresh' = fresh + 1
          /\ cookies' = cookies \cup {Cookie("signin", work[w].user, u)}
          /\ UNCHANGED sessions
     ELSE /\ sessions' = Session(work[w], u.epoch)
          /\ UNCHANGED <<cookies, fresh>>
  /\ UNCHANGED <<now, users, invitations, resets, required, ghosts, ops>>

-----------------------------------------------------------------------------
(* The session the browser starts afresh with is of the next epoch.        *)
Password(w) ==
  LET i == work[w].user
      u == [work[w].read EXCEPT !.epoch = @ + 1, !.pw = users[i].pw + 1]
  IN
  /\ work[w].pc = "commit" /\ work[w].to = "password"
  /\ IF Live(i)
     THEN /\ Row(i, [users[i] EXCEPT !.pw = @ + 1, !.epoch = @ + 1])
          /\ work' = [work EXCEPT ![w].pc = "start", ![w].read = u, ![w].proof = u.pw]
     ELSE Ends(w) /\ UNCHANGED users
  /\ UNCHANGED <<now, sessions, invitations, resets, cookies, required, ghosts, fresh, ops>>

Reenrol(w) ==
  /\ work[w].pc = "commit" /\ work[w].to = "reenrol"
  /\ fresh' = fresh + 1
  /\ cookies' = cookies \cup {Cookie("reenrol", work[w].user, work[w].read)}
  /\ Ends(w)
  /\ UNCHANGED <<now, tables, required, ghosts, ops>>

SignOutEverywhere(w) ==
  LET i == work[w].user IN
  /\ work[w].pc = "commit" /\ work[w].to = "signout"
  /\ Ends(w)
  /\ users' = IF Live(i) THEN [users EXCEPT ![i].epoch = @ + 1] ELSE users
  /\ UNCHANGED <<now, sessions, invitations, resets, cookies, required, ghosts, fresh, ops>>

\* Slip: whether another owner is left is what the request read.
DeleteCounted(w) ==
  LET i == work[w].user IN
  /\ work[w].pc = "commit" /\ work[w].to = "delete"
  /\ Ends(w)
  /\ Row(i, NoUser) /\ gone' = gone \cup {users[i].row}
  /\ sessions' = {s \in sessions : s.user # i}
  /\ resets' = {r \in resets : r.user # i}
  /\ UNCHANGED <<now, invitations, cookies, required, codes, made, revoked, fresh, ops>>

(* DeleteUserKeepingAnOwner: the count is part of the statement; what      *)
(* belongs to the account goes with it.                                    *)
DeleteAccount(w) ==
  LET i == work[w].user IN
  /\ work[w].pc = "commit" /\ work[w].to = "delete"
  /\ Ends(w)
  /\ IF Live(i) /\ Owners \ {i} # {}
     THEN /\ Row(i, NoUser) /\ gone' = gone \cup {users[i].row}
          /\ sessions' = {s \in sessions : s.user # i}
          /\ resets' = {r \in resets : r.user # i}
     ELSE UNCHANGED <<users, sessions, resets, gone>>
  /\ UNCHANGED <<now, invitations, cookies, required, codes, made, revoked, fresh, ops>>

(* SetUserRoleKeepingAnOwner: an owner changes somebody else's role; that  *)
(* they are an owner was checked when the request arrived.                 *)
SetRole(w) ==
  /\ work[w].pc = "commit" /\ work[w].to = "role"
  /\ Ends(w)
  /\ \E i \in People \ {work[w].user} : \E role \in Roles :
       users' = IF users[i].role # "owner" \/ Owners \ {i} # {}
                THEN [users EXCEPT ![i].role = role]
                ELSE users
  /\ UNCHANGED <<now, sessions, invitations, resets, cookies, required, ghosts, fresh, ops>>

Commit(w) == Password(w) \/ Reenrol(w) \/ SignOutEverywhere(w) \/ DeleteAccount(w) \/ SetRole(w)

-----------------------------------------------------------------------------
(* The details step of the first run and of an invitation: nothing is      *)
(* written, the account to be is in the cookie.                            *)
AccountCookie(kind, i, row, email, role) ==
  [kind |-> kind, user |-> 0, row |-> row, invite |-> i, email |-> email, role |-> role,
   pw |-> 1, secret |-> fresh', expires |-> now + PendingLife]

Asked == Counted /\ fresh' = fresh + 1

PostSetup(e) ==
  /\ People = {}
  /\ Asked
  /\ cookies' = cookies \cup {AccountCookie("setup", 0, 0, e, "owner")}
  /\ UNCHANGED <<now, tables, work, required, ghosts>>

PostInvite(i) ==
  LET inv == invitations[i] IN
  /\ inv.state = "pending" /\ inv.expires > now
  /\ inv.email \notin {users[j].email : j \in Ids}
  /\ Asked
  /\ cookies' = cookies \cup {AccountCookie("invite", i, inv.row, inv.email, inv.role)}
  /\ UNCHANGED <<now, tables, work, required, ghosts>>

(* postEnrol: a cookie comes back with the code of step s.  The answer     *)
(* clears it, unless the form was sent more than once.                     *)
Returns(w, c, s) ==
  /\ work[w].pc = "idle"
  /\ c.expires > now
  /\ s \in Good
  /\ \/ cookies' = cookies \ {c} /\ UNCHANGED ops
     \/ UNCHANGED cookies /\ Counted

(* What the enrolling code proves is recorded as used with the secret.     *)
WithSecret(u, c, s) == [u EXCEPT !.secret = c.secret, !.last = s, !.since = fresh']

Makes(w, c, s, i, of) ==
  LET u == WithSecret([NoUser EXCEPT !.role = c.role, !.email = c.email, !.pw = c.pw,
                                     !.epoch = 1, !.row = fresh'], c, s)
  IN
  /\ i \in Ids
  /\ Row(i, u)
  /\ codes' = Accept(i, u.secret, u.since, s, TRUE)
  /\ made' = made \cup {[by |-> c.kind, of |-> of, asked |-> c.row,
                         n |-> Cardinality({m \in made : m.by = c.kind /\ m.of = of})]}
  /\ work' = [work EXCEPT ![w] = [pc |-> "start", user |-> i, read |-> Read(u), to |-> "made",
                                  proof |-> u.pw]]
  /\ UNCHANGED <<gone, revoked>>

\* Slip: the enrollment of the first run does not count again.
SetupUncounted(w, c, s) ==
  /\ c.kind = "setup"
  /\ Returns(w, c, s)
  /\ c.email \notin {users[j].email : j \in Ids}
  /\ fresh' = fresh + 1
  /\ Makes(w, c, s, NextId, 0)
  /\ UNCHANGED <<now, sessions, invitations, resets, required>>

(* The first account is made only while there is none.                     *)
FinishSetup(w, c, s) ==
  /\ c.kind = "setup"
  /\ Returns(w, c, s)
  /\ People = {}
  /\ fresh' = fresh + 1
  /\ Makes(w, c, s, NextId, 0)
  /\ UNCHANGED <<now, sessions, invitations, resets, required>>

\* Slip: the invitation is not read again when the code comes back.
InviteUnread(w, c, s) ==
  /\ c.kind = "invite"
  /\ Returns(w, c, s)
  /\ c.email \notin {users[j].email : j \in Ids}
  /\ fresh' = fresh + 1
  /\ Makes(w, c, s, NextId, invitations[c.invite].row)
  /\ invitations' = [invitations EXCEPT ![c.invite].state = "accepted"]
  /\ UNCHANGED <<now, sessions, resets, required>>

(* The invitation is read again under the write lock and spent with the    *)
(* account it makes.                                                       *)
FinishInvite(w, c, s) ==
  LET inv == invitations[c.invite] IN
  /\ c.kind = "invite"
  /\ Returns(w, c, s)
  /\ inv.state = "pending" /\ inv.expires > now
  /\ c.email \notin {users[j].email : j \in Ids}
  /\ fresh' = fresh + 1
  /\ Makes(w, c, s, NextId, inv.row)
  /\ invitations' = [invitations EXCEPT ![c.invite].state = "accepted"]
  /\ UNCHANGED <<now, sessions, resets, required>>

\* Who enrolls while signing in goes on with the account as it is now, although
\* the password was proved before the cookie was handed out.
Enrols(w, c, s) ==
  LET u == WithSecret(users[c.user], c, s) IN
  /\ Returns(w, c, s)
  /\ Live(c.user)
  /\ fresh' = fresh + 1
  /\ Row(c.user, u)
  /\ codes' = Accept(c.user, u.secret, u.since, s, TRUE)
  /\ work' = IF c.kind = "signin"
             THEN [work EXCEPT ![w] = [pc |-> "start", user |-> c.user, to |-> "enrolled", proof |-> c.pw,
                                       read |-> [Read(u) EXCEPT !.row = c.row]]]
             ELSE work
  /\ UNCHANGED <<now, sessions, invitations, resets, required, made, gone, revoked>>

\* Slip: an authenticator enrolled in another tab is overwritten.
SignInOver(w, c, s) == c.kind = "signin" /\ Enrols(w, c, s)

(* finishEnrolment: unless an authenticator was enrolled in another tab.   *)
FinishSignIn(w, c, s) ==
  /\ c.kind = "signin"
  /\ users[c.user].secret = 0
  /\ Enrols(w, c, s)

(* The session has to be of the account the cookie is for.                 *)
FinishReenrol(w, c, s) ==
  /\ c.kind = "reenrol"
  /\ {x \in sessions : x.user = c.user /\ Usable(x)} # {}
  /\ Enrols(w, c, s)

Enrol(w, c, s) ==
  FinishSetup(w, c, s) \/ FinishInvite(w, c, s) \/ FinishSignIn(w, c, s) \/ FinishReenrol(w, c, s)
-----------------------------------------------------------------------------
(* The owner's part of an invitation; its letter is Mail's.                *)
CreateInvitation(i, e, role) ==
  /\ Counted
  /\ Owners # {}
  /\ i = NextInvite
  /\ fresh' = fresh + 1
  /\ invitations' = [invitations EXCEPT
       ![i] = [state |-> "pending", email |-> e, role |-> role, expires |-> now + InviteLife,
               row |-> fresh']]
  /\ UNCHANGED <<now, users, sessions, resets, cookies, work, required, ghosts>>

RevokeInvitation(i) ==
  /\ Counted
  /\ Owners # {}
  /\ invitations[i].state # "none"
  /\ invitations' = [invitations EXCEPT ![i] = NoInvite]
  /\ revoked' = revoked \cup {invitations[i].row}
  /\ UNCHANGED <<now, users, sessions, resets, cookies, work, required, codes, made, gone, fresh>>

(* The owner changes signin.require_totp.                                  *)
Require ==
  /\ Counted
  /\ required' = ~required
  /\ UNCHANGED <<now, tables, cookies, work, ghosts, fresh>>

AskReset(i) ==
  /\ Counted
  /\ Live(i)
  /\ resets' = resets \cup {[user |-> i, expires |-> now + ResetLife]}
  /\ UNCHANGED <<now, users, sessions, invitations, cookies, work, required, ghosts, fresh>>

\* Slip: a reset leaves the sessions as they are.
ResetQuietly(r) ==
  /\ r.expires > now
  /\ resets' = resets \ {r}
  /\ Row(r.user, [users[r.user] EXCEPT !.pw = @ + 1])
  /\ UNCHANGED <<now, sessions, invitations, cookies, work, required, ghosts, fresh, ops>>

(* ResetPassword: the token is spent, the password set and every session   *)
(* thrown off in one transaction.  A spent token is dropped.               *)
ResetPassword(r) ==
  /\ r.expires > now
  /\ resets' = resets \ {r}
  /\ Row(r.user, [users[r.user] EXCEPT !.pw = @ + 1, !.epoch = @ + 1])
  /\ UNCHANGED <<now, sessions, invitations, cookies, work, required, ghosts, fresh, ops>>

EndSession(s) ==
  /\ Counted
  /\ Usable(s)
  /\ sessions' = sessions \ {s}
  /\ UNCHANGED <<now, users, invitations, resets, cookies, work, required, ghosts, fresh>>

Tick ==
  /\ now < MaxNow
  /\ now' = now + 1
  /\ cookies' = {c \in cookies : c.expires > now'}
  /\ resets' = {r \in resets : r.expires > now'}
  /\ UNCHANGED <<users, sessions, invitations, work, required, ghosts, fresh, ops>>

Next ==
  \/ \E w \in Workers :
       \/ \E i \in Ids : Login(w, i) \/ Signed(w, i)
       \/ ClaimCode(w) \/ Refused(w) \/ Start(w) \/ Commit(w)
       \/ \E c \in cookies : \E s \in Good : Enrol(w, c, s)
  \/ \E e \in Emails : PostSetup(e)
  \/ \E i \in Invites : \/ PostInvite(i) \/ RevokeInvitation(i)
                       \/ \E e \in Emails, role \in Roles : CreateInvitation(i, e, role)
  \/ Require
  \/ \E i \in Ids : AskReset(i)
  \/ \E r \in resets : ResetPassword(r)
  \/ \E s \in sessions : EndSession(s)
  \/ Tick

Spec == Init /\ [][Next]_vars

-----------------------------------------------------------------------------
(* Once somebody has an account there is an owner, whoever deletes         *)
(* themselves or changes whose role at the same moment.                    *)
OwnerKept == People # {} => Owners # {}

(* The first run makes one account, and an invitation at most one, which   *)
(* was begun from that invitation: not from one that was spent by another  *)
(* submission of the same form, or from one that was revoked, unless its   *)
(* number is that of the invitation now.                                   *)
InvitedOnce ==
  /\ \A m \in made : m.by = "invite" => m.of = m.asked \/ m.asked \in revoked
  /\ \A m, k \in made : m.by = k.by /\ m.of = k.of => m = k

(* What the comment in postEnrol says of an invitation revoked during the  *)
(* enrollment: it is refused.  Refuted: numbers are given again.           *)
BegunFromIt == \A m \in made : m.by = "invite" => m.of = m.asked

(* A code is accepted once, whichever of signing in, enrolling and         *)
(* reauthenticating took it first, unless an authenticator was recorded    *)
(* between the two, with a code no later than it: a form sent again.       *)
SameCode(c, d) == c.user = d.user /\ c.secret = d.secret /\ c.step = d.step
CodesOnce ==
  \A c, d \in codes : SameCode(c, d) /\ c # d /\ c.since <= d.since =>
    \E e \in codes : /\ e.enrolls /\ e.user = d.user /\ e.step <= d.step
                     /\ c.since < e.since /\ e.since = d.since

(* What the comment at CheckTOTP says: the same code cannot be used twice. *)
(* Refuted: recording an authenticator may lower the last step.            *)
NeverAgain == \A c, d \in codes : SameCode(c, d) => c = d

(* A session that works is its account's, and was proved with the password *)
(* the account has now: changing or resetting it strands every other one,  *)
(* a sign-in already past its password check among them.  But for two: who *)
(* enrolled while signing in proved the password before that, and a number *)
(* may have gone to another account between a request's reading and its    *)
(* session.                                                                *)
SessionsProved ==
  \A s \in sessions : Usable(s) =>
    \/ s.row \in gone
    \/ /\ s.row = users[s.user].row /\ s.pw = users[s.user].pw
       /\ s.proof = s.pw \/ s.enrolled

(* Without the one and without the other.  Refuted, both.                  *)
SessionIsTheirs == \A s \in sessions : Usable(s) => s.row = users[s.user].row
ProvedOfNow == \A s \in sessions : Usable(s) /\ s.row \notin gone => s.proof = users[s.user].pw

(* An authenticator in place is replaced only by an enrollment begun when  *)
(* signed in to the account, or to one that had its number and is gone,    *)
(* never by one that stood in for an authenticator the account got         *)
(* meanwhile in another tab.                                               *)
EnrolledKept ==
  [][\A i \in Ids :
       users[i].secret # 0 /\ users'[i].row = users[i].row /\ users'[i].secret # users[i].secret
       => \A c \in cookies : c.secret = users'[i].secret
            => c.kind = "reenrol" /\ (c.row = users[i].row \/ c.row \in gone)]_vars

(* What the comment in postEnrol says of a stale cookie in a shared        *)
(* browser: it rewrites nobody else's.  Refuted: numbers are given again.  *)
RewritesNobodyElse ==
  [][\A i \in Ids :
       users[i].secret # 0 /\ users'[i].row = users[i].row /\ users'[i].secret # users[i].secret
       => \A c \in cookies : c.secret = users'[i].secret => c.row = users[i].row]_vars

(* An invitation enrolls one account, and an enrollment never replaces     *)
(* what another put in place.                                              *)
EnrolledOnce == []InvitedOnce /\ EnrolledKept

(* A session stands on the password of now and on a code of its own.       *)
ProvedFresh == SessionsProved /\ CodesOnce
=============================================================================
